---------------------------- MODULE RouterProofs -----------------------------
(***************************************************************************)
(* What the router decides, for every ruleset that can be admitted and     *)
(* every request.                                                          *)
(***************************************************************************)
EXTENDS Router, FiniteSetTheorems, WellFoundedInduction, TLAPS

-----------------------------------------------------------------------------
(* Finite sets                                                             *)

\* A finite set has at least two elements exactly when two of its elements differ.
LEMMA TwoElements ==
    ASSUME NEW S, IsFiniteSet(S)
    PROVE  /\ Cardinality(S) \in Nat
           /\ (Cardinality(S) >= 2) <=> \E x, y \in S : x # y
           /\ (Cardinality(S) = 1) <=> \E x \in S : S = {x}
           /\ (Cardinality(S) = 0) <=> S = {}
<1>1. Cardinality(S) \in Nat
    BY FS_CardinalityType
<1>2. (Cardinality(S) = 0) <=> S = {}
    BY FS_EmptySet
<1>3. (Cardinality(S) = 1) <=> \E x : S = {x}
    BY FS_Singleton
<1>4. ASSUME NEW x \in S, NEW y \in S, x # y PROVE Cardinality(S) # 1
    BY <1>3, <1>4
<1>5. ASSUME ~ \E x, y \in S : x # y, S # {} PROVE Cardinality(S) = 1
    <2>1. PICK x : x \in S
        BY <1>5
    <2>2. S = {x}
        BY <1>5, <2>1
    <2> QED BY <1>3, <2>2
<1> QED BY <1>1, <1>2, <1>3, <1>4, <1>5

LEMMA TwoOrMore ==
    ASSUME NEW S, IsFiniteSet(S), NEW x \in S, NEW y \in S, x # y
    PROVE  Cardinality(S) >= 2
BY TwoElements

\* A nonempty set of natural numbers has a least element.
LEMMA LeastNatural ==
    ASSUME NEW T \in SUBSET Nat, T # {}
    PROVE  \E n \in T : \A m \in T : n <= m
<1>1. PICK n \in T : \A m \in T : <<m, n>> \notin OpToRel(<, Nat)
    BY NatLessThanWellFounded, WFMin
<1>2. \A m \in T : ~ (m < n)
    BY <1>1 DEF OpToRel
<1> QED BY <1>2

\* A finite nonempty set of integers has a greatest element.  It is the one with the
\* fewest above it.
LEMMA GreatestInteger ==
    ASSUME NEW T \in SUBSET Int, IsFiniteSet(T), T # {}
    PROVE  \E n \in T : \A m \in T : m <= n
<1> DEFINE Above(n) == {m \in T : m > n}
           counts == {Cardinality(Above(n)) : n \in T}
<1>1. \A n \in T : IsFiniteSet(Above(n)) /\ Cardinality(Above(n)) \in Nat
    BY FS_Subset, FS_CardinalityType
<1>2. PICK k \in counts : \A l \in counts : k <= l
    <2>1. counts \in SUBSET Nat /\ counts # {}
        BY <1>1
    <2> HIDE DEF counts
    <2> QED BY <2>1, LeastNatural
<1>3. PICK n \in T : k = Cardinality(Above(n))
    BY <1>2
<1>4. ASSUME NEW m \in T, m > n PROVE FALSE
    <2>4. \A z \in T : z > m => z > n
        BY <1>4
    <2>5. m \in Int /\ ~ (m > m)
        OBVIOUS
    <2>1. Above(m) \in SUBSET Above(n) /\ m \in Above(n) /\ m \notin Above(m)
        BY <1>4, <2>4, <2>5
    <2>2. Cardinality(Above(m)) <= Cardinality(Above(n))
          /\ (Cardinality(Above(m)) = Cardinality(Above(n)) => Above(m) = Above(n))
        BY <1>1, <2>1, FS_Subset
    <2>3. Cardinality(Above(n)) <= Cardinality(Above(m))
        BY <1>2, <1>3
    <2> QED BY <1>1, <2>1, <2>2, <2>3
<1> QED BY <1>4
-----------------------------------------------------------------------------
(* The order of candidates                                                 *)

\* Routes that can be put in order: finitely many, told apart by their ids.
Sortable(routes) ==
    /\ IsFiniteSet(routes)
    /\ \A q \in routes : q.score \in Int /\ q.route_id \in Int
    /\ \A q, r \in routes : q.route_id = r.route_id => q = r

LEMMA PrecedesIsTotalOrder ==
    ASSUME NEW routes, Sortable(routes)
    PROVE  /\ \A a \in routes : ~ Precedes(a, a)
           /\ \A a, b, c \in routes : Precedes(a, b) /\ Precedes(b, c) => Precedes(a, c)
           /\ \A a, b \in routes : a = b \/ Precedes(a, b) \/ Precedes(b, a)
<1>1. \A a \in routes : ~ Precedes(a, a)
    BY DEF Sortable, Precedes
<1>2. ASSUME NEW a \in routes, NEW b \in routes, NEW c \in routes,
             Precedes(a, b), Precedes(b, c)
      PROVE  Precedes(a, c)
    <2>1. /\ a.score \in Int /\ b.score \in Int /\ c.score \in Int
          /\ a.route_id \in Int /\ b.route_id \in Int /\ c.route_id \in Int
        BY DEF Sortable
    <2> QED BY <1>2, <2>1 DEF Precedes
<1>3. ASSUME NEW a \in routes, NEW b \in routes
      PROVE  a = b \/ Precedes(a, b) \/ Precedes(b, a)
    <2>1. /\ a.score \in Int /\ b.score \in Int
          /\ a.route_id \in Int /\ b.route_id \in Int
          /\ a.route_id = b.route_id => a = b
        BY DEF Sortable
    <2> QED BY <2>1 DEF Precedes
<1> QED BY <1>1, <1>2, <1>3

(***************************************************************************)
(* Routes have an order.  A route stands where the number of routes before *)
(* it puts it.                                                             *)
(***************************************************************************)
LEMMA OrderExists ==
    ASSUME NEW routes, Sortable(routes)
    PROVE  \E list \in [1..Cardinality(routes) -> routes] : InOrder(list)
<1> DEFINE n == Cardinality(routes)
           Before(q) == {r \in routes : Precedes(r, q)}
           rank == [q \in routes |-> Cardinality(Before(q)) + 1]
<1>1. n \in Nat /\ IsFiniteSet(routes)
    BY TwoElements DEF Sortable
<1>2. \A q \in routes : IsFiniteSet(Before(q)) /\ Cardinality(Before(q)) \in Nat
    BY <1>1, FS_Subset, FS_CardinalityType
<1>3. \A q \in routes : Cardinality(Before(q)) < n
    <2> SUFFICES ASSUME NEW q \in routes PROVE Cardinality(Before(q)) < n
        OBVIOUS
    <2>1. Before(q) \in SUBSET routes /\ q \notin Before(q)
        BY PrecedesIsTotalOrder
    <2>2. Cardinality(Before(q)) <= n /\ (n = Cardinality(Before(q)) => routes = Before(q))
        BY <1>1, <2>1, FS_Subset
    <2> QED BY <1>1, <1>2, <2>1, <2>2
<1>4. rank \in [routes -> 1..n]
    <2> HIDE DEF Before, n
    <2>1. \A q \in routes : Cardinality(Before(q)) + 1 \in 1..n
        BY <1>1, <1>2, <1>3
    <2> QED BY <2>1
<1>5. \A q, r \in routes : Precedes(q, r) => rank[q] < rank[r]
    <2> SUFFICES ASSUME NEW q \in routes, NEW r \in routes, Precedes(q, r)
                 PROVE  rank[q] < rank[r]
        OBVIOUS
    <2>1. Before(q) \in SUBSET Before(r) /\ q \in Before(r) /\ q \notin Before(q)
        BY PrecedesIsTotalOrder
    <2>2. /\ Cardinality(Before(q)) <= Cardinality(Before(r))
          /\ Cardinality(Before(r)) = Cardinality(Before(q)) => Before(r) = Before(q)
        BY <1>2, <2>1, FS_Subset
    <2>3. Cardinality(Before(q)) < Cardinality(Before(r))
        BY <1>2, <2>1, <2>2
    <2>4. /\ rank[q] = Cardinality(Before(q)) + 1 /\ Cardinality(Before(q)) \in Nat
          /\ rank[r] = Cardinality(Before(r)) + 1 /\ Cardinality(Before(r)) \in Nat
        BY <1>2
    <2> HIDE DEF Before, rank
    <2> QED BY <2>3, <2>4
<1>6. rank \in Injection(routes, 1..n)
    <2> HIDE DEF rank
    <2>1. ASSUME NEW q \in routes, NEW r \in routes, q # r PROVE rank[q] # rank[r]
        <3>1. Precedes(q, r) \/ Precedes(r, q)
            BY <2>1, PrecedesIsTotalOrder
        <3>2. rank[q] \in 1..n /\ rank[r] \in 1..n
            BY <1>4
        <3> QED BY <1>1, <1>5, <3>1, <3>2
    <2> QED BY <1>4, <2>1 DEF Injection, IsInjective
<1>7. rank \in Surjection(routes, 1..n)
    <2>1. IsFiniteSet(1..n) /\ Cardinality(1..n) = n
        BY <1>1, FS_Interval
    <2> HIDE DEF rank
    <2> QED BY <1>6, <2>1, FS_Injection
<1>8. \E s \in [1..n -> routes] : \A i, j \in 1..n : i < j => Precedes(s[i], s[j])
    <2> HIDE DEF rank, n
    <2>1. \A i \in 1..n : \E q \in routes : rank[q] = i
        BY <1>7 DEF Surjection
    <2> DEFINE s == [i \in 1..n |-> CHOOSE q \in routes : rank[q] = i]
    <2>2. \A i \in 1..n : s[i] \in routes /\ rank[s[i]] = i
        BY <2>1
    <2>3. s \in [1..n -> routes]
        BY <2>2
    <2> HIDE DEF s
    <2>4. ASSUME NEW i \in 1..n, NEW j \in 1..n, i < j PROVE Precedes(s[i], s[j])
        <3>1. s[i] \in routes /\ s[j] \in routes /\ rank[s[i]] = i /\ rank[s[j]] = j
            BY <2>2
        <3>2. s[i] # s[j] /\ ~ Precedes(s[j], s[i])
            BY <1>1, <1>5, <2>4, <3>1
        <3> QED BY <3>1, <3>2, PrecedesIsTotalOrder
    <2> QED BY <2>3, <2>4
<1> QED BY <1>8 DEF InOrder

\* Ordered is such an enumeration.
LEMMA OrderedIsEnumeration ==
    ASSUME NEW routes, Sortable(routes)
    PROVE  /\ Ordered(routes) \in [1..Cardinality(routes) -> routes]
           /\ InOrder(Ordered(routes))
           /\ \A q \in routes : \E i \in 1..Cardinality(routes) : Ordered(routes)[i] = q
<1> DEFINE enumerations == [1..Cardinality(routes) -> routes]
<1>1. Ordered(routes) = CHOOSE list \in enumerations : InOrder(list)
    BY Zenon DEF Ordered
<1>2. \E list \in enumerations : InOrder(list)
    BY OrderExists
<1> HIDE DEF enumerations
<1>3. Ordered(routes) \in enumerations /\ InOrder(Ordered(routes))
    BY <1>1, <1>2
<1>4. \A q \in routes : \E i \in 1..Cardinality(routes) : Ordered(routes)[i] = q
    <2> DEFINE n    == Cardinality(routes)
               list == Ordered(routes)
    <2>1. n \in Nat /\ IsFiniteSet(1..n) /\ Cardinality(1..n) = n
        BY TwoElements, FS_Interval DEF Sortable
    <2>2. list \in [1..n -> routes] /\ InOrder(list)
        BY <1>3 DEF enumerations
    <2> HIDE DEF n, list
    <2>3. ASSUME NEW i \in 1..n, NEW j \in 1..n, i # j PROVE list[i] # list[j]
        <3>1. i < j \/ j < i
            BY <2>1, <2>3
        <3>2. Precedes(list[i], list[j]) \/ Precedes(list[j], list[i])
            BY <2>2, <3>1 DEF InOrder
        <3> QED BY <2>2, <3>2, PrecedesIsTotalOrder
    <2>4. list \in Injection(1..n, routes)
        BY <2>2, <2>3 DEF Injection, IsInjective
    <2>5. list \in Surjection(1..n, routes)
        BY <2>1, <2>4, FS_Injection DEF Sortable, n
    <2> QED BY <2>5 DEF Surjection, n, list
<1> QED BY <1>3, <1>4 DEF enumerations
-----------------------------------------------------------------------------
(* What admission leaves                                                   *)

\* Evidence that scoring accepts
SaneTargets(targets) ==
    \A t \in DOMAIN targets :
        /\ IsFiniteSet(targets[t].evidence)
        /\ \A e, f \in targets[t].evidence : e.id = f.id => e = f
        /\ \A e \in targets[t].evidence : e.strength \in Strengths

\* A route whose conditions and profile can be used
SaneRoute(route, rs) ==
    /\ route.priority \in Int
    /\ route.profile \in DOMAIN rs.profiles
    /\ rs.profiles[route.profile]
    /\ route.domain = None \/ route.domain \in DOMAIN rs.domains
    /\ \/ route.intent = None
       \/ route.intent \in DOMAIN rs.intents /\ rs.intents[route.intent].route_capable
    /\ ~ (route.domain = None /\ route.intent = None)

SaneRuleset(rs) ==
    /\ {rs.router.strong, rs.router.medium, rs.router.weak,
        rs.router.minimum_score, rs.router.minimum_margin} \subseteq Int
    /\ rs.router.minimum_margin > 0
    /\ rs.router.strong > 0 /\ rs.router.medium > 0 /\ rs.router.weak > 0
    /\ SaneTargets(rs.domains) /\ SaneTargets(rs.intents)
    /\ IsFiniteSet(DOMAIN rs.routes) /\ DOMAIN rs.routes \subseteq Int
    /\ None \notin DOMAIN rs.profiles
    /\ \A r \in EnabledRoutes(rs) : SaneRoute(rs.routes[r], rs)

\* The positions of a list are finitely many integers.
LEMMA ListDomain ==
    ASSUME NEW list, IsList(list)
    PROVE  IsFiniteSet(DOMAIN list) /\ DOMAIN list \subseteq Int
<1>1. Len(list) \in Nat /\ DOMAIN list = 1..Len(list)
    BY DEF IsList
<1> QED BY <1>1, FS_Interval

\* Reading a field of the items of a list leaves finitely many ids.
LEMMA IdsFinite ==
    ASSUME NEW items, IsList(items)
    PROVE  IsFiniteSet(Ids(items))
<1> DEFINE f == [i \in DOMAIN items |-> items[i].id]
<1>1. f \in Surjection(DOMAIN items, Ids(items))
    BY DEF Surjection, Ids
<1> HIDE DEF f
<1> QED BY <1>1, ListDomain, FS_Surjection

LEMMA EvidenceFinite ==
    ASSUME NEW t, IsList(t.evidence)
    PROVE  IsFiniteSet(EvidenceOf(t))
<1> DEFINE f == [i \in DOMAIN t.evidence |-> t.evidence[i]]
<1>1. f \in Surjection(DOMAIN t.evidence, EvidenceOf(t))
    BY DEF Surjection, EvidenceOf
<1> HIDE DEF f
<1> QED BY <1>1, ListDomain, FS_Surjection

\* Under an id that occurs once a dictionary holds an item of the list.
LEMMA ItemIsListed ==
    ASSUME NEW items, IsList(items), UniqueIds(items), NEW id \in Ids(items)
    PROVE  \E i \in DOMAIN items : items[i].id = id /\ ItemOf(items, id) = items[i]
<1> DEFINE Last(i) == /\ items[i].id = id
                      /\ \A j \in DOMAIN items : items[j].id = id => j <= i
<1>1. PICK k \in DOMAIN items : items[k].id = id
    BY DEF Ids
<1>2. k <= k
    BY ListDomain
<1>3. Last(k)
    BY <1>1, <1>2 DEF UniqueIds
<1>4. ItemOf(items, id) = items[CHOOSE i \in DOMAIN items : Last(i)]
    BY DEF ItemOf
<1>5. PICK i \in DOMAIN items : i = CHOOSE c \in DOMAIN items : Last(c)
    BY <1>3
<1>6. Last(i)
    BY <1>3, <1>5
<1> QED BY <1>4, <1>5, <1>6

\* The targets of a document are its domains, then its intents.
LEMMA TargetsOf ==
    ASSUME NEW d, IsList(d.domains.items), IsList(d.intents.items)
    PROVE  /\ \A i \in DOMAIN d.domains.items :
                  i \in DOMAIN Targets(d) /\ Targets(d)[i] = d.domains.items[i]
           /\ \A i \in DOMAIN d.intents.items :
                  \E k \in DOMAIN Targets(d) : Targets(d)[k] = d.intents.items[i]
<1> DEFINE a == d.domains.items
           b == d.intents.items
           S == {a[i] : i \in DOMAIN a} \cup {b[i] : i \in DOMAIN b}
<1>1. a \in Seq(S) /\ b \in Seq(S)
    BY DEF IsList
<1>2. Targets(d) = a \o b
    BY DEF Targets
<1> HIDE DEF a, b, S
<1>3. /\ Len(a) \in Nat /\ Len(b) \in Nat
      /\ DOMAIN a = 1..Len(a) /\ DOMAIN b = 1..Len(b)
      /\ DOMAIN (a \o b) = 1..(Len(a) + Len(b))
      /\ \A i \in 1..Len(a) : (a \o b)[i] = a[i]
      /\ \A i \in 1..Len(b) : (a \o b)[Len(a) + i] = b[i]
    BY <1>1
<1>4. /\ \A i \in DOMAIN a : i \in DOMAIN (a \o b) /\ (a \o b)[i] = a[i]
      /\ \A i \in DOMAIN b : \E k \in DOMAIN (a \o b) : (a \o b)[k] = b[i]
    <2>1. \A m, n \in Nat : \A i \in 1..n : m + i \in 1..(m + n)
        OBVIOUS
    <2>2. \A m, n \in Nat : \A i \in 1..m : i \in 1..(m + n)
        OBVIOUS
    <2>3. \A i \in DOMAIN b : Len(a) + i \in DOMAIN (a \o b)
        BY <1>3, <2>1, Zenon
    <2>4. \A i \in DOMAIN a : i \in DOMAIN (a \o b)
        BY <1>3, <2>2, Zenon
    <2> QED BY <1>3, <2>3, <2>4, Zenon
<1> QED BY <1>2, <1>4 DEF a, b

\* The evidences of a target are told apart by their ids.
LEMMA EvidenceDistinct ==
    ASSUME NEW d, ValidEvidence(d), NEW k \in DOMAIN Targets(d)
    PROVE  \A e, f \in EvidenceOf(Targets(d)[k]) : e.id = f.id => e = f
<1> SUFFICES ASSUME NEW e \in EvidenceOf(Targets(d)[k]), NEW f \in EvidenceOf(Targets(d)[k]),
                    e.id = f.id
             PROVE  e = f
    OBVIOUS
<1> DEFINE evidence == Targets(d)[k].evidence
<1>1. PICK i \in DOMAIN evidence : e = evidence[i]
    BY DEF EvidenceOf
<1>2. PICK j \in DOMAIN evidence : f = evidence[j]
    BY DEF EvidenceOf
<1>3. <<k, i>> \in EvidencePlaces(d) /\ <<k, j>> \in EvidencePlaces(d)
    BY <1>1, <1>2 DEF EvidencePlaces
<1>4. EvidenceAt(d, <<k, i>>) = e /\ EvidenceAt(d, <<k, j>>) = f
    BY <1>1, <1>2 DEF EvidenceAt
<1>5. <<k, i>> = <<k, j>>
    BY <1>3, <1>4 DEF ValidEvidence
<1> QED BY <1>1, <1>2, <1>5

\* The dictionaries of a snapshot, item by item
LEMMA SnapshotItems ==
    ASSUME NEW d, NEW rs, rs = RulesetSnapshot(d)
    PROVE  /\ rs.router = d.config.router
           /\ DOMAIN rs.profiles = Ids(d.profiles.items)
           /\ DOMAIN rs.domains = Ids(d.domains.items)
           /\ DOMAIN rs.intents = Ids(d.intents.items)
           /\ DOMAIN rs.routes = Ids(d.routing.items)
           /\ \A id \in Ids(d.profiles.items) :
                  rs.profiles[id] = ItemOf(d.profiles.items, id).enabled
           /\ \A id \in Ids(d.domains.items) :
                  rs.domains[id].evidence = EvidenceOf(ItemOf(d.domains.items, id))
           /\ \A id \in Ids(d.intents.items) :
                  /\ rs.intents[id].evidence = EvidenceOf(ItemOf(d.intents.items, id))
                  /\ rs.intents[id].route_capable
                         = ItemOf(d.intents.items, id).route_capable
           /\ \A id \in Ids(d.routing.items) :
                  /\ rs.routes[id].enabled = ItemOf(d.routing.items, id).enabled
                  /\ rs.routes[id].priority = ItemOf(d.routing.items, id).priority
                  /\ rs.routes[id].domain = ItemOf(d.routing.items, id).domain
                  /\ rs.routes[id].intent = ItemOf(d.routing.items, id).intent
                  /\ rs.routes[id].profile = ItemOf(d.routing.items, id).profile
<1>1. rs.router = d.config.router
    BY DEF RulesetSnapshot
<1>2. rs.profiles = [id \in Ids(d.profiles.items) |-> ItemOf(d.profiles.items, id).enabled]
    BY Zenon DEF RulesetSnapshot, ById
<1>3. rs.domains = [id \in Ids(d.domains.items) |->
                       [evidence |-> EvidenceOf(ItemOf(d.domains.items, id))]]
    BY Zenon DEF RulesetSnapshot, ById
<1>4. rs.intents = [id \in Ids(d.intents.items) |->
                       [evidence |-> EvidenceOf(ItemOf(d.intents.items, id)),
                        route_capable |-> ItemOf(d.intents.items, id).route_capable]]
    BY Zenon DEF RulesetSnapshot, ById
<1>5. rs.routes = [id \in Ids(d.routing.items) |->
                       [enabled  |-> ItemOf(d.routing.items, id).enabled,
                        priority |-> ItemOf(d.routing.items, id).priority,
                        domain   |-> ItemOf(d.routing.items, id).domain,
                        intent   |-> ItemOf(d.routing.items, id).intent,
                        profile  |-> ItemOf(d.routing.items, id).profile]]
    BY Zenon DEF RulesetSnapshot, ById
<1>6. /\ DOMAIN rs.profiles = Ids(d.profiles.items)
      /\ \A id \in Ids(d.profiles.items) :
             rs.profiles[id] = ItemOf(d.profiles.items, id).enabled
    BY <1>2
<1>7. /\ DOMAIN rs.domains = Ids(d.domains.items)
      /\ \A id \in Ids(d.domains.items) :
             rs.domains[id].evidence = EvidenceOf(ItemOf(d.domains.items, id))
    BY <1>3
<1>8. /\ DOMAIN rs.intents = Ids(d.intents.items)
      /\ \A id \in Ids(d.intents.items) :
             /\ rs.intents[id].evidence = EvidenceOf(ItemOf(d.intents.items, id))
             /\ rs.intents[id].route_capable = ItemOf(d.intents.items, id).route_capable
    BY <1>4
<1>9. /\ DOMAIN rs.routes = Ids(d.routing.items)
      /\ \A id \in Ids(d.routing.items) :
             /\ rs.routes[id].enabled = ItemOf(d.routing.items, id).enabled
             /\ rs.routes[id].priority = ItemOf(d.routing.items, id).priority
             /\ rs.routes[id].domain = ItemOf(d.routing.items, id).domain
             /\ rs.routes[id].intent = ItemOf(d.routing.items, id).intent
             /\ rs.routes[id].profile = ItemOf(d.routing.items, id).profile
    BY <1>5
<1> QED BY <1>1, <1>6, <1>7, <1>8, <1>9

LEMMA AdmittedTargets ==
    ASSUME NEW d, ParsedDocument(d), ValidRuleset(d)
    PROVE  /\ SaneTargets(RulesetSnapshot(d).domains)
           /\ SaneTargets(RulesetSnapshot(d).intents)
<1> DEFINE rs == RulesetSnapshot(d)
<1> HIDE DEF rs
<1>0. /\ DOMAIN rs.domains = Ids(d.domains.items)
      /\ DOMAIN rs.intents = Ids(d.intents.items)
      /\ \A id \in Ids(d.domains.items) :
             rs.domains[id].evidence = EvidenceOf(ItemOf(d.domains.items, id))
      /\ \A id \in Ids(d.intents.items) :
             rs.intents[id].evidence = EvidenceOf(ItemOf(d.intents.items, id))
    BY SnapshotItems DEF rs
<1>1. /\ IsList(d.domains.items) /\ UniqueIds(d.domains.items)
      /\ IsList(d.intents.items) /\ UniqueIds(d.intents.items)
      /\ ValidEvidence(d)
      /\ \A i \in DOMAIN d.domains.items :
             /\ IsList(d.domains.items[i].evidence)
             /\ \A e \in EvidenceOf(d.domains.items[i]) : e.strength \in Strengths
      /\ \A i \in DOMAIN d.intents.items :
             /\ IsList(d.intents.items[i].evidence)
             /\ \A e \in EvidenceOf(d.intents.items[i]) : e.strength \in Strengths
    BY DEF ParsedDocument, ValidRuleset
<1>2. ASSUME NEW id \in Ids(d.domains.items)
      PROVE  LET E == EvidenceOf(ItemOf(d.domains.items, id))
             IN  /\ IsFiniteSet(E)
                 /\ \A e, f \in E : e.id = f.id => e = f
                 /\ \A e \in E : e.strength \in Strengths
    <2>1. PICK i \in DOMAIN d.domains.items : ItemOf(d.domains.items, id) = d.domains.items[i]
        BY <1>1, ItemIsListed
    <2>2. IsFiniteSet(EvidenceOf(d.domains.items[i]))
        BY <1>1, EvidenceFinite
    <2>3. PICK k \in DOMAIN Targets(d) : Targets(d)[k] = d.domains.items[i]
        BY <1>1, TargetsOf
    <2>4. \A e, f \in EvidenceOf(Targets(d)[k]) : e.id = f.id => e = f
        BY <1>1, EvidenceDistinct
    <2> QED BY <1>1, <2>1, <2>2, <2>3, <2>4
<1>3. ASSUME NEW id \in Ids(d.intents.items)
      PROVE  LET E == EvidenceOf(ItemOf(d.intents.items, id))
             IN  /\ IsFiniteSet(E)
                 /\ \A e, f \in E : e.id = f.id => e = f
                 /\ \A e \in E : e.strength \in Strengths
    <2>1. PICK i \in DOMAIN d.intents.items : ItemOf(d.intents.items, id) = d.intents.items[i]
        BY <1>1, ItemIsListed
    <2>2. IsFiniteSet(EvidenceOf(d.intents.items[i]))
        BY <1>1, EvidenceFinite
    <2>3. PICK k \in DOMAIN Targets(d) : Targets(d)[k] = d.intents.items[i]
        BY <1>1, TargetsOf
    <2>4. \A e, f \in EvidenceOf(Targets(d)[k]) : e.id = f.id => e = f
        BY <1>1, EvidenceDistinct
    <2> QED BY <1>1, <2>1, <2>2, <2>3, <2>4
<1>4. SaneTargets(rs.domains)
    BY <1>0, <1>2 DEF SaneTargets
<1>5. SaneTargets(rs.intents)
    BY <1>0, <1>3 DEF SaneTargets
<1> QED BY <1>4, <1>5 DEF rs

\* What booting admits satisfies everything the pipeline takes for granted.
LEMMA AdmittedIsSane ==
    ASSUME NEW d, ParsedDocument(d), ValidRuleset(d)
    PROVE  SaneRuleset(RulesetSnapshot(d))
<1> DEFINE rs == RulesetSnapshot(d)
           routes == d.routing.items
<1> HIDE DEF rs
<1>0. rs = RulesetSnapshot(d)
    BY DEF rs
<1>1. SaneTargets(rs.domains) /\ SaneTargets(rs.intents)
    BY AdmittedTargets DEF rs
<1>2. /\ IsList(routes) /\ UniqueIds(routes)
      /\ IsList(d.profiles.items) /\ UniqueIds(d.profiles.items)
      /\ \A i \in DOMAIN routes : routes[i].id \in Int /\ routes[i].priority \in Int
      /\ None \notin Ids(d.profiles.items)
      /\ {d.config.router.strong, d.config.router.medium, d.config.router.weak,
          d.config.router.minimum_score, d.config.router.minimum_margin} \subseteq Int
      /\ d.config.router.minimum_margin > 0
      /\ d.config.router.strong > 0 /\ d.config.router.medium > 0
      /\ d.config.router.weak > 0
      /\ \A i \in DOMAIN routes : ~ (routes[i].domain = None /\ routes[i].intent = None)
      /\ ValidRoutes(d)
    BY DEF ParsedDocument, ValidRuleset, WellTyped
<1>3. /\ DOMAIN rs.profiles = Ids(d.profiles.items)
      /\ DOMAIN rs.domains = Ids(d.domains.items)
      /\ DOMAIN rs.intents = Ids(d.intents.items)
      /\ \A id \in Ids(d.profiles.items) :
             rs.profiles[id] = ItemOf(d.profiles.items, id).enabled
      /\ \A id \in Ids(d.intents.items) :
             rs.intents[id].route_capable = ItemOf(d.intents.items, id).route_capable
    BY <1>0, SnapshotItems
<1>4. \A id \in Ids(routes) :
          /\ rs.routes[id].enabled = ItemOf(routes, id).enabled
          /\ rs.routes[id].priority = ItemOf(routes, id).priority
          /\ rs.routes[id].domain = ItemOf(routes, id).domain
          /\ rs.routes[id].intent = ItemOf(routes, id).intent
          /\ rs.routes[id].profile = ItemOf(routes, id).profile
    BY <1>0, SnapshotItems
<1>5. DOMAIN rs.routes = Ids(routes) /\ IsFiniteSet(Ids(routes)) /\ Ids(routes) \subseteq Int
    <2>1. Ids(routes) \subseteq Int
        BY <1>2 DEF Ids
    <2> QED BY <1>2, <2>1, IdsFinite, <1>0, SnapshotItems
<1>6. ASSUME NEW r \in EnabledRoutes(rs) PROVE SaneRoute(rs.routes[r], rs)
    <2>1. r \in Ids(routes) /\ rs.routes[r].enabled
        BY <1>5 DEF EnabledRoutes
    <2>2. PICK i \in DOMAIN routes : ItemOf(routes, r) = routes[i]
        BY <1>2, <2>1, ItemIsListed
    <2>3. /\ rs.routes[r].enabled = routes[i].enabled
          /\ rs.routes[r].priority = routes[i].priority
          /\ rs.routes[r].domain = routes[i].domain
          /\ rs.routes[r].intent = routes[i].intent
          /\ rs.routes[r].profile = routes[i].profile
        BY <1>4, <2>1, <2>2
    <2>4. /\ routes[i].profile \in Ids(d.profiles.items)
          /\ ItemOf(d.profiles.items, routes[i].profile).enabled
          /\ routes[i].domain # None => routes[i].domain \in Ids(d.domains.items)
          /\ routes[i].intent # None =>
                 /\ routes[i].intent \in Ids(d.intents.items)
                 /\ ItemOf(d.intents.items, routes[i].intent).route_capable
        BY <1>2, <2>1, <2>3 DEF ValidRoutes
    <2>5. /\ DOMAIN rs.profiles = Ids(d.profiles.items)
          /\ DOMAIN rs.domains = Ids(d.domains.items)
          /\ DOMAIN rs.intents = Ids(d.intents.items)
          /\ rs.profiles[routes[i].profile]
          /\ routes[i].intent # None => rs.intents[routes[i].intent].route_capable
        BY <1>3, <2>4
    <2> QED BY <1>2, <2>3, <2>4, <2>5 DEF SaneRoute
<1>7. rs.router = d.config.router /\ None \notin DOMAIN rs.profiles
    BY <1>2, <1>0, SnapshotItems
<1>8. SaneRuleset(rs)
    BY <1>1, <1>2, <1>5, <1>6, <1>7 DEF SaneRuleset
<1> QED BY <1>8 DEF rs

-----------------------------------------------------------------------------
(* Scores                                                                  *)

\* One more matched evidence adds its weight to the score.
LEMMA ScoreStep ==
    ASSUME NEW S, IsFiniteSet(S), \A e \in S : e.strength \in Strengths, NEW x \in S,
           NEW router, router.strong \in Int, router.medium \in Int, router.weak \in Int
    PROVE  Score(S, router) = router[x.strength] + Score(S \ {x}, router)
<1> DEFINE Of(T, s) == {e \in T : e.strength = s}
           n(s) == Cardinality(Of(S, s))
           m(s) == Cardinality(Of(S \ {x}, s))
<1>1. ASSUME NEW s \in Strengths
      PROVE  /\ n(s) \in Int /\ m(s) \in Int
             /\ n(s) = IF s = x.strength THEN m(s) + 1 ELSE m(s)
    <2>1. IsFiniteSet(Of(S, s)) /\ IsFiniteSet(Of(S \ {x}, s))
        BY FS_Subset, FS_RemoveElement
    <2>2. CASE s = x.strength
        <3>1. x \in Of(S, s) /\ Of(S \ {x}, s) = Of(S, s) \ {x}
            BY <2>2
        <3>2. Cardinality(Of(S, s) \ {x}) = Cardinality(Of(S, s)) - 1
            BY <2>1, <3>1, FS_RemoveElement
        <3>3. Cardinality(Of(S, s)) \in Nat /\ Cardinality(Of(S \ {x}, s)) \in Nat
            BY <2>1, FS_CardinalityType
        <3>4. n(s) = Cardinality(Of(S, s)) /\ m(s) = Cardinality(Of(S, s)) - 1
            BY <3>1, <3>2
        <3> HIDE DEF Of, n, m
        <3> QED BY <2>2, <3>3, <3>1, <3>2, <3>4
    <2>3. CASE s # x.strength
        <3>1. Of(S \ {x}, s) = Of(S, s)
            BY <2>3
        <3> HIDE DEF Of
        <3> QED BY <2>1, <2>3, <3>1, FS_CardinalityType
    <2> QED BY <2>2, <2>3
<1>2. Score(S, router) = router.strong * n("strong") + router.medium * n("medium")
                             + router.weak * n("weak")
    BY DEF Score
<1>3. Score(S \ {x}, router) = router.strong * m("strong") + router.medium * m("medium")
                                   + router.weak * m("weak")
    BY DEF Score
<1> HIDE DEF n, m
<1>4. \A w, k \in Int : w * (k + 1) = w + w * k
    OBVIOUS
<1>5. CASE x.strength = "strong"
    <2>1. /\ n("strong") = m("strong") + 1 /\ n("medium") = m("medium")
          /\ n("weak") = m("weak")
        BY <1>1, <1>5 DEF Strengths
    <2>2. router.strong * n("strong") = router.strong + router.strong * m("strong")
        BY <1>1, <1>4, <2>1 DEF Strengths
    <2> QED BY <1>1, <1>2, <1>3, <1>5, <2>1, <2>2 DEF Strengths
<1>6. CASE x.strength = "medium"
    <2>1. /\ n("strong") = m("strong") /\ n("medium") = m("medium") + 1
          /\ n("weak") = m("weak")
        BY <1>1, <1>6 DEF Strengths
    <2>2. router.medium * n("medium") = router.medium + router.medium * m("medium")
        BY <1>1, <1>4, <2>1 DEF Strengths
    <2> QED BY <1>1, <1>2, <1>3, <1>6, <2>1, <2>2 DEF Strengths
<1>7. CASE x.strength = "weak"
    <2>1. /\ n("strong") = m("strong") /\ n("medium") = m("medium")
          /\ n("weak") = m("weak") + 1
        BY <1>1, <1>7 DEF Strengths
    <2>2. router.weak * n("weak") = router.weak + router.weak * m("weak")
        BY <1>1, <1>4, <2>1 DEF Strengths
    <2> QED BY <1>1, <1>2, <1>3, <1>7, <2>1, <2>2 DEF Strengths
<1> QED BY <1>5, <1>6, <1>7 DEF Strengths

LEMMA ScoreOfNone ==
    ASSUME NEW router, router.strong \in Int, router.medium \in Int, router.weak \in Int
    PROVE  Score({}, router) = 0
<1>1. \A s : {e \in {} : e.strength = s} = {}
    OBVIOUS
<1>2. Cardinality({}) = 0
    BY FS_EmptySet
<1>3. Score({}, router) = router.strong * 0 + router.medium * 0 + router.weak * 0
    BY <1>1, <1>2 DEF Score
<1> QED BY <1>3

(***************************************************************************)
(* A sum over a set is folded one element at a time, in an order nobody    *)
(* chose; the score groups by strength.  Both are one number, since a set  *)
(* with the fewest elements on which they differ does not exist.           *)
(***************************************************************************)
FoldStep(sum, s, router) ==
    IF s = {} THEN 0
    ELSE router[(CHOOSE y \in s : TRUE).strength] + sum[s \ {CHOOSE y \in s : TRUE}]

Folded(S, router) == CHOOSE sum : sum = [s \in SUBSET S |-> FoldStep(sum, s, router)]

LEMMA ScoreFolds ==
    ASSUME NEW S, IsFiniteSet(S), \A e \in S : e.strength \in Strengths,
           NEW router, router.strong \in Int, router.medium \in Int, router.weak \in Int
    PROVE  Folded(S, router)[S] = Score(S, router)
<1> DEFINE score == [s \in SUBSET S |-> Score(s, router)]
           sum   == Folded(S, router)
<1>1. ASSUME NEW s \in SUBSET S, s # {}
      PROVE  LET y == CHOOSE z \in s : TRUE
             IN  /\ y \in s
                 /\ Score(s, router) = router[y.strength] + Score(s \ {y}, router)
    <2> DEFINE y == CHOOSE z \in s : TRUE
    <2>1. y \in s
        BY <1>1
    <2>2. IsFiniteSet(s) /\ \A e \in s : e.strength \in Strengths
        BY FS_Subset
    <2> HIDE DEF y
    <2>3. Score(s, router) = router[y.strength] + Score(s \ {y}, router)
        BY <2>1, <2>2, ScoreStep
    <2> QED BY <2>1, <2>3 DEF y
<1>2. score = [s \in SUBSET S |-> FoldStep(score, s, router)]
    <2>1. ASSUME NEW s \in SUBSET S PROVE Score(s, router) = FoldStep(score, s, router)
        <3>1. CASE s = {}
            BY <3>1, ScoreOfNone DEF FoldStep
        <3>2. CASE s # {}
            <4>1. s \ {CHOOSE y \in s : TRUE} \in SUBSET S
                OBVIOUS
            <4> QED BY <1>1, <3>2, <4>1 DEF FoldStep
        <3> QED BY <3>1, <3>2
    <2> QED BY <2>1
<1>3. sum = [s \in SUBSET S |-> FoldStep(sum, s, router)]
    <2> HIDE DEF score
    <2> QED BY <1>2 DEF Folded
<1> HIDE DEF score, sum
<1>4. \A s \in SUBSET S : sum[s] = FoldStep(sum, s, router)
    BY <1>3
<1>5. ASSUME NEW least \in SUBSET S, sum[least] # Score(least, router),
             \A s \in SUBSET S : sum[s] # Score(s, router) =>
                                     Cardinality(least) <= Cardinality(s)
      PROVE  FALSE
    <2>1. least # {}
        BY <1>4, <1>5, ScoreOfNone DEF FoldStep
    <2>2. PICK y \in least : /\ sum[least] = router[y.strength] + sum[least \ {y}]
                             /\ Score(least, router)
                                    = router[y.strength] + Score(least \ {y}, router)
        BY <1>1, <1>4, <2>1 DEF FoldStep
    <2>3. /\ least \ {y} \in SUBSET S
          /\ Cardinality(least \ {y}) = Cardinality(least) - 1
          /\ Cardinality(least) \in Nat
        BY FS_Subset, FS_RemoveElement, FS_CardinalityType
    <2>4. sum[least \ {y}] = Score(least \ {y}, router)
        BY <1>5, <2>3
    <2> QED BY <1>5, <2>2, <2>4
<1>6. \A s \in SUBSET S : sum[s] = Score(s, router)
    <2> DEFINE differ == {s \in SUBSET S : sum[s] # Score(s, router)}
               sizes  == {Cardinality(s) : s \in differ}
    <2> SUFFICES ASSUME differ # {} PROVE FALSE
        OBVIOUS
    <2>1. sizes \in SUBSET Nat /\ sizes # {}
        BY FS_Subset, FS_CardinalityType
    <2>2. PICK n \in sizes : \A k \in sizes : n <= k
        <3> HIDE DEF sizes
        <3> QED BY <2>1, LeastNatural
    <2>3. PICK least \in differ : n = Cardinality(least)
        OBVIOUS
    <2> QED BY <1>5, <2>2, <2>3
<1> QED BY <1>6 DEF sum

\* The weight the policy speaks of is the score of the pipeline.
LEMMA WeightIsScore ==
    ASSUME NEW evidence, IsFiniteSet(evidence), \A e \in evidence : e.strength \in Strengths,
           NEW message, NEW router,
           router.strong \in Int, router.medium \in Int, router.weak \in Int
    PROVE  Weight(message, evidence, router) = Score(Matched(message, evidence), router)
<1>1. Weight(message, evidence, router)
          = Folded(Matched(message, evidence), router)[Matched(message, evidence)]
    BY DEF Weight, MapThenSumSet, MapThenFoldSet, Folded, FoldStep, Matched
<1>2. IsFiniteSet(Matched(message, evidence))
    BY FS_Subset DEF Matched
<1> QED BY <1>1, <1>2, ScoreFolds DEF Matched

-----------------------------------------------------------------------------
(* The pipeline over an admitted ruleset                                   *)

\* The score of the matched evidence of a target is an integer.
LEMMA ScoreIsInteger ==
    ASSUME NEW message, NEW evidence, IsFiniteSet(evidence), NEW router,
           router.strong \in Int, router.medium \in Int, router.weak \in Int
    PROVE  Score(Matched(message, evidence), router) \in Int
<1> DEFINE matched == Matched(message, evidence)
           Count(strength) == Cardinality({e \in matched : e.strength = strength})
<1>1. IsFiniteSet(matched)
    BY FS_Subset DEF Matched
<1>2. Count("strong") \in Int /\ Count("medium") \in Int /\ Count("weak") \in Int
    <2>1. ASSUME NEW strength PROVE Count(strength) \in Int
        <3>1. IsFiniteSet({e \in matched : e.strength = strength})
            BY <1>1, FS_Subset
        <3> QED BY <3>1, FS_CardinalityType
    <2> QED BY <2>1
<1>3. Score(matched, router) = router.strong * Count("strong")
                                   + router.medium * Count("medium")
                                   + router.weak * Count("weak")
    BY DEF Score
<1> HIDE DEF matched, Count
<1>4. Score(matched, router) \in Int
    BY <1>2, <1>3
<1> QED BY <1>4 DEF matched

LEMMA EvaluationsOf ==
    ASSUME NEW message, NEW targets, SaneTargets(targets), NEW router,
           router.strong \in Int, router.medium \in Int, router.weak \in Int
    PROVE  LET evaluations == Evaluations(message, targets, router)
           IN  /\ DOMAIN evaluations = DOMAIN targets
               /\ \A t \in DOMAIN targets :
                      /\ evaluations[t].score \in Int
                      /\ evaluations[t].eligible
                           = Eligible(Matched(message, targets[t].evidence), router)
<1>1. \A t \in DOMAIN targets :
          Score(Matched(message, targets[t].evidence), router) \in Int
    BY ScoreIsInteger DEF SaneTargets
<1> QED BY <1>1 DEF Evaluations

\* Neither scoring nor qualification finds fault with an admitted ruleset.
LEMMA NothingRefused ==
    ASSUME NEW rs, SaneRuleset(rs), NEW domains, NEW intents,
           DOMAIN domains = DOMAIN rs.domains, DOMAIN intents = DOMAIN rs.intents
    PROVE  /\ ~ ScoringRefused(rs.domains) /\ ~ ScoringRefused(rs.intents)
           /\ ~ QualificationRefused(rs, domains, intents)
<1>1. ~ ScoringRefused(rs.domains) /\ ~ ScoringRefused(rs.intents)
    BY DEF SaneRuleset, SaneTargets, ScoringRefused
<1>2. \A r \in EnabledRoutes(rs) : SaneRoute(rs.routes[r], rs)
    BY DEF SaneRuleset
<1>3. ~ QualificationRefused(rs, domains, intents)
    BY <1>2 DEF SaneRoute, QualificationRefused
<1> QED BY <1>1, <1>3

\* A qualified route is an enabled route of the ruleset whose conditions hold.
IsQualified(q, rs, domains, intents) ==
    /\ q.route_id \in EnabledRoutes(rs)
    /\ Satisfied(rs.routes[q.route_id], domains, intents)
    /\ q.profile = rs.routes[q.route_id].profile
    /\ q.route_id \in Int /\ q.priority \in Int /\ q.score \in Int

LEMMA QualifiedAreSortable ==
    ASSUME NEW rs, SaneRuleset(rs), NEW domains, NEW intents,
           DOMAIN domains = DOMAIN rs.domains, DOMAIN intents = DOMAIN rs.intents,
           \A t \in DOMAIN domains : domains[t].score \in Int,
           \A t \in DOMAIN intents : intents[t].score \in Int
    PROVE  LET qualified == QualifiedRoutes(rs, domains, intents)
           IN  /\ Sortable(qualified)
               /\ \A q \in qualified : IsQualified(q, rs, domains, intents)
<1> DEFINE S == {s \in EnabledRoutes(rs) : Satisfied(rs.routes[s], domains, intents)}
           Entry(r) == [route_id |-> r,
                        profile  |-> rs.routes[r].profile,
                        priority |-> rs.routes[r].priority,
                        score    |-> ComparisonScore(rs.routes[r], domains, intents),
                        intent   |-> rs.routes[r].intent]
           qualified == QualifiedRoutes(rs, domains, intents)
           f == [r \in S |-> Entry(r)]
<1>1. qualified = {Entry(r) : r \in S}
    BY DEF QualifiedRoutes
<1>2. IsFiniteSet(S) /\ S \subseteq EnabledRoutes(rs) /\ S \subseteq Int
    BY FS_Subset DEF SaneRuleset, EnabledRoutes
<1>3. \A r \in S : ComparisonScore(rs.routes[r], domains, intents) \in Int
                   /\ rs.routes[r].priority \in Int
    BY <1>2 DEF SaneRuleset, SaneRoute, ComparisonScore
<1>4. \A r \in S : /\ Entry(r).route_id = r
                   /\ Entry(r).profile = rs.routes[r].profile
                   /\ Entry(r).priority = rs.routes[r].priority
                   /\ Entry(r).score = ComparisonScore(rs.routes[r], domains, intents)
    OBVIOUS
<1>5. \A r \in S : Satisfied(rs.routes[r], domains, intents)
    OBVIOUS
<1> HIDE DEF qualified, Entry, S
<1>6. f \in Surjection(S, qualified)
    BY <1>1 DEF Surjection
<1>7. IsFiniteSet(qualified)
    <2> HIDE DEF f
    <2> QED BY <1>2, <1>6, FS_Surjection
<1>8. \A q \in qualified : IsQualified(q, rs, domains, intents)
    BY <1>1, <1>2, <1>3, <1>4, <1>5 DEF IsQualified
<1>9. \A q, r \in qualified : q.route_id = r.route_id => q = r
    BY <1>1, <1>4
<1>10. Sortable(qualified)
    BY <1>7, <1>8, <1>9 DEF Sortable, IsQualified
<1> QED BY <1>8, <1>10 DEF qualified

LEMMA PartSortable ==
    ASSUME NEW routes, Sortable(routes), NEW part \in SUBSET routes
    PROVE  Sortable(part)
<1>1. IsFiniteSet(part)
    BY FS_Subset DEF Sortable
<1> QED BY <1>1 DEF Sortable

\* Routes that differ in their intent are different routes.
LEMMA ConflictHasCandidates ==
    ASSUME NEW qualified, Sortable(qualified), IntentsConflict(qualified)
    PROVE  Cardinality(IntentConflictCandidates(qualified)) >= 2
<1> DEFINE named == {q \in qualified : q.intent # None}
           f == [q \in named |-> q.intent]
<1>1. IsFiniteSet(named)
    BY FS_Subset DEF Sortable
<1>2. f \in Surjection(named, IntentIds(qualified))
    BY DEF Surjection, IntentIds
<1>3. IsFiniteSet(IntentIds(qualified))
    <2> HIDE DEF f, named
    <2> QED BY <1>1, <1>2, FS_Surjection
<1>4. PICK x, y \in IntentIds(qualified) : x # y
    BY <1>3, TwoElements DEF IntentsConflict
<1>5. \E q, r \in named : q # r
    BY <1>4 DEF IntentIds
<1> QED BY <1>1, <1>5, TwoElements DEF IntentConflictCandidates

\* A route leads others when it is ahead of each of them by the margin.
Leads(q, routes, margin) == \A p \in routes : p = q \/ q.score - p.score >= margin

\* The routes the best of them is ahead of by less than the margin
Near(routes, margin) == {q \in routes : \A p \in routes : p.score - q.score < margin}

\* Among two routes of the highest priority or more, the margin finds a winner or
\* two contenders or more.
LEMMA MarginDecides ==
    ASSUME NEW routes, Sortable(routes), Cardinality(routes) >= 2,
           NEW margin \in Int, margin > 0
    PROVE  LET resolution == ResolveByMargin(routes, margin)
           IN  \/ \E q \in routes : /\ resolution.winners = {q}
                                    /\ Leads(q, routes, margin)
               \/ /\ resolution.winners = {}
                  /\ resolution.contenders = Near(routes, margin)
                  /\ Cardinality(resolution.contenders) >= 2
<1> DEFINE ordered == Ordered(routes)
           top     == ordered[1].score
           tied    == {r \in routes : r.score = top}
           within  == {r \in routes : top - r.score < margin}
           resolution == ResolveByMargin(routes, margin)
<1>1. Cardinality(routes) \in Nat /\ IsFiniteSet(routes)
    BY TwoElements DEF Sortable
<1>2. ordered \in [1..Cardinality(routes) -> routes] /\ InOrder(ordered)
    BY OrderedIsEnumeration
<1>3. /\ ordered[1] \in routes /\ ordered[2] \in routes
      /\ ordered[1] # ordered[2]
    <2>1. 1 \in 1..Cardinality(routes) /\ 2 \in 1..Cardinality(routes)
        BY <1>1
    <2>2. Precedes(ordered[1], ordered[2])
        BY <1>2, <2>1 DEF InOrder
    <2> HIDE DEF ordered
    <2> QED BY <1>2, <2>1, <2>2, PrecedesIsTotalOrder
<1>4. top \in Int /\ \A r \in routes : r.score \in Int
    BY <1>3 DEF Sortable
<1>8. \A p \in routes : p.score <= ordered[1].score
    <2> SUFFICES ASSUME NEW p \in routes PROVE p.score <= ordered[1].score
        OBVIOUS
    <2>1. PICK i \in 1..Cardinality(routes) : ordered[i] = p
        BY OrderedIsEnumeration
    <2>2. 1 \in 1..Cardinality(routes) /\ (i = 1 \/ 1 < i)
        BY <1>1, <2>1
    <2>3. p = ordered[1] \/ Precedes(ordered[1], p)
        BY <1>2, <2>1, <2>2 DEF InOrder
    <2>4. p.score \in Int /\ ordered[1].score \in Int
        BY <1>3, <1>4
    <2> HIDE DEF ordered
    <2> QED BY <2>3, <2>4 DEF Precedes
<1>9. within = Near(routes, margin)
    <2>1. ASSUME NEW r \in within, NEW p \in routes PROVE p.score - r.score < margin
        <3>1. /\ p.score <= top /\ top - r.score < margin
              /\ p.score \in Int /\ r.score \in Int /\ top \in Int
            BY <1>4, <1>8
        <3> HIDE DEF top
        <3> QED BY <3>1
    <2> HIDE DEF ordered
    <2> QED BY <1>3, <2>1 DEF Near
<1>5. CASE Cardinality(tied) >= 2
    <2>1. resolution.winners = {} /\ resolution.contenders = within
        BY <1>5 DEF ResolveByMargin
    <2>2. tied \subseteq within
        BY <1>4
    <2>3. IsFiniteSet(tied) /\ IsFiniteSet(within) /\ within \in SUBSET routes
        BY <1>1, FS_Subset
    <2>4. \E q, r \in tied : q # r
        BY <1>5, <2>3, TwoElements
    <2> HIDE DEF tied, within
    <2>5. Cardinality(within) >= 2
        BY <2>2, <2>3, <2>4, TwoOrMore
    <2> QED BY <1>9, <2>1, <2>5
<1>6. CASE ~ (Cardinality(tied) >= 2) /\ top - ordered[2].score >= margin
    <2>1. resolution.winners = {ordered[1]}
        BY <1>6 DEF ResolveByMargin
    <2>2. ASSUME NEW p \in routes, p # ordered[1]
          PROVE  ordered[1].score - p.score >= margin
        <3>1. PICK i \in 1..Cardinality(routes) : ordered[i] = p
            BY OrderedIsEnumeration
        <3>2. p = ordered[2] \/ Precedes(ordered[2], p)
            <4>1. 2 \in 1..Cardinality(routes) /\ (i = 2 \/ 2 < i)
                BY <1>1, <2>2, <3>1
            <4> QED BY <1>2, <3>1, <4>1 DEF InOrder
        <3>3. p.score <= ordered[2].score
            BY <1>3, <1>4, <3>2 DEF Precedes
        <3>4. ordered[1].score \in Int /\ ordered[2].score \in Int /\ p.score \in Int
            BY <1>3, <1>4
        <3> HIDE DEF ordered
        <3> QED BY <1>6, <3>3, <3>4
    <2>3. Leads(ordered[1], routes, margin)
        BY <2>2 DEF Leads
    <2> QED BY <1>3, <2>1, <2>3
<1>7. CASE ~ (Cardinality(tied) >= 2) /\ ~ (top - ordered[2].score >= margin)
    <2>1. resolution.winners = {} /\ resolution.contenders = within
        BY <1>7 DEF ResolveByMargin
    <2>2. ordered[1] \in within /\ ordered[2] \in within
        BY <1>3, <1>4, <1>7
    <2>3. IsFiniteSet(within) /\ within \in SUBSET routes
        BY <1>1, FS_Subset
    <2> HIDE DEF within, ordered
    <2>4. Cardinality(within) >= 2
        BY <1>3, <2>2, <2>3, TwoOrMore
    <2> QED BY <1>9, <2>1, <2>4
<1> QED BY <1>5, <1>6, <1>7

\* Of finitely many routes some have the highest priority.
LEMMA SomeHighestPriority ==
    ASSUME NEW routes, IsFiniteSet(routes), routes # {},
           \A q \in routes : q.priority \in Int
    PROVE  HighestPriority(routes) # {}
<1> DEFINE priorities == {q.priority : q \in routes}
           f == [q \in routes |-> q.priority]
<1>1. f \in Surjection(routes, priorities)
    BY DEF Surjection
<1>2. IsFiniteSet(priorities)
    <2> HIDE DEF f, priorities
    <2> QED BY <1>1, FS_Surjection
<1>3. priorities \in SUBSET Int /\ priorities # {}
    OBVIOUS
<1>4. PICK n \in priorities : \A m \in priorities : m <= n
    <2> HIDE DEF priorities
    <2> QED BY <1>2, <1>3, GreatestInteger
<1>5. PICK q \in routes : q.priority = n
    OBVIOUS
<1> QED BY <1>4, <1>5 DEF HighestPriority

\* What it takes to win: no other intent competes, no other route has a higher
\* priority, and the margin is kept over those of the same priority.
Wins(q, qualified, margin) ==
    /\ ~ IntentsConflict(qualified)
    /\ q \in HighestPriority(qualified)
    /\ Leads(q, HighestPriority(qualified), margin)

\* What the policy leaves undominated is what is near the best of the highest priority.
LEMMA UndominatedIsNear ==
    ASSUME NEW qualified, Sortable(qualified), \A q \in qualified : q.priority \in Int,
           NEW margin \in Int, margin > 0
    PROVE  Undominated(qualified, margin) = Near(HighestPriority(qualified), margin)
<1> DEFINE top == HighestPriority(qualified)
<1>1. \A q \in qualified : q.priority \in Int /\ q.score \in Int
    BY DEF Sortable
<1>2. ASSUME NEW q \in Undominated(qualified, margin) PROVE q \in Near(top, margin)
    <2>1. q \in qualified /\ \A p \in qualified : ~ Dominates(p, q, margin)
        BY DEF Undominated
    <2>2. q \in top
        BY <1>1, <2>1 DEF Dominates, HighestPriority
    <2>3. ASSUME NEW p \in top PROVE p.score - q.score < margin
        <3>1. p \in qualified /\ p.priority = q.priority
            BY <1>1, <2>2 DEF HighestPriority
        <3>2. p.score \in Int /\ q.score \in Int
            BY <1>1, <2>1, <3>1
        <3>3. ~ (p.score > q.score /\ p.score - q.score >= margin)
            BY <2>1, <3>1 DEF Dominates
        <3> QED BY <3>2, <3>3
    <2> QED BY <2>2, <2>3 DEF Near
<1>3. ASSUME NEW q \in Near(top, margin) PROVE q \in Undominated(qualified, margin)
    <2>1. q \in top /\ q \in qualified /\ \A p \in top : p.score - q.score < margin
        BY DEF Near, HighestPriority
    <2>2. ASSUME NEW p \in qualified PROVE ~ Dominates(p, q, margin)
        <3>1. p.priority <= q.priority /\ p.priority \in Int /\ q.priority \in Int
            BY <1>1, <2>1 DEF HighestPriority
        <3>2. CASE p.priority = q.priority
            <4>1. p \in top
                BY <2>1, <3>2 DEF HighestPriority
            <4>2. p.score - q.score < margin /\ p.score \in Int /\ q.score \in Int
                BY <1>1, <2>1, <4>1
            <4> QED BY <3>1, <3>2, <4>2 DEF Dominates
        <3> QED BY <3>1, <3>2 DEF Dominates
    <2> QED BY <2>1, <2>2 DEF Undominated
<1> QED BY <1>2, <1>3 DEF top

\* Intents differ by count when two of them do.
LEMMA ConflictIsDifference ==
    ASSUME NEW qualified, Sortable(qualified)
    PROVE  IntentsConflict(qualified) <=> DifferentIntents(qualified)
<1> DEFINE named == {q \in qualified : q.intent # None}
           f == [q \in named |-> q.intent]
<1>1. IsFiniteSet(named)
    BY FS_Subset DEF Sortable
<1>2. f \in Surjection(named, IntentIds(qualified))
    BY DEF Surjection, IntentIds
<1>3. IsFiniteSet(IntentIds(qualified))
    <2> HIDE DEF f, named
    <2> QED BY <1>1, <1>2, FS_Surjection
<1>4. IntentsConflict(qualified) <=> \E x, y \in IntentIds(qualified) : x # y
    BY <1>3, TwoElements DEF IntentsConflict
<1>5. (\E x, y \in IntentIds(qualified) : x # y) <=> DifferentIntents(qualified)
    BY DEF IntentIds, DifferentIntents
<1> QED BY <1>4, <1>5

\* Who leads is alone near the best.
LEMMA LeaderIsAlone ==
    ASSUME NEW routes, \A p \in routes : p.score \in Int, NEW margin \in Int, margin > 0,
           NEW q \in routes, Leads(q, routes, margin)
    PROVE  Near(routes, margin) = {q}
<1>1. ASSUME NEW p \in routes, p # q PROVE p \notin Near(routes, margin)
    <2>1. q.score - p.score >= margin /\ q.score \in Int /\ p.score \in Int
        BY <1>1 DEF Leads
    <2> QED BY <2>1 DEF Near
<1>2. \A p \in routes : p.score - q.score < margin
    <2> SUFFICES ASSUME NEW p \in routes PROVE p.score - q.score < margin
        OBVIOUS
    <2>1. p = q \/ q.score - p.score >= margin
        BY DEF Leads
    <2>2. q.score \in Int /\ p.score \in Int
        OBVIOUS
    <2> QED BY <2>1, <2>2
<1> QED BY <1>1, <1>2 DEF Near

\* Resolving finds the contenders of the policy: none, one that wins, or several.
LEMMA ResolveFinds ==
    ASSUME NEW qualified, Sortable(qualified), \A q \in qualified : q.priority \in Int,
           NEW margin \in Int, margin > 0
    PROVE  LET d          == Resolve(qualified, margin)
               contenders == Contenders(qualified, margin)
           IN  \/ qualified = {} /\ d = Unrouted
               \/ Cardinality(contenders) >= 2 /\ d = Ambiguous(contenders)
               \/ \E q \in qualified :
                      /\ contenders = {q} /\ Wins(q, qualified, margin)
                      /\ d = Routed(q, Cardinality(qualified) > 1)
<1> DEFINE top        == HighestPriority(qualified)
           resolution == ResolveByMargin(top, margin)
           d          == Resolve(qualified, margin)
           contenders == Contenders(qualified, margin)
<1>1. IsFiniteSet(qualified)
    BY DEF Sortable
<1>2. CASE qualified = {}
    <2>1. ~ IntentsConflict(qualified)
        BY <1>2, ConflictIsDifference DEF DifferentIntents
    <2>2. d = Unrouted
        BY <1>2, <2>1, Zenon DEF Resolve
    <2> QED BY <1>2, <2>2
<1>3. CASE qualified # {} /\ IntentsConflict(qualified)
    <2>1. d = Ambiguous(IntentConflictCandidates(qualified))
        BY <1>3, Zenon DEF Resolve
    <2>2. Cardinality(IntentConflictCandidates(qualified)) >= 2
        BY <1>3, ConflictHasCandidates
    <2>3. contenders = IntentConflictCandidates(qualified)
        BY <1>3, ConflictIsDifference, Zenon DEF Contenders, IntentConflictCandidates
    <2> QED BY <2>1, <2>2, <2>3
<1>4. CASE qualified # {} /\ ~ IntentsConflict(qualified)
    <2>1. top # {} /\ top \in SUBSET qualified
        BY <1>1, <1>4, SomeHighestPriority DEF HighestPriority
    <2>2. Sortable(top) /\ \A q \in top : q.score \in Int
        BY <2>1, PartSortable DEF Sortable
    <2>3. contenders = Near(top, margin)
        <3>1. contenders = Undominated(qualified, margin)
            BY <1>4, ConflictIsDifference, Zenon DEF Contenders
        <3> QED BY <3>1, UndominatedIsNear
    <2> HIDE DEF d, contenders
    <2>4. ASSUME NEW q \in top, Leads(q, top, margin), d = Routed(q, Cardinality(qualified) > 1)
          PROVE  \E w \in qualified :
                     /\ contenders = {w} /\ Wins(w, qualified, margin)
                     /\ d = Routed(w, Cardinality(qualified) > 1)
        <3>1. contenders = {q}
            BY <2>2, <2>3, <2>4, LeaderIsAlone
        <3>2. Wins(q, qualified, margin) /\ q \in qualified
            BY <1>4, <2>1, <2>4 DEF Wins
        <3> QED BY <2>4, <3>1, <3>2, Zenon
    <2>5. CASE Cardinality(top) = 1
        <3>1. d = Routed(CHOOSE q \in top : TRUE, Cardinality(qualified) > 1)
            BY <1>4, <2>5, Zenon DEF Resolve, d
        <3>2. PICK q \in top : top = {q}
            BY <1>1, <2>1, <2>5, FS_Subset, TwoElements
        <3>3. Leads(q, top, margin) /\ (CHOOSE w \in top : TRUE) = q
            BY <3>2 DEF Leads
        <3> HIDE DEF top
        <3> QED BY <2>4, <3>1, <3>3 DEF d, contenders
    <2>6. CASE Cardinality(top) # 1
        <3>1. Cardinality(top) >= 2
            BY <2>1, <2>2, <2>6, TwoElements DEF Sortable
        <3>2. \/ \E q \in top : resolution.winners = {q} /\ Leads(q, top, margin)
              \/ /\ resolution.winners = {}
                 /\ resolution.contenders = Near(top, margin)
                 /\ Cardinality(resolution.contenders) >= 2
            BY <2>2, <3>1, MarginDecides
        <3>3. CASE \E q \in top : resolution.winners = {q} /\ Leads(q, top, margin)
            <4>1. PICK q \in top : resolution.winners = {q} /\ Leads(q, top, margin)
                BY <3>3
            <4>2. resolution.winners # {} /\ (CHOOSE w \in resolution.winners : TRUE) = q
                BY <4>1
            <4>3. d = Routed(CHOOSE w \in resolution.winners : TRUE, TRUE)
                BY <1>4, <2>6, <4>2, Zenon DEF Resolve, d
            <4>4. (Cardinality(qualified) > 1) = TRUE
                <5>1. /\ Cardinality(top) <= Cardinality(qualified)
                      /\ Cardinality(top) \in Nat /\ Cardinality(qualified) \in Nat
                    BY <1>1, <2>1, FS_Subset, FS_CardinalityType
                <5> QED BY <3>1, <5>1
            <4>5. d = Routed(q, Cardinality(qualified) > 1)
                BY <4>2, <4>3, <4>4, Zenon
            <4> HIDE DEF top
            <4> QED BY <2>4, <4>1, <4>5 DEF d, contenders
        <3>4. CASE /\ resolution.winners = {}
                   /\ resolution.contenders = Near(top, margin)
                   /\ Cardinality(resolution.contenders) >= 2
            <4>1. Near(top, margin) \in SUBSET qualified
                BY <2>1 DEF Near
            <4>2. ~ (Cardinality(resolution.contenders) < 2)
                <5>1. Cardinality(resolution.contenders) \in Nat
                    BY <1>1, <3>4, <4>1, FS_Subset, FS_CardinalityType
                <5> QED BY <3>4, <5>1
            <4>3. d = Ambiguous(resolution.contenders)
                BY <1>4, <2>6, <3>4, <4>2, Zenon DEF Resolve, d
            <4> QED BY <2>3, <3>4, <4>3, Zenon DEF d, contenders
        <3> QED BY <3>2, <3>3, <3>4
    <2> QED BY <2>5, <2>6 DEF d, contenders
<1> QED BY <1>2, <1>3, <1>4

\* In particular it never finds fewer contenders than an ambiguity has.
LEMMA ResolveCases ==
    ASSUME NEW qualified, Sortable(qualified), \A q \in qualified : q.priority \in Int,
           NEW margin \in Int, margin > 0
    PROVE  LET d == Resolve(qualified, margin)
           IN  \/ qualified = {} /\ d = Unrouted
               \/ \E routes \in SUBSET qualified :
                      Cardinality(routes) >= 2 /\ d = Ambiguous(routes)
               \/ \E q \in qualified, b \in BOOLEAN :
                   Wins(q, qualified, margin) /\ d = Routed(q, b)
<1> DEFINE d == Resolve(qualified, margin)
<1>1. Contenders(qualified, margin) \in SUBSET qualified
    BY DEF Contenders, Undominated
<1>2. (Cardinality(qualified) > 1) \in BOOLEAN
    BY FS_CardinalityType DEF Sortable
<1> HIDE DEF d
<1>3. \/ qualified = {} /\ d = Unrouted
      \/ /\ Cardinality(Contenders(qualified, margin)) >= 2
         /\ d = Ambiguous(Contenders(qualified, margin))
      \/ \E q \in qualified :
             Wins(q, qualified, margin) /\ d = Routed(q, Cardinality(qualified) > 1)
    BY ResolveFinds DEF d
<1> QED BY <1>1, <1>2, <1>3, Zenon DEF d

\* What wins is routed.
LEMMA WinnerIsRouted ==
    ASSUME NEW qualified, Sortable(qualified), NEW margin \in Int, margin > 0,
           NEW q \in qualified, Wins(q, qualified, margin)
    PROVE  \E b \in BOOLEAN : Resolve(qualified, margin) = Routed(q, b)
<1> DEFINE top        == HighestPriority(qualified)
           resolution == ResolveByMargin(top, margin)
           ordered    == Ordered(top)
           tied       == {r \in top : r.score = ordered[1].score}
           d          == Resolve(qualified, margin)
<1>1. q \in top /\ Leads(q, top, margin) /\ ~ IntentsConflict(qualified) /\ qualified # {}
    BY DEF Wins
<1>2. Sortable(top)
    BY PartSortable DEF HighestPriority
<1>3. IsFiniteSet(top) /\ IsFiniteSet(qualified)
    BY <1>2 DEF Sortable
<1>4. CASE Cardinality(top) = 1
    <2>1. top = {q}
        BY <1>1, <1>3, <1>4, TwoElements
    <2>2. (CHOOSE w \in top : TRUE) = q
        BY <2>1
    <2>3. (Cardinality(qualified) > 1) \in BOOLEAN
        BY <1>3, FS_CardinalityType
    <2>4. d = Routed(CHOOSE w \in top : TRUE, Cardinality(qualified) > 1)
        BY <1>1, <1>4, Zenon DEF Resolve
    <2> QED BY <2>2, <2>3, <2>4, Zenon
<1>5. CASE Cardinality(top) # 1
    <2>1. Cardinality(top) \in Nat /\ Cardinality(top) >= 2
        BY <1>1, <1>3, <1>5, TwoElements
    <2>2. /\ ordered \in [1..Cardinality(top) -> top] /\ InOrder(ordered)
          /\ \E i \in 1..Cardinality(top) : ordered[i] = q
        BY <1>1, <1>2, OrderedIsEnumeration
    <2>3. /\ 1 \in 1..Cardinality(top) /\ 2 \in 1..Cardinality(top)
          /\ \A i \in 1..Cardinality(top) : i = 1 \/ 1 < i
        BY <2>1
    <2>4. ordered[1] \in top /\ ordered[2] \in top
        BY <2>2, <2>3
    <2>5. \A p \in top : p.score \in Int
        BY <1>2 DEF Sortable
    <2> HIDE DEF ordered, top
    <2>6. ordered[1] = q
        <3>1. q = ordered[1] \/ Precedes(ordered[1], q)
            BY <2>2, <2>3 DEF InOrder
        <3>2. CASE q # ordered[1]
            <4>1. ordered[1].score >= q.score
                BY <1>1, <2>4, <2>5, <3>1, <3>2 DEF Precedes
            <4>2. q.score - ordered[1].score >= margin
                BY <1>1, <2>4, <3>2 DEF Leads
            <4>3. ordered[1].score \in Int /\ q.score \in Int
                BY <1>1, <2>4, <2>5
            <4> QED BY <4>1, <4>2, <4>3
        <3> QED BY <3>2
    <2>7. ordered[2] # q
        <3>1. Precedes(ordered[1], ordered[2])
            BY <2>2, <2>3 DEF InOrder
        <3> QED BY <1>2, <2>4, <2>6, <3>1, PrecedesIsTotalOrder
    <2>8. ordered[1].score - ordered[2].score >= margin
        BY <1>1, <2>4, <2>6, <2>7 DEF Leads
    <2>9. ~ (Cardinality(tied) >= 2)
        <3>1. \A p \in tied : p = q
            <4> SUFFICES ASSUME NEW p \in top, p.score = q.score, p # q PROVE FALSE
                BY <2>6
            <4>1. q.score - p.score >= margin
                BY <1>1 DEF Leads
            <4> QED BY <1>1, <2>5, <4>1
        <3>2. IsFiniteSet(tied)
            BY <1>3, FS_Subset
        <3> HIDE DEF tied
        <3> QED BY <3>1, <3>2, TwoElements
    <2>10. resolution.winners = {ordered[1]}
        BY <2>8, <2>9 DEF ResolveByMargin, ordered, top
    <2>11. resolution.winners # {} /\ (CHOOSE w \in resolution.winners : TRUE) = q
        BY <2>6, <2>10
    <2>12. d = Routed(CHOOSE w \in resolution.winners : TRUE, TRUE)
        BY <1>1, <1>5, <2>11, Zenon DEF Resolve, top
    <2> QED BY <2>11, <2>12, Zenon
<1> QED BY <1>4, <1>5

\* What wins also wins among fewer.
LEMMA WinsAmongFewer ==
    ASSUME NEW qualified, Sortable(qualified), \A q \in qualified : q.priority \in Int,
           NEW part \in SUBSET qualified, NEW margin,
           NEW q \in part, Wins(q, qualified, margin)
    PROVE  Wins(q, part, margin)
<1>1. ~ IntentsConflict(part)
    <2> DEFINE f == [p \in {r \in qualified : r.intent # None} |-> p.intent]
    <2>1. IsFiniteSet({r \in qualified : r.intent # None})
        BY FS_Subset DEF Sortable
    <2>2. f \in Surjection({r \in qualified : r.intent # None}, IntentIds(qualified))
        BY DEF Surjection, IntentIds
    <2>3. IsFiniteSet(IntentIds(qualified))
        <3> HIDE DEF f
        <3> QED BY <2>1, <2>2, FS_Surjection
    <2>4. IntentIds(part) \in SUBSET IntentIds(qualified)
        BY DEF IntentIds
    <2>5. /\ Cardinality(IntentIds(part)) <= Cardinality(IntentIds(qualified))
          /\ Cardinality(IntentIds(part)) \in Nat
          /\ Cardinality(IntentIds(qualified)) \in Nat
        BY <2>3, <2>4, FS_Subset, FS_CardinalityType
    <2> QED BY <2>5 DEF Wins, IntentsConflict
<1>2. q \in HighestPriority(part)
    BY DEF Wins, HighestPriority
<1>3. HighestPriority(part) \subseteq HighestPriority(qualified)
    <2> SUFFICES ASSUME NEW p \in HighestPriority(part), NEW r \in qualified
                 PROVE  p \in qualified /\ r.priority <= p.priority
        BY DEF HighestPriority
    <2>1. p \in part /\ q.priority <= p.priority /\ r.priority <= q.priority
        BY DEF HighestPriority, Wins
    <2> QED BY <2>1
<1> QED BY <1>1, <1>2, <1>3 DEF Wins, Leads

\* Over an admitted ruleset the pipeline runs to its end, but for evidence that
\* matches and has no id.
LEMMA PipelineRuns ==
    ASSUME NEW rs, SaneRuleset(rs), NEW message
    PROVE  LET domains == Evaluations(message, rs.domains, rs.router)
               intents == Evaluations(message, rs.intents, rs.router)
               d == DecideAutomatically(message, rs)
           IN  /\ UnnamedMatch(message, rs) => d = Raised("VALIDATION_ERROR")
               /\ ~UnnamedMatch(message, rs) =>
                      d = Resolve(QualifiedRoutes(rs, domains, intents),
                                  rs.router.minimum_margin)
<1> DEFINE domains == Evaluations(message, rs.domains, rs.router)
           intents == Evaluations(message, rs.intents, rs.router)
<1>1. DOMAIN domains = DOMAIN rs.domains /\ DOMAIN intents = DOMAIN rs.intents
    BY DEF Evaluations
<1>2. /\ ~ (ScoringRefused(rs.domains) \/ ScoringRefused(rs.intents))
      /\ ~ QualificationRefused(rs, domains, intents)
    <2> HIDE DEF domains, intents
    <2> QED BY <1>1, NothingRefused
<1>3. UnnamedMatch(message, rs) =>
          DecideAutomatically(message, rs) = Raised("VALIDATION_ERROR")
    BY Zenon DEF DecideAutomatically
<1>4. ~UnnamedMatch(message, rs) =>
          DecideAutomatically(message, rs)
            = Resolve(QualifiedRoutes(rs, domains, intents), rs.router.minimum_margin)
    BY <1>2, Zenon DEF DecideAutomatically
<1> QED BY <1>3, <1>4, Zenon

\* What automatic routing decides over an admitted ruleset
LEMMA AutomaticCases ==
    ASSUME NEW rs, SaneRuleset(rs), NEW message, ~UnnamedMatch(message, rs)
    PROVE  LET domains == Evaluations(message, rs.domains, rs.router)
               intents == Evaluations(message, rs.intents, rs.router)
               qualified == QualifiedRoutes(rs, domains, intents)
               margin == rs.router.minimum_margin
               d == DecideAutomatically(message, rs)
           IN  /\ Sortable(qualified)
               /\ \A q \in qualified : IsQualified(q, rs, domains, intents)
               /\ \/ qualified = {} /\ d = Unrouted
                  \/ \E routes \in SUBSET qualified :
                         Cardinality(routes) >= 2 /\ d = Ambiguous(routes)
                  \/ \E q \in qualified, b \in BOOLEAN :
                      Wins(q, qualified, margin) /\ d = Routed(q, b)
<1> DEFINE domains == Evaluations(message, rs.domains, rs.router)
           intents == Evaluations(message, rs.intents, rs.router)
           qualified == QualifiedRoutes(rs, domains, intents)
           margin == rs.router.minimum_margin
           d == DecideAutomatically(message, rs)
<1>1. /\ rs.router.strong \in Int /\ rs.router.medium \in Int /\ rs.router.weak \in Int
      /\ margin \in Int /\ margin > 0
      /\ SaneTargets(rs.domains) /\ SaneTargets(rs.intents)
    BY DEF SaneRuleset
<1>2. /\ DOMAIN domains = DOMAIN rs.domains /\ DOMAIN intents = DOMAIN rs.intents
      /\ \A t \in DOMAIN domains : domains[t].score \in Int
      /\ \A t \in DOMAIN intents : intents[t].score \in Int
    BY <1>1, EvaluationsOf
<1>3. d = Resolve(qualified, margin)
    BY PipelineRuns, Zenon
<1>4. /\ Sortable(qualified)
      /\ \A q \in qualified : IsQualified(q, rs, domains, intents)
    <2> HIDE DEF domains, intents
    <2> QED BY <1>2, QualifiedAreSortable
<1>5. \A q \in qualified : q.priority \in Int
    BY <1>4 DEF IsQualified
<1> HIDE DEF qualified, margin
<1>6. \/ qualified = {} /\ d = Unrouted
      \/ \E routes \in SUBSET qualified :
             Cardinality(routes) >= 2 /\ d = Ambiguous(routes)
      \/ \E q \in qualified, b \in BOOLEAN :
          Wins(q, qualified, margin) /\ d = Routed(q, b)
    BY <1>1, <1>3, <1>4, <1>5, ResolveCases
<1> QED BY <1>4, <1>6 DEF qualified, margin

\* A ruleset without one of its routes
Without(rs, r) ==
    [rs EXCEPT !.routes = [s \in DOMAIN rs.routes \ {r} |-> rs.routes[s]]]

\* Withdrawing a route withdraws it from those that qualify, and nothing else.
LEMMA WithdrawnRoute ==
    ASSUME NEW d, NEW rs, rs = RulesetSnapshot(d), SaneRuleset(rs), NEW r,
           NEW domains, NEW intents
    PROVE  LET without == Without(rs, r)
           IN  /\ SaneRuleset(without)
               /\ without.router = rs.router
               /\ without.domains = rs.domains /\ without.intents = rs.intents
               /\ QualifiedRoutes(without, domains, intents)
                    = {q \in QualifiedRoutes(rs, domains, intents) : q.route_id # r}
<1> DEFINE without == Without(rs, r)
<1>1. /\ without.router = rs.router /\ without.profiles = rs.profiles
      /\ without.domains = rs.domains /\ without.intents = rs.intents
      /\ without.routes = [s \in DOMAIN rs.routes \ {r} |-> rs.routes[s]]
    BY DEF Without, RulesetSnapshot
<1> HIDE DEF without
<1>2. /\ DOMAIN without.routes = DOMAIN rs.routes \ {r}
      /\ \A s \in DOMAIN without.routes : without.routes[s] = rs.routes[s]
    BY <1>1
<1>3. EnabledRoutes(without) = EnabledRoutes(rs) \ {r}
    BY <1>2 DEF EnabledRoutes
<1>4. \A s \in EnabledRoutes(without) : SaneRoute(without.routes[s], without)
    <2> SUFFICES ASSUME NEW s \in EnabledRoutes(without)
                 PROVE  SaneRoute(without.routes[s], without)
        OBVIOUS
    <2>1. SaneRoute(rs.routes[s], rs) /\ without.routes[s] = rs.routes[s]
        BY <1>2, <1>3 DEF SaneRuleset, EnabledRoutes
    <2> QED BY <1>1, <2>1 DEF SaneRoute
<1>5. SaneRuleset(without)
    <2>1. IsFiniteSet(DOMAIN without.routes) /\ DOMAIN without.routes \subseteq Int
        BY <1>2, FS_Subset DEF SaneRuleset
    <2> QED BY <1>1, <1>4, <2>1 DEF SaneRuleset
<1>6. QualifiedRoutes(without, domains, intents)
        = {q \in QualifiedRoutes(rs, domains, intents) : q.route_id # r}
    <2> DEFINE Entry(s) == [route_id |-> s,
                            profile  |-> rs.routes[s].profile,
                            priority |-> rs.routes[s].priority,
                            score    |-> ComparisonScore(rs.routes[s], domains, intents),
                            intent   |-> rs.routes[s].intent]
               chosen == {s \in EnabledRoutes(rs) : Satisfied(rs.routes[s], domains, intents)}
    <2>1. QualifiedRoutes(rs, domains, intents) = {Entry(s) : s \in chosen}
        BY DEF QualifiedRoutes
    <2>2. QualifiedRoutes(without, domains, intents) = {Entry(s) : s \in chosen \ {r}}
        BY <1>2, <1>3 DEF QualifiedRoutes, EnabledRoutes
    <2>3. \A s \in chosen : Entry(s).route_id = s
        OBVIOUS
    <2> HIDE DEF Entry, chosen
    <2> QED BY <2>1, <2>2, <2>3
<1> QED BY <1>1, <1>5, <1>6 DEF without

-----------------------------------------------------------------------------
(* The decisions themselves                                                *)

LEMMA UnroutedFacts ==
    /\ ~ Failed(Unrouted) /\ Unrouted.state = "unrouted"
    /\ SatisfiesContract(Unrouted)
BY DEF Unrouted, Failed, SatisfiesContract

LEMMA RaisedFacts ==
    ASSUME NEW code
    PROVE  Failed(Raised(code)) /\ Raised(code).error = code
BY DEF Raised, Failed

LEMMA ExplicitFacts ==
    ASSUME NEW profile, profile # None
    PROVE  LET d == Explicit(profile)
           IN  /\ ~ Failed(d) /\ d.state = "explicit"
               /\ d.profile = profile /\ d.route_id = None
               /\ SatisfiesContract(d)
<1> DEFINE d == Explicit(profile)
<1>1. /\ ~ Failed(d) /\ d.state = "explicit" /\ d.profile = profile /\ d.route_id = None
    BY DEF Explicit, Unrouted, Failed
<1>2. d = Explicit(d.profile)
    BY <1>1
<1> HIDE DEF d
<1>3. SatisfiesContract(d)
    BY <1>1, <1>2 DEF SatisfiesContract
<1> QED BY <1>1, <1>3 DEF d

LEMMA RoutedFacts ==
    ASSUME NEW q, q.profile # None, q.route_id \in Int, q.score \in Int,
           NEW b \in BOOLEAN
    PROVE  LET d == Routed(q, b)
           IN  \/ /\ d = Raised("INVALID_RULESET")
                  /\ q.profile \notin DOMAIN RoutingReason
               \/ /\ ~ Failed(d) /\ d.state = "routed"
                  /\ d.profile = q.profile /\ d.route_id = q.route_id
                  /\ SatisfiesContract(d)
<1> DEFINE d == Routed(q, b)
<1>1. CASE q.profile \notin DOMAIN RoutingReason
    BY <1>1 DEF Routed
<1>2. CASE q.profile \in DOMAIN RoutingReason
    <2>1. RoutingReason[q.profile] \in RoutedReasons
        BY <1>2 DEF RoutingReason, RoutedReasons
    <2>2. d = [Unrouted EXCEPT !.state = "routed", !.profile = q.profile,
                               !.route_id = q.route_id,
                               !.comparison_score = q.score,
                               !.reason = RoutingReason[q.profile],
                               !.conflict_resolved = b]
        BY <1>2 DEF Routed
    <2>3. /\ ~ Failed(d) /\ d.state = "routed"
          /\ d.profile = q.profile /\ d.route_id = q.route_id
          /\ d.comparison_score = q.score
          /\ d.mode = "auto" /\ d.reason = RoutingReason[q.profile]
          /\ d.candidates = << >>
        <3> HIDE DEF d
        <3> QED BY <2>2 DEF Unrouted, Failed
    <2>4. q.route_id # None /\ q.score # None
        BY NoneAssumption
    <2> HIDE DEF d
    <2>5. SatisfiesContract(d)
        BY <2>1, <2>3, <2>4 DEF SatisfiesContract
    <2> QED BY <2>3, <2>5 DEF d
<1> QED BY <1>1, <1>2

LEMMA AmbiguousFacts ==
    ASSUME NEW routes, Sortable(routes), Cardinality(routes) >= 2
    PROVE  LET d == Ambiguous(routes)
           IN  ~ Failed(d) /\ d.state = "ambiguous" /\ SatisfiesContract(d)
<1> DEFINE d == Ambiguous(routes)
           n == Cardinality(routes)
           ordered == Ordered(routes)
           c == Candidates(routes)
<1>1. n \in Nat
    BY TwoElements DEF Sortable
<1>2. ordered \in [1..n -> routes] /\ InOrder(ordered)
    BY OrderedIsEnumeration
<1>3. c = [i \in 1..n |-> [route_id |-> ordered[i].route_id,
                           profile  |-> ordered[i].profile,
                           comparison_score |-> ordered[i].score]]
    BY <1>2 DEF Candidates
<1>4. d = [Unrouted EXCEPT !.state = "ambiguous", !.reason = "ambiguous_route",
                           !.candidates = c]
    BY DEF Ambiguous
<1> HIDE DEF n, ordered, c, d
<1>5. \A i \in 1..n : /\ c[i].route_id = ordered[i].route_id
                      /\ c[i].comparison_score = ordered[i].score
    BY <1>3
<1>6. DOMAIN c = 1..n /\ Len(c) = n
    BY <1>1, <1>3
<1>7. ~ Failed(d) /\ d.state = "ambiguous" /\ d.candidates = c
    BY <1>4 DEF Unrouted, Failed
<1>8. \A i, j \in 1..n : i < j =>
          /\ ordered[i].route_id # ordered[j].route_id
          /\ \/ ordered[i].score > ordered[j].score
             \/ /\ ordered[i].score = ordered[j].score
                /\ ordered[i].route_id < ordered[j].route_id
    <2> SUFFICES ASSUME NEW i \in 1..n, NEW j \in 1..n, i < j
                 PROVE  /\ ordered[i].route_id # ordered[j].route_id
                        /\ \/ ordered[i].score > ordered[j].score
                           \/ /\ ordered[i].score = ordered[j].score
                              /\ ordered[i].route_id < ordered[j].route_id
        OBVIOUS
    <2>1. ordered[i] \in routes /\ ordered[j] \in routes
        BY <1>2
    <2>2. Precedes(ordered[i], ordered[j])
        BY <1>2 DEF InOrder
    <2>3. ordered[i] # ordered[j]
        BY <2>1, <2>2, PrecedesIsTotalOrder
    <2>4. ordered[i].route_id # ordered[j].route_id
        BY <2>1, <2>3 DEF Sortable
    <2> QED BY <2>2, <2>4 DEF Precedes
<1>9. \A i, j \in DOMAIN c : i # j => c[i].route_id # c[j].route_id
    <2>1. \A i, j \in 1..n : i # j => i < j \/ j < i
        BY <1>1
    <2> QED BY <1>5, <1>6, <1>8, <2>1
<1>10. \A i \in 1..(Len(c) - 1) :
           \/ c[i].comparison_score > c[i + 1].comparison_score
           \/ /\ c[i].comparison_score = c[i + 1].comparison_score
              /\ c[i].route_id < c[i + 1].route_id
    <2>1. \A i \in 1..(n - 1) : i \in 1..n /\ i + 1 \in 1..n /\ i < i + 1
        BY <1>1
    <2> QED BY <1>5, <1>6, <1>8, <2>1
<1>11. Len(c) >= 2
    BY <1>6 DEF n
<1>12. SatisfiesContract(d)
    BY <1>4, <1>7, <1>9, <1>10, <1>11 DEF SatisfiesContract
<1> QED BY <1>7, <1>12 DEF d

\* What decide_route returns or raises over an admitted ruleset
LEMMA DecisionCases ==
    ASSUME NEW rs, SaneRuleset(rs), NEW q
    PROVE  LET d == DecideRoute(q, rs)
           IN  \/ d = Raised("INVALID_PROFILE")
               \/ /\ d = Raised("VALIDATION_ERROR")
                  /\ q.explicit_profile = None /\ UnnamedMatch(q.message, rs)
               \/ /\ Failed(d) /\ d.error = "INVALID_RULESET"
                  /\ \E r \in EnabledRoutes(rs) :
                         rs.routes[r].profile \notin DOMAIN RoutingReason
               \/ /\ ~ Failed(d) /\ SatisfiesContract(d)
                  /\ \/ d.state \in {"unrouted", "ambiguous"}
                     \/ /\ (d.state = "routed" /\ d.route_id # None)
                           \/ (d.state = "explicit" /\ d.route_id = None)
                        /\ d.profile \in DOMAIN rs.profiles
                        /\ rs.profiles[d.profile] /\ d.profile # None
<1> DEFINE d == DecideRoute(q, rs)
           domains == Evaluations(q.message, rs.domains, rs.router)
           intents == Evaluations(q.message, rs.intents, rs.router)
           qualified == QualifiedRoutes(rs, domains, intents)
           margin == rs.router.minimum_margin
<1>1. CASE q.explicit_profile # None
    <2>1. CASE /\ q.explicit_profile \in DOMAIN rs.profiles
               /\ rs.profiles[q.explicit_profile]
        <3>1. d = Explicit(q.explicit_profile)
            BY <1>1, <2>1 DEF DecideRoute
        <3> HIDE DEF d
        <3>2. /\ ~ Failed(d) /\ d.state = "explicit"
              /\ d.profile = q.explicit_profile /\ d.route_id = None
              /\ SatisfiesContract(d)
            BY <1>1, <3>1, ExplicitFacts
        <3> QED BY <1>1, <2>1, <3>2 DEF d
    <2>2. CASE ~ (/\ q.explicit_profile \in DOMAIN rs.profiles
                  /\ rs.profiles[q.explicit_profile])
        BY <1>1, <2>2 DEF DecideRoute
    <2> QED BY <2>1, <2>2
<1>2. CASE q.explicit_profile = None /\ UnnamedMatch(q.message, rs)
    <2>1. d = DecideAutomatically(q.message, rs)
        BY <1>2 DEF DecideRoute
    <2> QED BY <1>2, <2>1, PipelineRuns, Zenon
<1>3. CASE q.explicit_profile = None /\ ~UnnamedMatch(q.message, rs)
    <2>1. d = DecideAutomatically(q.message, rs)
        BY <1>3 DEF DecideRoute
    <2>2. /\ Sortable(qualified)
          /\ \A w \in qualified : IsQualified(w, rs, domains, intents)
          /\ \/ qualified = {} /\ d = Unrouted
             \/ \E routes \in SUBSET qualified :
                    Cardinality(routes) >= 2 /\ d = Ambiguous(routes)
             \/ \E w \in qualified, b \in BOOLEAN :
                    Wins(w, qualified, margin) /\ d = Routed(w, b)
        BY <1>3, <2>1, AutomaticCases, Zenon
    <2> HIDE DEF d, domains, intents, qualified, margin
    <2>3. CASE d = Unrouted
        BY <2>3, UnroutedFacts DEF d
    <2>4. ASSUME NEW routes \in SUBSET qualified,
                 Cardinality(routes) >= 2, d = Ambiguous(routes)
          PROVE  ~ Failed(d) /\ d.state = "ambiguous" /\ SatisfiesContract(d)
        BY <2>2, <2>4, PartSortable, AmbiguousFacts
    <2>5. ASSUME NEW w \in qualified, NEW b \in BOOLEAN, d = Routed(w, b)
          PROVE  \/ /\ Failed(d) /\ d.error = "INVALID_RULESET"
                    /\ \E r \in EnabledRoutes(rs) :
                           rs.routes[r].profile \notin DOMAIN RoutingReason
                 \/ /\ ~ Failed(d) /\ SatisfiesContract(d)
                    /\ d.state = "routed" /\ d.route_id # None
                    /\ d.profile \in DOMAIN rs.profiles
                    /\ rs.profiles[d.profile] /\ d.profile # None
        <3>1. /\ w.route_id \in EnabledRoutes(rs)
              /\ w.profile = rs.routes[w.route_id].profile
              /\ w.route_id \in Int /\ w.score \in Int
            BY <2>2 DEF IsQualified
        <3>2. /\ w.profile \in DOMAIN rs.profiles /\ rs.profiles[w.profile]
              /\ w.profile # None /\ w.route_id # None
            BY <3>1, NoneAssumption DEF SaneRuleset, SaneRoute
        <3>3. \/ d = Raised("INVALID_RULESET") /\ w.profile \notin DOMAIN RoutingReason
              \/ /\ ~ Failed(d) /\ d.state = "routed"
                 /\ d.profile = w.profile /\ d.route_id = w.route_id
                 /\ SatisfiesContract(d)
            BY <2>5, <3>1, <3>2, RoutedFacts
        <3>4. CASE d = Raised("INVALID_RULESET") /\ w.profile \notin DOMAIN RoutingReason
            BY <3>1, <3>4, RaisedFacts
        <3> QED BY <3>2, <3>3, <3>4
    <2> QED BY <2>2, <2>3, <2>4, <2>5 DEF d
<1> QED BY <1>1, <1>2, <1>3

\* What is routed or chosen can be dispatched.
LEMMA Dispatchable ==
    ASSUME NEW rs, NEW reg, Compatible(rs, reg), NEW d,
           ~ Failed(d), d.profile \in DOMAIN rs.profiles, rs.profiles[d.profile],
           d.profile # None,
           \/ d.state = "routed" /\ d.route_id # None
           \/ d.state = "explicit" /\ d.route_id = None
    PROVE  "model" \in DOMAIN Answer(d, reg) /\ Answer(d, reg).profile_id = d.profile
<1> DEFINE plan == [profile_id |-> d.profile, model |-> reg[d.profile].model,
                    source_state |-> d.state, route_id |-> d.route_id]
<1>1. d.profile \in DOMAIN reg /\ reg[d.profile].enabled
    BY DEF Compatible
<1>2. /\ d.state \in {"routed", "explicit"}
      /\ ~ (d.profile = None \/ (d.state = "routed") = (d.route_id = None))
    OBVIOUS
<1>3. DispatchPlan(d, reg) = plan
    BY <1>1, <1>2 DEF DispatchPlan
<1>4. ~ Failed(plan)
    BY DEF Failed
<1>5. Answer(d, reg) = plan
    BY <1>2, <1>3, <1>4 DEF Answer
<1> QED BY <1>5
-----------------------------------------------------------------------------
(* The policy                                                              *)

\* A target counts for the policy exactly when it is eligible for the pipeline.
LEMMA SupportedIsEligible ==
    ASSUME NEW targets, SaneTargets(targets), NEW t \in DOMAIN targets,
           NEW message, NEW router,
           router.strong \in Int, router.medium \in Int, router.weak \in Int
    PROVE  LET evidence   == targets[t].evidence
               evaluation == Evaluations(message, targets, router)[t]
           IN  /\ Weight(message, evidence, router) = evaluation.score
               /\ Supported(message, evidence, router) <=> evaluation.eligible
<1> DEFINE evidence == targets[t].evidence
<1>1. IsFiniteSet(evidence) /\ \A e \in evidence : e.strength \in Strengths
    BY DEF SaneTargets
<1>2. Weight(message, evidence, router) = Score(Matched(message, evidence), router)
    BY <1>1, WeightIsScore
<1>3. Evaluations(message, targets, router)[t]
          = [score |-> Score(Matched(message, evidence), router),
             eligible |-> Eligible(Matched(message, evidence), router)]
    BY Zenon DEF Evaluations
<1> HIDE DEF evidence
<1>4. (\E e \in Matched(message, evidence) : e.strength # "weak")
          <=> (\E e \in evidence : Matches(message, e) /\ e.strength # "weak")
    BY DEF Matched
<1>5. Supported(message, evidence, router) <=> Eligible(Matched(message, evidence), router)
    BY <1>2, <1>4, Zenon DEF Supported, Eligible
<1>6. Supported(message, evidence, router)
          <=> Evaluations(message, targets, router)[t].eligible
    BY <1>3, <1>5
<1> QED BY <1>2, <1>3, <1>6 DEF evidence

\* The routes the policy lets compete are those the pipeline qualifies.
LEMMA CompetingAreQualified ==
    ASSUME NEW rs, SaneRuleset(rs), NEW message
    PROVE  LET domains == Evaluations(message, rs.domains, rs.router)
               intents == Evaluations(message, rs.intents, rs.router)
           IN  Competing(message, rs) = QualifiedRoutes(rs, domains, intents)
<1> DEFINE domains == Evaluations(message, rs.domains, rs.router)
           intents == Evaluations(message, rs.intents, rs.router)
           Evidence(r) ==
               [domain |-> IF r.domain = None THEN {} ELSE rs.domains[r.domain].evidence,
                intent |-> IF r.intent = None THEN {} ELSE rs.intents[r.intent].evidence]
           Holds(r, kind) == r[kind] = None
                             \/ Supported(message, Evidence(r)[kind], rs.router)
           Main(r) == IF r.intent = None THEN "domain" ELSE "intent"
           Main_weight(r) == Weight(message, Evidence(r)[Main(r)], rs.router)
           competing == {i \in DOMAIN rs.routes :
                            /\ rs.routes[i].enabled
                            /\ Holds(rs.routes[i], "domain")
                            /\ Holds(rs.routes[i], "intent")}
           qualifying == {s \in EnabledRoutes(rs) : Satisfied(rs.routes[s], domains, intents)}
<1>1. ASSUME NEW t \in DOMAIN rs.domains
      PROVE  /\ Weight(message, rs.domains[t].evidence, rs.router) = domains[t].score
             /\ Supported(message, rs.domains[t].evidence, rs.router) <=> domains[t].eligible
    BY SupportedIsEligible DEF SaneRuleset
<1>2. ASSUME NEW t \in DOMAIN rs.intents
      PROVE  /\ Weight(message, rs.intents[t].evidence, rs.router) = intents[t].score
             /\ Supported(message, rs.intents[t].evidence, rs.router) <=> intents[t].eligible
    BY SupportedIsEligible DEF SaneRuleset
<1> HIDE DEF domains, intents
<1>3. ASSUME NEW i \in EnabledRoutes(rs)
      PROVE  /\ Holds(rs.routes[i], "domain") <=> ConditionHolds(rs.routes[i].domain, domains)
             /\ Holds(rs.routes[i], "intent") <=> ConditionHolds(rs.routes[i].intent, intents)
             /\ Main_weight(rs.routes[i]) = ComparisonScore(rs.routes[i], domains, intents)
    <2> DEFINE r == rs.routes[i]
    <2>1. SaneRoute(r, rs)
        BY DEF SaneRuleset
    <2>2. CASE r.domain = None /\ r.intent # None
        BY <1>2, <2>1, <2>2 DEF SaneRoute, ConditionHolds, ComparisonScore
    <2>3. CASE r.domain # None /\ r.intent = None
        BY <1>1, <2>1, <2>3 DEF SaneRoute, ConditionHolds, ComparisonScore
    <2>4. CASE r.domain # None /\ r.intent # None
        BY <1>1, <1>2, <2>1, <2>4 DEF SaneRoute, ConditionHolds, ComparisonScore
    <2> QED BY <2>1, <2>2, <2>3, <2>4 DEF SaneRoute
<1>4. competing = qualifying
    <2>1. \A i \in DOMAIN rs.routes : rs.routes[i].enabled <=> i \in EnabledRoutes(rs)
        BY DEF EnabledRoutes
    <2>2. EnabledRoutes(rs) \subseteq DOMAIN rs.routes
        BY DEF EnabledRoutes
    <2> HIDE DEF Holds
    <2> QED BY <1>3, <2>1, <2>2 DEF Satisfied
<1>5. Competing(message, rs) =
          {[route_id |-> id, profile |-> rs.routes[id].profile,
            priority |-> rs.routes[id].priority, score |-> Main_weight(rs.routes[id]),
            intent |-> rs.routes[id].intent] : id \in competing}
    BY DEF Competing
<1>6. QualifiedRoutes(rs, domains, intents) =
          {[route_id |-> id, profile |-> rs.routes[id].profile,
            priority |-> rs.routes[id].priority,
            score |-> ComparisonScore(rs.routes[id], domains, intents),
            intent |-> rs.routes[id].intent] : id \in qualifying}
    BY DEF QualifiedRoutes
<1>7. \A id \in qualifying :
          Main_weight(rs.routes[id]) = ComparisonScore(rs.routes[id], domains, intents)
    BY <1>3
<1> HIDE DEF Main_weight, competing, qualifying
<1>8. Competing(message, rs) = QualifiedRoutes(rs, domains, intents)
    BY <1>4, <1>5, <1>6, <1>7
<1> QED BY <1>8 DEF domains, intents

\* An ambiguous decision shows each of its routes once.
LEMMA AmbiguousShows ==
    ASSUME NEW routes, Sortable(routes)
    PROVE  /\ ~ Failed(Ambiguous(routes)) /\ Ambiguous(routes).state = "ambiguous"
           /\ CandidateSet(Ambiguous(routes)) = {CandidateOf(q) : q \in routes}
           /\ Len(Ambiguous(routes).candidates) = Cardinality(routes)
<1> DEFINE n == Cardinality(routes)
           ordered == Ordered(routes)
           c == Candidates(routes)
           d == Ambiguous(routes)
<1>1. n \in Nat
    BY TwoElements DEF Sortable
<1>2. /\ ordered \in [1..n -> routes]
      /\ \A q \in routes : \E i \in 1..n : ordered[i] = q
    BY OrderedIsEnumeration
<1>3. d = [Unrouted EXCEPT !.state = "ambiguous", !.reason = "ambiguous_route",
                           !.candidates = c]
    BY DEF Ambiguous
<1> HIDE DEF n, ordered, c, d
<1>4. c = [i \in 1..n |-> CandidateOf(ordered[i])]
    <2>1. DOMAIN ordered = 1..n
        BY <1>2
    <2>2. c = [i \in DOMAIN ordered |-> [route_id |-> ordered[i].route_id,
                                         profile  |-> ordered[i].profile,
                                         comparison_score |-> ordered[i].score]]
        BY DEF c, ordered, Candidates
    <2> QED BY <2>1, <2>2 DEF CandidateOf
<1>5. ~ Failed(d) /\ d.state = "ambiguous" /\ d.candidates = c
    BY <1>3 DEF Unrouted, Failed
<1>6. Len(c) = n /\ DOMAIN c = 1..n
    BY <1>1, <1>4
<1>7. CandidateSet(d) = {CandidateOf(q) : q \in routes}
    BY <1>2, <1>4, <1>5, <1>6 DEF CandidateSet
<1> QED BY <1>5, <1>6, <1>7 DEF d, n

\* What resolving decides is what the policy says of the same routes.
LEMMA ResolveFollows ==
    ASSUME NEW qualified, Sortable(qualified), \A q \in qualified : q.priority \in Int,
           NEW margin \in Int, margin > 0
    PROVE  Follows(Resolve(qualified, margin), qualified, margin)
<1> DEFINE d          == Resolve(qualified, margin)
           contenders == Contenders(qualified, margin)
<1>1. \/ qualified = {} /\ d = Unrouted
      \/ Cardinality(contenders) >= 2 /\ d = Ambiguous(contenders)
      \/ \E q \in qualified :
             contenders = {q} /\ d = Routed(q, Cardinality(qualified) > 1)
    BY ResolveFinds, Zenon
<1>2. contenders \in SUBSET qualified
    BY DEF Contenders, Undominated
<1> HIDE DEF d, contenders
<1>3. CASE qualified = {} /\ d = Unrouted
    <2>1. ~ Failed(d) /\ d.state = "unrouted"
        BY <1>3, UnroutedFacts
    <2> QED BY <1>3, <2>1, Zenon DEF Follows, d
<1>4. CASE Cardinality(contenders) >= 2 /\ d = Ambiguous(contenders)
    <2>1. Sortable(contenders)
        BY <1>2, PartSortable
    <2>2. Cardinality(contenders) # 1 /\ qualified # {}
        <3>1. Cardinality(contenders) \in Nat /\ contenders # {}
            BY <1>4, <2>1, TwoElements DEF Sortable
        <3> QED BY <1>2, <1>4, <3>1
    <2>3. /\ ~ Failed(d) /\ d.state = "ambiguous"
          /\ CandidateSet(d) = {CandidateOf(q) : q \in contenders}
          /\ Len(d.candidates) = Cardinality(contenders)
        BY <1>4, <2>1, AmbiguousShows
    <2> QED BY <2>2, <2>3, Zenon DEF Follows, d, contenders
<1>5. ASSUME NEW q \in qualified, contenders = {q},
             d = Routed(q, Cardinality(qualified) > 1)
      PROVE  Follows(d, qualified, margin)
    <2>1. (Cardinality(qualified) > 1) = (qualified # {q})
        <3>1. Cardinality(qualified) \in Nat /\ IsFiniteSet(qualified)
            BY FS_CardinalityType DEF Sortable
        <3>2. (Cardinality(qualified) = 1) <=> \E x \in qualified : qualified = {x}
            BY <3>1, TwoElements
        <3>3. Cardinality(qualified) # 0
            BY <3>1, TwoElements
        <3>4. Cardinality(qualified) = 1 <=> qualified = {q}
            BY <3>2
        <3> QED BY <3>1, <3>3, <3>4
    <2>2. IF q.profile \in DOMAIN RoutingReason
          THEN /\ ~ Failed(d) /\ d.state = "routed"
               /\ d.route_id = q.route_id /\ d.profile = q.profile
               /\ d.comparison_score = q.score
               /\ d.conflict_resolved = (qualified # {q})
          ELSE Failed(d) /\ d.error = "INVALID_RULESET"
        <3>1. CASE q.profile \notin DOMAIN RoutingReason
            <4>1. d = Raised("INVALID_RULESET")
                BY <1>5, <3>1 DEF Routed
            <4> QED BY <3>1, <4>1, RaisedFacts
        <3>2. CASE q.profile \in DOMAIN RoutingReason
            <4> DEFINE b == qualified # {q}
            <4>1. d = Routed(q, b)
                BY <1>5, <2>1, Zenon
            <4> HIDE DEF b
            <4>2. d = [Unrouted EXCEPT !.state = "routed", !.profile = q.profile,
                                       !.route_id = q.route_id,
                                       !.comparison_score = q.score,
                                       !.reason = RoutingReason[q.profile],
                                       !.conflict_resolved = b]
                BY <3>2, <4>1 DEF Routed
            <4>3. /\ ~ Failed(d) /\ d.state = "routed"
                  /\ d.route_id = q.route_id /\ d.profile = q.profile
                  /\ d.comparison_score = q.score /\ d.conflict_resolved = b
                BY <4>2 DEF Unrouted, Failed
            <4> QED BY <3>2, <4>3 DEF b
        <3> QED BY <3>1, <3>2
    <2>3. ~ (qualified = {}) /\ ~ (qualified # {} /\ Cardinality(contenders) # 1)
        <3>1. Cardinality(contenders) = 1
            BY <1>5, FS_Singleton
        <3> QED BY <3>1
    <2> QED BY <1>5, <2>2, <2>3, Zenon DEF Follows, contenders
<1> QED BY <1>1, <1>3, <1>4, <1>5 DEF d

\* What competes can be sorted, whatever the message.
LEMMA CompetingAreSortable ==
    ASSUME NEW rs, SaneRuleset(rs), NEW message
    PROVE  LET competing == Competing(message, rs)
               margin    == rs.router.minimum_margin
           IN  /\ Sortable(competing) /\ \A q \in competing : q.priority \in Int
               /\ margin \in Int /\ margin > 0
<1> DEFINE domains == Evaluations(message, rs.domains, rs.router)
           intents == Evaluations(message, rs.intents, rs.router)
           qualified == QualifiedRoutes(rs, domains, intents)
<1>1. Competing(message, rs) = qualified
    BY CompetingAreQualified
<1>2. /\ rs.router.strong \in Int /\ rs.router.medium \in Int /\ rs.router.weak \in Int
      /\ SaneTargets(rs.domains) /\ SaneTargets(rs.intents)
    BY DEF SaneRuleset
<1>3. /\ DOMAIN domains = DOMAIN rs.domains /\ DOMAIN intents = DOMAIN rs.intents
      /\ \A t \in DOMAIN domains : domains[t].score \in Int
      /\ \A t \in DOMAIN intents : intents[t].score \in Int
    BY <1>2, EvaluationsOf
<1>4. Sortable(qualified) /\ \A q \in qualified : IsQualified(q, rs, domains, intents)
    <2> HIDE DEF domains, intents
    <2> QED BY <1>3, QualifiedAreSortable
<1> HIDE DEF qualified
<1> QED BY <1>1, <1>4 DEF IsQualified, SaneRuleset

\* Automatic routing resolves what competes.
LEMMA AutomaticResolves ==
    ASSUME NEW rs, SaneRuleset(rs), NEW message, ~UnnamedMatch(message, rs)
    PROVE  DecideAutomatically(message, rs)
             = Resolve(Competing(message, rs), rs.router.minimum_margin)
BY PipelineRuns, CompetingAreQualified, Zenon

-----------------------------------------------------------------------------
(* More evidence for the winner                                            *)

\* More matched evidence never lowers a score.
LEMMA ScoreGrows ==
    ASSUME NEW S, IsFiniteSet(S), NEW T \in SUBSET S, NEW router,
           router.strong \in Int, router.medium \in Int, router.weak \in Int,
           router.strong > 0, router.medium > 0, router.weak > 0
    PROVE  Score(T, router) <= Score(S, router)
<1> DEFINE n(s) == Cardinality({e \in S : e.strength = s})
           m(s) == Cardinality({e \in T : e.strength = s})
<1>1. ASSUME NEW s PROVE n(s) \in Int /\ m(s) \in Int /\ m(s) <= n(s)
    <2>1. IsFiniteSet({e \in S : e.strength = s})
        BY FS_Subset
    <2>2. {e \in T : e.strength = s} \in SUBSET {e \in S : e.strength = s}
        OBVIOUS
    <2> QED BY <2>1, <2>2, FS_Subset, FS_CardinalityType
<1>2. Score(S, router) = router.strong * n("strong") + router.medium * n("medium")
                             + router.weak * n("weak")
    BY DEF Score
<1>3. Score(T, router) = router.strong * m("strong") + router.medium * m("medium")
                             + router.weak * m("weak")
    BY DEF Score
<1> HIDE DEF n, m
<1>4. \A w, k, l \in Int : w > 0 /\ k <= l => w * k \in Int /\ w * l \in Int /\ w * k <= w * l
    OBVIOUS
<1>5. /\ router.strong * m("strong") <= router.strong * n("strong")
      /\ router.medium * m("medium") <= router.medium * n("medium")
      /\ router.weak * m("weak") <= router.weak * n("weak")
    BY <1>1, <1>4
<1>6. /\ router.strong * m("strong") \in Int /\ router.strong * n("strong") \in Int
      /\ router.medium * m("medium") \in Int /\ router.medium * n("medium") \in Int
      /\ router.weak * m("weak") \in Int /\ router.weak * n("weak") \in Int
    BY <1>1, <1>4
<1> QED BY <1>2, <1>3, <1>5, <1>6

\* The message covers the evidence: it can be asked about each text of it.
Covers(message, evidence) ==
    \A e \in evidence : Normalized(e.value) = "" \/ Normalized(e.value) \in DOMAIN message

\* The message with one text found between word boundaries
With(message, text) == [message EXCEPT ![text] = "bounded"]

\* What matched still matches, and of evidence with other texts nothing else does.
LEMMA MatchedGrows ==
    ASSUME NEW message, NEW evidence, Covers(message, evidence), NEW text \in DOMAIN message
    PROVE  /\ Matched(message, evidence) \in SUBSET Matched(With(message, text), evidence)
           /\ text \notin {Normalized(e.value) : e \in evidence} =>
                  Matched(With(message, text), evidence) = Matched(message, evidence)
<1>1. ASSUME NEW e \in evidence, Normalized(e.value) # text
      PROVE  Matches(With(message, text), e) <=> Matches(message, e)
    <2>1. CASE Normalized(e.value) = ""
        BY <2>1 DEF Matches
    <2>2. CASE Normalized(e.value) \in DOMAIN message
        <3>1. With(message, text)[Normalized(e.value)] = message[Normalized(e.value)]
            BY <1>1, <2>2 DEF With
        <3> QED BY <3>1 DEF Matches
    <2> QED BY <2>1, <2>2 DEF Covers
<1>2. ASSUME NEW e \in evidence, Normalized(e.value) = text, Matches(message, e)
      PROVE  Matches(With(message, text), e)
    <2>1. With(message, text)[text] = "bounded"
        BY DEF With
    <2> QED BY <1>2, <2>1 DEF Matches
<1> QED BY <1>1, <1>2 DEF Matched

\* What a text found does to the evaluations: those it is no evidence for stay, the
\* others do not get worse.
LEMMA EvaluationsGrow ==
    ASSUME NEW targets, SaneTargets(targets), NEW message, NEW text \in DOMAIN message,
           NEW t \in DOMAIN targets, Covers(message, targets[t].evidence), NEW router,
           router.strong \in Int, router.medium \in Int, router.weak \in Int,
           router.strong > 0, router.medium > 0, router.weak > 0,
           router.minimum_score \in Int
    PROVE  LET old == Evaluations(message, targets, router)[t]
               new == Evaluations(With(message, text), targets, router)[t]
           IN  /\ old.score \in Int /\ new.score \in Int
               /\ old.score <= new.score /\ (old.eligible => new.eligible)
               /\ text \notin {Normalized(e.value) : e \in targets[t].evidence} => new = old
<1> DEFINE evidence == targets[t].evidence
           m == Matched(message, evidence)
           n == Matched(With(message, text), evidence)
           Of(S) == [score |-> Score(S, router), eligible |-> Eligible(S, router)]
<1>1. /\ Evaluations(message, targets, router)[t] = Of(m)
      /\ Evaluations(With(message, text), targets, router)[t] = Of(n)
    BY DEF Evaluations
<1>2. IsFiniteSet(evidence)
    BY DEF SaneTargets
<1>3. IsFiniteSet(n) /\ m \in SUBSET n
    BY <1>2, FS_Subset, MatchedGrows DEF Matched
<1>4. Score(m, router) \in Int /\ Score(n, router) \in Int
    BY <1>2, ScoreIsInteger
<1>5. text \notin {Normalized(e.value) : e \in evidence} => n = m
    BY MatchedGrows
<1> HIDE DEF m, n, evidence
<1>6. Score(m, router) <= Score(n, router)
    BY <1>3, ScoreGrows
<1>7. Eligible(m, router) => Eligible(n, router)
    <2>1. (\E e \in m : e.strength # "weak") => \E e \in n : e.strength # "weak"
        BY <1>3
    <2> QED BY <1>4, <1>6, <2>1 DEF Eligible
<1>8. Of(n).eligible = Eligible(n, router) /\ Of(m).eligible = Eligible(m, router)
    OBVIOUS
<1> QED BY <1>1, <1>4, <1>5, <1>6, <1>7, <1>8 DEF evidence

\* The same routes, in which only the winner and what is level with it are raised: the
\* winner wins.
LEMMA RaisedWinnerWins ==
    ASSUME NEW all, Sortable(all), \A p \in all : p.priority \in Int,
           NEW margin \in Int, margin > 0, NEW q \in all, Wins(q, all, margin),
           NEW raised, Sortable(raised), \A p \in raised : p.priority \in Int,
           NEW w \in raised, w.route_id = q.route_id, w.priority = q.priority,
           w.score >= q.score,
           \A r \in raised : \E p \in all :
               /\ p.route_id = r.route_id /\ p.priority = r.priority /\ p.intent = r.intent
               /\ p.score = r.score \/ p.score = q.score
    PROVE  Wins(w, raised, margin)
<1>1. ~ IntentsConflict(raised)
    <2>1. ~ DifferentIntents(all)
        BY ConflictIsDifference DEF Wins
    <2>2. ~ DifferentIntents(raised)
        BY <2>1 DEF DifferentIntents
    <2> QED BY <2>2, ConflictIsDifference
<1>2. q \in HighestPriority(all) /\ \A p \in all : p.priority <= q.priority
    BY DEF Wins, HighestPriority
<1>3. w \in HighestPriority(raised)
    BY <1>2 DEF HighestPriority
<1>4. ASSUME NEW r \in HighestPriority(raised), r # w PROVE w.score - r.score >= margin
    <2>1. r \in raised /\ w.priority <= r.priority
        BY DEF HighestPriority
    <2>2. PICK p \in all :
              /\ p.route_id = r.route_id /\ p.priority = r.priority /\ p.intent = r.intent
              /\ p.score = r.score \/ p.score = q.score
        BY <2>1
    <2>3. p # q
        <3>1. r.route_id # w.route_id
            BY <1>4, <2>1 DEF Sortable
        <3> QED BY <2>2, <3>1
    <2>4. p \in HighestPriority(all)
        <3>1. \A o \in all : o.priority <= p.priority
            <4> SUFFICES ASSUME NEW o \in all PROVE o.priority <= p.priority
                OBVIOUS
            <4>1. o.priority <= q.priority /\ q.priority <= p.priority
                BY <1>2, <2>1, <2>2
            <4> QED BY <4>1
        <3> QED BY <3>1 DEF HighestPriority
    <2>5. q.score - p.score >= margin
        BY <2>3, <2>4 DEF Wins, Leads
    <2>6. q.score \in Int /\ p.score \in Int /\ w.score \in Int /\ r.score \in Int
        BY <2>1 DEF Sortable
    <2> QED BY <2>2, <2>5, <2>6
<1> QED BY <1>1, <1>3, <1>4 DEF Wins, Leads

\* The target whose score a route is compared by
Own(route) == IF route.intent # None THEN <<"intent", route.intent>>
                                     ELSE <<"domain", route.domain>>

\* No evaluation of targets of a kind gets worse, and only that of one target changes.
Grown(targets, old, new, kind, target) ==
    \A t \in DOMAIN targets :
        /\ old[t].score \in Int /\ new[t].score \in Int /\ old[t].score <= new[t].score
        /\ old[t].eligible => new[t].eligible
        /\ <<kind, t>> # target => new[t] = old[t]

\* Only routes that are level with w gain by new evaluations, and w does not lose.
GainsAlone(rs, w, d1, i1, d2, i2) ==
    /\ Satisfied(rs.routes[w], d2, i2)
    /\ ComparisonScore(rs.routes[w], d1, i1) <= ComparisonScore(rs.routes[w], d2, i2)
    /\ \A r \in EnabledRoutes(rs) :
           /\ Satisfied(rs.routes[r], d2, i2) => Satisfied(rs.routes[r], d1, i1)
           /\ \/ ComparisonScore(rs.routes[r], d1, i1) = ComparisonScore(rs.routes[r], d2, i2)
              \/ ComparisonScore(rs.routes[r], d1, i1) = ComparisonScore(rs.routes[w], d1, i1)

\* The conditions and scores of the routes, once only the winner's own target has grown.
LEMMA OwnTargetGrows ==
    ASSUME NEW rs, SaneRuleset(rs), NEW w \in EnabledRoutes(rs),
           NEW d1, NEW i1, NEW d2, NEW i2,
           Grown(rs.domains, d1, d2, "domain", Own(rs.routes[w])),
           Grown(rs.intents, i1, i2, "intent", Own(rs.routes[w])),
           Satisfied(rs.routes[w], d1, i1)
    PROVE  GainsAlone(rs, w, d1, i1, d2, i2)
<1> DEFINE route == rs.routes[w]
<1>1. \A r \in EnabledRoutes(rs) : SaneRoute(rs.routes[r], rs)
    BY DEF SaneRuleset
<1>2. /\ Satisfied(route, d2, i2)
      /\ ComparisonScore(route, d1, i1) <= ComparisonScore(route, d2, i2)
    <2>1. SaneRoute(route, rs)
        BY <1>1
    <2> HIDE DEF route
    <2> QED BY <2>1 DEF SaneRoute, Satisfied, ConditionHolds, ComparisonScore, Grown, route
<1>3. ASSUME NEW r \in EnabledRoutes(rs)
      PROVE  /\ Satisfied(rs.routes[r], d2, i2) => Satisfied(rs.routes[r], d1, i1)
             /\ \/ ComparisonScore(rs.routes[r], d1, i1)
                      = ComparisonScore(rs.routes[r], d2, i2)
                \/ ComparisonScore(rs.routes[r], d1, i1) = ComparisonScore(route, d1, i1)
    <2> DEFINE other == rs.routes[r]
    <2>1. SaneRoute(other, rs) /\ SaneRoute(route, rs)
        BY <1>1
    <2>2. CASE route.intent # None
        <3>1. Own(route) = <<"intent", route.intent>> /\ i1[route.intent].eligible
            BY <2>2 DEF Own, Satisfied, ConditionHolds
        <3>2. \A t \in DOMAIN rs.domains : d2[t] = d1[t]
            BY <3>1 DEF Grown
        <3>3. \A t \in DOMAIN rs.intents : t # route.intent => i2[t] = i1[t]
            BY <3>1 DEF Grown
        <3> HIDE DEF route, other
        <3>4. Satisfied(other, d2, i2) => Satisfied(other, d1, i1)
            BY <2>1, <3>1, <3>2, <3>3 DEF SaneRoute, Satisfied, ConditionHolds
        <3>5. \/ ComparisonScore(other, d1, i1) = ComparisonScore(other, d2, i2)
              \/ ComparisonScore(other, d1, i1) = ComparisonScore(route, d1, i1)
            BY <2>1, <2>2, <3>2, <3>3 DEF SaneRoute, ComparisonScore
        <3> QED BY <3>4, <3>5 DEF other
    <2>3. CASE route.intent = None
        <3>1. Own(route) = <<"domain", route.domain>> /\ d1[route.domain].eligible
            BY <2>1, <2>3 DEF Own, Satisfied, ConditionHolds, SaneRoute
        <3>2. \A t \in DOMAIN rs.intents : i2[t] = i1[t]
            BY <3>1 DEF Grown
        <3>3. \A t \in DOMAIN rs.domains : t # route.domain => d2[t] = d1[t]
            BY <3>1 DEF Grown
        <3> HIDE DEF route, other
        <3>4. Satisfied(other, d2, i2) => Satisfied(other, d1, i1)
            BY <2>1, <3>1, <3>2, <3>3 DEF SaneRoute, Satisfied, ConditionHolds
        <3>5. \/ ComparisonScore(other, d1, i1) = ComparisonScore(other, d2, i2)
              \/ ComparisonScore(other, d1, i1) = ComparisonScore(route, d1, i1)
            BY <2>1, <2>3, <3>2, <3>3 DEF SaneRoute, ComparisonScore
        <3> QED BY <3>4, <3>5 DEF other
    <2> QED BY <2>2, <2>3
<1> QED BY <1>2, <1>3 DEF GainsAlone

\* A qualified route, as the pipeline makes one of a satisfied route
LEMMA QualifiedEntries ==
    ASSUME NEW rs, NEW domains, NEW intents
    PROVE  LET qualified == QualifiedRoutes(rs, domains, intents)
           IN  /\ \A q \in qualified :
                      /\ q.route_id \in EnabledRoutes(rs)
                      /\ Satisfied(rs.routes[q.route_id], domains, intents)
               /\ \A r \in EnabledRoutes(rs) :
                      Satisfied(rs.routes[r], domains, intents) =>
                          \E q \in qualified : q.route_id = r
               /\ \A q \in qualified :
                      /\ q.profile = rs.routes[q.route_id].profile
                      /\ q.priority = rs.routes[q.route_id].priority
                      /\ q.intent = rs.routes[q.route_id].intent
                      /\ q.score = ComparisonScore(rs.routes[q.route_id], domains, intents)
<1> DEFINE Entry(r) == [route_id |-> r,
                        profile  |-> rs.routes[r].profile,
                        priority |-> rs.routes[r].priority,
                        score    |-> ComparisonScore(rs.routes[r], domains, intents),
                        intent   |-> rs.routes[r].intent]
           S == {s \in EnabledRoutes(rs) : Satisfied(rs.routes[s], domains, intents)}
<1>1. QualifiedRoutes(rs, domains, intents) = {Entry(r) : r \in S}
    BY DEF QualifiedRoutes
<1>2. \A r \in S : /\ Entry(r).route_id = r
                   /\ Entry(r).profile = rs.routes[r].profile
                   /\ Entry(r).priority = rs.routes[r].priority
                   /\ Entry(r).intent = rs.routes[r].intent
                   /\ Entry(r).score = ComparisonScore(rs.routes[r], domains, intents)
    OBVIOUS
<1>3. S = {s \in EnabledRoutes(rs) : Satisfied(rs.routes[s], domains, intents)}
    OBVIOUS
<1> HIDE DEF Entry, S
<1> QED BY <1>1, <1>2, <1>3

\* A text that is evidence only for the target the winner is compared by keeps it the
\* winner.
LEMMA OwnEvidenceKeepsWinner ==
    ASSUME NEW rs, SaneRuleset(rs), NEW message, NEW text \in DOMAIN message,
           \A targets \in {rs.domains, rs.intents} :
               \A t \in DOMAIN targets : Covers(message, targets[t].evidence),
           NEW q \in Competing(message, rs),
           Wins(q, Competing(message, rs), rs.router.minimum_margin),
           \A t \in DOMAIN rs.domains :
               <<"domain", t>> # Own(rs.routes[q.route_id]) =>
                   text \notin {Normalized(e.value) : e \in rs.domains[t].evidence},
           \A t \in DOMAIN rs.intents :
               <<"intent", t>> # Own(rs.routes[q.route_id]) =>
                   text \notin {Normalized(e.value) : e \in rs.intents[t].evidence}
    PROVE  \E w \in Competing(With(message, text), rs) :
               /\ w.route_id = q.route_id /\ w.profile = q.profile
               /\ Wins(w, Competing(With(message, text), rs), rs.router.minimum_margin)
<1> DEFINE d1 == Evaluations(message, rs.domains, rs.router)
           i1 == Evaluations(message, rs.intents, rs.router)
           d2 == Evaluations(With(message, text), rs.domains, rs.router)
           i2 == Evaluations(With(message, text), rs.intents, rs.router)
           all    == Competing(message, rs)
           raised == Competing(With(message, text), rs)
           margin == rs.router.minimum_margin
           own    == Own(rs.routes[q.route_id])
<1>1. /\ rs.router.strong \in Int /\ rs.router.medium \in Int /\ rs.router.weak \in Int
      /\ rs.router.strong > 0 /\ rs.router.medium > 0 /\ rs.router.weak > 0
      /\ rs.router.minimum_score \in Int
      /\ SaneTargets(rs.domains) /\ SaneTargets(rs.intents)
    BY DEF SaneRuleset
<1>2. ASSUME NEW t \in DOMAIN rs.domains
      PROVE  /\ d1[t].score \in Int /\ d2[t].score \in Int /\ d1[t].score <= d2[t].score
             /\ d1[t].eligible => d2[t].eligible
             /\ <<"domain", t>> # own => d2[t] = d1[t]
    <2>1. Covers(message, rs.domains[t].evidence)
        OBVIOUS
    <2> HIDE DEF own
    <2> QED BY <1>1, <2>1, EvaluationsGrow DEF own
<1>3. ASSUME NEW t \in DOMAIN rs.intents
      PROVE  /\ i1[t].score \in Int /\ i2[t].score \in Int /\ i1[t].score <= i2[t].score
             /\ i1[t].eligible => i2[t].eligible
             /\ <<"intent", t>> # own => i2[t] = i1[t]
    <2>1. Covers(message, rs.intents[t].evidence)
        OBVIOUS
    <2> HIDE DEF own
    <2> QED BY <1>1, <2>1, EvaluationsGrow DEF own
<1>4. all = QualifiedRoutes(rs, d1, i1) /\ raised = QualifiedRoutes(rs, d2, i2)
    BY CompetingAreQualified
<1>5. /\ Sortable(all) /\ (\A p \in all : p.priority \in Int)
      /\ Sortable(raised) /\ (\A p \in raised : p.priority \in Int)
      /\ margin \in Int /\ margin > 0
    BY CompetingAreSortable
<1> HIDE DEF d1, i1, d2, i2, all, raised, margin
<1>6. /\ \A p \in all :
             /\ p.route_id \in EnabledRoutes(rs)
             /\ Satisfied(rs.routes[p.route_id], d1, i1)
             /\ p.profile = rs.routes[p.route_id].profile
             /\ p.priority = rs.routes[p.route_id].priority
             /\ p.intent = rs.routes[p.route_id].intent
             /\ p.score = ComparisonScore(rs.routes[p.route_id], d1, i1)
      /\ \A r \in EnabledRoutes(rs) :
             Satisfied(rs.routes[r], d1, i1) => \E p \in all : p.route_id = r
    BY <1>4, QualifiedEntries
<1>7. /\ \A p \in raised :
             /\ p.route_id \in EnabledRoutes(rs)
             /\ Satisfied(rs.routes[p.route_id], d2, i2)
             /\ p.profile = rs.routes[p.route_id].profile
             /\ p.priority = rs.routes[p.route_id].priority
             /\ p.intent = rs.routes[p.route_id].intent
             /\ p.score = ComparisonScore(rs.routes[p.route_id], d2, i2)
      /\ \A r \in EnabledRoutes(rs) :
             Satisfied(rs.routes[r], d2, i2) => \E p \in raised : p.route_id = r
    BY <1>4, QualifiedEntries
<1>8. q \in all /\ Wins(q, all, margin)
    BY DEF all, margin
<1>9. /\ Satisfied(rs.routes[q.route_id], d2, i2)
      /\ q.score <= ComparisonScore(rs.routes[q.route_id], d2, i2)
      /\ \A r \in EnabledRoutes(rs) :
             /\ Satisfied(rs.routes[r], d2, i2) => Satisfied(rs.routes[r], d1, i1)
             /\ \/ ComparisonScore(rs.routes[r], d1, i1) = ComparisonScore(rs.routes[r], d2, i2)
                \/ ComparisonScore(rs.routes[r], d1, i1) = q.score
    <2>1. q.route_id \in EnabledRoutes(rs) /\ Satisfied(rs.routes[q.route_id], d1, i1)
        BY <1>6, <1>8
    <2>2. q.score = ComparisonScore(rs.routes[q.route_id], d1, i1)
        BY <1>6, <1>8
    <2>3. /\ Grown(rs.domains, d1, d2, "domain", Own(rs.routes[q.route_id]))
          /\ Grown(rs.intents, i1, i2, "intent", Own(rs.routes[q.route_id]))
        BY <1>2, <1>3 DEF Grown
    <2>4. GainsAlone(rs, q.route_id, d1, i1, d2, i2)
        BY <2>1, <2>3, OwnTargetGrows
    <2> QED BY <2>2, <2>4 DEF GainsAlone
<1>10. PICK w \in raised : w.route_id = q.route_id
    BY <1>6, <1>7, <1>8, <1>9
<1>11. w.profile = q.profile /\ w.priority = q.priority /\ w.score >= q.score
    <2>1. w.profile = q.profile /\ w.priority = q.priority
        BY <1>6, <1>7, <1>8, <1>10
    <2>2. q.score <= w.score /\ q.score \in Int /\ w.score \in Int
        BY <1>5, <1>7, <1>8, <1>9, <1>10 DEF Sortable
    <2> QED BY <2>1, <2>2
<1>12. ASSUME NEW r \in raised
       PROVE  \E p \in all :
                 /\ p.route_id = r.route_id /\ p.priority = r.priority /\ p.intent = r.intent
                 /\ p.score = r.score \/ p.score = q.score
    <2>1. r.route_id \in EnabledRoutes(rs) /\ Satisfied(rs.routes[r.route_id], d1, i1)
        BY <1>7, <1>9
    <2>2. PICK p \in all : p.route_id = r.route_id
        BY <1>6, <2>1
    <2>3. p.priority = r.priority /\ p.intent = r.intent
        BY <1>6, <1>7, <2>2
    <2>4. p.score = r.score \/ p.score = q.score
        BY <1>6, <1>7, <1>9, <2>1, <2>2
    <2> QED BY <2>2, <2>3, <2>4
<1>13. Wins(w, raised, margin)
    BY <1>5, <1>8, <1>10, <1>11, <1>12, RaisedWinnerWins
<1> QED BY <1>10, <1>11, <1>13 DEF raised, margin

\* A message can be asked about all the evidence of a ruleset that was admitted.
LEMMA EvidenceCovered ==
    ASSUME NEW d \in Documents, ParsedDocument(d), ValidRuleset(d), NEW q \in Requests
    PROVE  \A targets \in {RulesetSnapshot(d).domains, RulesetSnapshot(d).intents} :
               \A t \in DOMAIN targets : Covers(q.message, targets[t].evidence)
<1> DEFINE rs == RulesetSnapshot(d)
<1>1. ASSUME NEW k \in DOMAIN Targets(d) PROVE Covers(q.message, EvidenceOf(Targets(d)[k]))
    <2> SUFFICES ASSUME NEW e \in EvidenceOf(Targets(d)[k]), Normalized(e.value) # ""
                 PROVE  Normalized(e.value) \in DOMAIN q.message
        BY DEF Covers
    <2> DEFINE evidence == UNION {UNION {EvidenceOf(t) :
                                            t \in {Targets(c)[i] : i \in DOMAIN Targets(c)}} :
                                     c \in Documents}
               texts == {Normalized(f.value) : f \in evidence} \ {""}
    <2>1. e \in evidence
        <3> DEFINE Of(c) == UNION {EvidenceOf(t) :
                                      t \in {Targets(c)[i] : i \in DOMAIN Targets(c)}}
        <3>1. e \in Of(d)
            OBVIOUS
        <3>2. evidence = UNION {Of(c) : c \in Documents}
            OBVIOUS
        <3> HIDE DEF Of, evidence
        <3> QED BY <3>1, <3>2
    <2>2. Normalized(e.value) \in texts
        BY <2>1
    <2>3. texts \subseteq DOMAIN q.message
        BY RequestsAssumption
    <2> QED BY <2>2, <2>3
<1> HIDE DEF rs
<1>2. /\ DOMAIN rs.domains = Ids(d.domains.items)
      /\ DOMAIN rs.intents = Ids(d.intents.items)
      /\ \A id \in Ids(d.domains.items) :
             rs.domains[id].evidence = EvidenceOf(ItemOf(d.domains.items, id))
      /\ \A id \in Ids(d.intents.items) :
             rs.intents[id].evidence = EvidenceOf(ItemOf(d.intents.items, id))
    BY SnapshotItems DEF rs
<1>3. /\ IsList(d.domains.items) /\ UniqueIds(d.domains.items)
      /\ IsList(d.intents.items) /\ UniqueIds(d.intents.items)
    BY DEF ParsedDocument, ValidRuleset
<1>4. ASSUME NEW id \in Ids(d.domains.items)
      PROVE  Covers(q.message, EvidenceOf(ItemOf(d.domains.items, id)))
    <2>1. PICK i \in DOMAIN d.domains.items : ItemOf(d.domains.items, id) = d.domains.items[i]
        BY <1>3, ItemIsListed
    <2>2. PICK k \in DOMAIN Targets(d) : Targets(d)[k] = d.domains.items[i]
        BY <1>3, TargetsOf
    <2> QED BY <1>1, <2>1, <2>2
<1>5. ASSUME NEW id \in Ids(d.intents.items)
      PROVE  Covers(q.message, EvidenceOf(ItemOf(d.intents.items, id)))
    <2>1. PICK i \in DOMAIN d.intents.items : ItemOf(d.intents.items, id) = d.intents.items[i]
        BY <1>3, ItemIsListed
    <2>2. PICK k \in DOMAIN Targets(d) : Targets(d)[k] = d.intents.items[i]
        BY <1>3, TargetsOf
    <2> QED BY <1>1, <2>1, <2>2
<1>6. /\ \A t \in DOMAIN rs.domains : Covers(q.message, rs.domains[t].evidence)
      /\ \A t \in DOMAIN rs.intents : Covers(q.message, rs.intents[t].evidence)
    BY <1>2, <1>4, <1>5
<1> QED BY <1>6 DEF rs

-----------------------------------------------------------------------------
(* The router                                                              *)

\* The inductive invariant: what was booted is sane and compatible, and the request
\* in hand was decided and answered by it.
Booted ==
    /\ SaneRuleset(ruleset)
    /\ \E d \in Documents :
           ParsedDocument(d) /\ ValidRuleset(d) /\ ruleset = RulesetSnapshot(d)
    /\ Compatible(ruleset, registry)
    /\ request \in Requests \cup {None}
    /\ request # None => /\ decision = DecideRoute(request, ruleset)
                         /\ answer = Answer(decision, registry)

LEMMA AlwaysBooted == Spec => []Booted
<1>1. Init => Booted
    <2> SUFFICES ASSUME Init PROVE Booted
        OBVIOUS
    <2>1. PICK d \in Documents, r \in Registries :
              ValidRuleset(d) /\ ruleset = RulesetSnapshot(d)
        BY Zenon DEF Init
    <2>2. SaneRuleset(ruleset)
        BY <2>1, AdmittedIsSane, DocumentsAssumption
    <2> QED BY <2>1, <2>2, DocumentsAssumption DEF Init, Booted
<1>2. Booted /\ [Next]_vars => Booted'
    <2> SUFFICES ASSUME Booted, [Next]_vars PROVE Booted'
        OBVIOUS
    <2>1. ASSUME NEW q \in Requests, Route(q) PROVE Booted'
        BY <2>1, Zenon DEF Route, Booted
    <2>2. CASE Finish
        BY <2>2, Zenon DEF Finish, Booted
    <2>3. CASE UNCHANGED vars
        BY <2>3, Zenon DEF vars, Booted
    <2> QED BY <2>1, <2>2, <2>3 DEF Next
<1> QED BY <1>1, <1>2, PTL DEF Spec

\* The type invariant: a request is one of the requests or none, and what is decided
\* for it is an error or has one of the four states.
THEOREM TypeCorrect == Spec => []TypeOK
<1>1. Booted => (request # None => Failed(decision) \/ decision.state \in States)
    <2> SUFFICES ASSUME Booted, request # None
                 PROVE  Failed(decision) \/ decision.state \in States
        OBVIOUS
    <2>1. SaneRuleset(ruleset) /\ decision = DecideRoute(request, ruleset)
        BY DEF Booted
    <2> QED BY <2>1, DecisionCases, RaisedFacts DEF States
<1>2. Booted => TypeOK
    BY <1>1 DEF TypeOK, Booted
<1> QED BY <1>2, AlwaysBooted, PTL

\* The pipeline decides what the dominance policy says, for every ruleset that can be
\* admitted: who wins, who else stands in its way, and whether there was a conflict
\* (router.py:73-262, 351-427).
THEOREM DecidesByPolicy == Spec => []FollowsPolicy
<1>1. Booted => FollowsPolicy
    <2> SUFFICES ASSUME Booted, Automatic, ~UnnamedMatch(request.message, ruleset)
                 PROVE  Follows(decision, Competing(request.message, ruleset),
                                ruleset.router.minimum_margin)
        BY Zenon DEF FollowsPolicy, Named
    <2>1. SaneRuleset(ruleset) /\ decision = DecideAutomatically(request.message, ruleset)
        BY DEF Booted, Automatic, DecideRoute
    <2> QED BY <2>1, AutomaticResolves, CompetingAreSortable, ResolveFollows
<1> QED BY <1>1, AlwaysBooted, PTL

\* Every decision that is returned honours the contract its constructor checks, over
\* every ruleset that can be admitted (models.py:62-152).
THEOREM DecisionsHonourContract == Spec => []ContractHonoured
<1>1. Booted => ContractHonoured
    <2> SUFFICES ASSUME Booted, request # None, ~ Failed(decision)
                 PROVE  SatisfiesContract(decision)
        BY DEF ContractHonoured
    <2>1. SaneRuleset(ruleset) /\ decision = DecideRoute(request, ruleset)
        BY DEF Booted
    <2> QED BY <2>1, DecisionCases, RaisedFacts
<1> QED BY <1>1, AlwaysBooted, PTL

\* What is checked while booting is all a request needs but for two things: the router
\* fails on an admitted ruleset only for a winner without a reason, and, on every
\* message it occurs in and on no other, for an evidence whose id is empty; and what it
\* routes can be dispatched (validation.py:138-151, 211-308, models.py:171, 184,
\* matcher.py:84-90, runtime_compatibility.py:44-91).
THEOREM BootIsEnough == Spec => []BootChecksSuffice
<1>1. Booted => BootChecksSuffice
    <2> SUFFICES ASSUME Booted, request # None
        PROVE /\ Failed(decision) =>
                     decision.error \in
                         {"INVALID_PROFILE", "INVALID_RULESET", "VALIDATION_ERROR"}
              /\ (Failed(decision) /\ decision.error = "VALIDATION_ERROR")
                     <=> Automatic /\ ~Named
              /\ Failed(decision) /\ decision.error = "INVALID_RULESET" =>
                     \E r \in EnabledRoutes(ruleset) :
                         ruleset.routes[r].profile \notin DOMAIN RoutingReason
              /\ ~ Failed(decision) /\ decision.state \in {"routed", "explicit"} =>
                     "model" \in DOMAIN answer /\ answer.profile_id = decision.profile
        BY DEF BootChecksSuffice
    <2>1. /\ SaneRuleset(ruleset) /\ Compatible(ruleset, registry)
          /\ decision = DecideRoute(request, ruleset)
          /\ answer = Answer(decision, registry)
        BY DEF Booted
    <2>2. \/ decision = Raised("INVALID_PROFILE")
          \/ decision = Raised("VALIDATION_ERROR") /\ Automatic /\ ~Named
          \/ /\ Failed(decision) /\ decision.error = "INVALID_RULESET"
             /\ \E r \in EnabledRoutes(ruleset) :
                    ruleset.routes[r].profile \notin DOMAIN RoutingReason
          \/ /\ ~ Failed(decision)
             /\ \/ decision.state \in {"unrouted", "ambiguous"}
                \/ /\ (decision.state = "routed" /\ decision.route_id # None)
                      \/ (decision.state = "explicit" /\ decision.route_id = None)
                   /\ decision.profile \in DOMAIN ruleset.profiles
                   /\ ruleset.profiles[decision.profile] /\ decision.profile # None
        BY <2>1, DecisionCases DEF Automatic, Named
    <2>3. Automatic /\ ~Named => decision = Raised("VALIDATION_ERROR")
        <3>1. Automatic => decision = DecideAutomatically(request.message, ruleset)
            BY <2>1 DEF Automatic, DecideRoute
        <3> QED BY <2>1, <3>1, PipelineRuns, Zenon DEF Named
    <2>4. /\ Failed(decision) =>
                 decision.error \in {"INVALID_PROFILE", "INVALID_RULESET", "VALIDATION_ERROR"}
          /\ Failed(decision) /\ decision.error = "VALIDATION_ERROR" => Automatic /\ ~Named
          /\ Failed(decision) /\ decision.error = "INVALID_RULESET" =>
                 \E r \in EnabledRoutes(ruleset) :
                     ruleset.routes[r].profile \notin DOMAIN RoutingReason
        BY <2>2, RaisedFacts
    <2>5. ASSUME ~ Failed(decision), decision.state \in {"routed", "explicit"}
          PROVE  "model" \in DOMAIN answer /\ answer.profile_id = decision.profile
        BY <2>1, <2>2, <2>5, Dispatchable, RaisedFacts
    <2>6. Automatic /\ ~Named => Failed(decision) /\ decision.error = "VALIDATION_ERROR"
        BY <2>3, RaisedFacts
    <2> QED BY <2>4, <2>5, <2>6
<1> QED BY <1>1, AlwaysBooted, PTL

\* While weak evidence alone cannot qualify, a message with nothing else is not routed
\* (eligibility.py:40-61, router.py:73-142).
THEOREM WeakNeverRoutes == Spec => []WeakEvidenceNeverRoutes
<1>1. Booted => WeakEvidenceNeverRoutes
    <2> SUFFICES ASSUME Booted, Automatic, ~UnnamedMatch(request.message, ruleset),
                        ruleset.router.weak_only_cannot_qualify,
                        \A targets \in {ruleset.domains, ruleset.intents} :
                            \A t \in DOMAIN targets :
                                \A e \in targets[t].evidence :
                                    Matches(request.message, e) => e.strength = "weak"
                 PROVE  ~ Failed(decision) /\ decision.state = "unrouted"
        BY Zenon DEF WeakEvidenceNeverRoutes, Named
    <2> DEFINE message == request.message
               domains == Evaluations(message, ruleset.domains, ruleset.router)
               intents == Evaluations(message, ruleset.intents, ruleset.router)
               qualified == QualifiedRoutes(ruleset, domains, intents)
               margin == ruleset.router.minimum_margin
    <2>1. SaneRuleset(ruleset) /\ decision = DecideAutomatically(message, ruleset)
        BY DEF Booted, Automatic, DecideRoute
    <2>2. ASSUME NEW targets \in {ruleset.domains, ruleset.intents}, NEW t \in DOMAIN targets
          PROVE  ~ Eligible(Matched(message, targets[t].evidence), ruleset.router)
        BY DEF Eligible, Matched
    <2>3. /\ \A t \in DOMAIN ruleset.domains : ~ domains[t].eligible
          /\ \A t \in DOMAIN ruleset.intents : ~ intents[t].eligible
        <3>1. /\ ruleset.router.strong \in Int /\ ruleset.router.medium \in Int
              /\ ruleset.router.weak \in Int
              /\ SaneTargets(ruleset.domains) /\ SaneTargets(ruleset.intents)
            BY <2>1 DEF SaneRuleset
        <3> QED BY <2>2, <3>1, EvaluationsOf
    <2>4. /\ \A q \in qualified : IsQualified(q, ruleset, domains, intents)
          /\ \/ qualified = {} /\ decision = Unrouted
             \/ \E routes \in SUBSET qualified :
                    Cardinality(routes) >= 2 /\ decision = Ambiguous(routes)
             \/ \E q \in qualified, b \in BOOLEAN :
                    Wins(q, qualified, margin) /\ decision = Routed(q, b)
        BY <2>1, AutomaticCases, Zenon
    <2> HIDE DEF message, domains, intents, qualified, margin
    <2>5. qualified = {}
        <3> SUFFICES ASSUME NEW q \in qualified PROVE FALSE
            OBVIOUS
        <3>1. /\ q.route_id \in EnabledRoutes(ruleset)
              /\ Satisfied(ruleset.routes[q.route_id], domains, intents)
            BY <2>4 DEF IsQualified
        <3>2. SaneRoute(ruleset.routes[q.route_id], ruleset)
            BY <2>1, <3>1 DEF SaneRuleset
        <3> QED BY <2>3, <3>1, <3>2 DEF SaneRoute, Satisfied, ConditionHolds
    <2>6. decision = Unrouted
        <3>1. ASSUME NEW routes \in SUBSET qualified PROVE ~ (Cardinality(routes) >= 2)
            <4>1. routes = {}
                BY <2>5
            <4> QED BY <4>1, FS_EmptySet
        <3> QED BY <2>4, <2>5, <3>1
    <2> QED BY <2>6, UnroutedFacts
<1> QED BY <1>1, AlwaysBooted, PTL

\* Withdrawing a route that did not win leaves the winner, its profile and its score as
\* they were (router.py:73-262).
THEOREM LosersDoNotMatter == Spec => []LosersAreIrrelevant
<1>1. Booted => LosersAreIrrelevant
    <2> SUFFICES ASSUME Booted, Automatic, ~ Failed(decision), decision.state = "routed",
                        NEW r \in DOMAIN ruleset.routes \ {decision.route_id}
                 PROVE  LET d == DecideRoute(request, Without(ruleset, r))
                        IN  /\ ~ Failed(d)
                            /\ <<d.state, d.route_id, d.profile, d.comparison_score>>
                                 = <<"routed", decision.route_id, decision.profile,
                                     decision.comparison_score>>
        BY Zenon DEF LosersAreIrrelevant, Without
    <2> DEFINE message == request.message
               without == Without(ruleset, r)
               domains == Evaluations(message, ruleset.domains, ruleset.router)
               intents == Evaluations(message, ruleset.intents, ruleset.router)
               all     == QualifiedRoutes(ruleset, domains, intents)
               fewer   == QualifiedRoutes(without, domains, intents)
               margin  == ruleset.router.minimum_margin
               d       == DecideRoute(request, without)
    <2>1. /\ SaneRuleset(ruleset) /\ decision = DecideAutomatically(message, ruleset)
          /\ margin \in Int /\ margin > 0
        BY DEF Booted, Automatic, DecideRoute, SaneRuleset
    <2>0. ~UnnamedMatch(message, ruleset)
        BY <2>1, PipelineRuns, RaisedFacts
    <2>2. /\ SaneRuleset(without) /\ without.router = ruleset.router
          /\ without.domains = ruleset.domains /\ without.intents = ruleset.intents
          /\ fewer = {q \in all : q.route_id # r}
        <3>1. PICK doc : ruleset = RulesetSnapshot(doc)
            BY DEF Booted
        <3> QED BY <2>1, <3>1, WithdrawnRoute
    <2>3. d = DecideAutomatically(message, without)
        BY DEF Automatic, DecideRoute
    <2>4. /\ Sortable(all)
          /\ \A q \in all : IsQualified(q, ruleset, domains, intents)
          /\ \/ all = {} /\ decision = Unrouted
             \/ \E routes \in SUBSET all :
                    Cardinality(routes) >= 2 /\ decision = Ambiguous(routes)
             \/ \E q \in all, b \in BOOLEAN :
                    Wins(q, all, margin) /\ decision = Routed(q, b)
        BY <2>0, <2>1, AutomaticCases, Zenon
    <2>5. d = Resolve(fewer, margin)
        <3>1. ~UnnamedMatch(message, without)
            <4> HIDE DEF message, without
            <4> QED BY <2>0, <2>2 DEF UnnamedMatch
        <3>2. d = Resolve(QualifiedRoutes(without,
                              Evaluations(message, without.domains, without.router),
                              Evaluations(message, without.intents, without.router)),
                          without.router.minimum_margin)
            <4> HIDE DEF message, without, d
            <4> QED BY <2>2, <2>3, <3>1, PipelineRuns, Zenon
        <3> HIDE DEF without, d
        <3> QED BY <2>2, <3>2, Zenon
    <2> HIDE DEF message, without, domains, intents, all, fewer, margin, d
    <2>6. PICK q \in all, b \in BOOLEAN : Wins(q, all, margin) /\ decision = Routed(q, b)
        <3>1. decision # Unrouted
            BY UnroutedFacts
        <3>2. ASSUME NEW routes \in SUBSET all, Cardinality(routes) >= 2
              PROVE  decision # Ambiguous(routes)
            BY <2>4, <3>2, PartSortable, AmbiguousFacts
        <3> QED BY <2>4, <3>1, <3>2
    <2>7. /\ \A p \in all : p.priority \in Int
          /\ q.route_id \in Int /\ q.score \in Int
        BY <2>4 DEF IsQualified
    <2>8. q.profile \in DOMAIN RoutingReason
        BY <2>6, RaisedFacts DEF Routed
    <2>9. /\ decision.route_id = q.route_id /\ decision.profile = q.profile
          /\ decision.comparison_score = q.score
        BY <2>6, <2>8 DEF Routed, Unrouted
    <2>10. q \in fewer /\ fewer \in SUBSET all
        BY <2>2, <2>9
    <2>11. Wins(q, fewer, margin) /\ Sortable(fewer)
        BY <2>4, <2>6, <2>7, <2>10, WinsAmongFewer, PartSortable
    <2>12. PICK c \in BOOLEAN : d = Routed(q, c)
        BY <2>1, <2>5, <2>10, <2>11, WinnerIsRouted
    <2>13. /\ ~ Failed(d) /\ d.state = "routed" /\ d.route_id = q.route_id
           /\ d.profile = q.profile /\ d.comparison_score = q.score
        BY <2>8, <2>12 DEF Routed, Unrouted, Failed
    <2> QED BY <2>9, <2>13 DEF d, without
<1> QED BY <1>1, AlwaysBooted, PTL

\* More of the same never hurts the winner: a text that is evidence only for the target
\* whose score won, once it is found between word boundaries, leaves the route the
\* winner (router.py:73-262, scoring.py:56-110).
THEOREM MoreEvidenceKeepsWinner == Spec => []EvidenceForWinnerKeepsIt
<1>1. Booted => EvidenceForWinnerKeepsIt
    <2> DEFINE route == ruleset.routes[decision.route_id]
               Texts(evidence) == {Normalized(e.value) : e \in evidence}
               others == UNION ({Texts(ruleset.domains[t].evidence) :
                                    t \in {u \in DOMAIN ruleset.domains :
                                               <<"domain", u>> # Own(route)}}
                                \cup {Texts(ruleset.intents[t].evidence) :
                                    t \in {u \in DOMAIN ruleset.intents :
                                               <<"intent", u>> # Own(route)}})
               After(text) == [request EXCEPT !.message[text] = "bounded"]
    <2> SUFFICES ASSUME Booted, Automatic, ~ Failed(decision), decision.state = "routed",
                        NEW text \in DOMAIN request.message \ others,
                        ~UnnamedMatch(After(text).message, ruleset)
                 PROVE  /\ ~ Failed(DecideRoute(After(text), ruleset))
                        /\ DecideRoute(After(text), ruleset).route_id = decision.route_id
        BY Zenon DEF EvidenceForWinnerKeepsIt, Own
    <2> DEFINE message == request.message
               all     == Competing(message, ruleset)
               raised  == Competing(With(message, text), ruleset)
               margin  == ruleset.router.minimum_margin
    <2>1. /\ SaneRuleset(ruleset) /\ request \in Requests
          /\ decision = DecideAutomatically(message, ruleset)
        BY DEF Booted, Automatic, DecideRoute
    <2>0. ~UnnamedMatch(message, ruleset)
        BY <2>1, PipelineRuns, RaisedFacts
    <2>2. \A targets \in {ruleset.domains, ruleset.intents} :
              \A t \in DOMAIN targets : Covers(message, targets[t].evidence)
        <3>1. PICK d \in Documents :
                  ParsedDocument(d) /\ ValidRuleset(d) /\ ruleset = RulesetSnapshot(d)
            BY DEF Booted
        <3> QED BY <2>1, <3>1, EvidenceCovered
    <2>3. After(text).explicit_profile = None /\ After(text).message = With(message, text)
        <3>1. "message" \in DOMAIN request /\ "explicit_profile" \in DOMAIN request
            BY <2>1, RequestsAssumption
        <3> QED BY <3>1 DEF Automatic, With
    <2>4. DecideRoute(After(text), ruleset) = DecideAutomatically(With(message, text), ruleset)
        <3> HIDE DEF After
        <3> QED BY <2>3 DEF DecideRoute
    <2>5. /\ decision = Resolve(all, margin) /\ Sortable(all)
          /\ (\A q \in all : q.priority \in Int) /\ margin \in Int /\ margin > 0
          /\ DecideAutomatically(With(message, text), ruleset) = Resolve(raised, margin)
          /\ Sortable(raised)
        <3>1. ~UnnamedMatch(With(message, text), ruleset)
            <4> HIDE DEF After
            <4> QED BY <2>3
        <3> HIDE DEF message
        <3> QED BY <2>0, <2>1, <3>1, AutomaticResolves, CompetingAreSortable
    <2>6. \A t \in DOMAIN ruleset.domains :
              <<"domain", t>> # Own(route) => text \notin Texts(ruleset.domains[t].evidence)
        OBVIOUS
    <2>7. \A t \in DOMAIN ruleset.intents :
              <<"intent", t>> # Own(route) => text \notin Texts(ruleset.intents[t].evidence)
        OBVIOUS
    <2> HIDE DEF others, After, all, raised, margin
    <2>8. PICK q \in all : Wins(q, all, margin) /\ \E b \in BOOLEAN : decision = Routed(q, b)
        <3>1. \/ all = {} /\ decision = Unrouted
              \/ \E routes \in SUBSET all :
                     Cardinality(routes) >= 2 /\ decision = Ambiguous(routes)
              \/ \E q \in all, b \in BOOLEAN : Wins(q, all, margin) /\ decision = Routed(q, b)
            BY <2>5, ResolveCases
        <3>2. decision # Unrouted
            BY UnroutedFacts
        <3>3. ASSUME NEW routes \in SUBSET all, Cardinality(routes) >= 2
              PROVE  decision # Ambiguous(routes)
            BY <2>5, <3>3, PartSortable, AmbiguousFacts
        <3> QED BY <3>1, <3>2, <3>3
    <2>9. q.profile \in DOMAIN RoutingReason /\ decision.route_id = q.route_id
        <3>1. q.profile \in DOMAIN RoutingReason
            BY <2>8, RaisedFacts DEF Routed
        <3> QED BY <2>8, <3>1 DEF Routed, Unrouted
    <2>10. PICK w \in raised : /\ w.route_id = q.route_id /\ w.profile = q.profile
                               /\ Wins(w, raised, margin)
        <3>1. /\ \A t \in DOMAIN ruleset.domains :
                     <<"domain", t>> # Own(ruleset.routes[q.route_id]) =>
                         text \notin {Normalized(e.value) : e \in ruleset.domains[t].evidence}
              /\ \A t \in DOMAIN ruleset.intents :
                     <<"intent", t>> # Own(ruleset.routes[q.route_id]) =>
                         text \notin {Normalized(e.value) : e \in ruleset.intents[t].evidence}
            BY <2>6, <2>7, <2>9
        <3>2. text \in DOMAIN message
            OBVIOUS
        <3> HIDE DEF message
        <3> QED BY <2>1, <2>2, <2>8, <3>1, <3>2, OwnEvidenceKeepsWinner DEF all, raised, margin
    <2>11. PICK c \in BOOLEAN : DecideRoute(After(text), ruleset) = Routed(w, c)
        BY <2>4, <2>5, <2>10, WinnerIsRouted
    <2>12. ~ Failed(Routed(w, c)) /\ Routed(w, c).route_id = w.route_id
        <3>1. w.profile \in DOMAIN RoutingReason
            BY <2>9, <2>10
        <3> QED BY <3>1 DEF Routed, Unrouted, Failed
    <2> QED BY <2>9, <2>10, <2>11, <2>12
<1> QED BY <1>1, AlwaysBooted, PTL

-----------------------------------------------------------------------------
(* What the handler is handed                                              *)

\* A score is not negative, since no weight is.
LEMMA ScoreIsNatural ==
    ASSUME NEW message, NEW evidence, IsFiniteSet(evidence), NEW router,
           router.strong \in Nat, router.medium \in Nat, router.weak \in Nat
    PROVE  Score(Matched(message, evidence), router) \in Nat
<1> DEFINE matched == Matched(message, evidence)
           Count(strength) == Cardinality({e \in matched : e.strength = strength})
<1>1. IsFiniteSet(matched)
    BY FS_Subset DEF Matched
<1>2. Count("strong") \in Nat /\ Count("medium") \in Nat /\ Count("weak") \in Nat
    <2>1. ASSUME NEW strength PROVE Count(strength) \in Nat
        <3>1. IsFiniteSet({e \in matched : e.strength = strength})
            BY <1>1, FS_Subset
        <3> QED BY <3>1, FS_CardinalityType
    <2> QED BY <2>1
<1>3. Score(matched, router) = router.strong * Count("strong")
                                   + router.medium * Count("medium")
                                   + router.weak * Count("weak")
    BY DEF Score
<1> HIDE DEF matched, Count
<1>4. \A a, b \in Nat : a * b \in Nat
    OBVIOUS
<1>5. Score(matched, router) \in Nat
    BY <1>2, <1>3, <1>4
<1> QED BY <1>5 DEF matched

\* A route that qualifies has an enabled profile and a score that is not negative.
LEMMA QualifiedArePresentable ==
    ASSUME NEW rs, SaneRuleset(rs), NEW message
    PROVE  LET domains == Evaluations(message, rs.domains, rs.router)
               intents == Evaluations(message, rs.intents, rs.router)
           IN  \A q \in QualifiedRoutes(rs, domains, intents) :
                   /\ q.profile \in DOMAIN rs.profiles /\ rs.profiles[q.profile]
                   /\ q.score \in Nat
<1> DEFINE domains == Evaluations(message, rs.domains, rs.router)
           intents == Evaluations(message, rs.intents, rs.router)
<1>1. rs.router.strong \in Nat /\ rs.router.medium \in Nat /\ rs.router.weak \in Nat
    BY DEF SaneRuleset
<1>2. /\ \A t \in DOMAIN rs.domains : domains[t].score \in Nat
      /\ \A t \in DOMAIN rs.intents : intents[t].score \in Nat
    <2>1. ASSUME NEW targets, SaneTargets(targets), NEW t \in DOMAIN targets
          PROVE  Evaluations(message, targets, rs.router)[t].score \in Nat
        <3>1. IsFiniteSet(targets[t].evidence)
            BY <2>1 DEF SaneTargets
        <3>2. Evaluations(message, targets, rs.router)[t].score
                  = Score(Matched(message, targets[t].evidence), rs.router)
            BY DEF Evaluations
        <3> QED BY <1>1, <3>1, <3>2, ScoreIsNatural
    <2> QED BY <2>1 DEF SaneRuleset
<1> HIDE DEF domains, intents
<1>3. ASSUME NEW q \in QualifiedRoutes(rs, domains, intents)
      PROVE  /\ q.profile \in DOMAIN rs.profiles /\ rs.profiles[q.profile]
             /\ q.score \in Nat
    <2>1. /\ q.route_id \in EnabledRoutes(rs)
          /\ q.profile = rs.routes[q.route_id].profile
          /\ q.score = ComparisonScore(rs.routes[q.route_id], domains, intents)
        BY <1>3, QualifiedEntries
    <2>2. SaneRoute(rs.routes[q.route_id], rs)
        BY <2>1 DEF SaneRuleset
    <2> QED BY <1>2, <2>1, <2>2 DEF SaneRoute, ComparisonScore
<1> QED BY <1>3 DEF domains, intents

\* Every candidate of an ambiguous decision is one of the routes it is between.
LEMMA CandidatesAreRoutes ==
    ASSUME NEW routes, Sortable(routes)
    PROVE  LET c == Ambiguous(routes).candidates
           IN  \A i \in DOMAIN c :
                   \E q \in routes : c[i].profile = q.profile /\ c[i].comparison_score = q.score
<1> DEFINE n == Cardinality(routes)
           ordered == Ordered(routes)
           c == Candidates(routes)
<1>1. ordered \in [1..n -> routes]
    BY OrderedIsEnumeration
<1>2. c = [i \in 1..n |-> [route_id |-> ordered[i].route_id,
                           profile  |-> ordered[i].profile,
                           comparison_score |-> ordered[i].score]]
    BY <1>1 DEF Candidates
<1>3. Ambiguous(routes).candidates = c
    BY DEF Ambiguous, Unrouted
<1> HIDE DEF n, ordered, c
<1>4. \A i \in DOMAIN c : /\ ordered[i] \in routes
                          /\ c[i].profile = ordered[i].profile
                          /\ c[i].comparison_score = ordered[i].score
    BY <1>1, <1>2
<1> QED BY <1>3, <1>4

(***************************************************************************)
(* What Conversation assumes of an automatic decision (DecisionsAssumption *)
(* there, with the registry's ids and enabled flags as Profiles): whatever *)
(* the handler dispatches to, or shows to the client as a candidate, is an *)
(* enabled profile of the registry, and no score is negative               *)
(* (router_adapter.py:33-82, http_api/models.py:245-255).                  *)
(***************************************************************************)
Presentable ==
    Automatic /\ ~ Failed(decision) =>
        /\ SatisfiesContract(decision)
        /\ decision.state \in {"routed", "ambiguous", "unrouted"}
        /\ decision.state = "routed" =>
               decision.profile \in DOMAIN registry /\ registry[decision.profile].enabled
        /\ \A i \in DOMAIN decision.candidates :
               /\ decision.candidates[i].profile \in DOMAIN registry
               /\ registry[decision.candidates[i].profile].enabled
               /\ decision.candidates[i].comparison_score \in Nat

THEOREM DecisionsArePresentable == Spec => []Presentable
<1>1. Booted => Presentable
    <2> SUFFICES ASSUME Booted, Automatic, ~ Failed(decision)
                 PROVE  /\ SatisfiesContract(decision)
                        /\ decision.state \in {"routed", "ambiguous", "unrouted"}
                        /\ decision.state = "routed" =>
                               /\ decision.profile \in DOMAIN registry
                               /\ registry[decision.profile].enabled
                        /\ \A i \in DOMAIN decision.candidates :
                               /\ decision.candidates[i].profile \in DOMAIN registry
                               /\ registry[decision.candidates[i].profile].enabled
                               /\ decision.candidates[i].comparison_score \in Nat
        BY DEF Presentable
    <2> DEFINE all == QualifiedRoutes(ruleset,
                          Evaluations(request.message, ruleset.domains, ruleset.router),
                          Evaluations(request.message, ruleset.intents, ruleset.router))
               margin == ruleset.router.minimum_margin
    <2>1. /\ SaneRuleset(ruleset) /\ Compatible(ruleset, registry)
          /\ decision = DecideAutomatically(request.message, ruleset)
          /\ decision = DecideRoute(request, ruleset)
        BY DEF Booted, Automatic, DecideRoute
    <2>0. ~UnnamedMatch(request.message, ruleset)
        BY <2>1, PipelineRuns, RaisedFacts
    <2>2. SatisfiesContract(decision)
        BY <2>1, DecisionCases, RaisedFacts
    <2>3. \A q \in all : /\ q.profile \in DOMAIN ruleset.profiles
                         /\ ruleset.profiles[q.profile] /\ q.score \in Nat
        BY <2>1, QualifiedArePresentable
    <2>4. /\ Sortable(all)
          /\ \/ decision = Unrouted
             \/ \E routes \in SUBSET all :
                    Cardinality(routes) >= 2 /\ decision = Ambiguous(routes)
             \/ \E q \in all, b \in BOOLEAN : decision = Routed(q, b)
        BY <2>0, <2>1, AutomaticCases, Zenon
    <2>5. \A p \in DOMAIN ruleset.profiles :
              ruleset.profiles[p] => p \in DOMAIN registry /\ registry[p].enabled
        BY <2>1 DEF Compatible
    <2> HIDE DEF all, margin
    <2>6. CASE decision = Unrouted
        BY <2>2, <2>6 DEF Unrouted
    <2>7. ASSUME NEW routes \in SUBSET all, Cardinality(routes) >= 2,
                 decision = Ambiguous(routes)
          PROVE  /\ decision.state = "ambiguous"
                 /\ \A i \in DOMAIN decision.candidates :
                        /\ decision.candidates[i].profile \in DOMAIN registry
                        /\ registry[decision.candidates[i].profile].enabled
                        /\ decision.candidates[i].comparison_score \in Nat
        <3>1. Sortable(routes)
            BY <2>4, PartSortable
        <3>2. decision.state = "ambiguous"
            BY <2>7, <3>1, AmbiguousFacts
        <3>3. \A i \in DOMAIN decision.candidates :
                  \E q \in all : /\ decision.candidates[i].profile = q.profile
                                 /\ decision.candidates[i].comparison_score = q.score
            BY <2>7, <3>1, CandidatesAreRoutes
        <3> QED BY <2>3, <2>5, <3>2, <3>3
    <2>8. ASSUME NEW q \in all, NEW b \in BOOLEAN, decision = Routed(q, b)
          PROVE  /\ decision.state = "routed" /\ decision.candidates = << >>
                 /\ decision.profile = q.profile
        <3>1. q.profile \in DOMAIN RoutingReason
            BY <2>8, RaisedFacts DEF Routed
        <3> QED BY <2>8, <3>1 DEF Routed, Unrouted
    <2>9. CASE \E q \in all, b \in BOOLEAN : decision = Routed(q, b)
        BY <2>2, <2>3, <2>5, <2>8, <2>9
    <2>10. CASE \E routes \in SUBSET all :
                    Cardinality(routes) >= 2 /\ decision = Ambiguous(routes)
        BY <2>2, <2>7, <2>10
    <2> QED BY <2>4, <2>6, <2>9, <2>10
<1> QED BY <1>1, AlwaysBooted, PTL
=============================================================================
