---------------------------- MODULE NodeMap_proofs ----------------------------
(***************************************************************************)
(* For every set of entries, every order of them in the file and every     *)
(* topic: a loaded device map's topics are delivered once and traced into  *)
(* their most specific filter, and covers, intersection and check_overlaps *)
(* say what the topics say.                                                *)
(***************************************************************************)
EXTENDS NodeMap, TopicFilters_proofs

\* What is read of the file are filters with their QoS.
LEMMA EntryShape ==
  ASSUME NEW es \in Seq(Entry)
  PROVE  \A i \in DOMAIN es : IsFilter(es[i].topic) /\ es[i].qos \in QoSs
BY DEF Entry, EntryOK

\* A map's filters are a dict of filters, each at the highest QoS of its entries.
LEMMA FiltersOfShape ==
  ASSUME NEW es \in Seq(Entry)
  PROVE  /\ IsFilterDict(FiltersOf(es))
         /\ DOMAIN FiltersOf(es) = TopicsOf(es)
         /\ \A i \in DOMAIN es : FiltersOf(es)[es[i].topic] >= es[i].qos
<1>1. DOMAIN FiltersOf(es) = TopicsOf(es)
  BY DEF FiltersOf
<1>2. IsFiniteSet(TopicsOf(es))
  <2> DEFINE topicAt == [i \in DOMAIN es |-> es[i].topic]
  <2>1. IsFiniteSet(DOMAIN es)
    BY FS_Interval, LenProperties
  <2>2. topicAt \in Surjection(DOMAIN es, TopicsOf(es))
    BY DEF TopicsOf, Surjection
  <2> QED BY <2>1, <2>2, FS_Surjection
<1>3. ASSUME NEW f \in TopicsOf(es)
      PROVE  /\ IsFilter(f)
             /\ FiltersOf(es)[f] \in QoSs
             /\ \A i \in DOMAIN es : es[i].topic = f => FiltersOf(es)[f] >= es[i].qos
  <2> DEFINE Q == {es[i].qos : i \in {j \in DOMAIN es : es[j].topic = f}}
  <2>1. Q \in SUBSET QoSs /\ Q # {}
    BY EntryShape DEF TopicsOf
  <2>2. Max(Q) \in Q /\ \A q \in Q : Max(Q) >= q
    BY <2>1, MaxQoS
  <2>3. FiltersOf(es)[f] = Max(Q)
    BY DEF FiltersOf
  <2> QED
    BY <2>1, <2>2, <2>3, EntryShape DEF TopicsOf
<1> QED
  BY <1>1, <1>2, <1>3 DEF FiltersOf, IsFilterDict, TopicsOf

-----------------------------------------------------------------------------
(***************************************************************************)
(* The inductive invariant: a map is traced into only once it is accepted, *)
(* and no longer changes then.                                             *)
(***************************************************************************)
Accepted == /\ nodes \in Seq(Entry)
            /\ phase \in {"reading", "loaded", "refused", "invalid"}
            /\ topic \in Received \cup {<<>>}
            /\ phase = "loaded" => ~Overlapping(TopicsOf(nodes))
            /\ topic # <<>> => phase = "loaded"

\* What is traced is the topic of an accepted map, in every reachable state.
LEMMA AcceptedHolds == Spec => []Accepted
<1>1. Init => Accepted
  BY EmptySeq DEF Init, Accepted
<1>2. Accepted /\ [Next]_vars => Accepted'
  <2> SUFFICES ASSUME Accepted, [Next]_vars PROVE Accepted'
    OBVIOUS
  <2>1. CASE ReadEntry
    BY <2>1, AppendProperties DEF ReadEntry, Entry, Accepted
  <2>2. CASE Load
    BY <2>2 DEF Load, Accepted
  <2>3. CASE Receive
    BY <2>3 DEF Receive, Accepted
  <2>4. CASE UNCHANGED vars
    BY <2>4 DEF vars, Accepted
  <2> QED BY <2>1, <2>2, <2>3, <2>4 DEF Next
<1> QED BY <1>1, <1>2, PTL DEF Spec

\* "a broker delivers one copy per matching subscription": whatever the map and
\* the order of its entries, each topic that it has arrives once, at no lower
\* QoS than any matching entry asks.
THEOREM OneCopy == Spec => []DeliveredOnce
<1>1. ASSUME Accepted PROVE DeliveredOnce
  <2> DEFINE d        == FiltersOf(nodes)
             subs     == Subscriptions(d)
             copies   == {f \in DOMAIN subs : Matches(f, topic)}
             matching == {i \in DOMAIN nodes : Matches(nodes[i].topic, topic)}
  <2> SUFFICES ASSUME topic # <<>>, NEW w \in matching
               PROVE  /\ Cardinality(copies) = 1
                      /\ \A f \in copies, i \in matching : subs[f] >= nodes[i].qos
    BY DEF DeliveredOnce
  <2>1. IsTopic(topic) /\ nodes \in Seq(Entry)
    BY <1>1, MapAssumption DEF Accepted
  <2>2. IsFilterDict(d) /\ DOMAIN d = TopicsOf(nodes) /\ ~Overlapping(DOMAIN d)
    BY <1>1, <2>1, FiltersOfShape DEF Accepted
  <2>3. ASSUME NEW i \in matching
        PROVE  /\ nodes[i].topic \in DOMAIN d
               /\ d[nodes[i].topic] >= nodes[i].qos
               /\ d[nodes[i].topic] \in QoSs /\ nodes[i].qos \in QoSs
    BY <2>1, <2>2, FiltersOfShape, EntryShape DEF TopicsOf, IsFilterDict
  <2>4. ASSUME NEW i \in matching
        PROVE  \E f : copies = {f} /\ subs[f] >= nodes[i].qos
    <3>1. PICK f \in DOMAIN subs : subs[f] >= d[nodes[i].topic] /\ copies = {f}
      <4> HIDE DEF d
      <4> QED BY <2>1, <2>2, <2>3, SubscribedOnce
    <3>2. subs[f] \in QoSs
      <4> HIDE DEF d
      <4> QED BY <2>2, SubscriptionsShape DEF IsFilterDict
    <3> HIDE DEF subs, d
    <3> QED BY <2>3, <3>1, <3>2 DEF QoSs
  <2> HIDE DEF subs, d, copies, matching
  <2>5. PICK f : copies = {f}
    BY <2>4
  <2>6. Cardinality(copies) = 1
    BY <2>5, FS_Singleton
  <2> QED BY <2>4, <2>6
<1> QED BY <1>1, AcceptedHolds, PTL

\* intersection is exact for the compared filters, of any length and of any names:
\* a topic matches what it returns just when both filters match it.
THEOREM IntersectionsAreExact == Spec => []IntersectionExact
<1>1. ASSUME NEW a \in Compared, NEW b \in Compared, NEW t \in Topics
      PROVE  (Matches(a, t) /\ Matches(b, t)) <=>
               (Intersection(a, b) # Disjoint /\ Matches(Intersection(a, b), t))
  BY MapAssumption, IntersectionIsBoth
<1>2. IntersectionExact
  BY <1>1 DEF IntersectionExact
<1> QED BY <1>2, PTL

-----------------------------------------------------------------------------
(***************************************************************************)
(* covers says no only when a topic shows why                              *)
(***************************************************************************)
\* The topics near a filter, or near two, are among those that tell filters apart.
LEMMA NearTold ==
  ASSUME NEW T, NEW F, TellsApart(T, F), \A f \in F : IsFilter(f)
  PROVE  \E z \in Level \ Dollar :
            /\ \A f \in F : \A i \in 1..Len(f) : f[i] # z
            /\ \A G \in SUBSET F : \A t : Near(t, G, z) /\ G # {} => t \in T
<1> DEFINE names == {l \in Level : \E f \in F : \E i \in 1..Len(f) : f[i] = l}
<1>1. PICK z \in Level \ (Dollar \cup names) :
           \A f \in F : \A n \in (1..Len(f)) \cup {2} : [1..n -> names \cup {z}] \subseteq T
  BY DEF TellsApart
<1>2. \A f \in F : \A i \in 1..Len(f) : f[i] # z
  BY <1>1
<1>3. ASSUME NEW G \in SUBSET F, NEW t, Near(t, G, z), G # {} PROVE t \in T
  <2>1. IsTopic(t)
    BY <1>3 DEF Near
  <2>2. \A i \in 1..Len(t) : t[i] \in names \cup {z}
    BY <1>3, <2>1, TopicShape DEF Near
  <2>3. t \in [1..Len(t) -> names \cup {z}]
    <3> HIDE DEF names
    <3> QED BY <2>1, <2>2 DEF IsTopic
  <2>4. PICK f \in F : Len(t) = 2 \/ Len(t) <= Len(f)
    BY <1>3 DEF Near
  <2>5. Len(t) = 2 \/ Len(t) \in 1..Len(f)
    BY <2>1, <2>4, TopicShape, FilterShape
  <2> QED BY <1>1, <2>3, <2>5
<1> QED BY <1>1, <1>2, <1>3

\* "filter `a` matches every topic filter `b` matches": for the compared filters, of
\* any length and of any names, covers says yes just when it is so, but for "+/#"
\* against "#".
THEOREM CoversAreExact == Spec => []CoversExact
<1>1. ASSUME NEW a \in Compared, NEW b \in Compared,
             <<a, b>> # << <<"+", "#">>, <<"#">> >>,
             \A t \in Topics : Matches(b, t) => Matches(a, t)
      PROVE  Covers(a, b)
  <2>1. \A f \in Compared : IsFilter(f)
    BY MapAssumption
  <2>2. PICK z \in Level \ Dollar :
             /\ \A f \in Compared : \A i \in 1..Len(f) : f[i] # z
             /\ \A G \in SUBSET Compared : \A t : Near(t, G, z) /\ G # {} => t \in Topics
    BY <2>1, TopicsAssumption, NearTold
  <2> SUFFICES ASSUME ~Covers(a, b) PROVE FALSE
    OBVIOUS
  <2>3. PICK t : Near(t, {b}, z) /\ Matches(b, t) /\ ~Matches(a, t)
    BY <1>1, <2>1, <2>2, CoversComplete
  <2>4. t \in Topics
    BY <2>2, <2>3
  <2> QED BY <1>1, <2>3, <2>4
<1>2. ASSUME NEW a \in Compared, NEW b \in Compared, NEW t \in Topics,
             Covers(a, b), Matches(b, t)
      PROVE  Matches(a, t)
  BY <1>2, MapAssumption, CoversSound
<1>3. CoversExact
  BY <1>1, <1>2 DEF CoversExact
<1> QED BY <1>3, PTL

-----------------------------------------------------------------------------
(***************************************************************************)
(* match, and the loop that it runs over the keys of _wild                 *)
(***************************************************************************)
\* What an iteration keeps, in the words of the loop.
Kept(best, w, t) ==
  IF Matches(w, t) /\ (best = Unmatched \/ Covers(best, w)) THEN w ELSE best

\* FoldLeft is the loop: best takes a value per iteration, and the last is returned.
LEMMA LoopRuns ==
  ASSUME NEW es, NEW t, t \notin Exact(es), NEW n \in Nat, DOMAIN WildOrder(es) = 1..n
  PROVE  \E best : /\ best[0] = Unmatched
                   /\ \A k \in 1..n : best[k] = Kept(best[k - 1], WildOrder(es)[k], t)
                   /\ best[n] = MatchIn(es, t)
<1> DEFINE ws == WildOrder(es)
<1> HIDE DEF ws
<1> DEFINE Solves(g, m) ==
             g = [s \in SUBSET (1..m) |->
                    IF s = {} THEN Unmatched ELSE Kept(g[s \ {Max(s)}], ws[Max(s)], t)]
           Good == {m \in Nat : \E g : Solves(g, m)}
           iter == CHOOSE g : Solves(g, n)
           best == [k \in 0..n |-> iter[1..k]]
<1>1. 0 \in Good
  <2>1. Solves([s \in SUBSET (1..0) |-> Unmatched], 0)
    OBVIOUS
  <2> QED BY <2>1
<1>2. ASSUME NEW m \in 0..(n - 1), m \in Good PROVE m + 1 \in Good
  <2>1. PICK g : Solves(g, m)
    BY <1>2
  <2> DEFINE h == [s \in SUBSET (1..(m + 1)) |->
                     IF m + 1 \in s THEN Kept(g[s \ {m + 1}], ws[m + 1], t) ELSE g[s]]
  <2>2. ASSUME NEW s \in SUBSET (1..(m + 1)), s # {}
        PROVE  h[s] = Kept(h[s \ {Max(s)}], ws[Max(s)], t)
    <3>1. Max(s) \in s /\ \A i \in s : Max(s) >= i
      <4>1. m + 1 \in Nat
        OBVIOUS
      <4> QED BY <2>2, <4>1, MaxIndex, Zenon
    <3>2. CASE m + 1 \in s
      <4>1. Max(s) = m + 1
        <5>1. Max(s) \in 1..(m + 1) /\ Max(s) >= m + 1
          BY <3>1, <3>2
        <5> QED BY <5>1
      <4>2. s \ {m + 1} \in SUBSET (1..m) /\ m + 1 \notin s \ {m + 1}
        OBVIOUS
      <4>3. h[s \ {m + 1}] = g[s \ {m + 1}]
        BY <4>2
      <4> QED BY <3>2, <4>1, <4>3
    <3>3. CASE m + 1 \notin s
      <4>1. s \in SUBSET (1..m)
        BY <3>3
      <4>2. s \ {Max(s)} \in SUBSET (1..m) /\ m + 1 \notin s \ {Max(s)}
        BY <3>3, <4>1, Zenon
      <4>3. h[s] = g[s] /\ h[s \ {Max(s)}] = g[s \ {Max(s)}]
        BY <3>3, <4>2
      <4>4. g[s] = Kept(g[s \ {Max(s)}], ws[Max(s)], t)
        BY <2>1, <2>2, <4>1
      <4> QED BY <4>3, <4>4
    <3> QED BY <3>2, <3>3
  <2>3. h[{}] = Unmatched
    BY <2>1
  <2>4. Solves(h, m + 1)
    <3>1. \A s \in SUBSET (1..(m + 1)) :
             h[s] = IF s = {} THEN Unmatched ELSE Kept(h[s \ {Max(s)}], ws[Max(s)], t)
      <4> HIDE DEF h
      <4> QED BY <2>2, <2>3
    <3>2. h = [s \in SUBSET (1..(m + 1)) |-> h[s]]
      OBVIOUS
    <3> HIDE DEF h
    <3> QED BY <3>1, <3>2
  <2> HIDE DEF h, Solves
  <2> QED BY <2>4
<1>3. n \in Good
  <2> HIDE DEF Good
  <2> QED BY <1>1, <1>2, StepByStep
<1>4. Solves(iter, n)
  <2> HIDE DEF Solves
  <2> QED BY <1>3
<1>5. best[n] = MatchIn(es, t)
  <2>1. DOMAIN ws = 1..n
    BY DEF ws
  <2> HIDE DEF Solves
  <2> QED BY <2>1 DEF MatchIn, FoldLeft, MapThenFoldSet, Kept, Solves, ws
<1>6. best[0] = Unmatched
  <2>1. 1..0 = {} /\ {} \in SUBSET (1..n)
    OBVIOUS
  <2>2. iter[{}] = Unmatched
    <3> HIDE DEF iter
    <3> QED BY <1>4, <2>1
  <2> HIDE DEF iter
  <2> QED BY <2>1, <2>2
<1>7. ASSUME NEW k \in 1..n PROVE best[k] = Kept(best[k - 1], ws[k], t)
  <2>1. 1..k \in SUBSET (1..n) /\ k \in 1..k /\ 1..k # {}
    <3>1. 1..k \subseteq 1..n /\ k \in 1..k
      OBVIOUS
    <3> QED BY <3>1
  <2>2. Max(1..k) = k
    <3>1. Max(1..k) \in 1..k /\ Max(1..k) >= k
      BY <2>1, MaxIndex, Zenon
    <3> QED BY <3>1
  <2>3. (1..k) \ {k} = 1..(k - 1) /\ k - 1 \in 0..n /\ k \in 0..n
    OBVIOUS
  <2>4. iter[1..k] = Kept(iter[(1..k) \ {Max(1..k)}], ws[Max(1..k)], t)
    <3> HIDE DEF iter
    <3> QED BY <1>4, <2>1
  <2> HIDE DEF iter
  <2> QED BY <2>2, <2>3, <2>4
<1> HIDE DEF best
<1> QED BY <1>5, <1>6, <1>7 DEF ws
\* The keys of _wild are the wildcard filters of the map, each of them.
LEMMA WildOrderLists ==
  ASSUME NEW es \in Seq(Entry)
  PROVE  \E n \in Nat :
            /\ DOMAIN WildOrder(es) = 1..n
            /\ \A k \in 1..n : /\ WildOrder(es)[k] \in TopicsOf(es)
                               /\ IsWildcard(WildOrder(es)[k])
            /\ \A f \in TopicsOf(es) :
                  IsWildcard(f) => \E k \in 1..n : WildOrder(es)[k] = f
<1> DEFINE first == {i \in DOMAIN es : /\ IsWildcard(es[i].topic)
                                       /\ \A j \in 1..(i - 1) : es[j].topic # es[i].topic}
           n     == Cardinality(first)
           Before(i) == {j \in first : j < i}
           place == [i \in first |-> Cardinality(Before(i))]
<1>1. IsFiniteSet(first) /\ first \in SUBSET Nat /\ n \in Nat
  <2>1. IsFiniteSet(DOMAIN es) /\ DOMAIN es \in SUBSET Nat
    <3>1. DOMAIN es = 1..Len(es) /\ Len(es) \in Nat
      BY LenProperties
    <3> QED BY <3>1, FS_Interval
  <2>2. first \in SUBSET (DOMAIN es)
    OBVIOUS
  <2> HIDE DEF first
  <2> QED BY <2>1, <2>2, FS_Subset, FS_CardinalityType
<1>2. WildOrder(es) = [k \in 1..n |-> es[CHOOSE i \in first : Cardinality(Before(i)) = k - 1].topic]
  BY DEF WildOrder
<1>3. ASSUME NEW i \in first, NEW S \in SUBSET first, Before(i) \subseteq S, i \in S
      PROVE  place[i] \in Nat /\ Cardinality(S) \in Nat /\ place[i] < Cardinality(S)
  <2>1. IsFiniteSet(S) /\ IsFiniteSet(Before(i))
    <3>1. Before(i) \in SUBSET first
      OBVIOUS
    <3> HIDE DEF first, Before
    <3> QED BY <1>1, <3>1, FS_Subset
  <2>2. i \notin Before(i) /\ S # Before(i)
    <3>1. ~(i < i)
      BY <1>1
    <3> QED BY <1>3, <3>1
  <2> HIDE DEF first, Before
  <2> QED BY <1>3, <2>1, <2>2, FS_Subset, FS_CardinalityType
<1>4. place \in Injection(first, 0..(n - 1))
  <2>1. ASSUME NEW i \in first PROVE place[i] \in 0..(n - 1)
    <3>1. place[i] \in Nat /\ place[i] < n
      <4>1. Before(i) \subseteq first
        OBVIOUS
      <4> HIDE DEF first, Before, place
      <4> QED BY <1>3, <4>1
    <3> HIDE DEF place, n
    <3> QED BY <1>1, <3>1
  <2>2. ASSUME NEW i \in first, NEW j \in first, i < j PROVE place[i] # place[j]
    <3>1. Before(i) \subseteq Before(j) /\ i \in Before(j) /\ Before(j) \in SUBSET first
      <4>1. \A k \in first : k < i => k < j
        BY <1>1, <2>2
      <4> HIDE DEF first
      <4> QED BY <2>2, <4>1
    <3>2. place[j] = Cardinality(Before(j))
      OBVIOUS
    <3>3. place[i] \in Nat /\ Cardinality(Before(j)) \in Nat /\ place[i] < Cardinality(Before(j))
      <4> HIDE DEF first, Before, place
      <4> QED BY <1>3, <3>1
    <3> HIDE DEF first, Before, place
    <3> QED BY <3>2, <3>3
  <2>3. \A i, j \in first : i # j => i < j \/ j < i
    <3> HIDE DEF first
    <3> QED BY <1>1
  <2>4. place = [i \in first |-> place[i]]
    OBVIOUS
  <2>5. place \in [first -> 0..(n - 1)]
    <3> HIDE DEF place
    <3> QED BY <2>1, <2>4
  <2> HIDE DEF first, place, n
  <2>6. \A i, j \in first : place[i] = place[j] => i = j
    BY <2>2, <2>3
  <2> QED BY <2>5, <2>6, Zenon DEF Injection, IsInjective
<1>5. place \in Surjection(first, 0..(n - 1))
  <2>1. IsFiniteSet(0..(n - 1)) /\ Cardinality(0..(n - 1)) = n
    <3> HIDE DEF n
    <3> QED BY <1>1, FS_Interval
  <2> HIDE DEF place
  <2> QED BY <1>4, <2>1, FS_Injection
<1>6. ASSUME NEW k \in 1..n
      PROVE  \E i \in first : place[i] = k - 1 /\ WildOrder(es)[k] = es[i].topic
  <2>1. k - 1 \in 0..(n - 1)
    <3> HIDE DEF n
    <3> QED BY <1>1
  <2>2. \E i \in first : place[i] = k - 1
    <3> HIDE DEF first, place, n
    <3> QED BY <1>5, <2>1 DEF Surjection
  <2> DEFINE i == CHOOSE i \in first : Cardinality(Before(i)) = k - 1
  <2>3. i \in first /\ Cardinality(Before(i)) = k - 1
    <3>1. \E j \in first : Cardinality(Before(j)) = k - 1
      BY <2>2
    <3> HIDE DEF first, Before
    <3> QED BY <3>1
  <2>4. WildOrder(es)[k] = es[i].topic
    <3> HIDE DEF first, Before, n
    <3> QED BY <1>2
  <2> HIDE DEF i
  <2> QED BY <2>3, <2>4
<1>7. \A k \in 1..n : WildOrder(es)[k] \in TopicsOf(es) /\ IsWildcard(WildOrder(es)[k])
  <2>1. \A i \in first : i \in DOMAIN es /\ IsWildcard(es[i].topic)
    OBVIOUS
  <2> HIDE DEF first, place, n
  <2> QED BY <1>6, <2>1 DEF TopicsOf
<1>8. ASSUME NEW f \in TopicsOf(es), IsWildcard(f)
      PROVE  \E k \in 1..n : WildOrder(es)[k] = f
  <2> DEFINE S == {i \in DOMAIN es : es[i].topic = f}
             i == Min(S)
  <2>1. i \in S /\ \A j \in S : i <= j
    <3>1. S \in SUBSET Nat /\ S # {}
      BY LenProperties DEF TopicsOf
    <3> HIDE DEF S
    <3> QED BY <3>1, MinNat
  <2> HIDE DEF i
  <2>2. i \in first
    <3>1. \A j \in 1..(i - 1) : j \in DOMAIN es /\ ~(i <= j)
      BY <2>1, LenProperties
    <3> QED BY <1>8, <2>1, <3>1
  <2>3. place[i] + 1 \in 1..n /\ (place[i] + 1) - 1 = place[i]
    <3>1. place[i] \in 0..(n - 1)
      <4> HIDE DEF first, place, n
      <4> QED BY <1>4, <2>2 DEF Injection
    <3> HIDE DEF place, n
    <3> QED BY <1>1, <3>1
  <2>4. PICK j \in first : place[j] = place[i] /\ WildOrder(es)[place[i] + 1] = es[j].topic
    <3> HIDE DEF first, place, n
    <3> QED BY <1>6, <2>3
  <2>5. j = i
    <3> HIDE DEF first, place, n
    <3> QED BY <1>4, <2>2, <2>4, Zenon DEF Injection, IsInjective
  <2> HIDE DEF place, n
  <2> QED BY <2>1, <2>3, <2>4, <2>5
<1>9. DOMAIN WildOrder(es) = 1..n
  BY <1>2
<1> HIDE DEF n
<1> QED BY <1>1, <1>7, <1>8, <1>9
LEMMA TopicMatchesItself ==
  ASSUME NEW t, IsTopic(t)
  PROVE  Matches(t, t)
BY TopicShape, LevelAssumption DEF Matches, LevelsMatch, DollarApart

\* Of two filters of an accepted map that match the topic, one covers the other.
LEMMA MatchesNest ==
  ASSUME NEW F, \A f \in F : IsFilter(f), ~Overlapping(F), NEW t, IsTopic(t),
         NEW f \in F, NEW g \in F, IsWildcard(f), IsWildcard(g),
         Matches(f, t), Matches(g, t)
  PROVE  Covers(f, g) \/ Covers(g, f)
<1>1. CASE f = g
  BY <1>1, CoversReflexive
<1>2. CASE f # g
  <2>1. Intersection(f, g) # Disjoint
    BY SharedTopicIntersects
  <2> QED BY <1>2, <2>1 DEF Overlapping
<1> QED BY <1>1, <1>2

\* "the matches form a chain and the innermost is unique": what match returns for a
\* topic, whatever the order of the entries.
MostSpecific(es, t, f) ==
  LET matching == {g \in TopicsOf(es) : Matches(g, t)}
  IN  IF matching = {} THEN f = Unmatched
      ELSE f \in matching /\ \A g \in matching : Covers(g, f)

LEMMA MatchIsMostSpecific ==
  ASSUME NEW es \in Seq(Entry), ~Overlapping(TopicsOf(es)), NEW t, IsTopic(t)
  PROVE  MostSpecific(es, t, MatchIn(es, t))
<1> DEFINE F  == TopicsOf(es)
           ws == WildOrder(es)
           Among(k) == {ws[j] : j \in {i \in 1..k : Matches(ws[i], t)}}
<1>1. \A f \in F : IsFilter(f) /\ f # Unmatched
  BY EntryShape DEF TopicsOf, Unmatched, IsFilter
<1>2. CASE t \in Exact(es)
  <2>1. MatchIn(es, t) = t
    BY <1>2 DEF MatchIn
  <2>2. t \in F /\ Matches(t, t)
    BY <1>2, TopicMatchesItself DEF Exact
  <2>3. \A f \in F : Matches(f, t) => Covers(f, t)
    BY <1>1, MatchCovers
  <2> HIDE DEF F
  <2> QED BY <2>1, <2>2, <2>3 DEF MostSpecific, F
<1>3. CASE t \notin Exact(es)
  <2>1. PICK n \in Nat :
             /\ DOMAIN ws = 1..n
             /\ \A k \in 1..n : ws[k] \in F /\ IsWildcard(ws[k])
             /\ \A f \in F : IsWildcard(f) => \E k \in 1..n : ws[k] = f
    BY WildOrderLists
  <2>2. PICK best :
             /\ best[0] = Unmatched
             /\ \A k \in 1..n : best[k] = Kept(best[k - 1], ws[k], t)
             /\ best[n] = MatchIn(es, t)
    BY <1>3, <2>1, LoopRuns
  <2> HIDE DEF F, ws
  <2> DEFINE Holds(k) == IF Among(k) = {} THEN best[k] = Unmatched
                         ELSE /\ best[k] \in Among(k)
                              /\ \A f \in Among(k) : Covers(f, best[k])
             Good == {k \in Nat : k <= n => Holds(k)}
  <2>3. 0 \in Good
    <3>1. Among(0) = {}
      OBVIOUS
    <3> HIDE DEF Among
    <3> QED BY <2>2, <3>1
  <2>4. ASSUME NEW k \in 0..(n - 1), k \in Good PROVE k + 1 \in Good
    <3> DEFINE w == ws[k + 1]
    <3>1. k + 1 \in 1..n /\ (k + 1) - 1 = k /\ k \in Nat /\ k <= n /\ 1..k \subseteq 1..n
      BY <2>1
    <3>2. w \in F /\ IsWildcard(w) /\ IsFilter(w)
      BY <1>1, <2>1, <3>1 DEF F
    <3>3. best[k + 1] = Kept(best[k], w, t)
      BY <2>2, <3>1
    <3>4. Holds(k)
      BY <2>4, <3>1
    <3>5. Among(k + 1) = IF Matches(w, t) THEN Among(k) \cup {w} ELSE Among(k)
      <4>1. 1..(k + 1) = 1..k \cup {k + 1}
        BY <3>1
      <4> QED BY <4>1
    <3>6. \A f \in Among(k) : f \in F /\ IsWildcard(f) /\ IsFilter(f) /\ Matches(f, t)
                              /\ f # Unmatched
      BY <1>1, <2>1, <3>1 DEF F
    <3> HIDE DEF Among, w
    <3>7. Holds(k + 1)
      <4>1. CASE ~Matches(w, t)
        BY <3>3, <3>4, <3>5, <4>1 DEF Kept
      <4>2. CASE Matches(w, t) /\ Among(k) = {}
        BY <3>2, <3>3, <3>4, <3>5, <4>2, CoversReflexive DEF Kept
      <4>3. CASE Matches(w, t) /\ Among(k) # {}
        <5>1. best[k] \in Among(k) /\ \A f \in Among(k) : Covers(f, best[k])
          BY <3>4, <4>3
        <5>2. Covers(best[k], w) \/ Covers(w, best[k])
          BY <1>1, <3>2, <3>6, <4>3, <5>1, MatchesNest DEF F
        <5>3. CASE Covers(best[k], w)
          <6>1. \A f \in Among(k) : Covers(f, w)
            BY <3>2, <3>6, <5>1, <5>3, CoversTransitive
          <6>2. best[k + 1] = w /\ Among(k + 1) = Among(k) \cup {w}
            BY <3>3, <3>5, <4>3, <5>3 DEF Kept
          <6> QED BY <3>2, <6>1, <6>2, CoversReflexive
        <5>4. CASE ~Covers(best[k], w)
          <6>1. best[k + 1] = best[k] /\ Among(k + 1) = Among(k) \cup {w}
            BY <3>3, <3>5, <3>6, <4>3, <5>1, <5>4 DEF Kept
          <6> QED BY <5>1, <5>2, <5>4, <6>1
        <5> QED BY <5>3, <5>4
      <4> QED BY <4>1, <4>2, <4>3
    <3> QED BY <3>1, <3>7
  <2>5. Holds(n)
    <3>1. n \in Good
      <4> HIDE DEF Good
      <4> QED BY <2>3, <2>4, StepByStep
    <3> HIDE DEF Holds
    <3> QED BY <3>1
  <2>6. Among(n) = {f \in F : Matches(f, t)}
    <3>1. \A f \in F : Matches(f, t) => IsWildcard(f)
      <4> SUFFICES ASSUME NEW f \in F, Matches(f, t), ~IsWildcard(f) PROVE FALSE
        OBVIOUS
      <4>1. f = t
        BY <1>1, ExactMatch DEF F
      <4> QED BY <1>3, <4>1 DEF Exact, F
    <3> QED BY <2>1, <3>1
  <2> HIDE DEF Among
  <2> QED BY <2>2, <2>5, <2>6 DEF MostSpecific, F
<1> QED BY <1>2, <1>3
-----------------------------------------------------------------------------
(***************************************************************************)
(* What is traced                                                          *)
(***************************************************************************)
\* What the entries read, the verdict and the last message say of each other: only a
\* map that passed check_overlaps is traced into, and match decides where.
Traced == /\ phase = "refused" => Overlapping(TopicsOf(nodes))
          /\ Len(nodes) <= MaxEntries
          /\ traced = IF topic = <<>> THEN Unmatched ELSE MatchIn(nodes, topic)

LEMMA TracedHolds == Spec => [](Accepted /\ Traced)
<1>1. Init => Traced
  BY MapAssumption DEF Init, Traced
<1>2. Accepted /\ Accepted' /\ Traced /\ [Next]_vars => Traced'
  <2> SUFFICES ASSUME Accepted, Accepted', Traced, [Next]_vars PROVE Traced'
    OBVIOUS
  <2>1. CASE ReadEntry
    <3>1. topic = <<>> /\ topic' = topic /\ traced' = traced /\ phase' # "refused"
      BY <2>1 DEF ReadEntry, Accepted
    <3>2. Len(nodes') <= MaxEntries
      BY <2>1, MapAssumption, LenProperties, AppendProperties DEF ReadEntry, Accepted, Traced
    <3> QED BY <3>1, <3>2 DEF Traced
  <2>2. CASE Load
    BY <2>2 DEF Load, Traced
  <2>3. CASE Receive
    <3>1. topic' # <<>>
      BY <2>3, MapAssumption DEF Receive, IsTopic
    <3> QED BY <2>3, <3>1 DEF Receive, Traced
  <2>4. CASE UNCHANGED vars
    BY <2>4 DEF vars, Traced
  <2> QED BY <2>1, <2>2, <2>3, <2>4 DEF Next
<1> QED BY <1>1, <1>2, AcceptedHolds, PTL DEF Spec

\* "the matches form a chain and the innermost is unique": whatever the entries, their
\* order and the topic, match stops at a matching filter that every other one covers,
\* and a topic no filter matches is discovered.
THEOREM MatchingEntryTraced == Spec => []MostSpecificTraced
<1>1. ASSUME Accepted, Traced PROVE MostSpecificTraced
  <2> SUFFICES ASSUME topic # <<>> PROVE MostSpecific(nodes, topic, traced)
    BY DEF MostSpecificTraced, MostSpecific
  <2>1. IsTopic(topic) /\ nodes \in Seq(Entry) /\ ~Overlapping(TopicsOf(nodes))
    BY <1>1, MapAssumption DEF Accepted
  <2>2. traced = MatchIn(nodes, topic)
    BY <1>1 DEF Traced
  <2> QED BY <2>1, <2>2, MatchIsMostSpecific
<1> QED BY <1>1, TracedHolds, PTL

\* Type correctness: what is traced is a filter of the map, or nothing.
THEOREM TypeCorrect == Spec => []TypeOK
<1>1. ASSUME Accepted, Traced, MostSpecificTraced PROVE TypeOK
  <2>1. traced \in TopicsOf(nodes) \cup {Unmatched}
    BY <1>1 DEF Traced, MostSpecificTraced
  <2> QED BY <1>1, <2>1 DEF TypeOK, Accepted, Traced
<1> QED BY <1>1, TracedHolds, MatchingEntryTraced, PTL

\* Two filters that check_overlaps refuses, and the three topics that show why.
LEMMA OverlapShown ==
  ASSUME NEW F, \A f \in F : IsFilter(f), Overlapping(F),
         NEW T, NEW E, TellsApart(T, E), F \subseteq E, \A f \in E : IsFilter(f)
  PROVE  \E a, b \in F : \E s, t, u \in T : /\ Matches(a, s) /\ Matches(b, s)
                                            /\ Matches(a, t) /\ ~Matches(b, t)
                                            /\ Matches(b, u) /\ ~Matches(a, u)
<1>1. PICK a \in F, b \in F : /\ a # b /\ Intersection(a, b) # Disjoint
                              /\ Covers(a, b) <=> Covers(b, a)
  BY DEF Overlapping
<1>2. IsFilter(a) /\ IsFilter(b)
  OBVIOUS
<1>3. ~Covers(a, b) /\ ~Covers(b, a)
  <2>1. Covers(a, b) /\ Covers(b, a) => a = b
    BY <1>2, CoversAntisymmetric
  <2> QED BY <1>1, <2>1
<1>4. PICK z \in Level \ Dollar :
           /\ \A f \in E : \A i \in 1..Len(f) : f[i] # z
           /\ \A G \in SUBSET E : \A t : Near(t, G, z) /\ G # {} => t \in T
  BY NearTold
<1>5. PICK s : Near(s, {a, b}, z) /\ Matches(a, s) /\ Matches(b, s)
  <2>1. Intersection(a, b) # Disjoint
    BY <1>1
  <2> QED BY <1>2, <2>1, SharedTopic, Zenon
<1>6. /\ <<a, b>> # << <<"+", "#">>, <<"#">> >>
      /\ <<b, a>> # << <<"+", "#">>, <<"#">> >>
  <2>1. Covers(<<"#">>, <<"+", "#">>)
    BY LevelAssumption DEF Covers, DollarApart, LevelCovers
  <2> QED BY <1>3, <2>1
<1>7. PICK u : Near(u, {b}, z) /\ Matches(b, u) /\ ~Matches(a, u)
  BY <1>2, <1>3, <1>4, <1>6, CoversComplete
<1>8. PICK t : Near(t, {a}, z) /\ Matches(a, t) /\ ~Matches(b, t)
  BY <1>2, <1>3, <1>4, <1>6, CoversComplete
<1>9. s \in T /\ t \in T /\ u \in T
  <2>1. {a, b} \in SUBSET E /\ {a} \in SUBSET E /\ {b} \in SUBSET E
    OBVIOUS
  <2> QED BY <1>4, <1>5, <1>7, <1>8, <2>1
<1> QED BY <1>5, <1>7, <1>8, <1>9
\* check_overlaps refuses no map without cause: it has two filters that share a topic
\* and each of which matches one that the other does not.
THEOREM RefusalsShown == Spec => []RefusedForCause
<1>1. ASSUME Accepted, Traced PROVE RefusedForCause
  <2> SUFFICES ASSUME phase = "refused"
               PROVE  \E a, b \in TopicsOf(nodes) :
                         \E s, t, u \in Received : /\ Matches(a, s) /\ Matches(b, s)
                                                   /\ Matches(a, t) /\ ~Matches(b, t)
                                                   /\ Matches(b, u) /\ ~Matches(a, u)
    BY DEF RefusedForCause
  <2> DEFINE F == TopicsOf(nodes)
             E == {e.topic : e \in Entry}
  <2>1. F \subseteq E /\ Overlapping(F) /\ TellsApart(Received, E)
    BY <1>1, TopicsAssumption DEF Accepted, Traced, TopicsOf
  <2>2. \A f \in E : IsFilter(f)
    BY DEF Entry, EntryOK
  <2> HIDE DEF F, E
  <2>3. \A f \in F : IsFilter(f)
    BY <2>1, <2>2
  <2>4. \E a, b \in F : \E s, t, u \in Received : /\ Matches(a, s) /\ Matches(b, s)
                                                  /\ Matches(a, t) /\ ~Matches(b, t)
                                                  /\ Matches(b, u) /\ ~Matches(a, u)
    BY <2>1, <2>2, <2>3, OverlapShown
  <2> QED BY <2>4 DEF F
<1> QED BY <1>1, TracedHolds, PTL
=============================================================================
