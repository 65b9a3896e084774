------------------------- MODULE TopicFilters_proofs -------------------------
(***************************************************************************)
(* The laws of covers, intersection and subscriptions that mqtt_map.py and *)
(* client.py rely on, for all filters and topics: covers is a partial order *)
(* that agrees with what the filters match; of the wanted filters every one *)
(* is covered by a subscription, and no topic is received twice.           *)
(***************************************************************************)
EXTENDS TopicFilters, FiniteSetTheorems, WellFoundedInduction, SequenceTheorems, TLAPS

\* The shape of a filter: levels, of which only the last can be "#".
LEMMA FilterShape ==
  ASSUME NEW f, IsFilter(f)
  PROVE  /\ Len(f) \in Nat \ {0}
         /\ DOMAIN f = 1..Len(f)
         /\ \A i \in 1..Len(f) : f[i] \in Level \cup {"+", "#"}
         /\ \A i \in 1..Len(f) : f[i] = "#" => i = Len(f)
BY DEF IsFilter

LEMMA TopicShape ==
  ASSUME NEW t, IsTopic(t)
  PROVE  /\ Len(t) \in Nat \ {0}
         /\ DOMAIN t = 1..Len(t)
         /\ \A i \in 1..Len(t) : t[i] \in Level /\ t[i] # "+" /\ t[i] # "#"
BY LevelAssumption DEF IsTopic

\* A topic is the filter that matches it alone.
LEMMA TopicIsFilter ==
  ASSUME NEW t, IsTopic(t)
  PROVE  IsFilter(t) /\ ~IsWildcard(t)
<1>1. t \in Seq(Level \cup {"+", "#"})
  BY SeqMonotonic DEF IsTopic
<1> QED
  BY <1>1, TopicShape DEF IsTopic, IsFilter, IsWildcard

\* covers, as its two ways to return True say it for filters.
LEMMA CoversShape ==
  ASSUME NEW a, NEW b, IsFilter(a), IsFilter(b)
  PROVE  Covers(a, b) <=>
           /\ ~DollarApart(a, b)
           /\ \/ /\ a[Len(a)] = "#"
                 /\ \A j \in 1..(Len(a) - 1) : LevelCovers(a, b, j)
              \/ /\ Len(a) = Len(b)
                 /\ \A j \in 1..Len(a) : LevelCovers(a, b, j)
BY FilterShape DEF Covers

\* covers is reflexive: a filter already wanted is covered by itself.
THEOREM CoversReflexive ==
  ASSUME NEW f, IsFilter(f)
  PROVE  Covers(f, f)
<1>1. ~DollarApart(f, f)
  BY FilterShape, LevelAssumption DEF DollarApart
<1>2. CASE f[Len(f)] = "#"
  <2>1. \A j \in 1..(Len(f) - 1) : LevelCovers(f, f, j)
    BY FilterShape DEF LevelCovers
  <2> QED BY <1>1, <1>2, <2>1, CoversShape
<1>3. CASE f[Len(f)] # "#"
  <2>1. \A j \in 1..Len(f) : LevelCovers(f, f, j)
    BY <1>3, FilterShape DEF LevelCovers
  <2> QED BY <1>1, <2>1, CoversShape
<1> QED BY <1>2, <1>3

\* covers is antisymmetric: two filters never cover each other, so that
\* check_overlaps' `covers(a, b) == covers(b, a)` means neither does.
THEOREM CoversAntisymmetric ==
  ASSUME NEW a, NEW b, IsFilter(a), IsFilter(b), Covers(a, b), Covers(b, a)
  PROVE  a = b
<1>1. Len(a) = Len(b)
  BY CoversShape, FilterShape DEF LevelCovers
<1>2. ASSUME NEW i \in 1..Len(a) PROVE a[i] = b[i]
  BY <1>1, <1>2, CoversShape, FilterShape DEF LevelCovers
<1> QED
  BY <1>1, <1>2, SeqEqual DEF IsFilter

\* covers is transitive.
THEOREM CoversTransitive ==
  ASSUME NEW a, NEW b, NEW c, IsFilter(a), IsFilter(b), IsFilter(c),
         Covers(a, b), Covers(b, c)
  PROVE  Covers(a, c)
<1>1. ~DollarApart(a, c)
  BY CoversShape, FilterShape, LevelAssumption DEF LevelCovers, DollarApart
<1>2. ASSUME NEW j \in 1..Len(a), a[j] # "#"
      PROVE  LevelCovers(a, c, j)
  <2>1. LevelCovers(a, b, j)
    BY <1>2, CoversShape
  <2>2. /\ Len(a) \in Nat /\ Len(b) \in Nat
        /\ j \in 1..Len(b) /\ b[j] # "#"
        /\ a[j] = "+" \/ a[j] = b[j]
    BY <1>2, <2>1, FilterShape DEF LevelCovers
  <2>3. LevelCovers(b, c, j)
    BY <2>2, CoversShape
  <2> QED BY <1>2, <2>1, <2>2, <2>3, SMTT(30) DEF LevelCovers
<1>3. CASE a[Len(a)] = "#"
  BY <1>1, <1>2, <1>3, CoversShape, FilterShape
<1>4. CASE a[Len(a)] # "#"
  <2>1. Len(a) = Len(b) /\ \A j \in 1..Len(a) : LevelCovers(a, b, j)
    BY <1>4, CoversShape
  <2>2. b[Len(b)] # "#"
    BY <2>1, FilterShape DEF LevelCovers
  <2>3. Len(b) = Len(c)
    BY <2>2, CoversShape
  <2> QED
    BY <1>1, <1>2, <1>4, <2>1, <2>3, CoversShape, FilterShape
<1> QED
  BY <1>3, <1>4

\* covers is sound: "filter `a` matches every topic filter `b` matches".
THEOREM CoversSound ==
  ASSUME NEW a, NEW b, NEW t, IsFilter(a), IsFilter(b), IsTopic(t),
         Covers(a, b), Matches(b, t)
  PROVE  Matches(a, t)
<1>1. ~DollarApart(a, t)
  BY CoversShape, FilterShape, TopicShape, LevelAssumption
  DEF LevelCovers, DollarApart, Matches, LevelsMatch
<1>2. ASSUME NEW j \in 1..Len(a), a[j] # "#"
      PROVE  j <= Len(t) /\ a[j] \in {"+", t[j]}
  BY <1>2, CoversShape, FilterShape, TopicShape DEF LevelCovers, Matches, LevelsMatch
<1> QED
  BY <1>1, <1>2, CoversShape, FilterShape, TopicShape DEF LevelCovers, Matches, LevelsMatch

-----------------------------------------------------------------------------
(***************************************************************************)
(* subscriptions                                                           *)
(***************************************************************************)

\* The largest QoS of a set that has one.
LEMMA MaxQoS ==
  ASSUME NEW S \in SUBSET QoSs, S # {}
  PROVE  Max(S) \in S /\ \A q \in S : Max(S) >= q
<1>1. \E m \in S : \A q \in S : m >= q
  <2>0. S \subseteq {0, 1, 2}
    BY DEF QoSs
  <2>1. CASE 2 \in S BY <2>0, <2>1
  <2>2. CASE 2 \notin S /\ 1 \in S BY <2>0, <2>2
  <2>3. CASE 2 \notin S /\ 1 \notin S
    <3>1. S = {0} BY <2>0, <2>3
    <3> QED BY <3>1
  <2> QED BY <2>1, <2>2, <2>3
<1> QED BY <1>1 DEF Max

\* What subscriptions(d) is made of: filters of d, each at a QoS no filter it
\* covers exceeds; it is a dict of filters again.
LEMMA SubscriptionsShape ==
  ASSUME NEW d, IsFilterDict(d)
  PROVE  /\ IsFilterDict(Subscriptions(d))
         /\ DOMAIN Subscriptions(d) = Outermost(d)
         /\ Outermost(d) \subseteq DOMAIN d
         /\ \A f \in Outermost(d) : \A g \in DOMAIN d :
               Covers(f, g) => Subscriptions(d)[f] >= d[g]
<1>1. Outermost(d) \subseteq DOMAIN d
  BY DEF Outermost
<1>2. ASSUME NEW f \in Outermost(d)
      PROVE  /\ Subscriptions(d)[f] \in QoSs
             /\ \A g \in DOMAIN d : Covers(f, g) => Subscriptions(d)[f] >= d[g]
  <2> DEFINE Q == {d[g] : g \in {h \in DOMAIN d : Covers(f, h)}}
  <2>1. Q \in SUBSET QoSs
    BY DEF IsFilterDict
  <2>2. d[f] \in Q
    BY <1>1, <1>2, CoversReflexive DEF IsFilterDict
  <2>3. Max(Q) \in Q /\ \A q \in Q : Max(Q) >= q
    BY <2>1, <2>2, MaxQoS
  <2>4. Subscriptions(d)[f] = Max(Q)
    BY <1>2 DEF Subscriptions
  <2> QED
    BY <2>1, <2>3, <2>4
<1>3. IsFiniteSet(Outermost(d))
  BY <1>1, FS_Subset DEF IsFilterDict
<1> QED
  BY <1>1, <1>2, <1>3 DEF Subscriptions, IsFilterDict

\* "The filters to subscribe": however many filters are wanted and however they
\* nest, each is covered by one that subscriptions() keeps, at its QoS or a
\* higher one.
THEOREM SubscriptionsCover ==
  ASSUME NEW d, IsFilterDict(d), NEW f \in DOMAIN d
  PROVE  \E g \in DOMAIN Subscriptions(d) : Covers(g, f) /\ Subscriptions(d)[g] >= d[f]
<1> DEFINE S == DOMAIN d
           Above(x) == {g \in S : Covers(g, x)}
           T == {Above(g) : g \in Above(f)}
<1>1. IsWellFoundedOn(StrictSubsetOrdering(S), SUBSET S)
  BY FS_StrictSubsetOrderingWellFounded, FS_FiniteSubsetsOfFinite DEF IsFilterDict
<1>2. T \subseteq SUBSET S /\ T # {}
  <2>1. f \in Above(f)
    BY CoversReflexive DEF IsFilterDict
  <2>2. Above(f) \in T
    BY <2>1
  <2> QED BY <2>2
<1>3. PICK x \in T : \A y \in T : <<y, x>> \notin StrictSubsetOrdering(S)
  BY <1>1, <1>2, WFMin
<1>4. PICK g \in Above(f) : x = Above(g)
  OBVIOUS
<1>5. ASSUME NEW h \in S, h # g, Covers(h, g)
      PROVE  FALSE
  <2>1. h \in Above(f)
    BY <1>4, <1>5, CoversTransitive DEF IsFilterDict
  <2>2. Above(h) \subseteq Above(g)
    BY <1>4, <1>5, CoversTransitive DEF IsFilterDict
  <2>3. g \in Above(g) /\ g \notin Above(h)
    BY <1>4, <1>5, CoversReflexive, CoversAntisymmetric DEF IsFilterDict
  <2>4. <<Above(h), Above(g)>> \in StrictSubsetOrdering(S)
    BY <2>2, <2>3 DEF StrictSubsetOrdering
  <2> QED
    BY <1>3, <1>4, <2>1, <2>4
<1>6. g \in Outermost(d)
  BY <1>4, <1>5 DEF Outermost
<1> QED
  BY <1>4, <1>6, SubscriptionsShape

-----------------------------------------------------------------------------
(***************************************************************************)
(* check_overlaps and what it promises subscriptions                       *)
(***************************************************************************)

\* The least element that Min picks.
LEMMA MinNat ==
  ASSUME NEW S \in SUBSET Nat, S # {}
  PROVE  Min(S) \in S /\ \A n \in S : Min(S) <= n
<1> DEFINE T == {1..n : n \in S}
<1>1. T # {} /\ T \subseteq FiniteSubsetsOf(Nat)
  <2>1. ASSUME NEW n \in S PROVE IsFiniteSet(1..n) /\ 1..n \subseteq Nat
    BY FS_Interval
  <2> QED BY <2>1 DEF FiniteSubsetsOf
<1>2. PICK x \in T : \A y \in T : <<y, x>> \notin StrictSubsetOrdering(Nat)
  BY <1>1, FS_StrictSubsetOrderingWellFounded, WFMin
<1>3. PICK m \in S : x = 1..m
  OBVIOUS
<1>4. ASSUME NEW n \in S, n < m PROVE FALSE
  <2>1. 1..n \subseteq 1..m /\ m \in 1..m /\ m \notin 1..n
    BY <1>4
  <2>2. <<1..n, 1..m>> \in StrictSubsetOrdering(Nat)
    BY <2>1 DEF StrictSubsetOrdering
  <2> QED BY <1>2, <1>3, <2>2
<1>5. \A n \in S : m <= n
  BY <1>4
<1> QED BY <1>5 DEF Min

\* What holds at 0, and at each number once at the one before, holds up to any n.
LEMMA StepByStep ==
  ASSUME NEW n \in Nat, NEW S, 0 \in S,
         ASSUME NEW k \in 0..(n - 1), k \in S PROVE k + 1 \in S
  PROVE  n \in S
<1> SUFFICES ASSUME n \notin S PROVE FALSE
  OBVIOUS
<1> DEFINE m == Min((0..n) \ S)
<1>1. m \in (0..n) \ S /\ \A k \in (0..n) \ S : m <= k
  <2>1. (0..n) \ S \in SUBSET Nat /\ (0..n) \ S # {}
    OBVIOUS
  <2> QED BY <2>1, MinNat
<1> HIDE DEF m
<1>2. m # 0 /\ m - 1 \in 0..(n - 1)
  BY <1>1
<1>3. m - 1 \in S
  BY <1>1, <1>2
<1> QED BY <1>1, <1>2, <1>3

\* Max of a bounded set of indices is the last of them.
LEMMA MaxIndex ==
  ASSUME NEW n \in Nat, NEW S \in SUBSET (1..n), S # {}
  PROVE  Max(S) \in S /\ \A i \in S : Max(S) >= i
<1> DEFINE m == Min({n - i : i \in S})
<1>1. m \in {n - i : i \in S} /\ \A k \in {n - i : i \in S} : m <= k
  <2>1. {n - i : i \in S} \in SUBSET Nat /\ {n - i : i \in S} # {}
    <3>1. \A i \in S : n - i \in Nat
      OBVIOUS
    <3> QED BY <3>1
  <2> HIDE DEF m
  <2> QED BY <2>1, MinNat DEF m
<1> HIDE DEF m
<1>2. n - m \in S /\ \A i \in S : n - m >= i
  BY <1>1
<1> QED BY <1>2 DEF Max

\* A filter of names alone matches one topic, itself.
LEMMA ExactMatch ==
  ASSUME NEW f, NEW t, IsFilter(f), IsTopic(t), ~IsWildcard(f), Matches(f, t)
  PROVE  f = t
<1>1. Len(f) = Len(t) /\ \A i \in 1..Len(f) : f[i] = t[i]
  BY FilterShape, TopicShape DEF Matches, LevelsMatch, IsWildcard
<1>2. t \in Seq(Level \cup {"+", "#"})
  BY SeqMonotonic DEF IsTopic
<1> QED BY <1>1, <1>2, SeqEqual DEF IsFilter

\* A filter that matches a topic covers it, read as a filter.
LEMMA MatchCovers ==
  ASSUME NEW f, NEW t, IsFilter(f), IsTopic(t), Matches(f, t)
  PROVE  Covers(f, t)
<1>1. IsFilter(t)
  BY TopicIsFilter
<1>2. ~DollarApart(f, t)
  BY DEF Matches
<1>3. ASSUME NEW j \in 1..Len(f), f[j] # "#" PROVE LevelCovers(f, t, j)
  BY <1>3, FilterShape, TopicShape DEF Matches, LevelsMatch, LevelCovers
<1> QED
  BY <1>1, <1>2, <1>3, CoversShape, FilterShape, TopicShape DEF Matches, LevelsMatch

\* intersection returns a filter for two filters that share a topic: None is
\* returned only when they share none.
THEOREM SharedTopicIntersects ==
  ASSUME NEW a, NEW b, NEW t, IsFilter(a), IsFilter(b), IsTopic(t),
         Matches(a, t), Matches(b, t)
  PROVE  Intersection(a, b) # Disjoint
<1> DEFINE n    == Longer(a, b)
           S    == {i \in 1..n : HashAt(a, i) \/ HashAt(b, i)} \cup {n + 1}
           stop == Min(S)
           tail == IF HashAt(a, stop) THEN b ELSE a
<1>1. n \in Nat \ {0} /\ Len(a) <= n /\ Len(b) <= n /\ n \in {Len(a), Len(b)}
  BY FilterShape DEF Longer
<1>2. stop \in S /\ \A i \in S : stop <= i
  <2>1. S \in SUBSET Nat /\ S # {}
    BY <1>1
  <2> HIDE DEF S
  <2> QED BY <2>1, MinNat
<1>3. stop \in 1..(n + 1)
  BY <1>1, <1>2
<1>4. ~DollarApart(a, b)
  BY FilterShape, TopicShape, LevelAssumption DEF Matches, LevelsMatch, DollarApart
<1>5. ASSUME NEW i \in 1..(stop - 1)
      PROVE  i <= Len(a) /\ i <= Len(b) /\ (a[i] = b[i] \/ "+" \in {a[i], b[i]})
  <2>1. ASSUME NEW j \in 1..i PROVE ~HashAt(a, j) /\ ~HashAt(b, j)
    <3>1. j \in 1..n /\ ~(stop <= j)
      BY <1>1, <1>3, <1>5
    <3> QED BY <1>2, <3>1
  <2>2. i \in 1..n
    BY <1>1, <1>3
  <2>3. (Len(a) < i => Len(a) = Len(t)) /\ (Len(b) < i => Len(b) = Len(t))
    BY <2>1, FilterShape, TopicShape DEF Matches, LevelsMatch, HashAt
  <2>4. (i <= Len(a) => i <= Len(t)) /\ (i <= Len(b) => i <= Len(t))
    BY <2>1, <2>2, FilterShape, TopicShape DEF Matches, LevelsMatch, HashAt
  <2>5. i <= Len(a) /\ i <= Len(b) /\ i <= Len(t)
    BY <1>1, <2>2, <2>3, <2>4, FilterShape, TopicShape
  <2>6. a[i] \in {"+", t[i]} /\ b[i] \in {"+", t[i]}
    BY <2>1, <2>2, <2>5, FilterShape, TopicShape DEF Matches, LevelsMatch, HashAt
  <2> QED
    BY <2>5, <2>6
<1>6. Intersection(a, b) = [i \in 1..(stop - 1) |-> Narrower(a[i], b[i])]
                             \o SubSeq(tail, stop, Len(tail))
  BY <1>4, <1>5 DEF Intersection
<1> DEFINE head == [i \in 1..(stop - 1) |-> Narrower(a[i], b[i])]
           L    == Level \cup {"+", "#"}
<1>7. head \in Seq(L) /\ Len(head) = stop - 1
  <2>1. \A i \in 1..(stop - 1) : Narrower(a[i], b[i]) \in L
    BY <1>5, FilterShape DEF Narrower
  <2>2. stop - 1 \in Nat
    BY <1>3
  <2> QED BY <2>1, <2>2
<1>8. tail \in Seq(L) /\ Len(tail) >= 1
  BY FilterShape DEF IsFilter
<1>9. /\ SubSeq(tail, stop, Len(tail)) \in Seq(L)
      /\ stop = 1 => Len(SubSeq(tail, stop, Len(tail))) >= 1
  <2>1. \A i \in stop..Len(tail) : tail[i] \in L
    BY <1>3, <1>8
  <2>2. stop \in Int /\ Len(tail) \in Int
    BY <1>3, <1>8
  <2> HIDE DEF stop, tail
  <2> QED BY <1>8, <2>1, <2>2, SubSeqProperties
<1> HIDE DEF head, stop, tail, S, n
<1>10. Len(head \o SubSeq(tail, stop, Len(tail))) >= 1
  BY <1>3, <1>7, <1>9, ConcatProperties
<1>11. head \o SubSeq(tail, stop, Len(tail)) # <<>>
  <2>1. Len(<<>>) = 0
    BY EmptySeq
  <2> SUFFICES ASSUME head \o SubSeq(tail, stop, Len(tail)) = <<>> PROVE FALSE
    OBVIOUS
  <2> QED BY <1>10, <2>1
<1> QED
  BY <1>6, <1>11 DEF Disjoint, head

\* What the loop of intersection returns: the narrower level of each pair up to k,
\* where both end, or one has its "#" and the other's levels follow.
Meets(a, b, s, k) ==
  /\ k \in Nat /\ k <= Len(a) /\ k <= Len(b) /\ ~DollarApart(a, b)
  /\ \A i \in 1..k : /\ a[i] # "#" /\ b[i] # "#"
                     /\ a[i] = b[i] \/ "+" \in {a[i], b[i]}
                     /\ s[i] = Narrower(a[i], b[i])
  /\ \/ Len(a) = k /\ Len(b) = k /\ Len(s) = k
     \/ /\ Len(a) = k + 1 /\ a[k + 1] = "#" /\ Len(s) = Len(b)
        /\ \A i \in (k + 1)..Len(b) : s[i] = b[i]
     \/ /\ Len(b) = k + 1 /\ b[k + 1] = "#" /\ Len(s) = Len(a)
        /\ \A i \in (k + 1)..Len(a) : s[i] = a[i]

LEMMA IntersectionMeets ==
  ASSUME NEW a, NEW b, IsFilter(a), IsFilter(b), Intersection(a, b) # Disjoint
  PROVE  \E k : Meets(a, b, Intersection(a, b), k)
<1> DEFINE n    == Longer(a, b)
           S    == {i \in 1..n : HashAt(a, i) \/ HashAt(b, i)} \cup {n + 1}
           stop == Min(S)
           tail == IF HashAt(a, stop) THEN b ELSE a
           head == [i \in 1..(stop - 1) |-> Narrower(a[i], b[i])]
           rest == SubSeq(tail, stop, Len(tail))
           s    == Intersection(a, b)
           L    == Level \cup {"+", "#"}
<1>1. n \in Nat \ {0} /\ Len(a) <= n /\ Len(b) <= n /\ n \in {Len(a), Len(b)}
  BY FilterShape DEF Longer
<1>2. stop \in S /\ \A i \in S : stop <= i
  <2>1. S \in SUBSET Nat /\ S # {}
    BY <1>1
  <2> HIDE DEF S
  <2> QED BY <2>1, MinNat
<1>3. stop \in 1..(n + 1)
  BY <1>1, <1>2
<1>4. /\ ~DollarApart(a, b)
      /\ \A i \in 1..(stop - 1) : /\ i <= Len(a) /\ i <= Len(b)
                                  /\ a[i] = b[i] \/ "+" \in {a[i], b[i]}
      /\ s = head \o rest
  BY DEF Intersection
<1>5. \A i \in 1..(stop - 1) : ~HashAt(a, i) /\ ~HashAt(b, i)
  <2> TAKE i \in 1..(stop - 1)
  <2>1. i \in 1..n /\ ~(stop <= i)
    BY <1>1, <1>3
  <2> QED BY <1>2, <2>1
<1>6. stop = n + 1 \/ HashAt(a, stop) \/ HashAt(b, stop)
  BY <1>2
<1>7. stop - 1 \in Nat /\ stop - 1 <= Len(a) /\ stop - 1 <= Len(b)
  <2>1. CASE stop = 1
    BY <2>1, FilterShape
  <2>2. CASE stop # 1
    <3>1. stop - 1 \in 1..(stop - 1)
      BY <1>1, <1>3, <2>2
    <3> QED BY <1>3, <1>4, <3>1
  <2> QED BY <2>1, <2>2
<1>8. head \in Seq(L) /\ Len(head) = stop - 1
  <2>1. \A i \in 1..(stop - 1) : Narrower(a[i], b[i]) \in L
    BY <1>4, FilterShape DEF Narrower
  <2> QED BY <1>7, <2>1
<1>9. tail \in Seq(L) /\ Len(tail) \in Nat /\ stop <= Len(tail) + 1
  BY <1>1, <1>3, <1>7, FilterShape DEF IsFilter
<1>10. /\ rest \in Seq(L) /\ Len(rest) = Len(tail) - (stop - 1)
       /\ \A i \in 1..Len(rest) : rest[i] = tail[stop - 1 + i]
  <2>1. \A i \in stop..Len(tail) : tail[i] \in L
    BY <1>3, <1>9
  <2>2. stop \in Int /\ Len(tail) \in Int
    BY <1>3, <1>9
  <2> HIDE DEF stop, tail
  <2> QED BY <1>3, <1>9, <2>1, <2>2, SubSeqProperties
<1>11. /\ Len(s) = Len(tail)
       /\ \A i \in 1..(stop - 1) : s[i] = Narrower(a[i], b[i])
       /\ \A i \in stop..Len(tail) : s[i] = tail[i]
  <2>1. head = [i \in 1..(stop - 1) |-> Narrower(a[i], b[i])]
    OBVIOUS
  <2> HIDE DEF head, rest, stop, tail, s
  <2>2. /\ Len(s) = Len(head) + Len(rest)
        /\ \A i \in 1..Len(s) : s[i] = IF i <= Len(head) THEN head[i] ELSE rest[i - Len(head)]
    BY <1>4, <1>8, <1>10, ConcatProperties
  <2>3. Len(s) = Len(tail)
    BY <1>3, <1>8, <1>9, <1>10, <2>2
  <2>4. ASSUME NEW i \in 1..(stop - 1) PROVE s[i] = Narrower(a[i], b[i])
    <3>1. i \in 1..Len(s) /\ i <= Len(head)
      BY <1>3, <1>8, <1>9, <2>3
    <3> QED BY <2>1, <2>2, <3>1
  <2>5. ASSUME NEW i \in stop..Len(tail) PROVE s[i] = tail[i]
    <3>1. /\ i \in 1..Len(s) /\ ~(i <= Len(head)) /\ i - Len(head) \in 1..Len(rest)
          /\ stop - 1 + (i - Len(head)) = i
      BY <1>3, <1>8, <1>9, <1>10, <2>3
    <3> QED BY <1>10, <2>2, <3>1
  <2> QED BY <2>3, <2>4, <2>5
<1> DEFINE k == stop - 1
<1>12. HashAt(a, stop) => Len(a) = stop /\ a[stop] = "#" /\ tail = b
  BY <1>3, FilterShape DEF HashAt
<1>13. ~HashAt(a, stop) => tail = a
  OBVIOUS
<1>14. HashAt(b, stop) => Len(b) = stop /\ b[stop] = "#"
  BY <1>3, FilterShape DEF HashAt
<1>15. stop = n + 1 => ~HashAt(a, stop)
  BY <1>1, FilterShape DEF HashAt
<1> HIDE DEF tail, stop, head, rest, s, S, n
<1>16. \A i \in 1..k : a[i] # "#" /\ b[i] # "#"
  BY <1>4, <1>5 DEF HashAt
<1>17. \/ Len(a) = k /\ Len(b) = k /\ Len(s) = k
       \/ /\ Len(a) = k + 1 /\ a[k + 1] = "#" /\ Len(s) = Len(b)
          /\ \A i \in (k + 1)..Len(b) : s[i] = b[i]
       \/ /\ Len(b) = k + 1 /\ b[k + 1] = "#" /\ Len(s) = Len(a)
          /\ \A i \in (k + 1)..Len(a) : s[i] = a[i]
  <2>0. k + 1 = stop
    BY <1>3
  <2>1. CASE HashAt(a, stop)
    BY <1>11, <1>12, <2>0, <2>1
  <2>2. CASE ~HashAt(a, stop) /\ HashAt(b, stop)
    BY <1>11, <1>13, <1>14, <2>0, <2>2
  <2>3. CASE ~HashAt(a, stop) /\ ~HashAt(b, stop)
    <3>1. stop = n + 1 /\ Len(s) = Len(a)
      BY <1>6, <1>11, <1>13, <2>3
    <3> QED BY <1>1, <1>7, <3>1, FilterShape
  <2> QED BY <2>1, <2>2, <2>3
<1>18. Meets(a, b, s, k)
  BY <1>4, <1>7, <1>11, <1>16, <1>17 DEF Meets
<1> QED BY <1>18 DEF s

\* A topic matches what two filters share just when both match it.
LEMMA MeetsMatches ==
  ASSUME NEW a, NEW b, NEW s, NEW k, IsFilter(a), IsFilter(b), Meets(a, b, s, k),
         NEW t, IsTopic(t)
  PROVE  Matches(s, t) <=> Matches(a, t) /\ Matches(b, t)
<1>1. k \in Nat /\ k <= Len(a) /\ k <= Len(b) /\ ~DollarApart(a, b)
  BY DEF Meets
<1>2. \A i \in 1..k : /\ a[i] # "#" /\ b[i] # "#"
                      /\ a[i] = b[i] \/ "+" \in {a[i], b[i]}
                      /\ s[i] = Narrower(a[i], b[i])
  BY DEF Meets
<1>3. \/ Len(a) = k /\ Len(b) = k /\ Len(s) = k
      \/ /\ Len(a) = k + 1 /\ a[k + 1] = "#" /\ Len(s) = Len(b)
         /\ \A i \in (k + 1)..Len(b) : s[i] = b[i]
      \/ /\ Len(b) = k + 1 /\ b[k + 1] = "#" /\ Len(s) = Len(a)
         /\ \A i \in (k + 1)..Len(a) : s[i] = a[i]
  BY DEF Meets
<1>4. /\ Len(a) \in Nat \ {0} /\ Len(b) \in Nat \ {0} /\ Len(s) \in Nat \ {0}
      /\ Len(t) \in Nat \ {0}
  BY <1>3, FilterShape, TopicShape
<1>5. \A i \in 1..k : i <= Len(t) =>
         (s[i] \in {"+", t[i]} <=> a[i] \in {"+", t[i]} /\ b[i] \in {"+", t[i]})
  BY <1>2 DEF Narrower
<1>6. LevelsMatch(s, t) <=> LevelsMatch(a, t) /\ LevelsMatch(b, t)
  <2>1. CASE Len(a) = k /\ Len(b) = k /\ Len(s) = k
    BY <1>2, <1>4, <1>5, <2>1 DEF LevelsMatch, Narrower
  <2>2. CASE /\ Len(a) = k + 1 /\ a[k + 1] = "#" /\ Len(s) = Len(b)
             /\ \A i \in (k + 1)..Len(b) : s[i] = b[i]
    BY <1>1, <1>2, <1>4, <1>5, <2>2, FilterShape, SMTT(30)
       DEF LevelsMatch, Narrower
  <2>3. CASE /\ Len(b) = k + 1 /\ b[k + 1] = "#" /\ Len(s) = Len(a)
             /\ \A i \in (k + 1)..Len(a) : s[i] = a[i]
    BY <1>1, <1>2, <1>4, <1>5, <2>3, FilterShape, SMTT(30)
       DEF LevelsMatch, Narrower
  <2> QED BY <1>3, <2>1, <2>2, <2>3
<1>7. /\ s[1] \in {a[1], b[1]}
      /\ a[1] \in {"+", "#"} /\ b[1] \notin {"+", "#"} => s[1] = b[1]
      /\ b[1] \in {"+", "#"} /\ a[1] \notin {"+", "#"} => s[1] = a[1]
  <2>1. CASE k = 0
    BY <1>3, <1>4, <2>1
  <2>2. CASE k # 0
    <3>1. 1 \in 1..k
      BY <1>1, <2>2
    <3> QED BY <1>2, <3>1 DEF Narrower
  <2> QED BY <2>1, <2>2
<1>8. t[1] \in Level /\ t[1] # "+" /\ t[1] # "#"
  BY <1>4, TopicShape
<1>9. LevelsMatch(s, t) => s[1] \in {"+", "#", t[1]}
  BY <1>4 DEF LevelsMatch
<1>10. LevelsMatch(s, t) => (DollarApart(s, t) <=> DollarApart(a, t) \/ DollarApart(b, t))
  BY <1>1, <1>7, <1>8, <1>9, LevelAssumption DEF DollarApart
<1> QED BY <1>6, <1>10 DEF Matches

\* "exactly the topics both match": what intersection returns matches a topic just
\* when both filters do, and it returns None only when no topic does.
THEOREM IntersectionIsBoth ==
  ASSUME NEW a, NEW b, NEW t, IsFilter(a), IsFilter(b), IsTopic(t)
  PROVE  Matches(a, t) /\ Matches(b, t) <=>
           Intersection(a, b) # Disjoint /\ Matches(Intersection(a, b), t)
<1>1. CASE Intersection(a, b) = Disjoint
  BY <1>1, SharedTopicIntersects
<1>2. CASE Intersection(a, b) # Disjoint
  <2>1. PICK k : Meets(a, b, Intersection(a, b), k)
    BY <1>2, IntersectionMeets
  <2> QED BY <1>2, <2>1, MeetsMatches
<1> QED BY <1>1, <1>2

-----------------------------------------------------------------------------
(***************************************************************************)
(* covers is complete: topics that tell two filters apart                  *)
(***************************************************************************)
\* The topic a filter matches that has z wherever the filter has a wildcard.
Filled(f, z) == [i \in 1..Len(f) |-> IF f[i] \in {"+", "#"} THEN z ELSE f[i]]

LEMMA FilledMatches ==
  ASSUME NEW f, NEW z \in Level \ Dollar, Len(f) \in Nat \ {0},
         \A i \in 1..Len(f) : f[i] \in Level \cup {"+", "#"},
         \A i \in 1..Len(f) : f[i] = "#" => i = Len(f)
  PROVE  IsTopic(Filled(f, z)) /\ Len(Filled(f, z)) = Len(f) /\ Matches(f, Filled(f, z))
<1> DEFINE t == Filled(f, z)
<1>1. \A i \in 1..Len(f) : t[i] = IF f[i] \in {"+", "#"} THEN z ELSE f[i]
  BY DEF Filled
<1>2. t \in Seq(Level) /\ Len(t) = Len(f)
  <2>1. \A i \in 1..Len(f) : (IF f[i] \in {"+", "#"} THEN z ELSE f[i]) \in Level
    OBVIOUS
  <2> QED BY <2>1 DEF Filled
<1> HIDE DEF t
<1>3. t # <<>>
  BY <1>2
<1>4. LevelsMatch(f, t)
  BY <1>1, <1>2 DEF LevelsMatch
<1>5. ~DollarApart(f, t)
  BY <1>1, <1>2, LevelAssumption DEF DollarApart
<1> QED BY <1>2, <1>3, <1>4, <1>5 DEF IsTopic, Matches, t

\* A topic of the names of F and z, no longer than F's filters or of two levels.
Near(t, F, z) ==
  /\ IsTopic(t)
  /\ Len(t) = 2 \/ \E f \in F : Len(t) <= Len(f)
  /\ \A i \in 1..Len(t) : t[i] = z \/ \E f \in F : \E j \in 1..Len(f) : t[i] = f[j]

\* "exactly the topics both match": there is one when intersection returns a filter.
LEMMA SharedTopic ==
  ASSUME NEW a, NEW b, IsFilter(a), IsFilter(b), Intersection(a, b) # Disjoint,
         NEW z \in Level \ Dollar
  PROVE  \E t : Near(t, {a, b}, z) /\ Matches(a, t) /\ Matches(b, t)
<1> DEFINE s == Intersection(a, b)
           t == Filled(s, z)
<1>1. PICK k : Meets(a, b, s, k)
  BY IntersectionMeets
<1> HIDE DEF s
<1>2. /\ Len(a) \in Nat \ {0} /\ \A i \in 1..Len(a) : a[i] \in Level \cup {"+", "#"}
      /\ Len(b) \in Nat \ {0} /\ \A i \in 1..Len(b) : b[i] \in Level \cup {"+", "#"}
      /\ \A i \in 1..Len(a) : a[i] = "#" => i = Len(a)
      /\ \A i \in 1..Len(b) : b[i] = "#" => i = Len(b)
  BY FilterShape
<1>3. Len(s) \in {Len(a), Len(b)} /\ k \in Nat /\ k <= Len(a) /\ k <= Len(b)
  BY <1>1 DEF Meets
<1>4. ASSUME NEW i \in 1..Len(s)
      PROVE  \/ i <= k /\ s[i] \in {a[i], b[i]} /\ s[i] # "#"
             \/ i \in 1..Len(b) /\ Len(s) = Len(b) /\ s[i] = b[i]
             \/ i \in 1..Len(a) /\ Len(s) = Len(a) /\ s[i] = a[i]
  <2>1. CASE i <= k
    BY <1>1, <2>1 DEF Meets, Narrower
  <2>2. CASE i > k
    BY <1>1, <1>2, <1>3, <2>2 DEF Meets
  <2> QED BY <1>2, <1>3, <2>1, <2>2
<1>5. ASSUME NEW i \in 1..Len(s)
      PROVE  /\ s[i] \in Level \cup {"+", "#"}
             /\ s[i] = "#" => i = Len(s)
             /\ \E f \in {a, b} : \E j \in 1..Len(f) : s[i] = f[j]
  <2>1. i <= k => i \in 1..Len(a) /\ i \in 1..Len(b)
    BY <1>2, <1>3
  <2> QED BY <1>2, <1>4, <2>1
<1>6. IsTopic(t) /\ Len(t) = Len(s) /\ Matches(s, t)
  <2>1. Len(s) \in Nat \ {0}
    BY <1>2, <1>3
  <2> QED BY <1>5, <2>1, FilledMatches
<1>7. \A i \in 1..Len(s) : t[i] \in {s[i], z}
  BY DEF Filled
<1> HIDE DEF t
<1>8. Near(t, {a, b}, z)
  BY <1>2, <1>3, <1>5, <1>6, <1>7 DEF Near
<1> QED BY <1>1, <1>6, <1>8, MeetsMatches

\* "filter `a` matches every topic filter `b` matches", the other way round: when
\* covers says no there is a topic that b matches and a does not, but for "+/#"
\* against "#".  It has a name a does not, where b has a wildcard; or the level
\* more, or less, that b's "#" leaves it.
THEOREM CoversComplete ==
  ASSUME NEW a, NEW b, IsFilter(a), IsFilter(b), ~Covers(a, b),
         <<a, b>> # << <<"+", "#">>, <<"#">> >>,
         NEW z \in Level \ Dollar, \A i \in 1..Len(a) : a[i] # z
  PROVE  \E t : Near(t, {b}, z) /\ Matches(b, t) /\ ~Matches(a, t)
<1> DEFINE m  == Len(b)
           t0 == Filled(b, z)
<1>1. /\ IsTopic(t0) /\ Len(t0) = m /\ Matches(b, t0)
      /\ \A i \in 1..m : t0[i] = IF b[i] \in {"+", "#"} THEN z ELSE b[i]
  <2>1. \A i \in 1..m : t0[i] = IF b[i] \in {"+", "#"} THEN z ELSE b[i]
    BY DEF Filled
  <2> QED BY <2>1, FilterShape, FilledMatches
<1>2. m \in Nat \ {0} /\ Len(a) \in Nat \ {0}
  BY FilterShape
<1> HIDE DEF t0
<1>3. Near(t0, {b}, z)
  BY <1>1, <1>2 DEF Near
<1>4. CASE ~Matches(a, t0)
  BY <1>1, <1>3, <1>4
<1>5. CASE Matches(a, t0)
  <2>1. ~DollarApart(a, b)
    <3>1. /\ a[1] \in {"+", "#"} => t0[1] \notin Dollar
          /\ a[1] \in {"+", "#", t0[1]}
      BY <1>1, <1>2, <1>5 DEF Matches, LevelsMatch, DollarApart
    <3>2. t0[1] = IF b[1] \in {"+", "#"} THEN z ELSE b[1]
      BY <1>1, <1>2
    <3> QED BY <1>2, <3>1, <3>2, LevelAssumption, FilterShape DEF DollarApart
  <2>2. ASSUME NEW i \in 1..Len(a), a[i] # "#", i <= m, b[i] # "#"
        PROVE  LevelCovers(a, b, i)
    <3>1. a[i] \in {"+", t0[i]}
      BY <1>1, <1>2, <1>5, <2>2, FilterShape DEF Matches, LevelsMatch
    <3>2. t0[i] = IF b[i] \in {"+", "#"} THEN z ELSE b[i]
      BY <1>1, <1>2, <2>2
    <3> QED BY <2>2, <3>1, <3>2 DEF LevelCovers
  <2>3. \/ a[Len(a)] = "#" /\ Len(a) - 1 <= m
        \/ Len(a) = m
    BY <1>1, <1>5 DEF Matches, LevelsMatch
  <2>4. b[m] = "#"
    <3> SUFFICES ASSUME b[m] # "#" PROVE FALSE
      OBVIOUS
    <3>1. \A i \in 1..m : b[i] # "#"
      BY FilterShape
    <3>2. \A i \in 1..Len(a) : a[i] # "#" => i <= m
      BY <1>2, <2>3, FilterShape
    <3>3. \A i \in 1..Len(a) : a[i] # "#" => LevelCovers(a, b, i)
      BY <2>2, <3>1, <3>2
    <3>4. CASE a[Len(a)] = "#"
      <4>1. \A j \in 1..(Len(a) - 1) : LevelCovers(a, b, j)
        BY <1>2, <3>3, FilterShape
      <4> QED BY <2>1, <3>4, <4>1, CoversShape
    <3>5. CASE a[Len(a)] # "#"
      <4>1. Len(a) = Len(b) /\ \A j \in 1..Len(a) : LevelCovers(a, b, j)
        BY <1>2, <2>3, <3>3, <3>5, FilterShape
      <4> QED BY <2>1, <4>1, CoversShape
    <3> QED BY <3>4, <3>5
  <2>5. \A i \in 1..(m - 1) : b[i] # "#"
    BY <1>2, FilterShape
  <2>6. /\ a[Len(a)] = "#" => Len(a) = m + 1
        /\ a[Len(a)] # "#" => Len(a) = m
    <3> SUFFICES ASSUME a[Len(a)] = "#", Len(a) <= m PROVE FALSE
      BY <1>2, <2>3
    <3>1. \A j \in 1..(Len(a) - 1) : LevelCovers(a, b, j)
      BY <1>2, <2>2, <2>5, FilterShape
    <3> QED BY <2>1, <3>1, CoversShape
  <2>7. CASE m >= 2
    <3> DEFINE t1 == [i \in 1..(m - 1) |-> t0[i]]
    <3>1. t1 \in Seq(Level) /\ Len(t1) = m - 1 /\ \A i \in 1..(m - 1) : t1[i] = t0[i]
      BY <1>1, <1>2, TopicShape
    <3> HIDE DEF t1
    <3>2. IsTopic(t1)
      BY <1>2, <2>7, <3>1 DEF IsTopic
    <3>3. Near(t1, {b}, z)
      BY <1>1, <1>2, <1>3, <2>7, <3>1, <3>2 DEF Near
    <3>4. Matches(b, t1)
      BY <1>1, <1>2, <2>4, <2>7, <3>1, FilterShape DEF Matches, LevelsMatch, DollarApart
    <3>5. ~Matches(a, t1)
      BY <1>2, <2>6, <3>1 DEF Matches, LevelsMatch
    <3> QED BY <3>3, <3>4, <3>5
  <2>8. CASE m = 1
    <3>1. a[Len(a)] # "#"
      <4> SUFFICES ASSUME a[Len(a)] = "#" PROVE FALSE
        OBVIOUS
      <4>1. Len(a) = 2 /\ a[2] = "#"
        <5>1. Len(a) = 2
          BY <1>2, <2>6, <2>8
        <5> QED BY <5>1
      <4>2. a[1] = "+"
        <5>1. a[1] \in {"+", t0[1]} /\ t0[1] = z
          BY <1>1, <1>5, <2>4, <2>8, <4>1, FilterShape DEF Matches, LevelsMatch
        <5> QED BY <4>1, <5>1
      <4>3. a = <<"+", "#">>
        BY <4>1, <4>2, FilterShape DEF IsFilter
      <4>4. b = <<"#">>
        BY <2>4, <2>8, FilterShape DEF IsFilter
      <4> QED BY <4>3, <4>4
    <3>2. Len(a) = 1
      BY <2>6, <2>8, <3>1
    <3> DEFINE t2 == <<z, z>>
    <3>3. IsTopic(t2) /\ Len(t2) = 2 /\ t2[1] = z /\ t2[2] = z
      BY DEF IsTopic
    <3> HIDE DEF t2
    <3>4. Near(t2, {b}, z)
      BY <3>3 DEF Near
    <3>5. Matches(b, t2)
      BY <2>4, <2>8, <3>3, LevelAssumption DEF Matches, LevelsMatch, DollarApart
    <3>6. ~Matches(a, t2)
      BY <3>1, <3>2, <3>3 DEF Matches, LevelsMatch
    <3> QED BY <3>4, <3>5, <3>6
  <2>9. m >= 2 \/ m = 1
    <3> HIDE DEF m
    <3> QED BY <1>2
  <2> QED BY <2>7, <2>8, <2>9
<1> QED BY <1>4, <1>5

-----------------------------------------------------------------------------
(***************************************************************************)
(* One copy of each message                                                *)
(***************************************************************************)
\* "a broker delivers one copy per matching subscription": filters that
\* check_overlaps accepts leave subscriptions of which at most one matches a
\* topic.
THEOREM SubscriptionsDisjoint ==
  ASSUME NEW d, IsFilterDict(d), ~Overlapping(DOMAIN d), NEW t, IsTopic(t),
         NEW f \in DOMAIN Subscriptions(d), NEW g \in DOMAIN Subscriptions(d),
         Matches(f, t), Matches(g, t)
  PROVE  f = g
<1> SUFFICES ASSUME f # g PROVE FALSE
  OBVIOUS
<1>1. /\ f \in Outermost(d) /\ g \in Outermost(d)
      /\ f \in DOMAIN d /\ g \in DOMAIN d
      /\ IsFilter(f) /\ IsFilter(g)
  BY SubscriptionsShape DEF IsFilterDict
<1>2. /\ ~(IsWildcard(f) /\ Covers(f, g))
      /\ ~(IsWildcard(g) /\ Covers(g, f))
  BY <1>1 DEF Outermost
<1>3. CASE IsWildcard(f) /\ IsWildcard(g)
  <2>1. Intersection(f, g) # Disjoint
    BY <1>1, SharedTopicIntersects
  <2> QED
    BY <1>1, <1>2, <1>3, <2>1 DEF Overlapping
<1>4. CASE ~IsWildcard(f)
  BY <1>1, <1>2, <1>4, ExactMatch, MatchCovers
<1>5. CASE ~IsWildcard(g)
  BY <1>1, <1>2, <1>5, ExactMatch, MatchCovers
<1> QED
  BY <1>3, <1>4, <1>5

\* The two together: a topic that a wanted filter matches is received by exactly
\* one subscription, at that filter's QoS or a higher one.
THEOREM SubscribedOnce ==
  ASSUME NEW d, IsFilterDict(d), ~Overlapping(DOMAIN d), NEW t, IsTopic(t),
         NEW w \in DOMAIN d, Matches(w, t)
  PROVE  \E f \in DOMAIN Subscriptions(d) :
            /\ Subscriptions(d)[f] >= d[w]
            /\ {g \in DOMAIN Subscriptions(d) : Matches(g, t)} = {f}
<1>1. PICK f \in DOMAIN Subscriptions(d) :
           Covers(f, w) /\ Subscriptions(d)[f] >= d[w]
  BY SubscriptionsCover
<1>2. IsFilter(f) /\ IsFilter(w)
  BY SubscriptionsShape DEF IsFilterDict
<1>3. Matches(f, t)
  BY <1>1, <1>2, CoversSound
<1>4. ASSUME NEW g \in DOMAIN Subscriptions(d), Matches(g, t)
      PROVE  g = f
  BY <1>3, <1>4, SubscriptionsDisjoint
<1> QED
  BY <1>1, <1>3, <1>4
=============================================================================
