---------------------------- MODULE TopicFilters ----------------------------
(***************************************************************************)
(* The pure functions of mqtt_map.py on MQTT topic filters: which topics a *)
(* filter matches, when one filter covers another, what two filters share, *)
(* which pairs are refused, and which filters of a set are subscribed.     *)
(*                                                                         *)
(* A topic or filter is the sequence of its levels (topic.split("/")): a   *)
(* level is a name from Level, and in a filter also "+" or "#".  What a    *)
(* name spells is not modelled, only whether it starts with "$" (Dollar).  *)
(***************************************************************************)
EXTENDS Integers, Sequences, FiniteSets, FiniteSetsExt

CONSTANTS Level,   \* the names a topic level can have
          Dollar   \* those that start with "$"

ASSUME LevelAssumption == /\ "+" \notin Level
                          /\ "#" \notin Level
                          /\ Dollar \subseteq Level

QoSs == 0..2

IsTopic(t) == t \in Seq(Level) /\ t # <<>>

\* filter_error: "#" is a whole level and the last one, "+" a whole level.
IsFilter(f) == /\ f \in Seq(Level \cup {"+", "#"})
               /\ f # <<>>
               /\ \A i \in 1..(Len(f) - 1) : f[i] # "#"

IsWildcard(f) == \E i \in 1..Len(f) : f[i] \in {"+", "#"}

\* A first-level wildcard never reaches a "$" name.
DollarApart(a, b) == \/ a[1] \in {"+", "#"} /\ b[1] \in Dollar
                     \/ b[1] \in {"+", "#"} /\ a[1] \in Dollar

\* aiomqtt.Topic.matches, level by level: "#" stands for any number of
\* further levels, none included.
LevelsMatch(f, t) ==
  \/ /\ f[Len(f)] = "#"
     /\ Len(f) - 1 <= Len(t)
     /\ \A i \in 1..(Len(f) - 1) : f[i] \in {"+", t[i]}
  \/ /\ Len(f) = Len(t)
     /\ \A i \in 1..Len(f) : f[i] \in {"+", t[i]}

Matches(f, t) == LevelsMatch(f, t) /\ ~DollarApart(f, t)

(***************************************************************************)
(* covers: the loop's verdict on level i, the two ways it returns True.    *)
(***************************************************************************)
\* Mutant: "+" also covers the "#" of the other filter.
LevelCoversHash(a, b, i) == i <= Len(b) /\ a[i] \in {"+", b[i]}

LevelCovers(a, b, i) == /\ i <= Len(b)
                        /\ b[i] # "#"
                        /\ a[i] \in {"+", b[i]}

Covers(a, b) ==
  /\ ~DollarApart(a, b)
  /\ \/ \E i \in 1..Len(a) : /\ a[i] = "#"
                             /\ \A j \in 1..(i - 1) : LevelCovers(a, b, j)
     \/ /\ Len(a) = Len(b)
        /\ \A j \in 1..Len(a) : LevelCovers(a, b, j)

(***************************************************************************)
(* intersection: the loop goes level by level to the first "#" of either   *)
(* and takes the other's remaining levels from there.                      *)
(***************************************************************************)
Disjoint == <<>>    \* None: no filter is the empty sequence

Longer(a, b) == IF Len(a) >= Len(b) THEN Len(a) ELSE Len(b)

HashAt(f, i) == i <= Len(f) /\ f[i] = "#"

\* Mutant: the wider of two levels.
Wider(x, y) == IF x = "+" THEN x ELSE y

Narrower(x, y) == IF x = "+" THEN y ELSE x

Intersection(a, b) ==
  LET n    == Longer(a, b)
      stop == Min({i \in 1..n : HashAt(a, i) \/ HashAt(b, i)} \cup {n + 1})
      tail == IF HashAt(a, stop) THEN b ELSE a
  IN  IF /\ ~DollarApart(a, b)
         /\ \A i \in 1..(stop - 1) : /\ i <= Len(a) /\ i <= Len(b)
                                     /\ a[i] = b[i] \/ "+" \in {a[i], b[i]}
      THEN [i \in 1..(stop - 1) |-> Narrower(a[i], b[i])]
             \o SubSeq(tail, stop, Len(tail))
      ELSE Disjoint

\* Mutant: containment is no excuse.
OverlappingAtAll(filters) ==
  \E a, b \in {f \in filters : IsWildcard(f)} : a # b /\ Intersection(a, b) # Disjoint

\* check_overlaps refuses the set: two wildcard filters share topics and
\* neither, or each, contains the other.
Overlapping(filters) ==
  \E a, b \in {f \in filters : IsWildcard(f)} :
     /\ a # b
     /\ Intersection(a, b) # Disjoint
     /\ Covers(a, b) <=> Covers(b, a)

(***************************************************************************)
(* A dict of filters is a function from a finite set of filters to QoS.    *)
(***************************************************************************)
IsFilterDict(d) == /\ IsFiniteSet(DOMAIN d)
                   /\ d = [f \in DOMAIN d |-> d[f]]
                   /\ \A f \in DOMAIN d : IsFilter(f) /\ d[f] \in QoSs

NoFilters == [f \in {} |-> 0]

\* {**old, **new}
Merge(old, new) == [f \in DOMAIN old \cup DOMAIN new |->
                      IF f \in DOMAIN new THEN new[f] ELSE old[f]]

\* {**filters, topic: max(qos, filters.get(topic, 0))}
WithFilter(filters, topic, qos) ==
  [f \in DOMAIN filters \cup {topic} |->
     IF f # topic THEN filters[f]
     ELSE IF f \in DOMAIN filters /\ filters[f] > qos THEN filters[f] ELSE qos]

\* subscriptions: the filters no other one covers, each at the highest QoS
\* it covers.
Outermost(filters) ==
  {f \in DOMAIN filters :
     ~ \E g \in DOMAIN filters : IsWildcard(g) /\ g # f /\ Covers(g, f)}

\* Mutant: each filter at its own QoS.
SubscriptionsOwnQoS(filters) == [f \in Outermost(filters) |-> filters[f]]

Subscriptions(filters) ==
  [f \in Outermost(filters) |->
     Max({filters[g] : g \in {h \in DOMAIN filters : Covers(f, h)}})]
=============================================================================
