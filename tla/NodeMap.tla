------------------------------- MODULE NodeMap -------------------------------
(***************************************************************************)
(* The device map: NodeMap.from_dict reads it entry by entry, check_overlaps *)
(* accepts or refuses it, BrokerClient.__init__ turns it into the filters  *)
(* to subscribe, and each received topic is traced into the entries of its *)
(* most specific filter.                                                   *)
(***************************************************************************)
EXTENDS TopicFilters, SequencesExt

CONSTANTS Raw,         \* what an entry of the file can say: [topic, qos]
          Received,    \* the topics a broker can deliver
          Compared,    \* filters the pure functions are checked on, pair by pair,
          Topics,      \* against these topics
          MaxEntries   \* bound on the entries of a map

\* Node.__post_init__ accepts the entry.
EntryOK(e) == IsFilter(e.topic) /\ e.qos \in QoSs

Entry == {e \in Raw : EntryOK(e)}

ASSUME MapAssumption == /\ \A t \in Received \cup Topics : IsTopic(t)
                        /\ \A f \in Compared : IsFilter(f)
                        /\ MaxEntries \in Nat

\* T has the topics that can tell the filters F apart: those of the names they
\* have and of one they have not, to the length of the longest.
TellsApart(T, F) ==
  LET names == {l \in Level : \E f \in F : \E i \in 1..Len(f) : f[i] = l}
  IN  \E z \in Level \ (Dollar \cup names) :
        \A f \in F : \A n \in (1..Len(f)) \cup {2} : [1..n -> names \cup {z}] \subseteq T

\* A file names finitely many levels; a publisher may use any.
ASSUME TopicsAssumption == /\ TellsApart(Received, {e.topic : e \in Entry})
                           /\ TellsApart(Topics, Compared)

VARIABLES nodes,   \* the entries read, in the order of the file
          phase,   \* "reading", then "loaded", "refused" or "invalid"
          topic,   \* the topic of the message being traced, <<>> before the first
          traced   \* the filter whose entries record it, <<>> for discovery

vars == <<nodes, phase, topic, traced>>

Unmatched == <<>>

TopicsOf(es) == {es[i].topic : i \in DOMAIN es}

TypeOK == /\ nodes \in Seq(Entry) /\ Len(nodes) <= MaxEntries
          /\ phase \in {"reading", "loaded", "refused", "invalid"}
          /\ topic \in Received \cup {<<>>}
          /\ traced \in TopicsOf(nodes) \cup {Unmatched}

\* _exact and _wild: the keys of _wild in insertion order.
Exact(es) == {f \in TopicsOf(es) : ~IsWildcard(f)}

WildOrder(es) ==
  LET first == {i \in DOMAIN es : /\ IsWildcard(es[i].topic)
                                  /\ \A j \in 1..(i - 1) : es[j].topic # es[i].topic}
  IN  [k \in 1..Cardinality(first) |->
         es[CHOOSE i \in first : Cardinality({j \in first : j < i}) = k - 1].topic]

\* Mutant: the widest match is kept, and a topic nothing matches is its own.
MatchWidest(es, t) ==
  FoldLeft(LAMBDA best, w : IF Matches(w, t) /\ (best = t \/ Covers(w, best)) THEN w ELSE best,
           t, WildOrder(es))

\* match: the exact entry, else the loop over _wild that keeps the best so far.
MatchIn(es, t) ==
  IF t \in Exact(es) THEN t
  ELSE FoldLeft(LAMBDA best, w :
                   IF Matches(w, t) /\ (best = Unmatched \/ Covers(best, w))
                   THEN w ELSE best,
                Unmatched, WildOrder(es))

\* BrokerClient.filters of a client with this map and no configured topic.
FiltersOf(es) ==
  [f \in TopicsOf(es) |-> Max({es[i].qos : i \in {j \in DOMAIN es : es[j].topic = f}})]

Init == /\ nodes = <<>>
        /\ phase = "reading"
        /\ topic = <<>>
        /\ traced = Unmatched

\* The next entry of the file; the first that is no Node refuses the map.
ReadEntry == /\ phase = "reading"
             /\ Len(nodes) < MaxEntries
             /\ \E e \in Raw : IF EntryOK(e)
                               THEN nodes' = Append(nodes, e) /\ UNCHANGED phase
                               ELSE phase' = "invalid" /\ UNCHANGED nodes
             /\ UNCHANGED <<topic, traced>>

\* The end of the file.
Load == /\ phase = "reading"
        /\ phase' = IF Overlapping(TopicsOf(nodes)) THEN "refused" ELSE "loaded"
        /\ UNCHANGED <<nodes, topic, traced>>

\* on_message of a loaded map.
Receive == /\ phase = "loaded"
           /\ \E t \in Received : /\ topic' = t
                                  /\ traced' = MatchIn(nodes, t)
           /\ UNCHANGED <<nodes, phase>>

Next == ReadEntry \/ Load \/ Receive

Spec == Init /\ [][Next]_vars

-----------------------------------------------------------------------------
(***************************************************************************)
(* Properties                                                              *)
(***************************************************************************)

\* "the matches form a chain and the innermost is unique": whatever the order
\* of the file, the loop stops at a filter that matches the topic and that
\* every other matching filter covers; a topic no filter matches is discovered.
MostSpecificTraced ==
  topic # <<>> =>
    LET matching == {f \in TopicsOf(nodes) : Matches(f, topic)}
    IN  IF matching = {} THEN traced = Unmatched
        ELSE /\ traced \in matching
             /\ \A f \in matching : Covers(f, traced)

\* "a broker delivers one copy per matching subscription": of the filters
\* subscribed for a loaded map exactly one matches a topic the map has, so its
\* messages arrive once, and at no lower QoS than any entry asks.
DeliveredOnce ==
  LET subs     == Subscriptions(FiltersOf(nodes))
      copies   == {f \in DOMAIN subs : Matches(f, topic)}
      matching == {i \in DOMAIN nodes : Matches(nodes[i].topic, topic)}
  IN  topic # <<>> /\ matching # {} =>
        /\ Cardinality(copies) = 1
        /\ \A f \in copies, i \in matching : subs[f] >= nodes[i].qos

\* covers, "exact but at the root": covers says yes just when every topic the
\* second filter matches the first matches too, and the one exception is "+/#"
\* against "#".
CoversExact ==
  phase = "reading" /\ nodes = <<>> => \A a, b \in Compared :
     <<a, b>> # << <<"+", "#">>, <<"#">> >> =>
        (Covers(a, b) <=> \A t \in Topics : Matches(b, t) => Matches(a, t))

\* intersection matches "exactly the topics both match", and None is returned
\* just when they share none.
IntersectionExact ==
  phase = "reading" /\ nodes = <<>> => \A a, b \in Compared :
     LET s == Intersection(a, b)
     IN  \A t \in Topics :
            (Matches(a, t) /\ Matches(b, t)) <=> (s # Disjoint /\ Matches(s, t))

\* check_overlaps: a map is refused only when it has two filters that share a
\* topic and neither of which matches every topic of the other - except that
\* it reads "+/#" and "#" as one wider than the other.
RefusedForCause ==
  phase = "refused" =>
    \E a, b \in TopicsOf(nodes) :
       \E s, t, u \in Received : /\ Matches(a, s) /\ Matches(b, s)
                                 /\ Matches(a, t) /\ ~Matches(b, t)
                                 /\ Matches(b, u) /\ ~Matches(a, u)
=============================================================================
