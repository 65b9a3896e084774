----------------------------- MODULE MCNodeMap -----------------------------
(***************************************************************************)
(* Instances of NodeMap for TLC.  "z" is a level no filter names, so that  *)
(* a topic exists on which a "+" and a name differ.  The maps' filters go  *)
(* two levels deep, those compared pair by pair three and to "$" names.    *)
(***************************************************************************)
EXTENDS NodeMap

CONSTANTS Names, ComparedNames   \* the levels named by entries, by filters compared

MCLevel == ComparedNames \cup {"z"}

MCDollar == {"$s"}

SeqsTo(S, n) == UNION {[1..k -> S] : k \in 1..n}

MCFilters(S, depth) == {f \in SeqsTo(S \cup {"+", "#"}, depth) : IsFilter(f)}

MCCompared == MCFilters(ComparedNames, 3)

\* Entries with a filter, one with "#" before its last level, one with no topic,
\* one with a QoS out of range.
MCRaw == [topic : MCFilters(Names, 2), qos : {0, 2}]
           \cup [topic : {<<"#", "a">>, <<>>}, qos : {0}]
           \cup [topic : {<<"a">>}, qos : {3}]

MCTopics == SeqsTo(MCLevel, 3)

MCReceived == SeqsTo(Names \cup {"z"}, 2)
                \cup {<<"a", "a", "z">>, <<"z", "a", "a">>, <<"$s">>, <<"$s", "a">>}
=============================================================================
