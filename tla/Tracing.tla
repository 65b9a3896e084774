------------------------------- MODULE Tracing -------------------------------
(***************************************************************************)
(* How a BrokerClient traces the messages of its topics: into the device   *)
(* map's events, every field at its last value, or into an event discovered *)
(* with the topic's first message; and the device map that list_topics     *)
(* hands back (device_map).                                                *)
(*                                                                         *)
(* A value is its JSON type and its text; what two texts say as numbers is *)
(* not modelled beyond those named below.  A payload is what the decoding  *)
(* sees of it: whether it is UTF-8, starts with "{", is JSON, and the      *)
(* leaves of the object in their order (one leaf, path <<>>, if no object).*)
(***************************************************************************)
EXTENDS Naturals, Sequences, FiniteSets, FiniteSetsExt

CONSTANTS
  Payloads,      \* [utf8, brace, json : BOOLEAN, leaves : Seq([path, value])]
  FieldName,     \* sanitized key path -> field name, the names joined with "_"
  EventName,     \* topic -> discovery_event(topic)
  Entries,       \* topic -> the sequence of [event, node] the device map matches it to
  MapEvents,     \* the events of the device map
  BoolWords, NumberWords, TooLarge,   \* texts bool reads, numbers read, uint8 refuses
  MaxMessages    \* bound on the messages received

ASSUME TracingAssumption ==
  /\ DOMAIN Entries = DOMAIN EventName
  /\ \A t \in DOMAIN Entries : \A i \in DOMAIN Entries[t] : Entries[t][i].event \in MapEvents
  /\ FieldName[<<>>] = "value"
  /\ MaxMessages \in Nat

\* A leaf's value: "dict" is the type of inner objects, which are no leaves.
JsonValue == [kind : {"null", "bool", "num", "str", "list"}, text : STRING]

Leaf == [path : DOMAIN FieldName, value : JsonValue]

\* The text is stripped: an object is what starts with "{" and is JSON.  Its keys
\* are distinct; anything else is one value.
ASSUME PayloadAssumption ==
  \A p \in Payloads :
     /\ p.leaves \in Seq(Leaf)
     /\ IF p.json /\ p.brace
        THEN \A i, j \in DOMAIN p.leaves :
                p.leaves[i].path # <<>> /\ (p.leaves[i].path = p.leaves[j].path => i = j)
        ELSE DOMAIN p.leaves = {1} /\ p.leaves[1].path = <<>>

VARIABLES
  discovered,   \* _discovered: event -> [topic, fields, extra]
  last,         \* _last: map event -> field -> its last value
  seen,         \* _seen: topic -> [event, mapped]
  warned,       \* _warned
  messages,
  message,      \* the message being traced: [topic, payload]
  rows,         \* the rows it logged: event -> field -> value
  \* history, read by properties only
  told          \* what the warnings that were logged are about

vars == <<discovered, last, seen, warned, messages, message, rows, told>>

Topics == DOMAIN EventName

Reserved == {"time_ns"}

Nothing == [x \in {} |-> 0]

Without(d, S) == [x \in DOMAIN d \ S |-> d[x]]

\* {**old, **new}
Update(old, new) == [x \in DOMAIN old \cup DOMAIN new |-> IF x \in DOMAIN new THEN new[x] ELSE old[x]]

Value(kind, text) == [kind |-> kind, text |-> text]

\* ValueError
Error == Value("error", "")

\* The events start() declares on the source: those of the map that have nodes.
Declared == {e \in MapEvents : \E t \in Topics : \E i \in DOMAIN Entries[t] : Entries[t][i].event = e}

-----------------------------------------------------------------------------
(***************************************************************************)
(* Decoding                                                                *)
(***************************************************************************)

\* json.dumps
Dumped(x) == IF x.kind = "str" THEN x ELSE Value("str", x.text)

Convert(x, datatype) ==
  IF \/ x.kind \in {"null", "error"}
     \/ datatype # "string" /\ x.kind \in {"dict", "list"}
     \/ datatype = "bool" /\ x.kind = "str" /\ x.text \notin BoolWords
     \/ /\ datatype \notin {"string", "bool"}
        /\ \/ x.kind = "str" /\ x.text \notin NumberWords
           \/ datatype = "uint8" /\ x.text \in TooLarge
  THEN Error
  ELSE CASE datatype = "string" -> Dumped(x)
         [] datatype = "bool" -> Value("bool", x.text)
         [] OTHER -> Value("num", x.text)

\* The payload as one decoded value.
Root(p) == IF p.json /\ p.brace THEN Value("dict", "{}") ELSE p.leaves[1].value

\* A key path into the object: a leaf, an inner object, or missing.
Lookup(p, path) ==
  LET leaf  == {i \in DOMAIN p.leaves : p.leaves[i].path = path}
      below == {i \in DOMAIN p.leaves : SubSeq(p.leaves[i].path, 1, Len(path)) = path}
  IN  IF leaf # {} THEN p.leaves[Min(leaf)].value
      ELSE IF below # {} THEN Value("dict", "{}") ELSE Error

NodeValue(p, node) ==
  LET asJson == node.payload = "json" \/ (node.payload = "auto" /\ p.brace)
      value  == CASE asJson /\ ~p.json -> Error
                  [] asJson /\ p.json /\ p.brace -> Lookup(p, node.path)
                  [] OTHER -> Root(p)
  IN  Convert(value, node.datatype)

KindOf(x) == CASE x.kind = "bool" -> "bool" [] x.kind = "num" -> "float64" [] OTHER -> "string"

\* payload_fields: each name is the first leaf's that takes it.
LeavesNamed(p, n) ==
  {i \in DOMAIN p.leaves : p.leaves[i].value.kind # "null" /\ FieldName[p.leaves[i].path] = n}

NamesIn(p) == {FieldName[p.leaves[i].path] :
                 i \in {j \in DOMAIN p.leaves : p.leaves[j].value.kind # "null"}}

FieldsOf(p) == [n \in NamesIn(p) \ Reserved |-> p.leaves[Min(LeavesNamed(p, n))]]

SkipsAny(p) == \E n \in NamesIn(p) : n \in Reserved \/ Cardinality(LeavesNamed(p, n)) > 1

\* Mutant: a number field takes whatever comes.
CoerceLoosely(kind, x) == IF kind = "string" THEN Dumped(x) ELSE x

Coerce(kind, x) ==
  CASE kind = "string" -> Dumped(x)
    [] kind = "bool" /\ x.kind = "bool" -> x
    [] kind = "float64" /\ x.kind = "num" -> x
    [] OTHER -> Error

-----------------------------------------------------------------------------
Init == /\ discovered = Nothing /\ last = Nothing /\ seen = Nothing
        /\ warned = {} /\ messages = 0
        /\ message = Nothing /\ rows = Nothing /\ told = {}

See(t, event) ==
  seen' = Update(seen, [x \in {t} |->
                          [event  |-> IF event = "" /\ t \in DOMAIN seen THEN seen[t].event ELSE event,
                           mapped |-> Entries[t] # <<>>]])

\* on_message, up to the choice of where the message goes.
Received(t, p) == /\ messages < MaxMessages
                  /\ messages' = messages + 1
                  /\ message' = [topic |-> t, payload |-> p]

\* Mutant: one warning per topic.
WarnOncePerTopic(warnings, used) ==
  /\ warned' = warned \cup used \cup {w.key : w \in warnings}
  /\ told' = told \cup {w.about : w \in {v \in warnings : \A k \in warned : k[1] # v.key[1]}}

\* _warn_once for a set of [key, about], after one that has used up `used`.
WarnOnce(warnings, used) ==
  /\ warned' = warned \cup used \cup {w.key : w \in warnings}
  /\ told' = told \cup {w.about : w \in {v \in warnings : v.key \notin warned \cup used}}

Warning(key, about) == [key |-> key, about |-> about]

NotText(t, p) ==
  /\ Received(t, p) /\ ~p.utf8
  /\ See(t, "")
  /\ WarnOnce({Warning(<<t>>, <<t, "payload">>)}, {})
  /\ rows' = Nothing
  /\ UNCHANGED <<discovered, last>>

\* Mutant: a row has the fields of its message alone.
CarryNothing(e, values) == values

Carry(e, values) == Update(IF e \in DOMAIN last THEN last[e] ELSE Nothing, values)

\* _log_mapped: each event the topic maps into has its new values carried.
LogMapped(t, p) ==
  LET indices   == DOMAIN Entries[t]
      value(i)  == NodeValue(p, Entries[t][i].node)
      set(e)    == {i \in indices : Entries[t][i].event = e /\ value(i) # Error}
      events    == {Entries[t][i].event : i \in {j \in indices : value(j) # Error}}
      values(e) == [n \in {Entries[t][i].node.name : i \in set(e)} |->
                      value(CHOOSE i \in set(e) : Entries[t][i].node.name = n)]
      carried   == [e \in events |-> Carry(e, values(e))]
  IN  /\ Received(t, p) /\ p.utf8 /\ Entries[t] # <<>>
      /\ See(t, Entries[t][1].event)
      /\ WarnOnce({Warning(<<t, Entries[t][i].event, Entries[t][i].node.name>>,
                           <<t, "node", Entries[t][i].node.name>>) :
                     i \in {j \in indices : value(j) = Error}}, {})
      /\ last' = Update(last, carried)
      /\ rows' = carried
      /\ UNCHANGED discovered

\* The warning on skipped names comes first.
SkipKey(t, p) == IF SkipsAny(p) THEN {<<t, "skipped">>} ELSE {}

\* Mutant: a topic that lost its event to another is listed under it.
NotDiscoveredListed(t, p) ==
  LET e == EventName[t]
      taken == IF e \in DOMAIN discovered THEN discovered[e].topic # t ELSE e \in Declared
  IN  /\ Received(t, p) /\ p.utf8 /\ Entries[t] = <<>>
      /\ taken \/ (e \notin DOMAIN discovered /\ DOMAIN FieldsOf(p) = {})
      /\ See(t, e)
      /\ WarnOnce(IF taken THEN {Warning(<<t, "event">>, <<t, "event">>)} ELSE {}, SkipKey(t, p))
      /\ rows' = Nothing
      /\ UNCHANGED <<discovered, last>>

\* _log_discovered, its early returns first: the event is the map's, another
\* topic's, or there is nothing to declare it with.
NotDiscovered(t, p) ==
  LET e == EventName[t]
      taken == IF e \in DOMAIN discovered THEN discovered[e].topic # t ELSE e \in Declared
  IN  /\ Received(t, p) /\ p.utf8 /\ Entries[t] = <<>>
      /\ taken \/ (e \notin DOMAIN discovered /\ DOMAIN FieldsOf(p) = {})
      /\ See(t, "")
      /\ WarnOnce(IF taken THEN {Warning(<<t, "event">>, <<t, "event">>)} ELSE {}, SkipKey(t, p))
      /\ rows' = Nothing
      /\ UNCHANGED <<discovered, last>>

Layout(fields) == [n \in DOMAIN fields |-> [kind |-> KindOf(fields[n].value), path |-> fields[n].path]]

\* Mutant: the latest message's layout of a field that came later.
ExtraLatest(known, later) == Update(known.extra, Layout(later))

\* known.extra.setdefault
Extra(known, later) == Update(Layout(later), known.extra)

\* The topic's own event: declared by its first message, whose fields it keeps.
LogDiscovered(t, p) ==
  LET e      == EventName[t]
      fields == FieldsOf(p)
      known  == IF e \in DOMAIN discovered THEN discovered[e]
                ELSE [topic |-> t, fields |-> Layout(fields), extra |-> Nothing]
      new    == DOMAIN fields \ DOMAIN known.fields
      read   == [n \in DOMAIN fields \ new |-> Coerce(known.fields[n].kind, fields[n].value)]
      bad    == {n \in DOMAIN read : read[n] = Error}
      values == Without(read, bad)
  IN  /\ Received(t, p) /\ p.utf8 /\ Entries[t] = <<>>
      /\ IF e \in DOMAIN discovered THEN discovered[e].topic = t
         ELSE e \notin Declared /\ DOMAIN fields # {}
      /\ discovered' =
           Update(discovered, [x \in {e} |->
             [known EXCEPT !.extra = Extra(known, Without(fields, DOMAIN fields \ new))]])
      /\ WarnOnce({Warning(<<t, n>>, <<t, "field", n>>) : n \in new \cup bad}, SkipKey(t, p))
      /\ rows' = IF DOMAIN values = {} THEN Nothing ELSE [x \in {e} |-> values]
      /\ See(t, e)
      /\ UNCHANGED last

Next == \E t \in Topics, p \in Payloads :
           NotText(t, p) \/ LogMapped(t, p) \/ NotDiscovered(t, p) \/ LogDiscovered(t, p)

Spec == Init /\ [][Next]_vars

-----------------------------------------------------------------------------
(***************************************************************************)
(* device_map: the events it adds to the map's own, and their nodes        *)
(***************************************************************************)
SavedEvents == DOMAIN discovered \ MapEvents

\* Mutant: the last key of the path alone.
SavedNodeLastKey(e, n) ==
  LET field == Update(discovered[e].fields, discovered[e].extra)[n]
  IN  [name     |-> n,
       datatype |-> field.kind,
       path     |-> IF field.path = <<>> THEN <<"value">> ELSE <<field.path[Len(field.path)]>>,
       payload  |-> IF field.path = <<>> THEN "auto" ELSE "json"]

SavedNode(e, n) ==
  LET field == Update(discovered[e].fields, discovered[e].extra)[n]
  IN  [name     |-> n,
       datatype |-> field.kind,
       path     |-> IF field.path = <<>> THEN <<"value">> ELSE field.path,
       payload  |-> IF field.path = <<>> THEN "auto" ELSE "json"]

\* topics: the fields listed for a topic that is not mapped.
ListedFields(t) ==
  LET e == seen[t].event
  IN  IF e \in DOMAIN discovered /\ discovered[e].topic = t
      THEN Update(discovered[e].fields, discovered[e].extra) ELSE Nothing

-----------------------------------------------------------------------------
(***************************************************************************)
(* Properties                                                              *)
(***************************************************************************)
FieldTypes == {"bool", "float64", "string"}

TypeOK ==
  /\ \A e \in DOMAIN discovered :
        /\ discovered[e].topic \in Topics /\ EventName[discovered[e].topic] = e
        /\ \A n \in DOMAIN discovered[e].fields : discovered[e].fields[n].kind \in FieldTypes
  /\ DOMAIN last \subseteq MapEvents
  /\ DOMAIN seen \subseteq Topics
  /\ messages \in 0..MaxMessages
  /\ DOMAIN rows \subseteq MapEvents \cup DOMAIN discovered

\* "fields fixed by its first message", and the event's by the topic that came
\* first: later messages, of this or of other topics, only add to `extra`.
LayoutFixed ==
  [][\A e \in DOMAIN discovered :
        /\ e \in DOMAIN discovered'
        /\ discovered'[e].topic = discovered[e].topic
        /\ discovered'[e].fields = discovered[e].fields
        /\ \A n \in DOMAIN discovered[e].extra :
              n \in DOMAIN discovered'[e].extra /\ discovered'[e].extra[n] = discovered[e].extra[n]
    ]_vars

\* A discovered event never has rows of two topics, or of the map and a topic,
\* and a row never has a field, or a value of a type, the event was not declared
\* with.
RowsFit ==
  \A e \in DOMAIN rows :
     IF e \in Declared
     THEN /\ e \notin DOMAIN discovered
          /\ \E i \in DOMAIN Entries[message.topic] : Entries[message.topic][i].event = e
     ELSE /\ discovered[e].topic = message.topic
          /\ \A n \in DOMAIN rows[e] :
                /\ n \in DOMAIN discovered[e].fields
                /\ KindOf(rows[e][n]) = discovered[e].fields[n].kind

\* "every field carried: the ones this message sets, the rest at their last
\* value": a mapped row has all the fields the event's rows ever had, and a value
\* changes only when the message's topic maps into that field.
Carried ==
  [][\A e \in DOMAIN last :
        /\ DOMAIN last[e] \subseteq DOMAIN last'[e]
        /\ e \in DOMAIN rows' => rows'[e] = last'[e]
        /\ \A n \in DOMAIN last[e] :
              last'[e][n] # last[e][n] =>
                \E i \in DOMAIN Entries[message'.topic] :
                   /\ Entries[message'.topic][i].event = e
                   /\ Entries[message'.topic][i].node.name = n
    ]_vars

\* topics() lists a discovered topic under an event of its own and with the
\* fields it is traced with: no two topics share an event, a topic that lost its
\* event to another is listed under none, and every field of the message just
\* traced is listed with its type, however its first message looked.
ListedUnderOwn ==
  \A t \in DOMAIN seen :
     ~seen[t].mapped =>
       /\ seen[t].event # "" => DOMAIN ListedFields(t) # {}
       /\ t = message.topic /\ rows # Nothing =>
            \A n \in DOMAIN rows[EventName[t]] :
               /\ n \in DOMAIN ListedFields(t)
               /\ ListedFields(t)[n].kind = KindOf(rows[EventName[t]][n])

\* Problems "warn once per topic and field instead of being dropped silently":
\* a field an unmapped topic's message carries is in its row, or a warning about
\* that field, or about the topic's event, has been logged by then.  A field called
\* "skipped" is excepted: the warning on skipped names uses up its key.
NothingSilent ==
  [][LET t   == message'.topic
         p   == message'.payload
         e   == EventName[t]
         row == IF e \in DOMAIN rows' THEN DOMAIN rows'[e] ELSE {}
     IN  p.utf8 /\ Entries[t] = <<>> /\ <<t, "event">> \notin told' =>
           \A n \in DOMAIN FieldsOf(p) \ (row \cup {"skipped"}) : <<t, "field", n>> \in told'
    ]_vars

\* "a device map that reads the same fields from the same payload": each value a
\* discovered topic's message was traced with, the saved map's node of that name
\* reads from the same message.  Two exceptions: a text that starts with "{" and
\* is no JSON, and a value found under another key than in the first message.
RoundTrip ==
  \A e \in DOMAIN rows \cap SavedEvents :
     LET p == message.payload
     IN  (p.brace => p.json) =>
           \A n \in DOMAIN rows[e] :
              FieldsOf(p)[n].path = discovered[e].fields[n].path =>
                NodeValue(p, SavedNode(e, n)) = rows[e][n]

\* "The device map in use plus one event per discovered topic".
SavedComplete == DOMAIN discovered \subseteq SavedEvents
=============================================================================
