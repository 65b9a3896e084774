--------------------------- MODULE Tracing_proofs ---------------------------
(***************************************************************************)
(* For any topics, payloads and device map: whose an event is, what its    *)
(* rows may hold, and that a mapped row carries every field.  The invariant *)
(* ties what topics() reads (seen) to the layouts (discovered).            *)
(***************************************************************************)
EXTENDS Tracing, WellFoundedInduction, TLAPS

\* Each discovered event is one topic's, was declared with the fields of a message
\* and has come to know others since; the map's events are never among them.
DiscoveredInv ==
  \A e \in DOMAIN discovered :
     /\ discovered[e] = [topic  |-> discovered[e].topic, fields |-> discovered[e].fields,
                         extra  |-> discovered[e].extra]
     /\ discovered[e].topic \in Topics /\ EventName[discovered[e].topic] = e
     /\ Entries[discovered[e].topic] = <<>>
     /\ \A n \in DOMAIN discovered[e].fields : discovered[e].fields[n].kind \in FieldTypes
     /\ DOMAIN discovered[e].fields # {}
     /\ DOMAIN discovered[e].fields \cap DOMAIN discovered[e].extra = {}
     /\ e \notin Declared

\* What topics() lists an unmapped topic under is its own.
SeenInv ==
  \A t \in DOMAIN seen :
     /\ t \in Topics
     /\ seen[t].mapped <=> Entries[t] # <<>>
     /\ ~seen[t].mapped /\ seen[t].event # "" =>
          /\ seen[t].event = EventName[t] /\ EventName[t] \in DOMAIN discovered
          /\ discovered[EventName[t]].topic = t

\* The rows of the last message fit the layouts as they are now.
RowsInv ==
  /\ rows # Nothing /\ Entries[message.topic] = <<>> => EventName[message.topic] \in DOMAIN rows
  /\ \A e \in DOMAIN rows :
       /\ e \in Declared =>
            \E i \in DOMAIN Entries[message.topic] : Entries[message.topic][i].event = e
       /\ e \notin Declared =>
            /\ e \in DOMAIN discovered /\ discovered[e].topic = message.topic
            /\ seen[message.topic].event = e
            /\ \A n \in DOMAIN rows[e] : /\ n \in DOMAIN discovered[e].fields
                                         /\ KindOf(rows[e][n]) = discovered[e].fields[n].kind

IInv == /\ DiscoveredInv /\ SeenInv /\ RowsInv
        /\ DOMAIN last \subseteq Declared /\ messages \in 0..MaxMessages

-----------------------------------------------------------------------------
(***************************************************************************)
(* The dictionaries                                                        *)
(***************************************************************************)
LEMMA UpdateDomain ==
  ASSUME NEW old, NEW new
  PROVE  DOMAIN Update(old, new) = DOMAIN old \cup DOMAIN new
BY DEF Update

LEMMA UpdateNew ==
  ASSUME NEW old, NEW new, NEW x \in DOMAIN new
  PROVE  Update(old, new)[x] = new[x]
BY DEF Update

LEMMA UpdateOld ==
  ASSUME NEW old, NEW new, NEW x \in DOMAIN old, x \notin DOMAIN new
  PROVE  Update(old, new)[x] = old[x]
BY DEF Update

LEMMA NothingEmpty == DOMAIN Nothing = {}
BY DEF Nothing

\* A field takes a value of its own type or none.
LEMMA CoerceFits ==
  ASSUME NEW kind, NEW x, Coerce(kind, x) # Error
  PROVE  kind \in FieldTypes /\ KindOf(Coerce(kind, x)) = kind
<1>1. KindOf(Dumped(x)) = "string"
  BY DEF KindOf, Dumped, Value
<1> QED BY <1>1 DEF Coerce, KindOf, FieldTypes

LEMMA KindIsType ==
  ASSUME NEW x
  PROVE  KindOf(x) \in FieldTypes
BY DEF KindOf, FieldTypes

LEMMA SetExtra ==
  ASSUME NEW d, NEW x, d = [topic |-> d.topic, fields |-> d.fields, extra |-> d.extra]
  PROVE  [d EXCEPT !.extra = x] = [topic |-> d.topic, fields |-> d.fields, extra |-> x]
OBVIOUS

LEMMA SeeSets ==
  ASSUME NEW t, NEW event, See(t, event)
  PROVE  /\ DOMAIN seen' = DOMAIN seen \cup {t}
         /\ \A x \in DOMAIN seen : x # t => seen'[x] = seen[x]
         /\ seen'[t].mapped <=> Entries[t] # <<>>
         /\ seen'[t].event = IF event = "" /\ t \in DOMAIN seen THEN seen[t].event ELSE event
<1> DEFINE entry == [x \in {t} |->
                       [event  |-> IF event = "" /\ t \in DOMAIN seen THEN seen[t].event ELSE event,
                        mapped |-> Entries[t] # <<>>]]
<1>1. seen' = Update(seen, entry)
  BY DEF See
<1>2. /\ DOMAIN entry = {t}
      /\ entry[t].mapped <=> Entries[t] # <<>>
      /\ entry[t].event = IF event = "" /\ t \in DOMAIN seen THEN seen[t].event ELSE event
  OBVIOUS
<1> HIDE DEF entry
<1>3. DOMAIN seen' = DOMAIN seen \cup {t}
  BY <1>1, <1>2, UpdateDomain
<1>4. seen'[t] = entry[t]
  BY <1>1, <1>2 DEF Update
<1>5. \A x \in DOMAIN seen : x # t => seen'[x] = seen[x]
  BY <1>1, <1>2, UpdateOld
<1> QED BY <1>2, <1>3, <1>4, <1>5

-----------------------------------------------------------------------------
(***************************************************************************)
(* What one message does to the layouts                                    *)
(***************************************************************************)

\* Mapped, unreadable and refused messages leave them alone.
LEMMA OthersLeaveLayouts ==
  ASSUME NEW t, NEW p, NotText(t, p) \/ LogMapped(t, p) \/ NotDiscovered(t, p)
  PROVE  UNCHANGED discovered
BY DEF NotText, LogMapped, NotDiscovered

\* A discovered topic's message, of event e: whose the event is, what the layout
\* was or has become, what was added, and what the row holds.
Discovers(t, p, e) ==
  /\ Entries[t] = <<>> /\ message' = [topic |-> t, payload |-> p] /\ See(t, e)
  /\ e \notin Declared
  /\ DOMAIN discovered' = DOMAIN discovered \cup {e}
  /\ \A f \in DOMAIN discovered : f # e => discovered'[f] = discovered[f]
  /\ discovered'[e] = [topic |-> t, fields |-> discovered'[e].fields,
                       extra |-> discovered'[e].extra]
  /\ e \in DOMAIN discovered =>
        /\ discovered[e].topic = t /\ discovered'[e].fields = discovered[e].fields
        /\ \A n \in DOMAIN discovered[e].extra :
              /\ n \in DOMAIN discovered'[e].extra
              /\ discovered'[e].extra[n] = discovered[e].extra[n]
  /\ \A n \in DOMAIN discovered'[e].fields : discovered'[e].fields[n].kind \in FieldTypes
  /\ DOMAIN discovered'[e].fields # {}
  /\ DOMAIN discovered'[e].fields \cap DOMAIN discovered'[e].extra = {}
  /\ rows' # Nothing => e \in DOMAIN rows'
  /\ DOMAIN rows' \subseteq {e}
  /\ \A f \in DOMAIN rows' : \A n \in DOMAIN rows'[f] :
        /\ n \in DOMAIN discovered'[e].fields
        /\ KindOf(rows'[f][n]) = discovered'[e].fields[n].kind

LEMMA DiscoverySets ==
  ASSUME DiscoveredInv, NEW t \in Topics, NEW p, LogDiscovered(t, p)
  PROVE  Discovers(t, p, EventName[t])
<1> DEFINE e      == EventName[t]
           fields == FieldsOf(p)
           known  == IF e \in DOMAIN discovered THEN discovered[e]
                     ELSE [topic |-> t, fields |-> Layout(fields), extra |-> Nothing]
           new    == DOMAIN fields \ DOMAIN known.fields
           read   == [n \in DOMAIN fields \ new |-> Coerce(known.fields[n].kind, fields[n].value)]
           bad    == {n \in DOMAIN read : read[n] = Error}
           values == Without(read, bad)
           later  == Without(fields, DOMAIN fields \ new)
           record == [known EXCEPT !.extra = Extra(known, later)]
           entry  == [x \in {e} |-> record]
<1>1. /\ Entries[t] = <<>> /\ message' = [topic |-> t, payload |-> p] /\ See(t, e)
      /\ IF e \in DOMAIN discovered THEN discovered[e].topic = t
         ELSE e \notin Declared /\ DOMAIN fields # {}
      /\ discovered' = Update(discovered, entry)
      /\ rows' = IF DOMAIN values = {} THEN Nothing ELSE [x \in {e} |-> values]
  BY DEF LogDiscovered, Received
<1>2. \A n \in DOMAIN fields : /\ n \in DOMAIN Layout(fields)
                              /\ Layout(fields)[n].kind \in FieldTypes
  BY KindIsType DEF Layout
<1>3. DOMAIN Layout(fields) = DOMAIN fields
  BY DEF Layout
<1>4. /\ known = [topic |-> known.topic, fields |-> known.fields, extra |-> known.extra]
      /\ known.topic = t
      /\ \A n \in DOMAIN known.fields : known.fields[n].kind \in FieldTypes
      /\ DOMAIN known.fields # {}
      /\ DOMAIN known.fields \cap DOMAIN known.extra = {}
      /\ e \notin Declared
      /\ e \in DOMAIN discovered => known = discovered[e]
  <2>1. CASE e \in DOMAIN discovered
    <3>1. known = discovered[e]
      BY <2>1
    <3> HIDE DEF known
    <3> QED BY <1>1, <2>1, <3>1 DEF DiscoveredInv
  <2>2. CASE e \notin DOMAIN discovered
    <3>1. known = [topic |-> t, fields |-> Layout(fields), extra |-> Nothing]
      BY <2>2
    <3>2. known.topic = t /\ known.fields = Layout(fields) /\ known.extra = Nothing
      BY <3>1
    <3> HIDE DEF known, fields
    <3> QED BY <1>1, <1>2, <1>3, <2>2, <3>1, <3>2, NothingEmpty
  <2> QED BY <2>1, <2>2
<1>5. DOMAIN values = (DOMAIN fields \ new) \ bad
  <2>1. DOMAIN read = DOMAIN fields \ new
    OBVIOUS
  <2> HIDE DEF read, new, bad, fields
  <2> QED BY <2>1 DEF Without
<1>6. \A n \in DOMAIN values : /\ n \in DOMAIN known.fields
                              /\ KindOf(values[n]) = known.fields[n].kind
  <2> TAKE n \in DOMAIN values
  <2>1. n \in DOMAIN fields /\ n \notin new /\ n \in DOMAIN read /\ n \notin bad
    BY <1>5
  <2>2. values[n] = read[n]
    <3> HIDE DEF read, bad
    <3> QED BY <2>1 DEF Without
  <2>3. read[n] = Coerce(known.fields[n].kind, fields[n].value) /\ read[n] # Error
    BY <2>1
  <2>4. n \in DOMAIN known.fields
    BY <2>1
  <2> HIDE DEF values, read, known, fields
  <2> QED BY <2>2, <2>3, <2>4, CoerceFits
<1>7. DOMAIN later = new
  <2>1. DOMAIN fields \ (DOMAIN fields \ new) = new
    OBVIOUS
  <2> HIDE DEF new, fields
  <2> QED BY <2>1 DEF Without
<1>8. /\ DOMAIN Extra(known, later) = new \cup DOMAIN known.extra
      /\ \A n \in DOMAIN known.extra : Extra(known, later)[n] = known.extra[n]
  <2>1. DOMAIN Layout(later) = DOMAIN later
    BY DEF Layout
  <2> HIDE DEF known, later, new
  <2> QED BY <1>7, <2>1 DEF Extra, Update
<1>9. record = [topic |-> t, fields |-> known.fields, extra |-> Extra(known, later)]
  <2> HIDE DEF known, later
  <2> QED BY <1>4, SetExtra
<1>10. /\ record.topic = t /\ record.fields = known.fields /\ record.extra = Extra(known, later)
       /\ record = [topic |-> t, fields |-> record.fields, extra |-> record.extra]
  <2> HIDE DEF record, known, later
  <2> QED BY <1>9
<1>11. DOMAIN entry = {e} /\ entry[e] = record
  <2> HIDE DEF record, e
  <2> QED OBVIOUS
<1>12. new \cap DOMAIN known.fields = {}
  OBVIOUS
<1> HIDE DEF e, fields, known, new, read, bad, values, later, record, entry
<1>13. DOMAIN discovered' = DOMAIN discovered \cup {e}
  BY <1>1, <1>11, UpdateDomain
<1>14. discovered'[e] = record
  BY <1>1, <1>11, UpdateNew
<1>15. \A f \in DOMAIN discovered : f # e => discovered'[f] = discovered[f]
  BY <1>1, <1>11, UpdateOld
<1>16. /\ discovered'[e] = [topic |-> t, fields |-> discovered'[e].fields,
                            extra |-> discovered'[e].extra]
       /\ discovered'[e].fields = known.fields
       /\ discovered'[e].extra = Extra(known, later)
  BY <1>10, <1>14
<1>17. e \in DOMAIN discovered =>
               /\ discovered[e].topic = t /\ discovered'[e].fields = discovered[e].fields
               /\ \A n \in DOMAIN discovered[e].extra :
                     /\ n \in DOMAIN discovered'[e].extra
                     /\ discovered'[e].extra[n] = discovered[e].extra[n]
  BY <1>1, <1>4, <1>8, <1>16
<1>18. DOMAIN discovered'[e].fields \cap DOMAIN discovered'[e].extra = {}
  BY <1>4, <1>8, <1>12, <1>16
<1>19. /\ DOMAIN rows' \subseteq {e} /\ (rows' # Nothing => e \in DOMAIN rows')
       /\ \A f \in DOMAIN rows' : rows'[f] = values
  BY <1>1, NothingEmpty
<1>20. \A f \in DOMAIN rows' : \A n \in DOMAIN rows'[f] :
               /\ n \in DOMAIN discovered'[e].fields
               /\ KindOf(rows'[f][n]) = discovered'[e].fields[n].kind
  BY <1>6, <1>16, <1>19
<1> QED BY <1>1, <1>4, <1>13, <1>15, <1>16, <1>17, <1>18, <1>19, <1>20 DEF Discovers, e

-----------------------------------------------------------------------------
(***************************************************************************)
(* The invariant                                                           *)
(***************************************************************************)
LEMMA Counted ==
  ASSUME messages \in 0..MaxMessages, messages' = messages + 1, messages < MaxMessages
  PROVE  messages' \in 0..MaxMessages
BY TracingAssumption

LEMMA InitIInv == Init => IInv
BY NothingEmpty, TracingAssumption DEF Init, IInv, DiscoveredInv, SeenInv, RowsInv

\* A message that leaves the layouts as they are, and is listed as before or under
\* the map's event.
LEMMA SeenKept ==
  ASSUME SeenInv, UNCHANGED discovered, NEW t \in Topics, NEW event, See(t, event),
         event = "" \/ Entries[t] # <<>>
  PROVE  SeenInv'
<1>1. ASSUME NEW x \in DOMAIN seen'
      PROVE  /\ x \in Topics
             /\ seen'[x].mapped <=> Entries[x] # <<>>
             /\ ~seen'[x].mapped /\ seen'[x].event # "" =>
                  /\ seen'[x].event = EventName[x] /\ EventName[x] \in DOMAIN discovered
                  /\ discovered[EventName[x]].topic = x
  <2>1. CASE x = t
    <3>1. seen'[x].mapped <=> Entries[x] # <<>>
      BY <2>1, SeeSets
    <3>2. ASSUME ~seen'[x].mapped, seen'[x].event # ""
          PROVE  x \in DOMAIN seen /\ ~seen[x].mapped /\ seen'[x].event = seen[x].event
      <4>1. event = ""
        BY <3>1, <3>2, <2>1
      <4>2. seen'[t].event = IF event = "" /\ t \in DOMAIN seen THEN seen[t].event ELSE event
        BY SeeSets
      <4>3. t \in DOMAIN seen
        BY <2>1, <3>2, <4>1, <4>2
      <4> QED BY <2>1, <3>1, <3>2, <4>1, <4>2, <4>3 DEF SeenInv
    <3> QED BY <2>1, <3>1, <3>2 DEF SeenInv
  <2>2. CASE x # t
    <3>1. x \in DOMAIN seen /\ seen'[x] = seen[x]
      BY <1>1, <2>2, SeeSets
    <3> QED BY <3>1 DEF SeenInv
  <2> QED BY <2>1, <2>2
<1> QED BY <1>1 DEF SeenInv

LEMMA QuietIInv ==
  ASSUME IInv, NEW t \in Topics, NEW p, NotText(t, p) \/ NotDiscovered(t, p)
  PROVE  IInv'
<1>1. /\ UNCHANGED <<discovered, last>> /\ See(t, "") /\ rows' = Nothing
      /\ messages' = messages + 1 /\ messages < MaxMessages
  BY DEF NotText, NotDiscovered, Received
<1>2. DiscoveredInv' /\ RowsInv'
  BY <1>1, NothingEmpty DEF IInv, DiscoveredInv, RowsInv
<1>3. SeenInv'
  BY <1>1, SeenKept DEF IInv
<1>4. messages' \in 0..MaxMessages
  BY <1>1, Counted DEF IInv
<1> QED BY <1>1, <1>2, <1>3, <1>4 DEF IInv

\* What a mapped message carries: the events its topic maps into, each with all it
\* had, and new values only in the fields the topic maps into.
LEMMA MappedSets ==
  ASSUME NEW t \in Topics, NEW p, LogMapped(t, p)
  PROVE  /\ message' = [topic |-> t, payload |-> p] /\ Entries[t] # <<>>
         /\ messages' = messages + 1 /\ messages < MaxMessages
         /\ See(t, Entries[t][1].event) /\ UNCHANGED discovered
         /\ DOMAIN last' = DOMAIN last \cup DOMAIN rows'
         /\ \A e \in DOMAIN rows' :
               /\ \E i \in DOMAIN Entries[t] : Entries[t][i].event = e
               /\ last'[e] = rows'[e]
               /\ e \in DOMAIN last =>
                     /\ DOMAIN last[e] \subseteq DOMAIN last'[e]
                     /\ \A n \in DOMAIN last[e] :
                           last'[e][n] # last[e][n] =>
                             \E i \in DOMAIN Entries[t] :
                                Entries[t][i].event = e /\ Entries[t][i].node.name = n
         /\ \A e \in DOMAIN last : e \notin DOMAIN rows' => last'[e] = last[e]
<1> DEFINE indices   == DOMAIN Entries[t]
           value(i)  == NodeValue(p, Entries[t][i].node)
           set(e)    == {i \in indices : Entries[t][i].event = e /\ value(i) # Error}
           events    == {Entries[t][i].event : i \in {j \in indices : value(j) # Error}}
           values(e) == [n \in {Entries[t][i].node.name : i \in set(e)} |->
                           value(CHOOSE i \in set(e) : Entries[t][i].node.name = n)]
           carried   == [e \in events |-> Carry(e, values(e))]
<1>1. /\ message' = [topic |-> t, payload |-> p] /\ Entries[t] # <<>>
      /\ messages' = messages + 1 /\ messages < MaxMessages
      /\ See(t, Entries[t][1].event) /\ UNCHANGED discovered
      /\ last' = Update(last, carried) /\ rows' = carried
  BY DEF LogMapped, Received
<1>2. DOMAIN carried = events /\ \A e \in events : carried[e] = Carry(e, values(e))
  OBVIOUS
<1>3. \A e \in events : \E i \in DOMAIN Entries[t] : Entries[t][i].event = e
  OBVIOUS
<1>4. ASSUME NEW e, NEW n \in DOMAIN values(e)
      PROVE  \E i \in DOMAIN Entries[t] : Entries[t][i].event = e /\ Entries[t][i].node.name = n
  <2>1. PICK i \in set(e) : Entries[t][i].node.name = n
    BY <1>4
  <2> QED BY <2>1
<1> HIDE DEF indices, value, set, events, values, carried
<1>5. DOMAIN last' = DOMAIN last \cup DOMAIN rows'
  BY <1>1, UpdateDomain
<1>6. \A e \in DOMAIN rows' : last'[e] = rows'[e]
  BY <1>1 DEF Update
<1>7. \A e \in DOMAIN last : e \notin DOMAIN rows' => last'[e] = last[e]
  BY <1>1 DEF Update
<1>8. ASSUME NEW e \in DOMAIN rows', e \in DOMAIN last
      PROVE  /\ DOMAIN last[e] \subseteq DOMAIN last'[e]
             /\ \A n \in DOMAIN last[e] : n \notin DOMAIN values(e) => last'[e][n] = last[e][n]
  <2>1. last'[e] = Update(last[e], values(e))
    BY <1>1, <1>2, <1>6, <1>8 DEF Carry
  <2> QED BY <2>1 DEF Update
<1> QED BY <1>1, <1>2, <1>3, <1>4, <1>5, <1>6, <1>7, <1>8

LEMMA MappedIInv ==
  ASSUME IInv, NEW t \in Topics, NEW p, LogMapped(t, p)
  PROVE  IInv'
<1>1. DiscoveredInv'
  BY MappedSets DEF IInv, DiscoveredInv
<1>2. SeenInv'
  BY MappedSets, SeenKept DEF IInv
<1>3. \A e \in DOMAIN rows' : e \in Declared
  BY MappedSets, TracingAssumption DEF Declared, Topics
<1>4. RowsInv'
  <2>1. /\ message'.topic = t /\ Entries[t] # <<>>
        /\ \A e \in DOMAIN rows' : \E i \in DOMAIN Entries[t] : Entries[t][i].event = e
    BY MappedSets
  <2> QED BY <1>3, <2>1 DEF RowsInv
<1>5. messages' \in 0..MaxMessages
  BY MappedSets, Counted DEF IInv
<1>6. DOMAIN last' \subseteq Declared
  BY <1>3, MappedSets DEF IInv
<1> QED BY <1>1, <1>2, <1>4, <1>5, <1>6 DEF IInv

LEMMA DiscoveryIInv ==
  ASSUME IInv, NEW t \in Topics, NEW p, LogDiscovered(t, p)
  PROVE  IInv'
<1> DEFINE e == EventName[t]
<1>0. DiscoveredInv
  BY DEF IInv
<1>1. /\ DOMAIN discovered' = DOMAIN discovered \cup {e}
      /\ \A f \in DOMAIN discovered : f # e => discovered'[f] = discovered[f]
      /\ discovered'[e].topic = t /\ See(t, e) /\ Entries[t] = <<>>
      /\ e \in DOMAIN discovered => discovered[e].topic = t
  <2>1. discovered'[e] = [topic |-> t, fields |-> discovered'[e].fields,
                          extra |-> discovered'[e].extra]
    BY <1>0, DiscoverySets DEF Discovers
  <2>2. discovered'[e].topic = t
    BY <2>1
  <2> QED BY <1>0, <2>2, DiscoverySets DEF Discovers
<1>2. DiscoveredInv'
  <2>1. ASSUME NEW f \in DOMAIN discovered', f # e
        PROVE  f \in DOMAIN discovered /\ discovered'[f] = discovered[f]
    BY <1>1, <2>1
  <2>2. /\ discovered'[e] = [topic |-> t, fields |-> discovered'[e].fields,
                             extra |-> discovered'[e].extra]
        /\ \A n \in DOMAIN discovered'[e].fields : discovered'[e].fields[n].kind \in FieldTypes
        /\ DOMAIN discovered'[e].fields # {}
        /\ DOMAIN discovered'[e].fields \cap DOMAIN discovered'[e].extra = {}
        /\ e \notin Declared
    BY <1>0, DiscoverySets DEF Discovers
  <2>3. EventName[t] = e
    OBVIOUS
  <2> HIDE DEF e
  <2>4. ASSUME NEW f \in DOMAIN discovered'
        PROVE  /\ discovered'[f] = [topic  |-> discovered'[f].topic, fields |-> discovered'[f].fields,
                                    extra  |-> discovered'[f].extra]
               /\ discovered'[f].topic \in Topics /\ EventName[discovered'[f].topic] = f
               /\ Entries[discovered'[f].topic] = <<>>
               /\ \A n \in DOMAIN discovered'[f].fields : discovered'[f].fields[n].kind \in FieldTypes
               /\ DOMAIN discovered'[f].fields # {}
               /\ DOMAIN discovered'[f].fields \cap DOMAIN discovered'[f].extra = {}
               /\ f \notin Declared
    <3>1. CASE f = e
      BY <1>1, <2>2, <2>3, <3>1
    <3>2. CASE f # e
      BY <1>0, <2>1, <3>2 DEF DiscoveredInv
    <3> QED BY <3>1, <3>2
  <2> QED BY <2>4 DEF DiscoveredInv
<1>3. /\ DOMAIN seen' = DOMAIN seen \cup {t}
      /\ \A x \in DOMAIN seen : x # t => seen'[x] = seen[x]
      /\ seen'[t].mapped <=> Entries[t] # <<>>
      /\ seen'[t].event = IF e = "" /\ t \in DOMAIN seen THEN seen[t].event ELSE e
  BY <1>1, SeeSets
<1>4. seen'[t].event \in {"", e}
  BY <1>1, <1>3 DEF IInv, SeenInv
<1> HIDE DEF e
<1>5. SeenInv'
  <2>1. ASSUME NEW x \in DOMAIN seen'
        PROVE  /\ x \in Topics
               /\ seen'[x].mapped <=> Entries[x] # <<>>
               /\ ~seen'[x].mapped /\ seen'[x].event # "" =>
                    /\ seen'[x].event = EventName[x] /\ EventName[x] \in DOMAIN discovered'
                    /\ discovered'[EventName[x]].topic = x
    <3>1. CASE x = t
      BY <1>1, <1>3, <1>4, <3>1 DEF e
    <3>2. CASE x # t
      <4>1. x \in DOMAIN seen /\ seen'[x] = seen[x]
        BY <1>3, <2>1, <3>2
      <4>2. ASSUME EventName[x] \in DOMAIN discovered, discovered[EventName[x]].topic = x
            PROVE  /\ EventName[x] \in DOMAIN discovered'
                   /\ discovered'[EventName[x]].topic = x
        BY <1>1, <3>2, <4>2
      <4>3. /\ x \in Topics
            /\ seen[x].mapped <=> Entries[x] # <<>>
            /\ ~seen[x].mapped /\ seen[x].event # "" =>
                 /\ seen[x].event = EventName[x] /\ EventName[x] \in DOMAIN discovered
                 /\ discovered[EventName[x]].topic = x
        BY <4>1 DEF IInv, SeenInv
      <4> QED BY <4>1, <4>2, <4>3
    <3> QED BY <3>1, <3>2
  <2> QED BY <2>1 DEF SeenInv
<1>6. /\ message'.topic = t /\ DOMAIN rows' \subseteq {e} /\ e \notin Declared
      /\ rows' # Nothing => e \in DOMAIN rows'
      /\ \A f \in DOMAIN rows' : \A n \in DOMAIN rows'[f] :
            /\ n \in DOMAIN discovered'[e].fields
            /\ KindOf(rows'[f][n]) = discovered'[e].fields[n].kind
  <2>1. message' = [topic |-> t, payload |-> p]
    BY <1>0, DiscoverySets DEF Discovers
  <2>2. message'.topic = t
    BY <2>1
  <2> QED BY <1>0, <2>2, DiscoverySets DEF Discovers, e
<1>7. RowsInv'
  <2>1. seen'[t].event = e /\ EventName[t] = e
    BY <1>3, <1>4 DEF e
  <2> QED BY <1>1, <1>6, <2>1 DEF RowsInv
<1>8. UNCHANGED last /\ messages' = messages + 1 /\ messages < MaxMessages
  BY DEF LogDiscovered, Received
<1>9. messages' \in 0..MaxMessages
  BY <1>8, Counted DEF IInv
<1> QED BY <1>2, <1>5, <1>7, <1>8, <1>9 DEF IInv

LEMMA Invariance == Spec => []IInv
<1>1. IInv /\ [Next]_vars => IInv'
  <2> SUFFICES ASSUME IInv, [Next]_vars PROVE IInv'
    OBVIOUS
  <2>1. CASE UNCHANGED vars
    <3>1. /\ discovered' = discovered /\ seen' = seen /\ rows' = rows /\ message' = message
          /\ last' = last /\ messages' = messages
      BY <2>1 DEF vars
    <3>2. DiscoveredInv'
      BY <3>1 DEF IInv, DiscoveredInv
    <3>3. SeenInv'
      BY <3>1 DEF IInv, SeenInv
    <3>4. RowsInv'
      BY <3>1 DEF IInv, RowsInv
    <3> QED BY <3>1, <3>2, <3>3, <3>4 DEF IInv
  <2> QED BY <2>1, QuietIInv, MappedIInv, DiscoveryIInv DEF Next
<1> QED BY <1>1, InitIInv, PTL DEF Spec

-----------------------------------------------------------------------------
(***************************************************************************)
(* Theorems                                                                *)
(***************************************************************************)

\* Type correctness: an event that is discovered bears the name of its topic, and
\* a row is one of the map's events or of those.
THEOREM TypeCorrect == Spec => []TypeOK
<1>1. Declared \subseteq MapEvents
  BY DEF Declared
<1>2. IInv => TypeOK
  BY <1>1 DEF IInv, DiscoveredInv, SeenInv, RowsInv, TypeOK
<1> QED BY <1>2, Invariance, PTL

\* A row has the fields and types its event was declared with, and is of the topic
\* the event belongs to, whatever messages compete for it.
THEOREM RowsAlwaysFit == Spec => []RowsFit
<1>1. IInv => RowsFit
  BY DEF IInv, DiscoveredInv, RowsInv, RowsFit
<1> QED BY <1>1, Invariance, PTL

\* topics() lists a discovered topic under its own event and no other, with the
\* fields and types its rows have.
THEOREM ListedRight == Spec => []ListedUnderOwn
<1>1. ASSUME IInv, NEW t \in DOMAIN seen, ~seen[t].mapped
      PROVE  /\ seen[t].event # "" => DOMAIN ListedFields(t) # {}
             /\ t = message.topic /\ rows # Nothing =>
                  \A n \in DOMAIN rows[EventName[t]] :
                     /\ n \in DOMAIN ListedFields(t)
                     /\ ListedFields(t)[n].kind = KindOf(rows[EventName[t]][n])
  <2>1. ASSUME NEW e, seen[t].event = e, e \in DOMAIN discovered, discovered[e].topic = t
        PROVE  /\ DOMAIN ListedFields(t) # {}
               /\ \A n \in DOMAIN discovered[e].fields :
                     /\ n \in DOMAIN ListedFields(t)
                     /\ ListedFields(t)[n] = discovered[e].fields[n]
    <3>1. ListedFields(t) = Update(discovered[e].fields, discovered[e].extra)
      BY <2>1 DEF ListedFields
    <3>2. /\ DOMAIN discovered[e].fields # {}
          /\ DOMAIN discovered[e].fields \cap DOMAIN discovered[e].extra = {}
      BY <1>1, <2>1 DEF IInv, DiscoveredInv
    <3>3. DOMAIN ListedFields(t) = DOMAIN discovered[e].fields \cup DOMAIN discovered[e].extra
      BY <3>1, UpdateDomain
    <3>4. \A n \in DOMAIN discovered[e].fields : ListedFields(t)[n] = discovered[e].fields[n]
      BY <3>1, <3>2 DEF Update
    <3> QED BY <3>2, <3>3, <3>4
  <2>2. seen[t].event # "" => DOMAIN ListedFields(t) # {}
    BY <1>1, <2>1 DEF IInv, SeenInv
  <2>3. ASSUME t = message.topic, rows # Nothing, NEW n \in DOMAIN rows[EventName[t]]
        PROVE  /\ n \in DOMAIN ListedFields(t)
               /\ ListedFields(t)[n].kind = KindOf(rows[EventName[t]][n])
    <3>1. Entries[t] = <<>> /\ EventName[t] \in DOMAIN rows
      BY <1>1, <2>3 DEF IInv, SeenInv, RowsInv
    <3>2. EventName[t] \notin Declared
      BY <1>1, <2>3, <3>1 DEF IInv, RowsInv
    <3>3. /\ EventName[t] \in DOMAIN discovered /\ discovered[EventName[t]].topic = t
          /\ seen[t].event = EventName[t] /\ n \in DOMAIN discovered[EventName[t]].fields
          /\ KindOf(rows[EventName[t]][n]) = discovered[EventName[t]].fields[n].kind
      BY <1>1, <2>3, <3>1, <3>2 DEF IInv, RowsInv
    <3> QED BY <2>1, <3>3
  <2> QED BY <2>2, <2>3
<1>2. IInv => ListedUnderOwn
  BY <1>1 DEF ListedUnderOwn
<1> QED BY <1>2, Invariance, PTL

\* "fields fixed by its first message": no later message, of whatever topic and
\* shape, changes a layout.
THEOREM LayoutsAreFixed == Spec => LayoutFixed
<1>1. ASSUME IInv, [Next]_vars, NEW e \in DOMAIN discovered
      PROVE  /\ e \in DOMAIN discovered'
             /\ discovered'[e].topic = discovered[e].topic
             /\ discovered'[e].fields = discovered[e].fields
             /\ \A n \in DOMAIN discovered[e].extra :
                   n \in DOMAIN discovered'[e].extra /\ discovered'[e].extra[n] = discovered[e].extra[n]
  <2>1. CASE UNCHANGED discovered
    BY <2>1
  <2>2. ASSUME NEW t \in Topics, NEW p, LogDiscovered(t, p)
        PROVE  /\ e \in DOMAIN discovered'
               /\ discovered'[e].topic = discovered[e].topic
               /\ discovered'[e].fields = discovered[e].fields
               /\ \A n \in DOMAIN discovered[e].extra :
                     n \in DOMAIN discovered'[e].extra /\ discovered'[e].extra[n] = discovered[e].extra[n]
    <3>1. DiscoveredInv
      BY <1>1 DEF IInv
    <3>d. Discovers(t, p, EventName[t])
      BY <2>2, <3>1, DiscoverySets
    <3>2. CASE e # EventName[t]
      BY <3>d, <3>2 DEF Discovers
    <3>3. CASE e = EventName[t]
      <4>1. discovered'[e] = [topic |-> t, fields |-> discovered'[e].fields,
                              extra |-> discovered'[e].extra]
        BY <3>d, <3>3 DEF Discovers
      <4>2. discovered'[e].topic = t
        BY <4>1
      <4>3. discovered[e].topic = t /\ discovered'[e].fields = discovered[e].fields
        BY <3>d, <3>3 DEF Discovers
      <4>4. \A n \in DOMAIN discovered[e].extra :
               /\ n \in DOMAIN discovered'[e].extra
               /\ discovered'[e].extra[n] = discovered[e].extra[n]
        BY <3>d, <3>3 DEF Discovers
      <4>5. e \in DOMAIN discovered'
        BY <3>d, <3>3 DEF Discovers
      <4> QED BY <4>2, <4>3, <4>4, <4>5
    <3> QED BY <3>2, <3>3
  <2> QED BY <1>1, <2>1, <2>2, OthersLeaveLayouts DEF Next, vars
<1>2. IInv /\ [Next]_vars =>
        [\A e \in DOMAIN discovered :
           /\ e \in DOMAIN discovered'
           /\ discovered'[e].topic = discovered[e].topic
           /\ discovered'[e].fields = discovered[e].fields
           /\ \A n \in DOMAIN discovered[e].extra :
                 n \in DOMAIN discovered'[e].extra /\ discovered'[e].extra[n] = discovered[e].extra[n]
        ]_vars
  BY <1>1
<1> QED BY <1>2, Invariance, PTL DEF Spec, LayoutFixed

\* "every field carried": a mapped row has all its event ever had, and changes what
\* its topic maps into.
THEOREM FieldsAreCarried == Spec => Carried
<1>1. ASSUME IInv, Next, NEW e \in DOMAIN last
      PROVE  /\ DOMAIN last[e] \subseteq DOMAIN last'[e]
             /\ e \in DOMAIN rows' => rows'[e] = last'[e]
             /\ \A n \in DOMAIN last[e] :
                   last'[e][n] # last[e][n] =>
                     \E i \in DOMAIN Entries[message'.topic] :
                        /\ Entries[message'.topic][i].event = e
                        /\ Entries[message'.topic][i].node.name = n
  <2>1. PICK t \in Topics, p \in Payloads :
          NotText(t, p) \/ LogMapped(t, p) \/ NotDiscovered(t, p) \/ LogDiscovered(t, p)
    BY <1>1 DEF Next
  <2>2. CASE NotText(t, p) \/ NotDiscovered(t, p)
    BY <2>2, NothingEmpty DEF NotText, NotDiscovered
  <2>3. CASE LogMapped(t, p)
    <3>1. message' = [topic |-> t, payload |-> p]
      BY <2>3, MappedSets
    <3>2. message'.topic = t
      BY <3>1
    <3>3. CASE e \in DOMAIN rows'
      BY <2>3, <3>2, <3>3, MappedSets
    <3>4. CASE e \notin DOMAIN rows'
      BY <2>3, <3>4, MappedSets
    <3> QED BY <3>3, <3>4
  <2>4. CASE LogDiscovered(t, p)
    <3>1. DiscoveredInv /\ e \in Declared
      BY <1>1 DEF IInv
    <3>2. e \notin DOMAIN rows'
      BY <2>4, <3>1, DiscoverySets DEF Discovers
    <3>3. UNCHANGED last
      BY <2>4 DEF LogDiscovered
    <3> QED BY <3>2, <3>3
  <2> QED BY <2>1, <2>2, <2>3, <2>4
<1>2. IInv /\ [Next]_vars =>
        [\A e \in DOMAIN last :
           /\ DOMAIN last[e] \subseteq DOMAIN last'[e]
           /\ e \in DOMAIN rows' => rows'[e] = last'[e]
           /\ \A n \in DOMAIN last[e] :
                 last'[e][n] # last[e][n] =>
                   \E i \in DOMAIN Entries[message'.topic] :
                      /\ Entries[message'.topic][i].event = e
                      /\ Entries[message'.topic][i].node.name = n
        ]_vars
  BY <1>1
<1> QED BY <1>2, Invariance, PTL DEF Spec, Carried

-----------------------------------------------------------------------------
(***************************************************************************)
(* Nothing is dropped silently.  The keys of _warned do not say which      *)
(* warning used them up: <<t, "event">> is that of the topic's event and of *)
(* a field "event", <<t, "skipped">> that of the names and of a field.      *)
(***************************************************************************)

\* A key that is used up stands for a warning given: about the topic's event, or,
\* the event being the topic's own, about the field.
WarnedTold ==
  \A t \in Topics : \A n :
     <<t, n>> \in warned /\ n # "skipped" =>
        \/ <<t, "event">> \in told
        \/ /\ EventName[t] \in DOMAIN discovered /\ discovered[EventName[t]].topic = t
           /\ <<t, "field", n>> \in told

LEMMA WarnSets ==
  ASSUME NEW warnings, NEW used, WarnOnce(warnings, used)
  PROVE  /\ told \subseteq told'
         /\ \A w \in warnings : w.key \notin warned \cup used => w.about \in told'
         /\ \A k \in warned' : k \in warned \/ k \in used \/ \E w \in warnings : k = w.key
BY DEF WarnOnce

\* An event that is a topic's own remains it.
LEMMA OwnRemains ==
  ASSUME DiscoveredInv, NEW t \in Topics, NEW p, NEW e \in DOMAIN discovered,
         NotText(t, p) \/ LogMapped(t, p) \/ NotDiscovered(t, p) \/ LogDiscovered(t, p)
  PROVE  e \in DOMAIN discovered' /\ discovered'[e].topic = discovered[e].topic
<1>1. CASE NotText(t, p) \/ LogMapped(t, p) \/ NotDiscovered(t, p)
  BY <1>1, OthersLeaveLayouts
<1>2. CASE LogDiscovered(t, p)
  <2>1. Discovers(t, p, EventName[t])
    BY <1>2, DiscoverySets
  <2>2. CASE e # EventName[t]
    BY <2>1, <2>2 DEF Discovers
  <2>3. CASE e = EventName[t]
    <3>1. discovered'[e] = [topic |-> t, fields |-> discovered'[e].fields,
                            extra |-> discovered'[e].extra]
      BY <2>1, <2>3 DEF Discovers
    <3>2. discovered'[e].topic = t
      BY <3>1
    <3> QED BY <2>1, <2>3, <3>2 DEF Discovers
  <2> QED BY <2>2, <2>3
<1> QED BY <1>1, <1>2

\* Warnings that are about neither an event nor a field of a discovered topic.
LEMMA OtherWarnings ==
  ASSUME DiscoveredInv, WarnedTold, NEW t \in Topics, NEW p, NotText(t, p) \/ LogMapped(t, p)
  PROVE  WarnedTold'
<1>1. told \subseteq told' /\ \A x, n : <<x, n>> \in warned' => <<x, n>> \in warned
  <2>1. CASE NotText(t, p)
    <3> DEFINE warnings == {Warning(<<t>>, <<t, "payload">>)}
    <3>1. WarnOnce(warnings, {})
      BY <2>1 DEF NotText
    <3>2. \A x, n : \A w \in warnings : <<x, n>> # w.key
      BY DEF Warning
    <3> HIDE DEF warnings
    <3> QED BY <3>1, <3>2, WarnSets
  <2>2. CASE LogMapped(t, p)
    <3> DEFINE value(i) == NodeValue(p, Entries[t][i].node)
               warnings == {Warning(<<t, Entries[t][i].event, Entries[t][i].node.name>>,
                                    <<t, "node", Entries[t][i].node.name>>) :
                              i \in {j \in DOMAIN Entries[t] : value(j) = Error}}
    <3>1. WarnOnce(warnings, {})
      BY <2>2 DEF LogMapped
    <3>2. \A x, n : \A w \in warnings : <<x, n>> # w.key
      BY DEF Warning
    <3> HIDE DEF warnings
    <3> QED BY <3>1, <3>2, WarnSets
  <2> QED BY <2>1, <2>2
<1>2. UNCHANGED discovered
  BY OthersLeaveLayouts
<1> QED BY <1>1, <1>2 DEF WarnedTold

\* What `taken` means: the event is another topic's or the map's.
Taken(t) == IF EventName[t] \in DOMAIN discovered THEN discovered[EventName[t]].topic # t
            ELSE EventName[t] \in Declared

LEMMA RefusedTold ==
  ASSUME DiscoveredInv, WarnedTold, NEW t \in Topics, NEW p, NotDiscovered(t, p)
  PROVE  /\ WarnedTold'
         /\ Taken(t) => <<t, "event">> \in told'
         /\ ~Taken(t) => DOMAIN FieldsOf(p) = {}
<1> DEFINE warnings == IF Taken(t) THEN {Warning(<<t, "event">>, <<t, "event">>)} ELSE {}
<1>1. WarnOnce(warnings, SkipKey(t, p)) /\ (~Taken(t) => DOMAIN FieldsOf(p) = {})
  BY DEF NotDiscovered, Taken
<1>2. UNCHANGED discovered
  BY OthersLeaveLayouts
<1>3. \A w \in warnings : Taken(t) /\ w.key = <<t, "event">> /\ w.about = <<t, "event">>
  BY DEF Warning
<1>4. Taken(t) => \E w \in warnings : w.key = <<t, "event">> /\ w.about = <<t, "event">>
  BY DEF Warning
<1>5. <<t, "event">> \notin SkipKey(t, p)
  BY DEF SkipKey
<1>6. \A x, n : <<x, n>> \in SkipKey(t, p) => n = "skipped"
  BY DEF SkipKey
<1> HIDE DEF warnings
<1>7. Taken(t) => <<t, "event">> \in told'
  <2> SUFFICES ASSUME Taken(t) PROVE <<t, "event">> \in told'
    OBVIOUS
  <2>1. CASE <<t, "event">> \notin warned
    BY <1>1, <1>4, <1>5, <2>1, WarnSets
  <2>2. CASE <<t, "event">> \in warned
    <3>1. <<t, "event">> \in told
      BY <2>2 DEF WarnedTold, Taken
    <3> QED BY <1>1, <3>1, WarnSets
  <2> QED BY <2>1, <2>2
<1>8. told \subseteq told'
  BY <1>1, WarnSets
<1>9. ASSUME NEW x \in Topics, NEW n, <<x, n>> \in warned', n # "skipped"
      PROVE  \/ <<x, "event">> \in told'
             \/ /\ EventName[x] \in DOMAIN discovered' /\ discovered'[EventName[x]].topic = x
                /\ <<x, "field", n>> \in told'
  <2>1. CASE <<x, n>> \in warned
    BY <1>2, <1>8, <1>9, <2>1 DEF WarnedTold
  <2>2. CASE <<x, n>> \notin warned
    <3>1. PICK w \in warnings : <<x, n>> = w.key
      BY <1>1, <1>6, <1>9, <2>2, WarnSets
    <3>2. x = t /\ Taken(t)
      BY <1>3, <3>1
    <3> QED BY <1>7, <3>2
  <2> QED BY <2>1, <2>2
<1> QED BY <1>1, <1>7, <1>9 DEF WarnedTold

\* The fields of a discovered topic's message that are in no row.
LEMMA DiscoveredTold ==
  ASSUME DiscoveredInv, WarnedTold, NEW t \in Topics, NEW p, LogDiscovered(t, p)
  PROVE  /\ WarnedTold'
         /\ <<t, "event">> \notin told' =>
              \A n \in DOMAIN FieldsOf(p) :
                 \/ EventName[t] \in DOMAIN rows' /\ n \in DOMAIN rows'[EventName[t]]
                 \/ n = "skipped"
                 \/ <<t, "field", n>> \in told'
<1> DEFINE e      == EventName[t]
           fields == FieldsOf(p)
           known  == IF e \in DOMAIN discovered THEN discovered[e]
                     ELSE [topic |-> t, fields |-> Layout(fields), extra |-> Nothing]
           new    == DOMAIN fields \ DOMAIN known.fields
           read   == [n \in DOMAIN fields \ new |-> Coerce(known.fields[n].kind, fields[n].value)]
           bad    == {n \in DOMAIN read : read[n] = Error}
           values == Without(read, bad)
           warnings == {Warning(<<t, n>>, <<t, "field", n>>) : n \in new \cup bad}
<1>1. /\ WarnOnce(warnings, SkipKey(t, p))
      /\ rows' = IF DOMAIN values = {} THEN Nothing ELSE [x \in {e} |-> values]
  BY DEF LogDiscovered
<1>2. DOMAIN values = (DOMAIN fields \ new) \ bad
  <2>1. DOMAIN read = DOMAIN fields \ new
    OBVIOUS
  <2> HIDE DEF read, new, bad, fields
  <2> QED BY <2>1 DEF Without
<1>3. \A w \in warnings : \E n \in new \cup bad : w.key = <<t, n>> /\ w.about = <<t, "field", n>>
  <2> HIDE DEF new, bad
  <2> QED BY DEF Warning
<1>4. \A n \in new \cup bad : \E w \in warnings : w.key = <<t, n>> /\ w.about = <<t, "field", n>>
  <2> TAKE n \in new \cup bad
  <2>1. Warning(<<t, n>>, <<t, "field", n>>) \in warnings
    OBVIOUS
  <2> HIDE DEF new, bad, warnings
  <2> QED BY <2>1 DEF Warning
<1>5. \A x, n : <<x, n>> \in SkipKey(t, p) => n = "skipped"
  BY DEF SkipKey
<1>6. e \in DOMAIN discovered' /\ discovered'[e].topic = t
  <2>1. Discovers(t, p, e)
    BY DiscoverySets
  <2>2. discovered'[e] = [topic |-> t, fields |-> discovered'[e].fields,
                          extra |-> discovered'[e].extra]
    BY <2>1 DEF Discovers
  <2>3. discovered'[e].topic = t
    BY <2>2
  <2> QED BY <2>1, <2>3 DEF Discovers
<1>7. \A n \in DOMAIN fields : n \in DOMAIN values \/ n \in new \cup bad
  BY <1>2
<1> HIDE DEF fields, known, new, read, bad, values, warnings
<1>8. \A n \in DOMAIN values : e \in DOMAIN rows' /\ n \in DOMAIN rows'[e]
  BY <1>1
<1>9. told \subseteq told'
  BY <1>1, WarnSets
<1>10. ASSUME NEW n \in new \cup bad, n # "skipped", <<t, "event">> \notin told'
       PROVE  <<t, "field", n>> \in told'
  <2>1. PICK w \in warnings : w.key = <<t, n>> /\ w.about = <<t, "field", n>>
    BY <1>4
  <2>2. CASE <<t, n>> \in warned
    BY <1>9, <1>10, <2>2 DEF WarnedTold
  <2>3. CASE <<t, n>> \notin warned
    BY <1>1, <1>5, <1>10, <2>1, <2>3, WarnSets
  <2> QED BY <2>2, <2>3
<1>11. ASSUME NEW x \in Topics, NEW n, <<x, n>> \in warned', n # "skipped"
       PROVE  \/ <<x, "event">> \in told'
              \/ /\ EventName[x] \in DOMAIN discovered' /\ discovered'[EventName[x]].topic = x
                 /\ <<x, "field", n>> \in told'
  <2>1. CASE <<x, n>> \in warned
    BY <1>9, <1>11, <2>1, OwnRemains DEF WarnedTold
  <2>2. CASE <<x, n>> \notin warned
    <3>1. PICK w \in warnings : <<x, n>> = w.key
      BY <1>1, <1>5, <1>11, <2>2, WarnSets
    <3>2. x = t /\ n \in new \cup bad
      BY <1>3, <3>1
    <3> QED BY <1>6, <1>10, <1>11, <3>2
  <2> QED BY <2>1, <2>2
<1>12. WarnedTold'
  BY <1>11 DEF WarnedTold
<1> QED BY <1>7, <1>8, <1>10, <1>12 DEF fields

LEMMA WarnedInvariance == Spec => []WarnedTold
<1>1. Init => WarnedTold
  BY DEF Init, WarnedTold
<1>2. IInv /\ WarnedTold /\ [Next]_vars => WarnedTold'
  <2> SUFFICES ASSUME IInv, WarnedTold, [Next]_vars PROVE WarnedTold'
    OBVIOUS
  <2>1. CASE UNCHANGED vars
    BY <2>1 DEF vars, WarnedTold
  <2>2. CASE Next
    BY <2>2, OtherWarnings, RefusedTold, DiscoveredTold DEF Next, IInv
  <2> QED BY <2>1, <2>2
<1> QED BY <1>1, <1>2, Invariance, PTL DEF Spec

\* Problems warn "instead of being dropped silently": whatever used up a warning's
\* key, a field of an unmapped topic is in its row, or a warning about the field or
\* the topic's event was given.
THEOREM NothingIsSilent == Spec => NothingSilent
<1> DEFINE Told(t, p, e, row) ==
             p.utf8 /\ Entries[t] = <<>> /\ <<t, "event">> \notin told' =>
               \A n \in DOMAIN FieldsOf(p) \ (row \cup {"skipped"}) : <<t, "field", n>> \in told'
           Row(e) == IF e \in DOMAIN rows' THEN DOMAIN rows'[e] ELSE {}
<1>1. ASSUME IInv, WarnedTold, Next
      PROVE  Told(message'.topic, message'.payload, EventName[message'.topic],
                  Row(EventName[message'.topic]))
  <2>1. PICK t \in Topics, p \in Payloads :
          NotText(t, p) \/ LogMapped(t, p) \/ NotDiscovered(t, p) \/ LogDiscovered(t, p)
    BY <1>1 DEF Next
  <2>2. message' = [topic |-> t, payload |-> p]
    BY <2>1 DEF NotText, LogMapped, NotDiscovered, LogDiscovered, Received
  <2>3. message'.topic = t /\ message'.payload = p
    BY <2>2
  <2>4. Told(t, p, EventName[t], Row(EventName[t]))
    <3>1. CASE NotText(t, p) \/ LogMapped(t, p)
      BY <3>1 DEF NotText, LogMapped
    <3>2. CASE NotDiscovered(t, p)
      BY <1>1, <3>2, RefusedTold DEF IInv
    <3>3. CASE LogDiscovered(t, p)
      BY <1>1, <3>3, DiscoveredTold DEF IInv
    <3> QED BY <2>1, <3>1, <3>2, <3>3
  <2> QED BY <2>3, <2>4
<1>2. IInv /\ WarnedTold /\ [Next]_vars =>
        [LET t   == message'.topic
             p   == message'.payload
             e   == EventName[t]
             row == IF e \in DOMAIN rows' THEN DOMAIN rows'[e] ELSE {}
         IN  p.utf8 /\ Entries[t] = <<>> /\ <<t, "event">> \notin told' =>
               \A n \in DOMAIN FieldsOf(p) \ (row \cup {"skipped"}) : <<t, "field", n>> \in told'
        ]_vars
  BY <1>1
<1> QED BY <1>2, Invariance, WarnedInvariance, PTL DEF Spec, NothingSilent
-----------------------------------------------------------------------------
(***************************************************************************)
(* A saved node reads what was traced                                      *)
(***************************************************************************)
LEMMA LeastIndex ==
  ASSUME NEW S \in SUBSET Nat, S # {}
  PROVE  Min(S) \in S
<1>1. PICK m \in S : \A k \in S : ~(<<k, m>> \in OpToRel(<, Nat))
  BY NatLessThanWellFounded, WFMin
<1>2. \A k \in S : ~(k < m)
  BY <1>1 DEF OpToRel
<1>3. \A k \in S : m <= k
  BY <1>2
<1> QED BY <1>3 DEF Min

\* Where a field of a payload comes from: the one leaf of its path, never a null.
LEMMA FieldLeaf ==
  ASSUME NEW p \in Payloads, NEW n \in DOMAIN FieldsOf(p)
  PROVE  \E i \in DOMAIN p.leaves :
            /\ FieldsOf(p)[n] = p.leaves[i]
            /\ p.leaves[i] \in Leaf /\ p.leaves[i].value.kind # "null"
            /\ \A j \in DOMAIN p.leaves : p.leaves[j].path = p.leaves[i].path => j = i
<1> DEFINE S == LeavesNamed(p, n)
<1>1. p.leaves \in Seq(Leaf) /\ DOMAIN p.leaves \in SUBSET Nat
  <2>1. p.leaves \in Seq(Leaf)
    BY PayloadAssumption
  <2> QED BY <2>1
<1>2. S \in SUBSET (DOMAIN p.leaves) /\ S # {}
  BY DEF LeavesNamed, FieldsOf, NamesIn
<1>3. Min(S) \in S
  BY <1>1, <1>2, LeastIndex
<1>4. FieldsOf(p)[n] = p.leaves[Min(S)]
  BY DEF FieldsOf
<1>5. p.leaves[Min(S)].value.kind # "null"
  BY <1>3 DEF LeavesNamed
<1>6. \A i, j \in DOMAIN p.leaves : p.leaves[j].path = p.leaves[i].path => j = i
  BY PayloadAssumption
<1>7. Min(S) \in DOMAIN p.leaves /\ p.leaves[Min(S)] \in Leaf
  <2>1. Min(S) \in DOMAIN p.leaves
    BY <1>2, <1>3
  <2> QED BY <1>1, <2>1
<1> HIDE DEF S
<1> QED BY <1>4, <1>5, <1>6, <1>7

\* convert and coerce agree where coerce takes the value.
LEMMA ConvertCoerces ==
  ASSUME NEW x \in JsonValue, x.kind # "null", NEW kind, Coerce(kind, x) # Error
  PROVE  Convert(x, kind) = Coerce(kind, x)
<1>1. x.kind \in {"bool", "num", "str", "list"} /\ x = [kind |-> x.kind, text |-> x.text]
  BY DEF JsonValue
<1>2. CASE kind = "string"
  BY <1>1, <1>2 DEF Convert, Coerce
<1>3. CASE kind = "bool" /\ x.kind = "bool"
  BY <1>1, <1>3 DEF Convert, Coerce, Value
<1>4. CASE kind = "float64" /\ x.kind = "num"
  BY <1>1, <1>4 DEF Convert, Coerce, Value
<1> QED BY <1>2, <1>3, <1>4 DEF Coerce

\* What the row of a discovered topic's message holds: each field's value in the
\* message, in the type the event was declared with.
RowsRead ==
  \A e \in DOMAIN rows : e \notin Declared =>
     /\ message.payload \in Payloads
     /\ \A n \in DOMAIN rows[e] :
          /\ n \in DOMAIN FieldsOf(message.payload)
          /\ rows[e][n] = Coerce(discovered[e].fields[n].kind, FieldsOf(message.payload)[n].value)
          /\ rows[e][n] # Error

LEMMA DiscoveryReads ==
  ASSUME DiscoveredInv, NEW t \in Topics, NEW p \in Payloads, LogDiscovered(t, p)
  PROVE  RowsRead'
<1> DEFINE e      == EventName[t]
           fields == FieldsOf(p)
           known  == IF e \in DOMAIN discovered THEN discovered[e]
                     ELSE [topic |-> t, fields |-> Layout(fields), extra |-> Nothing]
           new    == DOMAIN fields \ DOMAIN known.fields
           read   == [n \in DOMAIN fields \ new |-> Coerce(known.fields[n].kind, fields[n].value)]
           bad    == {n \in DOMAIN read : read[n] = Error}
           values == Without(read, bad)
           extra  == Extra(known, Without(fields, DOMAIN fields \ new))
           record == [known EXCEPT !.extra = extra]
           entry  == [x \in {e} |-> record]
<1>1. /\ message' = [topic |-> t, payload |-> p]
      /\ discovered' = Update(discovered, entry)
      /\ rows' = IF DOMAIN values = {} THEN Nothing ELSE [x \in {e} |-> values]
  BY DEF LogDiscovered, Received
<1>2. known = [topic |-> known.topic, fields |-> known.fields, extra |-> known.extra]
  <2>1. CASE e \in DOMAIN discovered
    <3>1. known = discovered[e]
      BY <2>1
    <3> HIDE DEF known
    <3> QED BY <2>1, <3>1 DEF DiscoveredInv
  <2>2. CASE e \notin DOMAIN discovered
    <3>1. known = [topic |-> t, fields |-> Layout(fields), extra |-> Nothing]
      BY <2>2
    <3> HIDE DEF known, fields
    <3> QED BY <3>1
  <2> QED BY <2>1, <2>2
<1>3. record.fields = known.fields
  <2>1. record = [topic |-> known.topic, fields |-> known.fields, extra |-> extra]
    <3> HIDE DEF known, extra
    <3> QED BY <1>2, SetExtra
  <2> HIDE DEF record, known, extra
  <2> QED BY <2>1
<1>4. \A n \in DOMAIN values : /\ n \in DOMAIN fields
                              /\ values[n] = Coerce(known.fields[n].kind, fields[n].value)
                              /\ values[n] # Error
  <2>1. DOMAIN read = DOMAIN fields \ new
    OBVIOUS
  <2>2. DOMAIN values = DOMAIN read \ bad /\ \A n \in DOMAIN values : values[n] = read[n]
    <3> HIDE DEF read, bad
    <3> QED BY DEF Without
  <2>3. \A n \in DOMAIN read : read[n] = Coerce(known.fields[n].kind, fields[n].value)
    OBVIOUS
  <2>4. \A n \in DOMAIN read \ bad : read[n] # Error
    OBVIOUS
  <2> HIDE DEF values, read, bad, fields, new, known
  <2> QED BY <2>1, <2>2, <2>3, <2>4
<1>5. DOMAIN entry = {e} /\ entry[e] = record
  <2> HIDE DEF record, e
  <2> QED OBVIOUS
<1> HIDE DEF e, fields, known, new, read, bad, values, extra, record, entry
<1>6. discovered'[e].fields = known.fields
  BY <1>1, <1>3, <1>5, UpdateNew
<1>7. message'.payload = p
  BY <1>1
<1>8. \A f \in DOMAIN rows' : f = e /\ rows'[f] = values
  BY <1>1, NothingEmpty
<1> QED BY <1>4, <1>6, <1>7, <1>8 DEF RowsRead, fields

LEMMA ReadInvariance == Spec => []RowsRead
<1>1. Init => RowsRead
  BY NothingEmpty DEF Init, RowsRead
<1>2. IInv /\ RowsRead /\ [Next]_vars => RowsRead'
  <2> SUFFICES ASSUME IInv, RowsRead, [Next]_vars PROVE RowsRead'
    OBVIOUS
  <2>1. CASE UNCHANGED vars
    BY <2>1 DEF vars, RowsRead
  <2>2. ASSUME NEW t \in Topics, NEW p \in Payloads, NotText(t, p) \/ NotDiscovered(t, p)
        PROVE  RowsRead'
    BY <2>2, NothingEmpty DEF NotText, NotDiscovered, RowsRead
  <2>3. ASSUME NEW t \in Topics, NEW p \in Payloads, LogMapped(t, p) PROVE RowsRead'
    <3>1. \A e \in DOMAIN rows' : e \in Declared
      BY <2>3, MappedSets, TracingAssumption DEF Declared, Topics
    <3> QED BY <3>1 DEF RowsRead
  <2> QED BY <2>1, <2>2, <2>3, DiscoveryReads DEF Next, IInv
<1> QED BY <1>1, <1>2, Invariance, PTL DEF Spec

\* "a device map that reads the same fields from the same payload": for any topics and
\* payloads, the saved map's node reads from the message just traced the value it was
\* traced with, but for the two exceptions that RoundTrip names.
THEOREM SavedMapReadsBack == Spec => []RoundTrip
<1>1. ASSUME IInv, RowsRead PROVE RoundTrip
  <2> DEFINE p == message.payload
  <2> SUFFICES ASSUME NEW e \in DOMAIN rows \cap SavedEvents, p.brace => p.json,
                      NEW n \in DOMAIN rows[e],
                      FieldsOf(p)[n].path = discovered[e].fields[n].path
               PROVE  NodeValue(p, SavedNode(e, n)) = rows[e][n]
    BY DEF RoundTrip
  <2> DEFINE field == discovered[e].fields[n]
             node  == SavedNode(e, n)
  <2>1. e \in DOMAIN discovered /\ e \notin Declared
    BY DEF SavedEvents, Declared
  <2>2. /\ n \in DOMAIN discovered[e].fields /\ n \notin DOMAIN discovered[e].extra
        /\ p \in Payloads /\ n \in DOMAIN FieldsOf(p)
        /\ rows[e][n] = Coerce(field.kind, FieldsOf(p)[n].value) /\ rows[e][n] # Error
    BY <1>1, <2>1 DEF IInv, RowsInv, DiscoveredInv, RowsRead
  <2>3. /\ node.datatype = field.kind
        /\ field.path = <<>> => node.payload = "auto"
        /\ field.path # <<>> => node.payload = "json" /\ node.path = field.path
    <3>1. Update(discovered[e].fields, discovered[e].extra)[n] = field
      BY <2>2, UpdateOld
    <3> QED BY <3>1 DEF SavedNode
  <2> HIDE DEF p, field, node
  <2>4. PICK i \in DOMAIN p.leaves :
             /\ FieldsOf(p)[n] = p.leaves[i]
             /\ p.leaves[i] \in Leaf /\ p.leaves[i].value.kind # "null"
             /\ \A j \in DOMAIN p.leaves : p.leaves[j].path = p.leaves[i].path => j = i
    BY <2>2, FieldLeaf
  <2> DEFINE x == p.leaves[i].value
  <2>5. p.leaves[i].path = field.path
    BY <2>4 DEF p, field
  <2>6. NodeValue(p, node) = Convert(x, field.kind)
    <3>1. CASE field.path = <<>>
      <4>1. ~p.brace /\ x = p.leaves[1].value
        BY <2>2, <2>4, <2>5, <3>1, PayloadAssumption DEF p
      <4> HIDE DEF x
      <4> QED BY <2>3, <3>1, <4>1 DEF NodeValue, Root
    <3>2. CASE field.path # <<>>
      <4>1. p.json /\ p.brace
        BY <2>2, <2>4, <2>5, <3>2, PayloadAssumption
      <4>2. Lookup(p, node.path) = x
        <5>1. {j \in DOMAIN p.leaves : p.leaves[j].path = node.path} = {i}
          BY <2>3, <2>4, <2>5, <3>2
        <5>2. Min({i}) = i
          <6>1. i \in Nat
            <7>1. p.leaves \in Seq(Leaf)
              BY <2>2, PayloadAssumption
            <7> QED BY <7>1
          <6>2. Min({i}) \in {i}
            BY <6>1, LeastIndex
          <6> QED BY <6>2
        <5> QED BY <5>1, <5>2 DEF Lookup
      <4> HIDE DEF x
      <4> QED BY <2>3, <3>2, <4>1, <4>2 DEF NodeValue
    <3> QED BY <3>1, <3>2
  <2>7. x \in JsonValue
    BY <2>4 DEF Leaf
  <2>8. Coerce(field.kind, x) # Error /\ rows[e][n] = Coerce(field.kind, x)
    BY <2>2, <2>4
  <2> HIDE DEF x
  <2>9. x.kind # "null"
    BY <2>4 DEF x
  <2>10. NodeValue(p, node) = rows[e][n]
    BY <2>6, <2>7, <2>8, <2>9, ConvertCoerces
  <2> QED BY <2>10 DEF node
<1> QED BY <1>1, Invariance, ReadInvariance, PTL
=============================================================================
