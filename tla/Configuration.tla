---------------------------- MODULE Configuration ----------------------------
(***************************************************************************)
(* The pure part of the configuration: broker_settings and resolve_brokers *)
(* (which entries are accepted, and under which names), trace_layout, the  *)
(* lookup of an action's broker, and the entries Auto-configure proposes.  *)
(*                                                                         *)
(* A name or host is a text without blanks around it.  What the SDK's      *)
(* sanitizer makes of it is a parameter, and so is "<name>_<number>".      *)
(***************************************************************************)
EXTENDS Integers, FiniteSetsExt, SequencesExt

CONSTANTS Text,              \* the texts a form can hold, but the empty one
          Sanitize(_),       \* zelos_sdk.sanitize_name(.., kind="source")
          Suffixed(_, _),    \* f"{name}_{number}"
          Number,            \* the numbers a name is given: ports, and probe's k
          LogName, LogSourceName   \* RESERVED_NAMES

ASSUME NamesAssumption ==
  /\ "" \notin Text
  /\ \A t \in Text : Sanitize(Sanitize(t)) = Sanitize(t) /\ Sanitize(t) # ""
  /\ LogName # "" /\ LogSourceName # ""

\* A number makes a legal name another one, which is legal too.
ASSUME NumberAssumption ==
  /\ Number \subseteq Nat
  /\ \A t \in Text, k \in Number :
       LET numbered == Suffixed(Sanitize(t), k)
       IN  /\ numbered # "" /\ Sanitize(numbered) = numbered
           /\ \A m \in Number \ {k} : Suffixed(Sanitize(t), m) # numbered

Reserved == {LogName, LogSourceName}

\* name_error: empty (left to default), or legal as it stands and not reserved.
NameOK(n, reserved) == n = "" \/ (n \notin reserved /\ Sanitize(n) = n)

\* broker_settings: the certificate and key come from the entry, if it has
\* either, else from Advanced, and go together.
PairOK(e, advanced) == LET from == IF e.cert \/ e.key THEN e ELSE advanced
                       IN  from.cert = from.key

\* broker_settings accepts the entry.
EntryOK(e, advanced) == /\ e.host # "" /\ NameOK(e.name, Reserved)
                        /\ e.topicsOK
                        /\ PairOK(e, advanced)

(***************************************************************************)
(* resolve_brokers                                                         *)
(***************************************************************************)
Default(es, i) == Sanitize(es[i].host)

\* The unnamed entries whose default another unnamed one has too.
Collides(es, i) == \E j \in DOMAIN es \ {i} : es[j].name = "" /\ Default(es, j) = Default(es, i)

NameOf(es, i) == IF es[i].name # "" THEN es[i].name
                 ELSE IF Collides(es, i) THEN Suffixed(Default(es, i), es[i].port)
                 ELSE Default(es, i)

Names(es) == [i \in DOMAIN es |-> NameOf(es, i)]

\* Mutant: only names typed in the form are looked at.
NamesOKTyped(es) ==
  \A i \in DOMAIN es : /\ NameOK(es[i].name, Reserved)
                       /\ \A j \in DOMAIN es \ {i} : es[i].name = "" \/ es[i].name # es[j].name

\* The names in use, the defaults included, are legal and differ.
NamesOK(es) == \A i \in DOMAIN es : /\ NameOK(NameOf(es, i), Reserved)
                                    /\ \A j \in DOMAIN es \ {i} : NameOf(es, j) # NameOf(es, i)

\* resolve_brokers returns; else the process exits.
Resolves(es, advanced) == /\ es # <<>>
                          /\ \A i \in DOMAIN es : EntryOK(es[i], advanced)
                          /\ NamesOK(es)

(***************************************************************************)
(* trace_layout: the source and the first level under it of a broker's     *)
(* events, "" when they are at the top; and of the extension's own logs.   *)
(***************************************************************************)
Layout(prefix, name) == IF prefix = "" THEN [source |-> name, under |-> ""]
                        ELSE [source |-> prefix, under |-> name]

LogLayout(prefix) == IF prefix = "" THEN [source |-> LogSourceName, under |-> ""]
                     ELSE [source |-> prefix, under |-> LogName]

\* Mutant: the text is compared as it was typed.
LookupTyped(names, asked) ==
  IF asked = "" THEN {i \in DOMAIN names : Len(names) = 1}
  ELSE {i \in DOMAIN names : names[i] = asked}

\* _get_client: the broker an action's text names, by its sanitized form; the
\* only one for an empty text; none when the action is refused.
Lookup(names, asked) ==
  IF asked = "" THEN {i \in DOMAIN names : Len(names) = 1}
  ELSE {i \in DOMAIN names : names[i] = Sanitize(asked)}

(***************************************************************************)
(* probe: of the brokers that answered, in order, each host and port once, *)
(* under its sanitized label, numbered from 2 when that is taken.          *)
(***************************************************************************)
\* Mutant: the numbered name is not looked up again.
FreshOnce(base, taken) == IF base \in taken THEN Suffixed(base, 2) ELSE base

Fresh(base, taken) ==
  IF base \notin taken THEN base
  ELSE Suffixed(base, Min({k \in 2..(Cardinality(taken) + 2) : Suffixed(base, k) \notin taken}))

Proposed(bs, a) ==
  [name |-> Fresh(Sanitize(a.label), {bs[i].name : i \in DOMAIN bs}),
   host |-> a.host, port |-> a.port,
   topicsOK |-> TRUE, cert |-> FALSE, key |-> FALSE, loads |-> TRUE]

Added(bs, a) ==
  IF \E i \in DOMAIN bs : bs[i].host = a.host /\ bs[i].port = a.port THEN bs
  ELSE Append(bs, Proposed(bs, a))

Probed(answers) == FoldLeft(Added, <<>>, answers)
=============================================================================
