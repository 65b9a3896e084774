----------------------------- MODULE MCTracing -----------------------------
(***************************************************************************)
(* Instances of Tracing for TLC: two topics that share a discovery event,  *)
(* one whose event is the map's, one whose event the map names without     *)
(* nodes, and two topics mapped into the same event, one of them into two. *)
(***************************************************************************)
EXTENDS Tracing

MCNode(name, datatype, path, payload) ==
  [name |-> name, datatype |-> datatype, path |-> path, payload |-> payload]

MCEventName == [t \in {"x.y", "x_y", "env", "empty", "m/1", "m/2"} |->
                  IF t \in {"x.y", "x_y"} THEN "x_y" ELSE t]

MCEntries ==
  [t \in DOMAIN MCEventName |->
     CASE t = "m/1" -> << [event |-> "env",  node |-> MCNode("level", "uint8", <<"value">>, "auto")],
                          [event |-> "tank", node |-> MCNode("a", "float64", <<"a">>, "json")] >>
       [] t = "m/2" -> << [event |-> "env",  node |-> MCNode("text", "string", <<"value">>, "raw")] >>
       [] OTHER -> <<>>]

MCMapEvents == {"env", "tank", "empty"}

MCFieldName ==
  [p \in {<<>>, <<"value">>, <<"a">>, <<"b", "c">>, <<"b_c">>, <<"b">>, <<"skipped">>} |->
     CASE p \in {<<>>, <<"value">>} -> "value"
       [] p \in {<<"b", "c">>, <<"b_c">>} -> "b_c"
       [] OTHER -> p[1]]

MCLeaf(path, kind, text) == [path |-> path, value |-> Value(kind, text)]

Scalar(kind, text, json) ==
  [utf8 |-> TRUE, brace |-> FALSE, json |-> json, leaves |-> <<MCLeaf(<<>>, kind, text)>>]

Object(leaves) == [utf8 |-> TRUE, brace |-> TRUE, json |-> TRUE, leaves |-> leaves]

Binary == [utf8 |-> FALSE, brace |-> FALSE, json |-> FALSE, leaves |-> <<MCLeaf(<<>>, "str", "")>>]

\* A text that starts like an object and is none.
BraceText == [utf8 |-> TRUE, brace |-> TRUE, json |-> FALSE,
              leaves |-> <<MCLeaf(<<>>, "str", "{ready}")>>]

InOrder == Object(<<MCLeaf(<<"b_c">>, "num", "1"), MCLeaf(<<"b", "c">>, "num", "2")>>)
Swapped == Object(<<MCLeaf(<<"b", "c">>, "num", "2"), MCLeaf(<<"b_c">>, "num", "1")>>)

MCPayloads ==
  { Binary,
    Scalar("num", "7", TRUE), Scalar("num", "300", TRUE),
    Scalar("str", "on", FALSE), Scalar("null", "null", TRUE), Scalar("list", "[1, 2]", TRUE),
    Object(<<MCLeaf(<<"a">>, "num", "1"), MCLeaf(<<"b", "c">>, "bool", "true")>>),
    Object(<<MCLeaf(<<"a">>, "str", "on"), MCLeaf(<<"value">>, "num", "7")>>),
    Object(<<MCLeaf(<<"skipped">>, "num", "1")>>),
    BraceText, InOrder, Swapped }

MCPayloadsFew == {Scalar("num", "7", TRUE), Object(<<MCLeaf(<<"a">>, "num", "1")>>)}
=============================================================================
