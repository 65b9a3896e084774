----------------------------- MODULE MCAppMode -----------------------------
(***************************************************************************)
(* Instances of AppMode for TLC.  Two hosts with one default name, a name  *)
(* like that default with a port, a reserved name and one that is not      *)
(* legal; labels that meet each other and a numbered one.                  *)
(***************************************************************************)
EXTENDS AppMode

CONSTANT MaxBrokers

MCSanitize(t) == CASE t = "h.1" -> "h_1" [] t = "b/d" -> "b_d" [] OTHER -> t

MCSuffixed(n, k) == n \o "_" \o ToString(k)

MCText == {"h.1", "h_1", "h_1_7", "h_1_2", "b/d", "log", "mqtt_log", "MQTT", "localhost"}

MCNumber == 1..8

Entry(name, host, port) == [name |-> name, host |-> host, port |-> port, topicsOK |-> TRUE,
                            cert |-> FALSE, key |-> FALSE, loads |-> TRUE]

MCEntry == {Entry("", "h.1", 7), Entry("", "h_1", 7), Entry("", "h.1", 8),
            Entry("h_1", "h.1", 7), Entry("h_1_7", "h.1", 7), Entry("log", "h_1", 7),
            Entry("", "mqtt_log", 7), Entry("b/d", "h_1", 7), Entry("", "", 7),
            [Entry("", "h.1", 7) EXCEPT !.cert = TRUE, !.key = TRUE],
            [Entry("", "h.1", 7) EXCEPT !.cert = TRUE],
            [Entry("", "b/d", 7) EXCEPT !.topicsOK = FALSE],
            [Entry("", "b/d", 7) EXCEPT !.loads = FALSE]}

MCForms == UNION {[1..n -> MCEntry] : n \in 0..MaxBrokers}

MCAdvanced == [prefix : {"MQTT", "", "b/d"}, cert : {FALSE}, key : {FALSE}]
                \cup [prefix : {"MQTT"}, cert : {TRUE}, key : BOOLEAN]

Answer(label, host, port) == [label |-> label, host |-> host, port |-> port]

\* Localhost on both ports, then what mDNS announced; a broker may answer twice.
MCAnswers ==
  UNION {[1..n -> {Answer("localhost", "localhost", 1), Answer("localhost", "localhost", 8),
                   Answer("h.1", "h.1", 7), Answer("h_1", "h.1", 8), Answer("h_1_2", "b/d", 7),
                   Answer("log", "h_1", 7)}] : n \in 0..4}
=============================================================================
