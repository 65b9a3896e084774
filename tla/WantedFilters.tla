--------------------------- MODULE WantedFilters ---------------------------
(***************************************************************************)
(* What the subscribe actions of one client promise together: each takes   *)
(* effect at once, at most one time, on the filters the others left, and   *)
(* one that fails has done all of it or nothing.  BrokerSession implements *)
(* it through the lock, the SUBACK and the UNSUBACK.                       *)
(***************************************************************************)
EXTENDS TopicFilters

CONSTANTS Configured, Calls, Requests

VARIABLES filters,   \* the wanted filters -> QoS
          request,   \* what each call asks for
          status     \* how far each call is

wantedVars == <<filters, request, status>>

NoRequest == [topic |-> <<>>, qos |-> 0]

Init == /\ filters = Configured
        /\ request = [c \in Calls |-> NoRequest]
        /\ status = [c \in Calls |-> "idle"]

Ask(c) == /\ status[c] = "idle"
          /\ \E r \in Requests : request' = [request EXCEPT ![c] = [topic |-> r.topic, qos |-> r.qos]]
          /\ status' = [status EXCEPT ![c] = "asked"]
          /\ UNCHANGED filters

\* The effect; the answer comes with it or later.
Add(c) == /\ status[c] = "asked"
          /\ filters' = WithFilter(filters, request[c].topic, request[c].qos)
          /\ ~Overlapping(DOMAIN filters')
          /\ \E next \in {"added", "answered"} : status' = [status EXCEPT ![c] = next]
          /\ UNCHANGED request

Answer(c) == /\ status[c] = "added"
             /\ status' = [status EXCEPT ![c] = "answered"]
             /\ UNCHANGED <<filters, request>>

Fail(c) == /\ status[c] \in {"asked", "added"}
           /\ status' = [status EXCEPT ![c] = "failed"]
           /\ UNCHANGED <<filters, request>>

Next == \E c \in Calls : Ask(c) \/ Add(c) \/ Answer(c) \/ Fail(c)

Spec == Init /\ [][Next]_wantedVars
=============================================================================
