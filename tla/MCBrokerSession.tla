-------------------------- MODULE MCBrokerSession --------------------------
(***************************************************************************)
(* Instances of BrokerSession for TLC.  A client configured with a/# and   *)
(* one topic beside it; callers ask for a filter that covers both, a topic *)
(* the filters already receive (at a higher QoS) and a filter that         *)
(* overlaps a/# without containment.                                       *)
(***************************************************************************)
EXTENDS BrokerSession

MCLevel == {"a", "b", "x"}

MCDollar == {}

All  == <<"#">>
AHash == <<"a", "#">>
AB   == <<"a", "b">>
X    == <<"x">>
PlusB == <<"+", "b">>

MCConfigured == [f \in {AHash} |-> 0]

MCConfiguredX == [f \in {X} |-> 0]

MCRequests == {[topic |-> All, qos |-> 0], [topic |-> AB, qos |-> 1],
               [topic |-> PlusB, qos |-> 0]}

MCRequestsX == {[topic |-> X, qos |-> 0]}

MCNoneDenied == {}

MCDeniedX == {X}

MCDeniedAll == {All}
=============================================================================
