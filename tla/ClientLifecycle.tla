-------------------------- MODULE ClientLifecycle --------------------------
(***************************************************************************)
(* What one BrokerClient promises its runner and status(): the flags that  *)
(* first contact, the shutdown and the state property read, and no more.   *)
(* BrokerSession implements it; Runner is built on it.                     *)
(***************************************************************************)
EXTENDS Naturals

VARIABLES life,        \* "running", then "cancelled" or "crashed" (run() has returned)
          connected, everConnected, contacted, reconnects

lifeVars == <<life, connected, everConnected, contacted, reconnects>>

Init == /\ life = "running"
        /\ connected = FALSE /\ everConnected = FALSE /\ contacted = FALSE
        /\ reconnects = 0

\* A connection is up: the first is first contact, each other one a reconnect.
Up == /\ life = "running" /\ ~connected
      /\ connected' = TRUE /\ everConnected' = TRUE /\ contacted' = TRUE
      /\ reconnects' = IF everConnected THEN reconnects + 1 ELSE reconnects
      /\ UNCHANGED life

\* An attempt failed: first contact, if it was the first.
AttemptFails == /\ life = "running" /\ ~connected
                /\ contacted' = TRUE
                /\ UNCHANGED <<life, connected, everConnected, reconnects>>

Down == /\ life = "running" /\ connected
        /\ connected' = FALSE
        /\ UNCHANGED <<life, everConnected, contacted, reconnects>>

\* run() returns, connected or not; nobody waits for its first contact again.
Ends == /\ life = "running"
        /\ life' \in {"cancelled", "crashed"}
        /\ connected' = FALSE /\ contacted' = TRUE
        /\ UNCHANGED <<everConnected, reconnects>>

Next == Up \/ AttemptFails \/ Down \/ Ends

\* First contact is over some day, whatever its outcome.
Spec == Init /\ [][Next]_lifeVars /\ <>contacted
=============================================================================
