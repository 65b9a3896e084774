----------------------------- MODULE Runner_proofs -----------------------------
(***************************************************************************)
(* For any number of brokers: what the gate of first contact and the exit  *)
(* status promise.  The invariant remembers, for each client, how it came  *)
(* to be contacted or to end, until the runner reads it.                   *)
(***************************************************************************)
EXTENDS Runner, TLAPS

\* One that was contacted and never up has failed, or has ended.
ContactInv == \A c \in Clients :
                 client[c].contacted /\ ~client[c].everConnected => c \in firstFailed \/ Ended(c)

\* Nobody is cancelled before the shutdown, so who has ended until then crashed.
CancelInv == main \in {"start", "contact", "running"} =>
                \A c \in Clients : client[c].life # "cancelled"

Cause == (\E c \in Clients : client[c].life = "crashed") \/ (~retry /\ firstFailed # {})

\* What the runner has recorded has its cause.
CauseInv == /\ crashed \/ failedAtStart # {} => Cause
            /\ exitStatus = 1 => Cause

\* A bug that struck while running is not forgotten on the way to the exit.
BugInv == \A c \in Clients :
             <<c, "running">> \in bugs => /\ Ended(c)
                                          /\ main \in {"running", "stopping", "exited"}
                                          /\ main = "stopping" => crashed
                                          /\ main = "exited" => exitStatus = 1

IInv == TypeOK /\ ContactRequired /\ ContactInv /\ CancelInv /\ CauseInv /\ BugInv

ClientRecord == [life : {"running", "cancelled", "crashed"},
                 connected : BOOLEAN, everConnected : BOOLEAN,
                 contacted : BOOLEAN, reconnects : 0..MaxReconnects]

LEMMA InitIInv == Init => IInv
<1> SUFFICES ASSUME Init PROVE IInv
  OBVIOUS
<1>1. client = [c \in Clients |-> NewClient] /\ main = "start"
  BY DEF Init
<1>2. NewClient \in ClientRecord
  <2>1. 0 \in 0..MaxReconnects
    BY RunnerAssumption
  <2> QED BY <2>1 DEF NewClient, ClientRecord
<1>3. \A c \in Clients : client[c] = NewClient
  BY <1>1
<1>4. TypeOK
  BY <1>1, <1>2, <1>3 DEF Init, TypeOK, Ended, NewClient, ClientRecord
<1>5. ContactRequired /\ ContactInv /\ CancelInv
  BY <1>1, <1>3 DEF ContactRequired, ContactInv, CancelInv, NewClient
<1>6. CauseInv /\ BugInv
  BY DEF Init, CauseInv, BugInv
<1> QED BY <1>4, <1>5, <1>6 DEF IInv

\* What a step does to the clients: one changes, or the runner ends them all.
LEMMA ClientMoves ==
  ASSUME TypeOK, NEW c \in Clients, ~Ended(c), NEW r \in ClientRecord,
         client' = [client EXCEPT ![c] = r],
         client[c].everConnected => r.everConnected,
         client[c].contacted => r.contacted,
         r.life # "running" => ~r.connected
  PROVE  /\ client' \in [Clients -> ClientRecord]
         /\ client'[c] = r /\ \A d \in Clients \ {c} : client'[d] = client[d]
         /\ \A d \in Clients : Ended(d) => client'[d] = client[d]
         /\ \A d \in Clients : Ended(d)' => ~client'[d].connected
BY DEF TypeOK, ClientRecord, Ended

LEMMA OneClientIInv ==
  ASSUME IInv, NEW c \in Clients, ~Ended(c), NEW r \in ClientRecord,
         client' = [client EXCEPT ![c] = r], UNCHANGED runnerVars,
         client[c].everConnected => r.everConnected,
         client[c].contacted => r.contacted,
         r.life # "running" => ~r.connected,
         r.life = "cancelled" => main = "stopping",
         firstFailed \subseteq firstFailed', firstFailed' \subseteq Clients,
         r.contacted /\ ~r.everConnected => c \in firstFailed' \/ r.life # "running",
         \/ UNCHANGED bugs
         \/ /\ bugs' = bugs \cup {<<c, main>>}
            /\ r.life # "running" /\ main \in {"contact", "running", "stopping"}
  PROVE  IInv'
<1>1. /\ TypeOK /\ ContactRequired /\ ContactInv /\ CancelInv /\ CauseInv /\ BugInv
      /\ UNCHANGED <<retry, main, stopEvent, failedAtStart, crashed, exitStatus>>
  BY DEF IInv, runnerVars
<1>2. /\ client' \in [Clients -> ClientRecord]
      /\ client'[c] = r /\ \A d \in Clients \ {c} : client'[d] = client[d]
      /\ \A d \in Clients : Ended(d) => client'[d] = client[d]
      /\ \A d \in Clients : Ended(d)' => ~client'[d].connected
  BY <1>1, ClientMoves
<1>3. TypeOK'
  <2>1. bugs' \subseteq Clients \X {"contact", "running", "stopping"}
    BY <1>1 DEF TypeOK
  <2> QED BY <1>1, <1>2, <2>1 DEF TypeOK, ClientRecord
<1>4. ContactRequired'
  BY <1>1, <1>2 DEF ContactRequired
<1>5. ContactInv'
  BY <1>1, <1>2 DEF ContactInv, Ended
<1>6. CancelInv'
  BY <1>1, <1>2 DEF CancelInv
<1>7. CauseInv'
  <2>1. Cause => Cause'
    BY <1>1, <1>2 DEF Cause, Ended, TypeOK
  <2> QED BY <1>1, <2>1 DEF CauseInv
<1>8. BugInv'
  <2> SUFFICES ASSUME NEW d \in Clients, <<d, "running">> \in bugs'
               PROVE  /\ Ended(d)'
                      /\ main' \in {"running", "stopping", "exited"}
                      /\ main' = "stopping" => crashed'
                      /\ main' = "exited" => exitStatus' = 1
    BY DEF BugInv
  <2>1. CASE <<d, "running">> \in bugs
    BY <1>1, <1>2, <2>1 DEF BugInv, Ended
  <2>2. CASE <<d, "running">> \notin bugs
    <3>1. d = c /\ main = "running" /\ r.life # "running"
      BY <2>2
    <3> QED BY <1>1, <1>2, <3>1 DEF Ended
  <2> QED BY <2>1, <2>2
<1> QED BY <1>3, <1>4, <1>5, <1>6, <1>7, <1>8 DEF IInv

\* The steps of one client.
LEMMA ClientStepIInv ==
  ASSUME IInv, NEW c \in Clients, ClientStep(c)
  PROVE  IInv'
<1> DEFINE r == client[c]
<1>1. /\ r \in ClientRecord /\ client \in [Clients -> ClientRecord]
      /\ firstFailed \subseteq Clients /\ MaxReconnects \in Nat
      /\ main \in {"start", "contact", "running", "stopping", "exited"}
  BY RunnerAssumption DEF IInv, TypeOK, ClientRecord
<1>2. r.contacted /\ ~r.everConnected /\ ~Ended(c) => c \in firstFailed
  BY DEF IInv, ContactInv
<1>3. CASE ClientUp(c)
  <2> DEFINE s == [client[c] EXCEPT !.connected = TRUE, !.everConnected = TRUE, !.contacted = TRUE,
                         !.reconnects = client[c].reconnects + IF client[c].everConnected THEN 1 ELSE 0]
  <2>1. client' = [client EXCEPT ![c] = s] /\ ~Ended(c) /\ r.life = "running"
    BY <1>3 DEF ClientUp, Alive, Ended
  <2>2. r.reconnects \in 0..MaxReconnects /\ r.reconnects < MaxReconnects
    BY <1>1, <1>3 DEF ClientUp, ClientRecord
  <2>3. r.reconnects + (IF r.everConnected THEN 1 ELSE 0) \in 0..MaxReconnects
    BY <1>1, <2>2
  <2>4. s \in ClientRecord /\ s.everConnected /\ s.contacted /\ s.life = "running"
    <3> DEFINE n == client[c].reconnects + IF client[c].everConnected THEN 1 ELSE 0
    <3>1. s = [client[c] EXCEPT !.connected = TRUE, !.everConnected = TRUE,
                                !.contacted = TRUE, !.reconnects = n]
      OBVIOUS
    <3>2. n \in 0..MaxReconnects
      BY <2>3
    <3> HIDE DEF n, s
    <3> QED BY <1>1, <2>1, <3>1, <3>2 DEF ClientRecord
  <2>5. UNCHANGED <<runnerVars, firstFailed, bugs>>
    BY <1>3 DEF ClientUp
  <2> HIDE DEF r, s
  <2> QED BY <1>1, <2>1, <2>4, <2>5, OneClientIInv
<1>4. CASE ClientAttemptFails(c)
  <2> DEFINE s == [client[c] EXCEPT !.contacted = TRUE]
  <2>1. client' = [client EXCEPT ![c] = s] /\ ~Ended(c) /\ r.life = "running"
    BY <1>4 DEF ClientAttemptFails, Alive, Ended
  <2>2. s \in ClientRecord /\ s.everConnected = r.everConnected /\ s.contacted /\ s.life = "running"
    BY <1>1, <2>1 DEF ClientRecord
  <2>3. UNCHANGED <<runnerVars, bugs>>
    BY <1>4 DEF ClientAttemptFails
  <2>4. /\ firstFailed \subseteq firstFailed' /\ firstFailed' \subseteq Clients
        /\ r.contacted \/ c \in firstFailed'
    BY <1>1, <1>4 DEF ClientAttemptFails
  <2> HIDE DEF s
  <2> QED BY <1>1, <1>2, <2>1, <2>2, <2>3, <2>4, OneClientIInv
<1>5. CASE ClientDown(c)
  <2> DEFINE s == [client[c] EXCEPT !.connected = FALSE]
  <2>1. client' = [client EXCEPT ![c] = s] /\ ~Ended(c) /\ r.life = "running"
    BY <1>5 DEF ClientDown, Alive, Ended
  <2>2. /\ s \in ClientRecord /\ s.everConnected = r.everConnected
        /\ s.contacted = r.contacted /\ s.life = "running"
    BY <1>1, <2>1 DEF ClientRecord
  <2>3. UNCHANGED <<runnerVars, firstFailed, bugs>>
    BY <1>5 DEF ClientDown
  <2> HIDE DEF s
  <2> QED BY <1>1, <1>2, <2>1, <2>2, <2>3, OneClientIInv
<1>6. ASSUME NEW how \in {"crashed", "cancelled"}, ClientEnds(c, how),
             how = "cancelled" => main = "stopping",
             UNCHANGED bugs \/ bugs' = bugs \cup {<<c, main>>}
      PROVE  IInv'
  <2> DEFINE s == [client[c] EXCEPT !.life = how, !.connected = FALSE, !.contacted = TRUE]
  <2>1. /\ client' = [client EXCEPT ![c] = s] /\ ~Ended(c)
        /\ main \in {"contact", "running", "stopping"}
    BY <1>6 DEF ClientEnds, Alive
  <2>2. /\ s \in ClientRecord /\ s.everConnected = r.everConnected
        /\ s.contacted /\ s.life = how /\ ~s.connected
    BY <1>1 DEF ClientRecord
  <2>3. UNCHANGED <<runnerVars, firstFailed>>
    BY <1>6 DEF ClientEnds
  <2> HIDE DEF s
  <2> QED BY <1>1, <1>6, <2>1, <2>2, <2>3, OneClientIInv
<1>7. CASE ClientCrashes(c)
  BY <1>6, <1>7 DEF ClientCrashes
<1>8. CASE ClientCancelled(c)
  BY <1>6, <1>8 DEF ClientCancelled
<1> QED BY <1>3, <1>4, <1>5, <1>7, <1>8 DEF ClientStep

\* The steps of the runner: the clients are read, and at the exit cancelled.
LEMMA RunnerStepIInv ==
  ASSUME IInv, Start \/ Stop \/ FirstContact \/ WaitReturns \/ Exit
  PROVE  IInv'
<1>1. TypeOK /\ ContactRequired /\ ContactInv /\ CancelInv /\ CauseInv /\ BugInv
  BY DEF IInv
<1>2. CASE Start \/ Stop
  <2>1. /\ UNCHANGED <<retry, failedAtStart, crashed, exitStatus, client, firstFailed, bugs>>
        /\ stopEvent' \in BOOLEAN
        /\ main' = main \/ (main = "start" /\ main' = "contact")
    BY <1>1, <1>2 DEF Start, Stop, TypeOK
  <2>2. TypeOK'
    BY <1>1, <2>1 DEF TypeOK, Ended
  <2>3. ContactRequired' /\ ContactInv' /\ CancelInv' /\ CauseInv'
    BY <1>1, <2>1 DEF ContactRequired, ContactInv, CancelInv, CauseInv, Cause, Ended
  <2>4. BugInv'
    BY <1>1, <2>1 DEF BugInv, Ended
  <2> QED BY <2>2, <2>3, <2>4 DEF IInv
<1>3. CASE FirstContact
  <2>1. /\ UNCHANGED <<retry, stopEvent, crashed, exitStatus, client, firstFailed, bugs>>
        /\ main = "contact" /\ main' \in {"stopping", "running"}
        /\ failedAtStart' \subseteq Clients
    BY <1>1, <1>3 DEF FirstContact, Unreached, TypeOK
  <2>2. TypeOK'
    BY <1>1, <2>1 DEF TypeOK, Ended
  <2>3. ContactRequired'
    BY <1>1, <1>3, <2>1 DEF FirstContact, FailsStart, Unreached, ContactRequired
  <2>4. ContactInv' /\ CancelInv'
    BY <1>1, <2>1 DEF ContactInv, CancelInv, Ended
  <2>5. CauseInv'
    <3>1. CASE UNCHANGED failedAtStart
      BY <1>1, <2>1, <3>1 DEF CauseInv, Cause
    <3>2. CASE ~stopEvent /\ FailsStart(Unreached)
      <4>1. PICK c \in Unreached : client[c].contacted /\ ~client[c].everConnected
        BY <1>3, <3>2 DEF FirstContact, FailsStart, Unreached
      <4>2. c \in Clients /\ (c \in firstFailed \/ client[c].life = "crashed")
        BY <1>1, <2>1, <4>1 DEF Unreached, ContactInv, CancelInv, Ended, TypeOK
      <4>3. Cause
        BY <3>2, <4>2 DEF Cause, FailsStart
      <4> QED BY <2>1, <4>3 DEF CauseInv, Cause
    <3> QED BY <1>3, <3>1, <3>2 DEF FirstContact
  <2>6. BugInv'
    BY <1>1, <2>1 DEF BugInv
  <2> QED BY <2>2, <2>3, <2>4, <2>5, <2>6 DEF IInv
<1>4. CASE WaitReturns
  <2>1. /\ UNCHANGED <<retry, stopEvent, failedAtStart, exitStatus, client, firstFailed, bugs>>
        /\ main = "running" /\ main' = "stopping" /\ crashed' = AnyEnded
    BY <1>4 DEF WaitReturns
  <2>2. TypeOK'
    BY <1>1, <2>1 DEF TypeOK, Ended, AnyEnded
  <2>3. ContactRequired' /\ ContactInv' /\ CancelInv'
    BY <1>1, <2>1 DEF ContactRequired, ContactInv, CancelInv, Ended
  <2>4. AnyEnded => Cause
    BY <1>1, <2>1 DEF AnyEnded, Ended, Cause, CancelInv, TypeOK
  <2>5. CauseInv'
    BY <1>1, <2>1, <2>4 DEF CauseInv, Cause
  <2>6. BugInv'
    BY <1>1, <2>1 DEF BugInv, AnyEnded, Ended
  <2> QED BY <2>2, <2>3, <2>5, <2>6 DEF IInv
<1>5. CASE Exit
  <2>1. /\ UNCHANGED <<retry, stopEvent, failedAtStart, crashed, firstFailed, bugs>>
        /\ main = "stopping" /\ main' = "exited"
        /\ exitStatus' = IF failedAtStart # {} \/ crashed THEN 1 ELSE 0
    BY <1>5 DEF Exit, ExitStatus
  <2>2. ASSUME NEW c \in Clients
        PROVE  /\ client'[c] \in ClientRecord
               /\ ~client'[c].connected /\ client'[c].life # "running"
               /\ client[c].life = "crashed" => client'[c].life = "crashed"
               /\ client'[c].everConnected = client[c].everConnected
    <3>1. client'[c] = IF Ended(c) THEN client[c]
                      ELSE [client[c] EXCEPT !.life = "cancelled", !.connected = FALSE,
                                             !.contacted = TRUE]
      BY <1>5 DEF Exit
    <3>2. client[c] \in ClientRecord /\ (Ended(c) => ~client[c].connected)
      BY <1>1 DEF TypeOK, ClientRecord
    <3>3. CASE Ended(c)
      BY <3>1, <3>2, <3>3 DEF Ended
    <3>4. CASE ~Ended(c)
      BY <3>1, <3>2, <3>4 DEF Ended, ClientRecord
    <3> QED BY <3>3, <3>4
  <2>3. client' \in [Clients -> ClientRecord]
    <3>1. client' = [c \in Clients |-> client'[c]]
      BY <1>5 DEF Exit
    <3> QED BY <2>2, <3>1
  <2>4. TypeOK'
    BY <1>1, <2>1, <2>2, <2>3 DEF TypeOK, ClientRecord, Ended
  <2>5. ContactRequired' /\ ContactInv' /\ CancelInv'
    BY <1>1, <2>1, <2>2 DEF ContactRequired, ContactInv, CancelInv, Ended
  <2>6. CauseInv'
    <3>1. Cause => Cause'
      BY <2>1, <2>2 DEF Cause
    <3> QED BY <1>1, <2>1, <3>1 DEF CauseInv
  <2>7. BugInv'
    BY <1>1, <2>1, <2>2 DEF BugInv, Ended
  <2> QED BY <2>4, <2>5, <2>6, <2>7 DEF IInv
<1> QED BY <1>2, <1>3, <1>4, <1>5

LEMMA Invariance == Spec => []IInv
<1>1. IInv /\ [Next]_vars => IInv'
  <2> SUFFICES ASSUME IInv, [Next]_vars PROVE IInv'
    OBVIOUS
  <2>1. CASE UNCHANGED vars
    BY <2>1 DEF vars, runnerVars, IInv, TypeOK, Ended, ContactRequired, ContactInv, CancelInv,
                CauseInv, Cause, BugInv
  <2> QED BY <2>1, RunnerStepIInv, ClientStepIInv DEF Next
<1> QED BY <1>1, InitIInv, PTL DEF Spec

\* Type correctness; a client whose task has ended is not connected.
THEOREM TypeCorrect == Spec => []TypeOK
<1>1. IInv => TypeOK
  BY DEF IInv
<1> QED BY <1>1, Invariance, PTL

\* "First contact is required unless retry_unreachable": for any number of
\* brokers, none is missing once the runner is past the gate.
THEOREM GateHolds == Spec => []ContactRequired
<1>1. IInv => ContactRequired
  BY DEF IInv
<1> QED BY <1>1, Invariance, PTL

\* An exit status of 1 has a cause: a crash, or a broker whose first connect failed.
THEOREM FailuresHaveCause == Spec => []FailureHasCause
<1>1. IInv => FailureHasCause
  BY DEF IInv, CauseInv, Cause, FailureHasCause
<1> QED BY <1>1, Invariance, PTL

\* "A client task ended with an exception (a bug): the caller exits 1": a crash
\* while running reaches the exit status, also when a stop is requested before
\* the runner has seen it.
THEOREM CrashesReported == Spec => []RunningCrashExits1
<1>1. IInv => RunningCrashExits1
  BY DEF IInv, BugInv, RunningCrashExits1
<1> QED BY <1>1, Invariance, PTL

-----------------------------------------------------------------------------
(***************************************************************************)
(* The clients of the runner are those that BrokerSession implements       *)
(***************************************************************************)
LEMMA LifecycleStep ==
  ASSUME TypeOK, [Next]_vars, NEW c \in Clients
  PROVE  Life(c)!Next \/ UNCHANGED client[c]
<1> USE DEF Life!Next
<1>1. client[c] \in ClientRecord /\ client = [d \in Clients |-> client[d]]
  BY DEF TypeOK, ClientRecord
<1>2. ASSUME NEW d \in Clients, ClientStep(d)
      PROVE  Life(c)!Next \/ UNCHANGED client[c]
  <2>1. CASE d # c
    BY <1>1, <1>2, <2>1 DEF ClientStep, ClientUp, ClientAttemptFails, ClientDown,
                            ClientCrashes, ClientCancelled, ClientEnds
  <2>2. CASE ClientUp(c)
    <3>1. Life(c)!Up
      <4> DEFINE n == client[c].reconnects + IF client[c].everConnected THEN 1 ELSE 0
      <4>1. client'[c] = [client[c] EXCEPT !.connected = TRUE, !.everConnected = TRUE,
                                           !.contacted = TRUE, !.reconnects = n]
        BY <1>1, <2>2 DEF ClientUp
      <4>2. n = IF client[c].everConnected THEN client[c].reconnects + 1 ELSE client[c].reconnects
        BY <1>1, RunnerAssumption DEF ClientRecord
      <4>3. client[c].life = "running" /\ ~client[c].connected
        BY <2>2 DEF ClientUp, Alive, Ended
      <4> HIDE DEF n
      <4>4. /\ client'[c].connected = TRUE /\ client'[c].everConnected = TRUE
            /\ client'[c].contacted = TRUE /\ client'[c].reconnects = n
            /\ client'[c].life = client[c].life
        BY <1>1, <4>1 DEF ClientRecord
      <4> QED BY <4>2, <4>3, <4>4 DEF Life!Up
    <3> QED BY <3>1
  <2>3. CASE ClientAttemptFails(c)
    <3>1. Life(c)!AttemptFails
      BY <1>1, <2>3 DEF ClientAttemptFails, Alive, Ended, ClientRecord, Life!AttemptFails
    <3> QED BY <3>1
  <2>4. CASE ClientDown(c)
    <3>1. Life(c)!Down
      BY <1>1, <2>4 DEF ClientDown, Alive, Ended, ClientRecord, Life!Down
    <3> QED BY <3>1
  <2>5. CASE ClientCrashes(c) \/ ClientCancelled(c)
    <3>1. Life(c)!Ends
      <4>1. PICK how \in {"crashed", "cancelled"} : ClientEnds(c, how)
        BY <2>5 DEF ClientCrashes, ClientCancelled
      <4>2. client'[c] = [client[c] EXCEPT !.life = how, !.connected = FALSE, !.contacted = TRUE]
        BY <1>1, <4>1 DEF ClientEnds
      <4>3. client[c].life = "running"
        BY <4>1 DEF ClientEnds, Alive, Ended
      <4>4. /\ client'[c].life = how /\ client'[c].connected = FALSE
            /\ client'[c].contacted = TRUE
            /\ client'[c].everConnected = client[c].everConnected
            /\ client'[c].reconnects = client[c].reconnects
        BY <1>1, <4>2 DEF ClientRecord
      <4> QED BY <4>3, <4>4 DEF Life!Ends
    <3> QED BY <3>1
  <2> QED BY <1>2, <2>1, <2>2, <2>3, <2>4, <2>5 DEF ClientStep
<1>3. CASE Exit
  <2>1. CASE Ended(c)
    BY <1>3, <2>1 DEF Exit
  <2>2. CASE ~Ended(c)
    <3>1. Life(c)!Ends
      BY <1>1, <1>3, <2>2 DEF Exit, Ended, ClientRecord, Life!Ends
    <3> QED BY <3>1
  <2> QED BY <2>1, <2>2
<1>4. CASE Start \/ Stop \/ FirstContact \/ WaitReturns \/ UNCHANGED vars
  BY <1>4 DEF Start, Stop, FirstContact, WaitReturns, vars
<1> QED BY <1>2, <1>3, <1>4 DEF Next

\* To each client's flags there happens only what a ClientLifecycle does: the
\* runner is built on no more than BrokerSession is shown to keep.
THEOREM RunsLifecycles == Spec => ClientsAreLifecycles
<1>1. TypeOK /\ [Next]_vars =>
        [\A c \in Clients : Life(c)!Next \/ UNCHANGED client[c]]_client
  BY LifecycleStep
<1> QED BY <1>1, TypeCorrect, PTL DEF Spec, ClientsAreLifecycles
=============================================================================
