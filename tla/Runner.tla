------------------------------- MODULE Runner -------------------------------
(***************************************************************************)
(* MqttRunner and the process around it (cli/app.serve): first contact,    *)
(* the wait for a stop or a crash, the shutdown and the exit status, with  *)
(* one ClientLifecycle per broker.  The steps of the clients interleave    *)
(* with those of the runner's own coroutine.                               *)
(***************************************************************************)
EXTENDS Naturals, FiniteSets

CONSTANTS Clients,
          MaxReconnects    \* bound on the reconnects of a client

ASSUME RunnerAssumption == MaxReconnects \in Nat

VARIABLES retry,           \* retry_unreachable, as configured
          main,            \* where run() is: "start", "contact", "running", "stopping", "exited"
          stopEvent,       \* _stop_event is set
          failedAtStart,   \* failed_at_start
          crashed,         \* runner.crashed
          exitStatus,      \* of the process, 0 until it exits
          client,          \* the flags of each client
          \* history, read by properties only
          firstFailed,     \* the clients whose first connect failed
          bugs             \* <<client, main>> of each crash before a stop was requested

runnerVars == <<retry, main, stopEvent, failedAtStart, crashed, exitStatus>>
vars       == <<runnerVars, client, firstFailed, bugs>>

Life(c) == INSTANCE ClientLifecycle
             WITH life <- client[c].life, connected <- client[c].connected,
                  everConnected <- client[c].everConnected,
                  contacted <- client[c].contacted, reconnects <- client[c].reconnects

NewClient == [life |-> "running", connected |-> FALSE, everConnected |-> FALSE,
              contacted |-> FALSE, reconnects |-> 0]

Ended(c) == client[c].life # "running"
AnyEnded == \E c \in Clients : Ended(c)

Init == /\ retry \in BOOLEAN
        /\ main = "start" /\ stopEvent = FALSE
        /\ failedAtStart = {} /\ crashed = FALSE /\ exitStatus = 0
        /\ client = [c \in Clients |-> NewClient]
        /\ firstFailed = {} /\ bugs = {}

-----------------------------------------------------------------------------
(***************************************************************************)
(* The clients' tasks, from _run_async's create_task on                    *)
(***************************************************************************)
Alive(c) == main \in {"contact", "running", "stopping"} /\ ~Ended(c)

ClientUp(c) ==
  /\ Alive(c) /\ ~client[c].connected
  /\ client[c].reconnects < MaxReconnects
  /\ client' = [client EXCEPT
                  ![c] = [@ EXCEPT !.connected = TRUE, !.everConnected = TRUE,
                                   !.contacted = TRUE,
                                   !.reconnects = client[c].reconnects +
                                                    IF client[c].everConnected THEN 1 ELSE 0]]
  /\ UNCHANGED <<runnerVars, firstFailed, bugs>>

ClientAttemptFails(c) ==
  /\ Alive(c) /\ ~client[c].connected
  /\ client' = [client EXCEPT ![c].contacted = TRUE]
  /\ firstFailed' = IF client[c].contacted THEN firstFailed ELSE firstFailed \cup {c}
  /\ UNCHANGED <<runnerVars, bugs>>

ClientDown(c) ==
  /\ Alive(c) /\ client[c].connected
  /\ client' = [client EXCEPT ![c].connected = FALSE]
  /\ UNCHANGED <<runnerVars, firstFailed, bugs>>

\* Mutant: without run()'s finally.
ClientEndsSilently(c, how) ==
  /\ Alive(c)
  /\ client' = [client EXCEPT ![c] = [@ EXCEPT !.life = how, !.connected = FALSE]]
  /\ UNCHANGED <<runnerVars, firstFailed>>

ClientEnds(c, how) ==
  /\ Alive(c)
  /\ client' = [client EXCEPT ![c] = [@ EXCEPT !.life = how, !.connected = FALSE,
                                               !.contacted = TRUE]]
  /\ UNCHANGED <<runnerVars, firstFailed>>

\* A bug: an exception other than MqttError leaves run().
ClientCrashes(c) == /\ ClientEnds(c, "crashed")
                    /\ bugs' = IF stopEvent THEN bugs ELSE bugs \cup {<<c, main>>}

\* The cancellation of the shutdown takes effect.
ClientCancelled(c) == main = "stopping" /\ ClientEnds(c, "cancelled") /\ UNCHANGED bugs

-----------------------------------------------------------------------------
(***************************************************************************)
(* The runner                                                              *)
(***************************************************************************)

\* runner.run(): the tasks are created and the wait for first contact begins.
Start == /\ main = "start"
         /\ main' = "contact"
         /\ UNCHANGED <<retry, stopEvent, failedAtStart, crashed, exitStatus, client, firstFailed, bugs>>

\* stop() or a signal; before the loop runs stop() sets the event itself.
Stop == /\ main # "exited" /\ ~stopEvent
        /\ stopEvent' = TRUE
        /\ UNCHANGED <<retry, main, failedAtStart, crashed, exitStatus, client, firstFailed, bugs>>

\* Mutant: any outcome of the first contact will do.
UnreachedByAny == {c \in Clients : ~client[c].contacted}

Unreached == {c \in Clients : ~client[c].everConnected}

FailsStart(down) == down # {} /\ ~retry

\* _first_contact returns: stopped, or with no client left to wait for.
FirstContact ==
  /\ main = "contact"
  /\ stopEvent \/ \A c \in Clients : client[c].contacted
  /\ IF stopEvent
     THEN main' = "stopping" /\ UNCHANGED failedAtStart
     ELSE IF FailsStart(Unreached)
     THEN main' = "stopping" /\ failedAtStart' = Unreached
     ELSE main' = "running" /\ UNCHANGED failedAtStart
  /\ UNCHANGED <<retry, stopEvent, crashed, exitStatus, client, firstFailed, bugs>>

\* Mutants: a stop hides a crash; whatever is done is a crash.
WaitReturnsMutant(wakes, crash) ==
  /\ main = "running" /\ wakes
  /\ main' = "stopping" /\ crashed' = crash
  /\ UNCHANGED <<retry, stopEvent, failedAtStart, exitStatus, client, firstFailed, bugs>>
WaitStopFirst       == WaitReturnsMutant(stopEvent \/ AnyEnded, ~stopEvent)
WaitAnyDone         == WaitReturnsMutant(stopEvent \/ AnyEnded, TRUE)

\* asyncio.wait({stop, *tasks}) returns: every task that is done is a crash.
WaitReturns ==
  /\ main = "running"
  /\ stopEvent \/ AnyEnded
  /\ main' = "stopping"
  /\ crashed' = AnyEnded
  /\ UNCHANGED <<retry, stopEvent, failedAtStart, exitStatus, client, firstFailed, bugs>>

\* serve(), once runner.run() has returned.
ExitStatus == IF failedAtStart # {} \/ crashed THEN 1 ELSE 0

\* Mutant: the shutdown waits for the clients without a timeout.
ExitWaitsForAll ==
  /\ main = "stopping" /\ \A c \in Clients : Ended(c)
  /\ main' = "exited" /\ exitStatus' = ExitStatus
  /\ UNCHANGED <<retry, stopEvent, failedAtStart, crashed, client, firstFailed, bugs>>

\* Every task is done, or SHUTDOWN_TIMEOUT is over and the loop is torn down
\* under those that are not; serve() exits.
Exit ==
  /\ main = "stopping"
  /\ main' = "exited"
  /\ exitStatus' = ExitStatus
  /\ client' = [c \in Clients |->
                  IF Ended(c) THEN client[c]
                  ELSE [client[c] EXCEPT !.life = "cancelled", !.connected = FALSE,
                                         !.contacted = TRUE]]
  /\ UNCHANGED <<retry, stopEvent, failedAtStart, crashed, firstFailed, bugs>>

ClientStep(c) == \/ ClientUp(c) \/ ClientAttemptFails(c) \/ ClientDown(c)
                 \/ ClientCrashes(c) \/ ClientCancelled(c)

Next == Start \/ Stop \/ FirstContact \/ WaitReturns \/ Exit \/ \E c \in Clients : ClientStep(c)

Spec == Init /\ [][Next]_vars

\* The loop runs what is ready, a connect attempt ends (aiomqtt's timeouts) and
\* the shutdown is bounded by its timeout.  Nothing makes anyone request a stop.
Fairness == /\ WF_vars(Start) /\ WF_vars(FirstContact) /\ WF_vars(WaitReturns) /\ WF_vars(Exit)
            /\ \A c \in Clients :
                 WF_vars(~client[c].contacted /\ (ClientUp(c) \/ ClientAttemptFails(c)))

FairSpec == Spec /\ Fairness

-----------------------------------------------------------------------------
(***************************************************************************)
(* Properties                                                              *)
(***************************************************************************)

TypeOK ==
  /\ retry \in BOOLEAN
  /\ main \in {"start", "contact", "running", "stopping", "exited"}
  /\ stopEvent \in BOOLEAN /\ crashed \in BOOLEAN /\ exitStatus \in {0, 1}
  /\ failedAtStart \subseteq Clients /\ firstFailed \subseteq Clients /\ bugs \subseteq Clients \X {"contact", "running", "stopping"}
  /\ client \in [Clients -> [life : {"running", "cancelled", "crashed"},
                             connected : BOOLEAN, everConnected : BOOLEAN,
                             contacted : BOOLEAN, reconnects : 0..MaxReconnects]]
  /\ \A c \in Clients : Ended(c) => ~client[c].connected

\* "First contact is required unless retry_unreachable": past the gate every
\* broker has been connected, also one that crashed while others were awaited.
ContactRequired == main = "running" /\ ~retry => \A c \in Clients : client[c].everConnected

\* A stop never turns into a failure, and an exit status of 1 has a cause: a
\* client that crashed, or one that was down when first contact ended.
FailureHasCause ==
  exitStatus = 1 => \/ \E c \in Clients : client[c].life = "crashed"
                    \/ ~retry /\ firstFailed # {}

\* "A client task ended with an exception (a bug): the caller exits 1", for a
\* bug that strikes while the runner waits for a stop: a stop between the crash
\* and the runner's next step does not hide it.
RunningCrashExits1 ==
  main = "exited" /\ (\E c \in Clients : <<c, "running">> \in bugs) => exitStatus = 1

\* "must not hold the runner's first-contact wait": the wait ends, also for a
\* client whose task ends before its first contact.  And a stop, whenever it is
\* requested, and a crash while running end the process.
NeverStuck ==
  /\ main = "contact" ~> main # "contact"
  /\ stopEvent \/ (main = "running" /\ AnyEnded) ~> main = "exited"

\* Whatever the runner does, to each client's flags there happens only what a
\* ClientLifecycle, and so a BrokerSession, does.
ClientsAreLifecycles ==
  [][\A c \in Clients : Life(c)!Next \/ UNCHANGED client[c]]_client
=============================================================================
