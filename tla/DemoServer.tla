----------------------------- MODULE DemoServer -----------------------------
(***************************************************************************)
(* The demo broker and simulator: start and stop on the thread that owns   *)
(* the server, _run on a thread of its own, and the loop, the events and   *)
(* the error the two share.  stop is called on a server that start()       *)
(* returned from, as all its callers do.                                   *)
(***************************************************************************)
EXTENDS Naturals

VARIABLES
  owner,       \* where the owner is in start or stop, or how they ended
  demo,        \* where the demo thread is, "none" before start
  loop,        \* _loop: "none", "open" (with _stop_event), "closed"
  stopSet,     \* _stop_event: "clear", "scheduled" on the loop, "set"
  ready,       \* _ready
  error,       \* _error: broker.start failed
  listening    \* the broker accepts connections

shared   == <<loop, stopSet, ready, error, listening>>
demoVars == <<owner, demo, shared>>

Stopped  == {"stopped", "left"}
Stopping == {"stopping", "joining"} \cup Stopped

DemoInit == /\ owner = "new" /\ demo = "none" /\ loop = "none" /\ stopSet = "clear"
            /\ ready = FALSE /\ error = FALSE /\ listening = FALSE

-----------------------------------------------------------------------------
(***************************************************************************)
(* The owner                                                               *)
(***************************************************************************)
StartThread == /\ owner = "new"
               /\ owner' = "waiting" /\ demo' = "begins"
               /\ UNCHANGED shared

\* Mutant: the wait has no limit.
ReadyWaitedOnly == /\ owner = "waiting"
                   /\ owner' = "woken" /\ ready
                   /\ UNCHANGED <<demo, shared>>

\* _ready.wait returns, or gives up after 10 s and start() raises RuntimeError.
ReadyWaited == /\ owner = "waiting"
               /\ (owner' = "woken" /\ ready) \/ owner' = "gave up"
               /\ UNCHANGED <<demo, shared>>

\* start() returns, or raises OSError.
ErrorRead == /\ owner = "woken"
             /\ owner' = IF error THEN "failed" ELSE "up"
             /\ UNCHANGED <<demo, shared>>

StopBegins == /\ owner = "up"
              /\ owner' = "stopping"
              /\ UNCHANGED <<demo, shared>>

\* Mutant: only the thread is waited for.
ScheduleNothing == owner = "stopping" /\ owner' = "joining" /\ UNCHANGED <<demo, shared>>

\* call_soon_threadsafe; the RuntimeError of a closed loop is suppressed.
Schedule == /\ owner = "stopping"
            /\ owner' = "joining"
            /\ stopSet' = IF loop = "open" THEN "scheduled" ELSE stopSet
            /\ UNCHANGED <<demo, loop, ready, error, listening>>

\* The thread has ended, or is left to end after 5 s: stop() returns.
Joined == /\ owner = "joining"
          /\ (owner' = "stopped" /\ demo = "ended") \/ owner' = "left"
          /\ UNCHANGED <<demo, shared>>

-----------------------------------------------------------------------------
(***************************************************************************)
(* The demo thread                                                         *)
(***************************************************************************)
\* Mutant: ready before the broker has started.
LoopMadeReady == /\ demo = "begins"
                 /\ demo' = "starting" /\ loop' = "open" /\ ready' = TRUE
                 /\ UNCHANGED <<owner, stopSet, error, listening>>

LoopMade == /\ demo = "begins"
            /\ demo' = "starting" /\ loop' = "open"
            /\ UNCHANGED <<owner, stopSet, ready, error, listening>>

\* broker.start returns or raises; the port may be taken.
BrokerStarts == /\ demo = "starting"
                /\ \/ demo' = "started" /\ listening' = TRUE /\ UNCHANGED error
                   \/ demo' = "unstarted" /\ error' = TRUE /\ UNCHANGED listening
                /\ UNCHANGED <<owner, loop, stopSet, ready>>

\* The finally of broker.start.
ReadySet == /\ demo \in {"started", "unstarted"}
            /\ ready' = TRUE
            /\ demo' = IF demo = "started" THEN "publishing" ELSE "closing"
            /\ UNCHANGED <<owner, loop, stopSet, error, listening>>

\* The loop, while it runs, sets the event.
StopRuns == /\ stopSet = "scheduled" /\ demo \in {"publishing", "shutdown"}
            /\ stopSet' = "set"
            /\ UNCHANGED <<owner, demo, loop, ready, error, listening>>

\* _publish_loop sees the event.
PublishEnds == /\ demo = "publishing" /\ stopSet = "set"
               /\ demo' = "shutdown"
               /\ UNCHANGED <<owner, shared>>

\* The publisher's connection fails: the exception ends the server, logged.
PublishFails == /\ demo = "publishing"
                /\ demo' = "shutdown"
                /\ UNCHANGED <<owner, shared>>

BrokerShutdown == /\ demo = "shutdown"
                  /\ demo' = "closing" /\ listening' = FALSE
                  /\ UNCHANGED <<owner, loop, stopSet, ready, error>>

LoopClosed == /\ demo = "closing"
              /\ demo' = "ended" /\ loop' = "closed"
              /\ UNCHANGED <<owner, stopSet, ready, error, listening>>

-----------------------------------------------------------------------------
OwnerStep  == ReadyWaited \/ ErrorRead \/ Schedule \/ Joined
ThreadStep == \/ LoopMade \/ BrokerStarts \/ ReadySet \/ StopRuns \/ PublishEnds
              \/ PublishFails \/ BrokerShutdown \/ LoopClosed

DemoTypeOK ==
  /\ owner \in {"new", "waiting", "woken", "up", "failed", "gave up"} \cup Stopping
  /\ demo \in {"none", "begins", "starting", "started", "unstarted", "publishing",
               "shutdown", "closing", "ended"}
  /\ loop \in {"none", "open", "closed"} /\ stopSet \in {"clear", "scheduled", "set"}
  /\ ready \in BOOLEAN /\ error \in BOOLEAN /\ listening \in BOOLEAN

\* A server that start() returned from listens until its thread is on the way
\* out: start() neither returns for a broker that failed, nor before it listens.
UpMeansListening ==
  owner \in {"up"} \cup Stopping => ~error /\ (listening \/ demo \in {"closing", "ended"})
=============================================================================
