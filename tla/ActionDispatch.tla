--------------------------- MODULE ActionDispatch ---------------------------
(***************************************************************************)
(* The actions' threads against the life of the event loop: run_coro and   *)
(* stop read MqttRunner._loop while the runner's thread sets it, clears it *)
(* and tears the loop down.  A thread can be preempted between any two     *)
(* reads, so each read of the attribute is a step of its own.  The action's *)
(* coroutine returns, raises an error of its own or is cancelled; `outcome` *)
(* is that of run_coro, and Reported what actions._run makes of it.        *)
(***************************************************************************)
EXTENDS Naturals, FiniteSets

CONSTANTS Threads,    \* the threads that run an action, one each
          Stoppers    \* the threads that call stop(), once each

ASSUME DispatchAssumption == Threads \cap Stoppers = {}

VARIABLES
  main,      \* the runner's thread: "before", "serving", "leaving" (finally has
             \* run), "swept" (asyncio.Runner has cancelled the tasks), "closed"
  loopRef,   \* self._loop is the loop, not None
  pc,        \* where each thread is
  outcome,   \* what run_coro or stop did for the thread, "" until then
  job,       \* the thread's coroutine on the loop
  cancelled, \* the threads whose future is cancelled
  stopEvent  \* _stop_event is set

vars == <<main, loopRef, pc, outcome, job, cancelled, stopEvent>>

\* What a coroutine itself raises: it finds no connection or its subscription is
\* refused, its filter meets another, or aiomqtt has an error.
Errors == {"RuntimeError", "ValueError", "MqttError"}

\* A coroutine that failed is in a state named for its error.
Finished == {"done", "cancelled"} \cup Errors

LoopOpen == main \in {"serving", "leaving", "swept"}

Everyone == Threads \cup Stoppers

Init == /\ main = "before" /\ loopRef = FALSE
        /\ pc = [t \in Everyone |-> "idle"]
        /\ outcome = [t \in Everyone |-> ""]
        /\ job = [t \in Threads |-> "none"]
        /\ cancelled = {}
        /\ stopEvent = FALSE

Goto(t, where) == pc' = [pc EXCEPT ![t] = where]

Returns(t, how) == Goto(t, "done") /\ outcome' = [outcome EXCEPT ![t] = how]

-----------------------------------------------------------------------------
(***************************************************************************)
(* The runner's thread                                                     *)
(***************************************************************************)
Serve == /\ main = "before"
         /\ main' = "serving" /\ loopRef' = TRUE
         /\ UNCHANGED <<pc, outcome, job, cancelled, stopEvent>>

\* _run_async's finally, its last statement: the loop runs on for its teardown.
Leave == /\ main = "serving" /\ stopEvent
         /\ main' = "leaving" /\ loopRef' = FALSE
         /\ UNCHANGED <<pc, outcome, job, cancelled, stopEvent>>

\* asyncio.Runner.close cancels the tasks there are, the actions' among them.
Sweep == /\ main = "leaving"
         /\ main' = "swept"
         /\ job' = [t \in Threads |-> IF job[t] = "running" THEN "cancelled" ELSE job[t]]
         /\ UNCHANGED <<loopRef, pc, outcome, cancelled, stopEvent>>

Close == /\ main = "swept"
         /\ main' = "closed"
         /\ UNCHANGED <<loopRef, pc, outcome, job, cancelled, stopEvent>>

-----------------------------------------------------------------------------
(***************************************************************************)
(* run_coro, on an action's thread                                         *)
(***************************************************************************)

\* `if self._loop is None`
ChecksNone(t) ==
  /\ pc[t] = "idle"
  /\ IF loopRef THEN Goto(t, "is_running") /\ UNCHANGED outcome
     ELSE Returns(t, "RuntimeError")
  /\ UNCHANGED <<main, loopRef, job, cancelled, stopEvent>>

\* `or not self._loop.is_running()`: the attribute is read again.
ChecksRunning(t) ==
  /\ pc[t] = "is_running"
  /\ IF loopRef THEN Goto(t, "submit") /\ UNCHANGED outcome
     ELSE Returns(t, "AttributeError")
  /\ UNCHANGED <<main, loopRef, job, cancelled, stopEvent>>

\* `run_coroutine_threadsafe(coro, self._loop)`: and again, as its argument.
ReadsLoop(t) ==
  /\ pc[t] = "submit"
  /\ IF loopRef THEN Goto(t, "call_soon") /\ UNCHANGED outcome
     ELSE Returns(t, "AttributeError")
  /\ UNCHANGED <<main, loopRef, job, cancelled, stopEvent>>

Submits(t) ==
  /\ pc[t] = "call_soon"
  /\ IF LoopOpen
     THEN Goto(t, "result") /\ job' = [job EXCEPT ![t] = "scheduled"] /\ UNCHANGED outcome
     ELSE Returns(t, "RuntimeError") /\ UNCHANGED job
  /\ UNCHANGED <<main, loopRef, cancelled, stopEvent>>

\* Mutant: a coroutine that failed or was cancelled counts as done.
GetsAnyResult(t) ==
  /\ pc[t] = "result" /\ job[t] \in Finished
  /\ Returns(t, "ok")
  /\ UNCHANGED <<main, loopRef, job, cancelled, stopEvent>>

\* future.result() returns, or raises what the coroutine raised, or that it was
\* cancelled.
GetsResult(t) ==
  /\ pc[t] = "result"
  /\ \/ job[t] = "done" /\ Returns(t, "ok")
     \/ job[t] \in Errors /\ Returns(t, job[t])
     \/ job[t] = "cancelled" /\ Returns(t, "CancelledError")
  /\ UNCHANGED <<main, loopRef, job, cancelled, stopEvent>>

\* Mutant: the wait is bounded by the loop, not by a timeout of its own.
TimesOutOnLoop(t) ==
  /\ pc[t] = "result" /\ job[t] \notin Finished /\ LoopOpen
  /\ Goto(t, "cancel")
  /\ UNCHANGED <<main, loopRef, outcome, job, cancelled, stopEvent>>

\* Mutant: cancel() first, and then the result of what it left.
TimesOutWaiting(t) ==
  /\ pc[t] = "result" /\ job[t] \notin Finished
  /\ cancelled' = cancelled \cup {t}
  /\ UNCHANGED <<main, loopRef, pc, outcome, job, stopEvent>>

\* `timeout` is over: TimeoutError, and the handler has yet to cancel.
TimesOut(t) ==
  /\ pc[t] = "result" /\ job[t] \notin Finished
  /\ Goto(t, "cancel")
  /\ UNCHANGED <<main, loopRef, outcome, job, cancelled, stopEvent>>

\* Mutant: the TimeoutError goes by without a cancel.
CancelsNothing(t) ==
  /\ pc[t] = "cancel"
  /\ Returns(t, "TimeoutError")
  /\ UNCHANGED <<main, loopRef, job, cancelled, stopEvent>>

\* future.cancel(): without effect on a coroutine that is done by now.
Cancels(t) ==
  /\ pc[t] = "cancel"
  /\ Returns(t, "TimeoutError")
  /\ cancelled' = IF job[t] \in Finished THEN cancelled ELSE cancelled \cup {t}
  /\ UNCHANGED <<main, loopRef, job, stopEvent>>

\* actions._run: what it does not know, it reports as a RuntimeError.
Reported(how) ==
  IF how \in {"AttributeError", "CancelledError", "MqttError"} THEN "RuntimeError" ELSE how

-----------------------------------------------------------------------------
(***************************************************************************)
(* The coroutine, on the loop                                              *)
(***************************************************************************)

\* The scheduled callback makes the task; one cancelled before never runs.
JobStarts(t) ==
  /\ LoopOpen /\ job[t] = "scheduled"
  /\ job' = [job EXCEPT ![t] = IF t \in cancelled THEN "cancelled" ELSE "running"]
  /\ UNCHANGED <<main, loopRef, pc, outcome, cancelled, stopEvent>>

JobDone(t) ==
  /\ LoopOpen /\ job[t] = "running"
  /\ job' = [job EXCEPT ![t] = "done"]
  /\ UNCHANGED <<main, loopRef, pc, outcome, cancelled, stopEvent>>

JobFails(t) ==
  /\ LoopOpen /\ job[t] = "running"
  /\ \E error \in Errors : job' = [job EXCEPT ![t] = error]
  /\ UNCHANGED <<main, loopRef, pc, outcome, cancelled, stopEvent>>

\* The cancellation, scheduled by the thread, reaches the task.
JobCancelled(t) ==
  /\ LoopOpen /\ job[t] = "running" /\ t \in cancelled
  /\ job' = [job EXCEPT ![t] = "cancelled"]
  /\ UNCHANGED <<main, loopRef, pc, outcome, cancelled, stopEvent>>

-----------------------------------------------------------------------------
(***************************************************************************)
(* stop(): one read of the attribute, kept in a local                      *)
(***************************************************************************)
StopReads(s) ==
  /\ pc[s] = "idle"
  /\ IF loopRef
     THEN Goto(s, "call_soon") /\ UNCHANGED <<outcome, stopEvent>>
     ELSE Returns(s, "ok") /\ stopEvent' = TRUE
  /\ UNCHANGED <<main, loopRef, job, cancelled>>

\* loop.call_soon_threadsafe(self._stop_event.set)
StopSchedules(s) ==
  /\ pc[s] = "call_soon"
  /\ IF LoopOpen THEN Returns(s, "ok") /\ stopEvent' = TRUE
     ELSE Returns(s, "RuntimeError") /\ UNCHANGED stopEvent
  /\ UNCHANGED <<main, loopRef, job, cancelled>>

-----------------------------------------------------------------------------
MainStep == Serve \/ Leave \/ Sweep \/ Close

ThreadStep(t) == \/ ChecksNone(t) \/ ChecksRunning(t) \/ ReadsLoop(t) \/ Submits(t)
                 \/ GetsResult(t) \/ TimesOut(t) \/ Cancels(t)

JobStep(t) == JobStarts(t) \/ JobDone(t) \/ JobFails(t) \/ JobCancelled(t)

Next == \/ MainStep
        \/ \E t \in Threads : ThreadStep(t) \/ JobStep(t)
        \/ \E s \in Stoppers : StopReads(s) \/ StopSchedules(s)

Spec == Init /\ [][Next]_vars

\* Threads run, a result or the timeout wakes the waiting one, and the loop
\* runs what is scheduled.  A coroutine need not finish by itself.
Fairness == /\ WF_vars(MainStep)
            /\ \A t \in Threads : /\ WF_vars(ThreadStep(t) /\ pc[t] # "idle")
                                  /\ WF_vars(JobStarts(t)) /\ WF_vars(JobCancelled(t))
            /\ \A s \in Stoppers : WF_vars(StopSchedules(s))

FairSpec == Spec /\ Fairness

-----------------------------------------------------------------------------
(***************************************************************************)
(* Properties                                                              *)
(***************************************************************************)
Outcomes == {"ok", "TimeoutError", "AttributeError", "CancelledError"} \cup Errors

TypeOK ==
  /\ main \in {"before", "serving", "leaving", "swept", "closed"}
  /\ loopRef \in BOOLEAN /\ stopEvent \in BOOLEAN
  /\ pc \in [Everyone -> {"idle", "is_running", "submit", "call_soon", "result", "cancel", "done"}]
  /\ outcome \in [Everyone -> Outcomes \cup {""}]
  /\ job \in [Threads -> {"none", "scheduled", "running"} \cup Finished]
  /\ cancelled \subseteq Threads
  /\ \A t \in Everyone : pc[t] = "done" <=> outcome[t] # ""

\* run_coro never returns a result for a coroutine that was cancelled, failed or did
\* not run; an error of the coroutine's reaches its caller as it is; and a call that
\* was refused ("extension is not running", or by an error on the way) never runs.
\* A RuntimeError is one or the other.
OutcomeHonest ==
  \A t \in Threads :
     /\ outcome[t] = "ok" => job[t] = "done"
     /\ outcome[t] \in Errors \ {"RuntimeError"} => job[t] = outcome[t]
     /\ outcome[t] = "RuntimeError" => job[t] \in {"none", "RuntimeError"}
     /\ outcome[t] = "AttributeError" => job[t] = "none"
     /\ outcome[t] = "CancelledError" => job[t] = "cancelled"

\* "RuntimeError: If the loop is not running": a RuntimeError that is not one of the
\* coroutine's own errors ("Broker 'x' is not connected" comes from a runner that
\* serves) comes from one of the reads, the submission or a coroutine cancelled under
\* its caller, and from those only before the runner has its loop or once it has left
\* it.  In particular no action is cancelled under its caller while the runner serves.
ErrorMeansDown ==
  [][\A t \in Threads :
        Reported(outcome'[t]) = "RuntimeError" /\ outcome[t] = "" /\ job[t] \notin Errors
        => ~loopRef]_vars

\* No shutdown leaves an action's thread waiting: every call is answered, by the
\* timeout when the loop was torn down under it.
ActionsAnswered == \A t \in Threads : pc[t] # "idle" ~> pc[t] = "done"

\* "having cancelled it": a coroutine whose caller has had a TimeoutError does
\* not run on for good, unless its loop is torn down.
AbandonedJobsEnd ==
  \A t \in Threads :
     outcome[t] = "TimeoutError" ~> (job[t] \in Finished \/ main = "closed")

\* "Safe from any thread, including a signal handler."
StopNeverRaises == \A s \in Stoppers : outcome[s] \in {"", "ok"}
=============================================================================
