------------------------ MODULE ActionDispatch_proofs ------------------------
(***************************************************************************)
(* For any number of actions and stops: what run_coro's caller is told,    *)
(* wherever the threads are preempted while the loop is torn down.  The     *)
(* invariant follows the coroutine from the thread that has not submitted  *)
(* it to the one that no longer waits for it.                              *)
(***************************************************************************)
EXTENDS ActionDispatch, TLAPS

\* `_loop` is what the runner's thread makes of it, between Serve and Leave.
MainInv == loopRef <=> main = "serving"

\* Before its submission a coroutine does not exist.
JobInv ==
  \A t \in Threads :
     pc[t] \in {"idle", "is_running", "submit", "call_soon"} => job[t] = "none"

\* Only a caller that has been answered has cancelled; under one that waits, only
\* the teardown does.
CancelInv == \A t \in Threads :
                /\ t \in cancelled => pc[t] = "done"
                /\ job[t] = "cancelled" /\ pc[t] # "done" => main \in {"swept", "closed"}

IInv == TypeOK /\ MainInv /\ JobInv /\ OutcomeHonest /\ CancelInv

LEMMA InitIInv == Init => IInv
BY DEF Init, IInv, TypeOK, MainInv, JobInv, OutcomeHonest, CancelInv, Everyone, Errors

-----------------------------------------------------------------------------
(***************************************************************************)
(* The runner's thread, the loop and stop()                                *)
(***************************************************************************)
LEMMA MainStepIInv == IInv /\ MainStep => IInv'
<1> SUFFICES ASSUME IInv, MainStep PROVE IInv'
  OBVIOUS
<1> USE DEF IInv, TypeOK, MainInv, JobInv, OutcomeHonest, CancelInv, Everyone
<1>1. CASE Serve
  BY <1>1 DEF Serve
<1>2. CASE Leave
  BY <1>2 DEF Leave
<1>3. CASE Sweep
  BY <1>3 DEF Sweep, Finished, Errors
<1>4. CASE Close
  BY <1>4 DEF Close
<1> QED BY <1>1, <1>2, <1>3, <1>4 DEF MainStep

LEMMA JobStepIInv ==
  ASSUME IInv, NEW t \in Threads, JobStep(t)
  PROVE  IInv'
<1> USE DEF IInv, TypeOK, MainInv, JobInv, OutcomeHonest, CancelInv, Everyone
<1>1. CASE JobStarts(t)
  BY <1>1 DEF JobStarts, Finished, Errors
<1>2. CASE JobDone(t)
  BY <1>2 DEF JobDone, Finished, Errors
<1>3. CASE JobFails(t)
  BY <1>3 DEF JobFails, Finished, Errors
<1>4. CASE JobCancelled(t)
  BY <1>4 DEF JobCancelled, Finished, Errors
<1> QED BY <1>1, <1>2, <1>3, <1>4 DEF JobStep

LEMMA StopStepIInv ==
  ASSUME IInv, NEW s \in Stoppers, StopReads(s) \/ StopSchedules(s)
  PROVE  IInv'
<1>1. s \in Everyone /\ \A t \in Threads : t # s
  BY DispatchAssumption DEF Everyone
<1>2. UNCHANGED <<main, loopRef, job, cancelled>>
  BY DEF StopReads, StopSchedules
<1>3. \A t \in Everyone : t # s => pc'[t] = pc[t] /\ outcome'[t] = outcome[t]
  BY DEF StopReads, StopSchedules, Goto, Returns, IInv, TypeOK
<1>4. TypeOK'
  BY <1>1, <1>2 DEF StopReads, StopSchedules, Goto, Returns, IInv, TypeOK, Outcomes, Errors
<1>5. MainInv' /\ JobInv' /\ OutcomeHonest' /\ CancelInv'
  BY <1>1, <1>2, <1>3 DEF IInv, MainInv, JobInv, OutcomeHonest, CancelInv, Everyone
<1> QED BY <1>4, <1>5 DEF IInv

-----------------------------------------------------------------------------
(***************************************************************************)
(* The action's thread: it moves alone, from one read to the next          *)
(***************************************************************************)
LEMMA ThreadMoves ==
  ASSUME IInv, NEW t \in Threads, ThreadStep(t)
  PROVE  /\ UNCHANGED <<main, loopRef, stopEvent>>
         /\ \A u \in Everyone : u # t => pc'[u] = pc[u] /\ outcome'[u] = outcome[u]
         /\ \A u \in Threads : u # t => job'[u] = job[u] /\ (u \in cancelled' <=> u \in cancelled)
BY DEF ThreadStep, ChecksNone, ChecksRunning, ReadsLoop, Submits, GetsResult, TimesOut, Cancels,
       Goto, Returns, IInv, TypeOK

LEMMA ThreadStepIInv ==
  ASSUME IInv, NEW t \in Threads, ThreadStep(t)
  PROVE  IInv'
<1> DEFINE Own == /\ pc'[t] \in {"idle", "is_running", "submit", "call_soon"} => job'[t] = "none"
                  /\ outcome'[t] = "ok" => job'[t] = "done"
                  /\ outcome'[t] \in Errors \ {"RuntimeError"} => job'[t] = outcome'[t]
                  /\ outcome'[t] = "RuntimeError" => job'[t] \in {"none", "RuntimeError"}
                  /\ outcome'[t] = "AttributeError" => job'[t] = "none"
                  /\ outcome'[t] = "CancelledError" => job'[t] = "cancelled"
                  /\ t \in cancelled' => pc'[t] = "done"
                  /\ job'[t] = "cancelled" /\ pc'[t] # "done" => main \in {"swept", "closed"}
<1>1. t \in Everyone
  BY DEF Everyone
<1>2. TypeOK' /\ Own
  <2> USE <1>1 DEF IInv, TypeOK, MainInv, JobInv, OutcomeHonest, CancelInv, Goto, Returns, Outcomes, Finished, Errors
  <2>1. CASE ChecksNone(t)
    BY <2>1 DEF ChecksNone
  <2>2. CASE ChecksRunning(t)
    BY <2>2 DEF ChecksRunning
  <2>3. CASE ReadsLoop(t)
    BY <2>3 DEF ReadsLoop
  <2>4. CASE Submits(t)
    BY <2>4 DEF Submits
  <2>5. CASE GetsResult(t)
    BY <2>5 DEF GetsResult
  <2>6. CASE TimesOut(t)
    BY <2>6 DEF TimesOut
  <2>7. CASE Cancels(t)
    BY <2>7 DEF Cancels
  <2> QED BY <2>1, <2>2, <2>3, <2>4, <2>5, <2>6, <2>7 DEF ThreadStep
<1>3. MainInv' /\ JobInv' /\ OutcomeHonest' /\ CancelInv'
  BY <1>2, ThreadMoves DEF IInv, MainInv, JobInv, OutcomeHonest, CancelInv, Everyone
<1> QED BY <1>2, <1>3 DEF IInv

LEMMA Invariance == Spec => []IInv
<1>1. IInv /\ [Next]_vars => IInv'
  <2> SUFFICES ASSUME IInv, [Next]_vars PROVE IInv'
    OBVIOUS
  <2>1. CASE UNCHANGED vars
    BY <2>1 DEF vars, IInv, TypeOK, MainInv, JobInv, OutcomeHonest, CancelInv
  <2> QED BY <2>1, MainStepIInv, ThreadStepIInv, JobStepIInv, StopStepIInv DEF Next
<1> QED BY <1>1, InitIInv, PTL DEF Spec

-----------------------------------------------------------------------------
(***************************************************************************)
(* Theorems                                                                *)
(***************************************************************************)

\* Type correctness; a thread has an outcome exactly when its call has returned.
THEOREM TypeCorrect == Spec => []TypeOK
<1>1. IInv => TypeOK
  BY DEF IInv
<1> QED BY <1>1, Invariance, PTL

\* What run_coro returns or raises is its coroutine's: for any number of threads, none
\* gets a result from a coroutine that failed or did not finish, or an error of the
\* coroutine's that is not its own, and none that was refused runs.
THEOREM OutcomesAreHonest == Spec => []OutcomeHonest
<1>1. IInv => OutcomeHonest
  BY DEF IInv
<1> QED BY <1>1, Invariance, PTL

\* "RuntimeError: If the loop is not running": when an action reports one that its
\* coroutine did not raise, whichever way, the runner was not serving then.  A caller
\* that waits is cancelled by the teardown alone, and a submission fails only on a
\* closed loop.
THEOREM ErrorsMeanDown == Spec => ErrorMeansDown
<1>1. ASSUME IInv, [Next]_vars, NEW t \in Threads,
             Reported(outcome'[t]) = "RuntimeError", outcome[t] = "",
             job[t] \notin Errors
      PROVE  ~loopRef
  <2>1. t \in Everyone /\ outcome'[t] # "" /\ pc[t] # "done"
    BY <1>1 DEF IInv, TypeOK, Reported, Everyone
  <2>2. ThreadStep(t)
    <3>1. ASSUME UNCHANGED outcome PROVE FALSE
      BY <1>1, <2>1, <3>1
    <3>2. ASSUME NEW u \in Threads, ThreadStep(u), u # t PROVE FALSE
      BY <1>1, <2>1, <3>2, ThreadMoves
    <3>3. ASSUME NEW s \in Stoppers, StopReads(s) \/ StopSchedules(s) PROVE FALSE
      <4>1. s # t
        BY DispatchAssumption
      <4> QED BY <1>1, <2>1, <3>3, <4>1 DEF StopReads, StopSchedules, Goto, Returns, IInv, TypeOK
    <3>4. MainStep => UNCHANGED outcome
      BY DEF MainStep, Serve, Leave, Sweep, Close
    <3>5. \A u \in Threads : JobStep(u) => UNCHANGED outcome
      BY DEF JobStep, JobStarts, JobDone, JobFails, JobCancelled
    <3> QED BY <1>1, <3>1, <3>2, <3>3, <3>4, <3>5 DEF Next, vars
  <2>3. CASE outcome'[t] = "TimeoutError" \/ outcome'[t] = "ok"
    BY <1>1, <2>3 DEF Reported
  <2>4. CASE ~(outcome'[t] = "TimeoutError" \/ outcome'[t] = "ok")
    <3>1. ChecksNone(t) \/ ChecksRunning(t) \/ ReadsLoop(t) => ~loopRef
      BY <1>1, <2>1 DEF ChecksNone, ChecksRunning, ReadsLoop, Goto
    <3>2. Submits(t) => ~loopRef
      BY <1>1, <2>1 DEF Submits, LoopOpen, IInv, MainInv
    <3>3. GetsResult(t) => ~loopRef
      BY <1>1, <2>1, <2>4 DEF GetsResult, Returns, IInv, TypeOK, MainInv, CancelInv
    <3>4. ~TimesOut(t) /\ ~Cancels(t)
      BY <1>1, <2>1, <2>4 DEF TimesOut, Cancels, Returns, IInv, TypeOK
    <3> QED BY <2>2, <3>1, <3>2, <3>3, <3>4 DEF ThreadStep
  <2> QED BY <2>3, <2>4
<1>2. IInv /\ [Next]_vars =>
        [\A t \in Threads :
           Reported(outcome'[t]) = "RuntimeError" /\ outcome[t] = "" /\ job[t] \notin Errors
           => ~loopRef]_vars
  BY <1>1
<1> QED BY <1>2, Invariance, PTL DEF Spec, ErrorMeansDown
=============================================================================
