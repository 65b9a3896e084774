---------------------------- MODULE BrokerSession ----------------------------
(***************************************************************************)
(* One BrokerClient and its broker: the task that connects, subscribes,    *)
(* serves and reconnects (run, _reconnect_forever, _serve, _down), and the *)
(* subscribe actions that run beside it on the same event loop.  Between   *)
(* two awaits a coroutine runs alone, so every action below is one such    *)
(* stretch: what the code does from the await that returned to the next.   *)
(*                                                                         *)
(* The link is a FIFO in each direction and is lost whole: SUBSCRIBE and   *)
(* UNSUBSCRIBE on the way to the broker, their acknowledgements on the way *)
(* back.  asyncio resumes the coroutines in the order their answers came,  *)
(* so toClient is also the queue of coroutines ready to run.  aiomqtt's    *)
(* subscribe and unsubscribe wait for the answer or a timeout and do not   *)
(* notice a lost link; the message loop does.                              *)
(***************************************************************************)
EXTENDS TopicFilters, SequencesExt

CONSTANTS Configured,   \* the filters of __init__: topics and device map, with QoS
          Calls,        \* the subscribe actions, one call each
          Requests,     \* the [topic, qos] a caller may ask for
          Denied,       \* the filters a broker may refuse
          Serve,        \* the broker task, as the sender of a SUBSCRIBE
          NoCall,       \* nobody holds the lock
          ReconnectInitial, ReconnectMax,   \* the backoff's limits, in seconds
          MaxFaults     \* bound on failed connects, lost links and unanswered SUBSCRIBEs

ASSUME SessionAssumption ==
  /\ IsFilterDict(Configured) /\ ~Overlapping(DOMAIN Configured)
  /\ \A r \in Requests : IsFilter(r.topic) /\ r.qos \in QoSs
  /\ Serve \notin Calls /\ NoCall \notin Calls
  /\ ReconnectInitial \in Nat \ {0} /\ ReconnectMax \in Nat
  /\ ReconnectInitial <= ReconnectMax
  /\ MaxFaults \in Nat

VARIABLES
  \* the broker task and the client's fields
  task,           \* where run() is suspended
  cancelled,      \* the runner has cancelled the task
  connected, everConnected, contacted, reconnects, lastError,
  wanted,         \* local to _serve: what its SUBSCRIBE asked for
  up, backoff,    \* local to _reconnect_forever: this attempt connected; the next sleep
  filters,        \* self.filters: wanted filters -> QoS
  active,         \* self._active: "subscribed on this connection"
  \* the subscribe actions
  call,           \* each call's phase, its arguments and its locals
  holder,         \* who holds self._subscribing
  waiters,        \* who waits for it, in order
  \* the network and the broker
  link,           \* "up" from CONNACK until the link is lost
  toBroker, toClient,
  session,        \* the broker's subscriptions on this connection
  denied,         \* the filters this broker refuses, always the same
  faults,         \* used up, of MaxFaults
  \* history, read by properties only
  unsure,         \* a subscription was refused or given up on this connection
  failures        \* failed connects since the last connection, or the start

flags    == <<everConnected, contacted, reconnects>>
pace     == <<up, backoff, failures>>
taskVars == <<task, cancelled, connected, flags, lastError, wanted, pace>>
callVars == <<call, holder, waiters>>
netVars  == <<link, toBroker, toClient, session, denied>>
vars     == <<taskVars, filters, active, callVars, netVars, faults, unsure>>

Senders == Calls \cup {Serve}

NoAnswer == "no answer to MQTT CONNECT"
LinkLost == "link lost"
Errors   == {"", "connection refused", NoAnswer, LinkLost}

\* The phases in which a call waits for the broker, and those before an outcome.
Awaiting == {"suback", "unsuback"}
Pending  == Awaiting \cup {"queued"}

Idle == [phase |-> "idle", topic |-> <<>>, qos |-> 0, want |-> NoFilters, new |-> NoFilters]

Packet(kind, from, fs)  == [kind |-> kind, from |-> from, filters |-> fs]
Ack(kind, from, refused) == [kind |-> kind, from |-> from, refused |-> refused]

Without(d, S) == [f \in DOMAIN d \ S |-> d[f]]

\* A packet sent on a lost link is lost; the caller finds out as if no answer came.
Send(packet) == toBroker' = IF link = "up" THEN Append(toBroker, packet) ELSE toBroker

\* The coroutine `from` is the next one ready to run, with its acknowledgement.
Resumes(from) == /\ toClient # <<>>
                 /\ Head(toClient).from = from
                 /\ toClient' = Tail(toClient)

Fault == faults < MaxFaults /\ faults' = faults + 1

Init ==
  /\ task = "connecting" /\ cancelled = FALSE
  /\ connected = FALSE /\ everConnected = FALSE /\ contacted = FALSE
  /\ reconnects = 0 /\ lastError = ""
  /\ up = FALSE /\ backoff = ReconnectInitial /\ failures = 0
  /\ filters = Configured /\ active = NoFilters /\ wanted = NoFilters
  /\ call = [c \in Calls |-> Idle] /\ holder = NoCall /\ waiters = <<>>
  /\ link = "down" /\ toBroker = <<>> /\ toClient = <<>> /\ session = NoFilters
  /\ denied \in SUBSET Denied
  /\ faults = 0 /\ unsure = FALSE

-----------------------------------------------------------------------------
(***************************************************************************)
(* The broker task                                                         *)
(***************************************************************************)

\* CONNACK: `async with client` is entered and _serve runs to its first await.
\* A connection starts with no subscriptions (clean session).
Connect ==
  /\ task = "connecting"
  /\ link' = "up" /\ session' = NoFilters
  /\ connected' = TRUE /\ everConnected' = TRUE /\ contacted' = TRUE
  /\ reconnects' = IF everConnected THEN reconnects + 1 ELSE reconnects
  /\ lastError' = ""
  /\ wanted' = Subscriptions(filters)
  /\ IF wanted' = NoFilters
     THEN task' = "serving" /\ active' = NoFilters /\ toBroker' = <<>>
     ELSE /\ task' = "suback" /\ UNCHANGED active
          /\ toBroker' = <<Packet("subscribe", Serve, wanted')>>
  /\ unsure' = FALSE
  /\ up' = TRUE /\ failures' = 0
  /\ UNCHANGED <<cancelled, backoff, filters, callVars, toClient, denied, faults>>

\* The connect failed, or no CONNACK came: MqttError with `up` false.
ConnectFails ==
  /\ task = "connecting"
  /\ Fault
  /\ task' = "backoff" /\ contacted' = TRUE
  /\ lastError' \in {"connection refused", NoAnswer}
  /\ failures' = failures + 1
  /\ UNCHANGED <<cancelled, connected, everConnected, reconnects, wanted, up, backoff,
                 filters, active, callVars, netVars, unsure>>

\* Mutant: what a reconnect subscribes is taken from the configuration.
ServeGrantedConfigured ==
  /\ Resumes(Serve)
  /\ IF task = "suback"
     THEN task' = "serving" /\ active' = Subscriptions(Configured)
     ELSE UNCHANGED <<task, active>>
  /\ UNCHANGED <<cancelled, connected, flags, lastError, wanted, pace, filters,
                 callVars, link, toBroker, session, denied, faults, unsure>>

\* _serve has its SUBACK; a refused filter is only logged.
ServeGranted ==
  /\ Resumes(Serve)
  /\ IF task = "suback"
     THEN task' = "serving" /\ active' = wanted
     ELSE UNCHANGED <<task, active>>    \* too late: _serve has given up
  /\ UNCHANGED <<cancelled, connected, flags, lastError, wanted, pace, filters,
                 callVars, link, toBroker, session, denied, faults, unsure>>

\* Mutants: MqttError is not caught; a connection does not reset the backoff.
GoDownForGood(error) == /\ task' = "ended" /\ connected' = FALSE /\ active' = NoFilters
                        /\ lastError' = error /\ UNCHANGED backoff
GoDownImpatient(error) == /\ task' = "backoff" /\ connected' = FALSE /\ active' = NoFilters
                          /\ lastError' = error /\ UNCHANGED backoff

\* The end of the block with `up` true: _down, and on to the sleep.
GoDown(error) ==
  /\ task' = "backoff"
  /\ connected' = FALSE /\ active' = NoFilters
  /\ lastError' = error
  /\ backoff' = ReconnectInitial

\* aiomqtt gives up on _serve's SUBACK.  With the link up the exit of the block
\* sends DISCONNECT and waits, `connected` as before; with the link lost it
\* raises the error of the link.
ServeTimesOut ==
  /\ task = "suback"
  /\ \/ /\ link = "up" /\ Fault
        /\ task' = "closing"
        /\ UNCHANGED <<connected, active, lastError, backoff>>
     \/ /\ link = "down" /\ toClient = <<>>
        /\ GoDown(LinkLost)
        /\ UNCHANGED faults
  /\ UNCHANGED <<cancelled, flags, wanted, up, failures, filters, callVars, netVars, unsure>>

\* The message loop has drained what arrived and raises the lost link.
LinkLossNoticed ==
  /\ task = "serving" /\ link = "down" /\ toClient = <<>>
  /\ GoDown(LinkLost)
  /\ UNCHANGED <<cancelled, flags, wanted, up, failures, filters, callVars, netVars, faults,
                 unsure>>

\* Mutant: without run()'s finally.
EndSilently == /\ task' = "ended" /\ connected' = FALSE /\ active' = NoFilters
               /\ UNCHANGED <<lastError, flags, backoff>>

\* run() is left: _down on the way out, and the first contact is over.
End ==
  /\ task' = "ended"
  /\ connected' = FALSE /\ active' = NoFilters
  /\ contacted' = TRUE
  /\ UNCHANGED <<lastError, everConnected, reconnects, backoff>>

\* The link is closed.  A cancelled task ends; else the error the block was
\* left with, "Operation timed out", is described.
Closed ==
  /\ task = "closing" /\ link = "down" /\ toClient = <<>>
  /\ IF cancelled THEN End ELSE GoDown(NoAnswer) /\ UNCHANGED flags
  /\ UNCHANGED <<cancelled, wanted, up, failures, filters, callVars, netVars, faults, unsure>>

Doubled(b) == IF 2 * b <= ReconnectMax THEN 2 * b ELSE ReconnectMax

\* The sleep, of seconds, is over; what was ready before it has run.  An attempt
\* that did not connect doubles the next sleep.
BackoffElapses ==
  /\ task = "backoff" /\ toClient = <<>>
  /\ task' = "connecting"
  /\ up' = FALSE /\ backoff' = IF up THEN backoff ELSE Doubled(backoff)
  /\ UNCHANGED <<cancelled, connected, flags, lastError, wanted, failures, filters, active,
                 callVars, netVars, faults, unsure>>

\* The runner cancels the task, a second time when its loop is torn down.  In
\* the block the exit sends DISCONNECT first; on a lost link it may instead
\* raise the error of the link in place of the cancellation.
Cancel ==
  /\ cancelled' = TRUE
  /\ \/ task \in {"connecting", "backoff", "closing"} /\ End
     \/ /\ task \in {"suback", "serving"}
        /\ task' = "closing"
        /\ UNCHANGED <<connected, flags, lastError, active, backoff>>
     \/ /\ task \in {"suback", "serving"} /\ link = "down"
        /\ GoDown(LinkLost)
        /\ UNCHANGED flags
  /\ UNCHANGED <<wanted, up, failures, filters, callVars, netVars, faults, unsure>>

-----------------------------------------------------------------------------
(***************************************************************************)
(* The subscribe action: actions.subscribe, run_coro, BrokerClient.subscribe *)
(***************************************************************************)

\* The call's coroutine reaches `async with self._subscribing`.
CallStarts(c) ==
  /\ call[c].phase = "idle"
  /\ \E r \in Requests :
       call' = [call EXCEPT ![c] = [Idle EXCEPT !.phase = "queued",
                                                !.topic = r.topic, !.qos = r.qos]]
  /\ waiters' = Append(waiters, c)
  /\ UNCHANGED <<taskVars, filters, active, holder, netVars, faults, unsure>>

\* Mutant: the lock is not released.
EndsHolding(c, outcome) ==
  /\ call' = [call EXCEPT ![c] = [@ EXCEPT !.phase = outcome,
                                           !.want = NoFilters, !.new = NoFilters]]
  /\ UNCHANGED holder

\* The call ends and releases the lock.
Ends(c, outcome) ==
  /\ call' = [call EXCEPT ![c] = [@ EXCEPT !.phase = outcome,
                                           !.want = NoFilters, !.new = NoFilters]]
  /\ holder' = NoCall

\* Mutant: the lock is not held across the await.
WaitsUnlocked(c, for, want, new) ==
  /\ call' = [call EXCEPT ![c] = [@ EXCEPT !.phase = for, !.want = want, !.new = new]]
  /\ UNCHANGED holder

Waits(c, for, want, new) ==
  /\ call' = [call EXCEPT ![c] = [@ EXCEPT !.phase = for, !.want = want, !.new = new]]
  /\ holder' = c

\* The new cover is recorded; then the filters it covers are dropped.
Records(c, want, new) ==
  LET subs == Subscriptions(want)
      held == Merge(active, new)
      gone == DOMAIN held \ DOMAIN subs
  IN  /\ filters' = want
      /\ IF gone = {}
         THEN /\ active' = subs
              /\ Ends(c, "ok")
              /\ UNCHANGED toBroker
         ELSE /\ active' = held
              /\ Waits(c, "unsuback", want, NoFilters)
              /\ Send(Packet("unsubscribe", c, [f \in gone |-> 0]))

\* _require_client and check_overlaps raise.
Refuses(want) == ~connected \/ Overlapping(DOMAIN want)

\* Mutant: a filter subscribed at a lower QoS counts as subscribed.
ToSubscribeAnyQoS(subs) == Without(subs, DOMAIN active)

ToSubscribe(subs) == Without(subs, {f \in DOMAIN subs : f \in DOMAIN active /\ active[f] = subs[f]})

\* The first waiter takes the lock and runs to its first await.
CallEnters(c) ==
  /\ holder = NoCall
  /\ waiters # <<>> /\ c = Head(waiters)
  /\ waiters' = Tail(waiters)
  /\ LET want == WithFilter(filters, call[c].topic, call[c].qos)
         new  == ToSubscribe(Subscriptions(want))
     IN  IF Refuses(want)
         THEN Ends(c, "error") /\ UNCHANGED <<filters, active, toBroker>>
         ELSE IF DOMAIN new = {}
         THEN Records(c, want, new)
         ELSE /\ Waits(c, "suback", want, new)
              /\ Send(Packet("subscribe", c, new))
              /\ UNCHANGED <<filters, active>>
  /\ UNCHANGED <<taskVars, link, toClient, session, denied, faults, unsure>>

\* The call has its SUBACK: any refusal fails it and records nothing.
CallGranted(c) ==
  /\ Resumes(c) /\ Head(toClient).kind = "subscribe"
  /\ IF call[c].phase # "suback"     \* too late: the call has given up
     THEN UNCHANGED <<filters, active, call, holder, toBroker>>
     ELSE IF Head(toClient).refused # {}
     THEN Ends(c, "error") /\ UNCHANGED <<filters, active, toBroker>>
     ELSE Records(c, call[c].want, call[c].new)
  /\ UNCHANGED <<taskVars, waiters, link, session, denied, faults, unsure>>

\* Mutant: `_active` keeps the dropped filters.
CallDroppedStale(c) ==
  /\ Resumes(c) /\ Head(toClient).kind = "unsubscribe"
  /\ IF call[c].phase = "unsuback" THEN Ends(c, "ok") ELSE UNCHANGED <<call, holder>>
  /\ UNCHANGED <<taskVars, filters, active, waiters, link, toBroker, session, denied, faults,
                 unsure>>

\* The call has its UNSUBACK.
CallDropped(c) ==
  /\ Resumes(c) /\ Head(toClient).kind = "unsubscribe"
  /\ IF call[c].phase = "unsuback"
     THEN active' = Subscriptions(call[c].want) /\ Ends(c, "ok")
     ELSE UNCHANGED <<active, call, holder>>
  /\ UNCHANGED <<taskVars, filters, waiters, link, toBroker, session, denied, faults, unsure>>

\* Mutant: a failed call takes its filter back.
CallRollsBack(c) ==
  /\ call[c].phase \in Awaiting
  /\ Ends(c, "error")
  /\ filters' = Without(filters, {call[c].topic})
  /\ unsure' = TRUE
  /\ UNCHANGED <<taskVars, active, waiters, netVars, faults>>

\* No answer in ACTION_TIMEOUT, or run_coro cancels the coroutine: in the
\* broker's hands the request may still be granted.
CallGivesUp(c) ==
  /\ call[c].phase \in Awaiting
  /\ Ends(c, "error")
  /\ unsure' = TRUE
  /\ UNCHANGED <<taskVars, filters, active, waiters, netVars, faults>>

\* run_coro cancels a call still waiting for the lock.
CallLeavesQueue(c) ==
  /\ call[c].phase = "queued"
  /\ \E i \in DOMAIN waiters : waiters[i] = c /\ waiters' = RemoveAt(waiters, i)
  /\ call' = [call EXCEPT ![c].phase = "error"]
  /\ UNCHANGED <<taskVars, filters, active, holder, netVars, faults, unsure>>

-----------------------------------------------------------------------------
(***************************************************************************)
(* The broker and the network                                              *)
(***************************************************************************)

\* The broker handles its next packet and acknowledges it: a code per filter,
\* a failure for those it denies.
BrokerHandles ==
  /\ link = "up" /\ toBroker # <<>>
  /\ LET p       == Head(toBroker)
         refused == IF p.kind = "subscribe" THEN DOMAIN p.filters \cap denied ELSE {}
     IN  /\ session' = IF p.kind = "subscribe"
                       THEN Merge(session, Without(p.filters, refused))
                       ELSE Without(session, DOMAIN p.filters)
         /\ toClient' = Append(toClient, Ack(p.kind, p.from, refused))
         /\ unsure' = (unsure \/ refused # {})
  /\ toBroker' = Tail(toBroker)
  /\ UNCHANGED <<taskVars, filters, active, callVars, link, denied, faults>>

\* The link is lost with what is on the way, except the answers that have
\* arrived; after DISCONNECT this is how the connection closes.
LinkDrops ==
  /\ link = "up"
  /\ IF task \in {"closing", "ended"} THEN UNCHANGED faults ELSE Fault
  /\ link' = "down" /\ toBroker' = <<>> /\ session' = NoFilters
  /\ \E n \in 0..Len(toClient) : toClient' = SubSeq(toClient, 1, n)
  /\ UNCHANGED <<taskVars, filters, active, callVars, denied, unsure>>

-----------------------------------------------------------------------------
TaskStep == \/ Connect \/ ConnectFails \/ ServeGranted \/ ServeTimesOut
            \/ LinkLossNoticed \/ Closed \/ BackoffElapses \/ Cancel

CallStep(c) == \/ CallStarts(c) \/ CallEnters(c) \/ CallGranted(c)
               \/ CallDropped(c) \/ CallGivesUp(c) \/ CallLeavesQueue(c)

Next == TaskStep \/ (\E c \in Calls : CallStep(c)) \/ BrokerHandles \/ LinkDrops

Spec == Init /\ [][Next]_vars

\* The event loop runs what is ready, timers fire, the broker answers, and a
\* DISCONNECT closes the link.  Nothing makes a connect fail, a link drop, a
\* SUBACK miss its timeout on a link that is up, or the runner cancel.
Fairness ==
  /\ WF_vars(Connect \/ ConnectFails)
  /\ WF_vars(ServeGranted)
  /\ WF_vars(ServeTimesOut /\ link = "down")
  /\ WF_vars(LinkLossNoticed) /\ WF_vars(Closed) /\ WF_vars(BackoffElapses)
  /\ WF_vars(LinkDrops /\ task = "closing")
  /\ WF_vars(BrokerHandles)
  /\ \A c \in Calls : /\ WF_vars(CallEnters(c))
                      /\ WF_vars(CallGranted(c) \/ CallDropped(c))
                      /\ WF_vars(CallGivesUp(c))

FairSpec == Spec /\ Fairness

-----------------------------------------------------------------------------
(***************************************************************************)
(* Properties                                                              *)
(***************************************************************************)

CallOK(r) == /\ r.phase \in {"idle", "ok", "error"} \cup Pending
             /\ r.topic = <<>> \/ IsFilter(r.topic)
             /\ r.qos \in QoSs
             /\ IsFilterDict(r.want) /\ IsFilterDict(r.new)
             /\ r = [phase |-> r.phase, topic |-> r.topic, qos |-> r.qos,
                     want |-> r.want, new |-> r.new]

\* The flags of the client, as its runner and status() see them.
Lifecycle == INSTANCE ClientLifecycle
               WITH life <- IF task = "ended" THEN "cancelled" ELSE "running"

TypeOK ==
  /\ task \in {"connecting", "suback", "serving", "closing", "backoff", "ended"}
  /\ cancelled \in BOOLEAN
  /\ connected \in BOOLEAN /\ (connected <=> task \in {"suback", "serving", "closing"})
  /\ everConnected \in BOOLEAN /\ contacted \in BOOLEAN
  /\ (connected => everConnected) /\ (everConnected => contacted)
  /\ reconnects \in Nat /\ lastError \in Errors
  /\ up \in BOOLEAN /\ backoff \in ReconnectInitial..ReconnectMax /\ failures \in Nat
  /\ IsFilterDict(filters) /\ IsFilterDict(active) /\ IsFilterDict(wanted)
  /\ call = [c \in Calls |-> call[c]] /\ \A c \in Calls : CallOK(call[c])
  /\ holder \in Calls \cup {NoCall} /\ waiters \in Seq(Calls)
  /\ link \in {"up", "down"} /\ IsFilterDict(session) /\ denied \subseteq Denied
  /\ faults \in 0..MaxFaults /\ unsure \in BOOLEAN
  /\ \A i \in DOMAIN toBroker : /\ toBroker[i].from \in Senders
                                /\ IsFilterDict(toBroker[i].filters)
  /\ \A i \in DOMAIN toClient : toClient[i].from \in Senders

\* "each reads the filters the last one left": no step loses a wanted filter or
\* lowers its QoS, however the actions interleave with one another and with
\* reconnects.
FiltersGrow ==
  [][\A f \in DOMAIN filters : f \in DOMAIN filters' /\ filters'[f] >= filters[f]]_vars

\* "Add `topic` to the wanted filters for this run": what an action that
\* returned asked for stays wanted, at the QoS it asked for or a higher one.
AnsweredKept ==
  \A c \in Calls :
     call[c].phase = "ok" => /\ call[c].topic \in DOMAIN filters
                             /\ filters[call[c].topic] >= call[c].qos

\* "Overlaps without containment are refused earlier": subscriptions() is never
\* asked about two wanted filters that overlap without containment.
NoOverlaps == ~Overlapping(DOMAIN filters)

\* "recorded once the broker grants it, before the covered ones are dropped":
\* while the message loop runs on a live link, every wanted filter is covered by
\* a subscription the broker holds, at its QoS or a higher one - also while
\* actions replace filters, are refused, or time out, and after a reconnect.
\* Only configured filters the broker refuses can be missing.
NoGap ==
  task = "serving" /\ link = "up" =>
    \A f \in DOMAIN filters :
       \/ \E g \in DOMAIN session : Covers(g, f) /\ session[g] >= filters[f]
       \/ \E g \in DOMAIN Configured \cap denied : Covers(g, f)

\* Between actions the broker's subscriptions, `_active` and the cover of the
\* wanted filters are one and the same, as long as nothing was refused or given
\* up on the connection: each message arrives once, at the QoS asked for.
SettledExact ==
  task = "serving" /\ link = "up" /\ holder = NoCall /\ ~unsure =>
    session = active /\ active = Subscriptions(filters)

\* "Failures raise" (actions.py): while the message loop runs on a live link, an
\* action that returned has its topic covered by the broker's subscriptions.
OkMeansHeld ==
  \A c \in Calls :
     call[c].phase = "ok" /\ task = "serving" /\ link = "up" =>
       \E f \in DOMAIN session : Covers(f, call[c].topic)

\* "A topic filter whose messages the subscriptions already receive is not
\* subscribed twice": with no action under way, none of the broker's
\* subscriptions covers another.
NoCopies ==
  task = "serving" /\ holder = NoCall /\ toBroker = <<>> =>
    \A f, g \in DOMAIN session : f # g => ~Covers(f, g)

\* The sleep after n failed connects in a row: doubled after each but the first.
Power2[n \in Nat] == IF n = 0 THEN 1 ELSE 2 * Power2[n - 1]

Due(n) == LET unbounded == IF n = 0 THEN ReconnectInitial
                           ELSE ReconnectInitial * Power2[n - 1]
          IN  IF unbounded <= ReconnectMax THEN unbounded ELSE ReconnectMax

\* "reconnect with backoff": the sleep is the initial one after a connection was
\* lost and after the first failed connect, twice as long after each other failed
\* connect, up to the maximum, whatever connections came before.
RetryPaced == task = "backoff" => backoff = Due(failures)

\* status() lists `_active`, or what the client would subscribe when that is
\* empty: a topic an action has returned is received by one of the filters listed,
\* also before the SUBACK of a reconnect and in the middle of other actions.
AnsweredListed ==
  LET listed == IF active = NoFilters THEN Subscriptions(filters) ELSE active
  IN  \A c \in Calls :
        call[c].phase = "ok" => \E f \in DOMAIN listed : Covers(f, call[c].topic)

\* "no answer to MQTT CONNECT" is the error of an attempt that got no CONNACK.
NoAnswerNoConnack ==
  [][lastError' = NoAnswer /\ lastError # NoAnswer => ~connected]_vars

\* Every subscribe action returns or raises.
CallsAnswered ==
  \A c \in Calls : call[c].phase = "queued" ~> call[c].phase \in {"ok", "error"}

\* Once the faults stop, a client that is not cancelled serves on a live link
\* for good.
Recovers == <>[](cancelled \/ (task = "serving" /\ link = "up"))

\* The client keeps the promises the runner is built on.
ImplementsLifecycle == Lifecycle!Spec

\* The calls, as their callers see them.
Status(phase) ==
  CASE phase = "idle" -> "idle"
    [] phase \in {"queued", "suback"} -> "asked"
    [] phase = "unsuback" -> "added"
    [] phase = "ok" -> "answered"
    [] OTHER -> "failed"

Wanted == INSTANCE WantedFilters
            WITH request <- [c \in Calls |-> [topic |-> call[c].topic, qos |-> call[c].qos]],
                 status  <- [c \in Calls |-> Status(call[c].phase)]

\* Each action takes effect at once and at most one time, whatever happens to
\* the connection in between.
ImplementsWanted == Wanted!Spec
=============================================================================
