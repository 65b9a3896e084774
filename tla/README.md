# A verification of zelos-extension-mqtt

TLA+ modules, TLC runs and TLAPS proofs for the MQTT extension in
`src/zelos_extension_mqtt`: a program that connects to several MQTT brokers
at once, subscribes to configured and discovered topics, traces what it
receives, and lets callers on other threads subscribe, publish and inspect.

    tlc -workers 2 -config MCBrokerSession.cfg MCBrokerSession     # one run
    tlapm BrokerSession_proofs.tla                                 # one module's proofs

`PROJECT.json` lists every run, the source lines each definition models, the
hazards, the findings, the theorems, and for each property a mutated definition
under which the property fails.

Paths below: `client.py`, `mqtt_map.py`, `actions.py`, `cli/app.py`,
`autoconfig.py` and `demo/simulator.py` are under `src/zelos_extension_mqtt/`.

## 1. The system

| Part | State | Operations | Modelled by |
|---|---|---|---|
| Topic filters (`mqtt_map.py:34-135`) | none | `filter_error`, `matches`, `covers`, `intersection`, `check_overlaps`, `subscriptions` | `TopicFilters` |
| Device map (`mqtt_map.py:163-266`) | nodes by event, `_exact`, `_wild` | `from_dict`, `match` | `NodeMap` |
| `BrokerClient`, the connection (`client.py:303-353, 524-645`) | `connected`, `ever_connected`, `contacted`, `reconnects`, `last_error`, `filters`, `_active`, `_subscribing` | `run`, `_reconnect_forever`, `_serve`, `_down`, `subscribe` | `BrokerSession`, promising `WantedFilters` and `ClientLifecycle` |
| `BrokerClient`, tracing (`client.py:355-510, 694-708`) | `_discovered`, `_last`, `_seen`, `_warned` | `on_message`, `_log_mapped`, `_log_discovered`, `device_map` | `Tracing` |
| `MqttRunner` (`client.py:745-882`) and `serve` (`cli/app.py:247-261`) | `_stop_event`, `failed_at_start`, `crashed`, the tasks | `run`, `_first_contact`, `stop`, exit status | `Runner` |
| Calls from other threads (`client.py:838-844, 884-899`) | `_loop` | `run_coro`, `stop` | `ActionDispatch` |
| The actions that look at a client (`client.py:608-692`, `actions.py:84-150`) | `published`, and what the loop writes | `publish`, `get_status`, `list_topics` | `ClientActions` |
| Configuration (`cli/app.py:80-245`, `actions.py:52`) | the saved document | `broker_settings`, `resolve_brokers`, `trace_layout`, the lookup of a broker, the proposals of Auto-configure (`autoconfig.py:127-180`) | `Configuration` |
| Demo broker and simulator (`demo/simulator.py:85-189`) | `_loop`, `_stop_event`, `_ready`, `_error`, a thread | `start`, `_run`, `stop` | `DemoServer` |
| The process (`main.py`, `cli/app.py:264-310`) | the recording, the exit stack, the exit status | `run_app_mode`, `run_config`, `demo_server` | `AppMode` |
| Health event, error texts, TLS contexts, paho's log level | - | `heartbeat`, `describe_error` | not modelled (section 7) |

How they interact. `serve` builds one `BrokerClient` per broker and one
`MqttRunner`. The runner's thread owns an asyncio loop with a task per client,
and everything a client does happens on that loop: interleaving is at `await`s
only. Callers arrive on threads of their own, and `run_coro` hands their
coroutine to the loop and waits. A client shares `filters` and `_active`
between its own task (which reads `filters` at each connect and sets `_active`
at each SUBACK) and the `subscribe` actions (which change both, under a lock
held across two awaits). The runner learns of its clients through flags they
set (`contacted`, `ever_connected`) and through their tasks' ends.

What is hard:

* *Interleaving and atomicity.* A subscribe action reads the wanted filters,
  awaits a SUBACK, stores them, awaits an UNSUBACK. Meanwhile the link can drop
  and come back, the client's own SUBSCRIBE can be answered, another action can
  queue, and `run_coro` can cancel the action.
* *Stale state.* Whether a filter needs a SUBSCRIBE is read off `_active`, a
  belief about the broker.
* *Partial failure and timeouts.* The broker refuses some filters of a packet,
  answers after the timeout, or not at all; the UNSUBSCRIBE fails after the new
  filter was recorded.
* *Crash against stop.* A client's bug, a stop and a shutdown timeout in any
  order decide between exit statuses 0 and 1.
* *Threads.* `run_coro` reads `_loop` three times while the runner's thread
  clears it and tears the loop down.
* *Order.* The entries of a device map in any order; topics that compete for one
  event; messages whose shape changes.
* *Containment.* `subscriptions()` and `match` rest on the claim that accepted
  filters overlap only by containment.
* *Reads without a lock.* `get_status` and `list_topics` run on a caller's thread
  and read, one by one, attributes the loop writes one by one.
* *Names.* A broker's name is typed, or made from its host, or given its port, or
  numbered by Auto-configure; two ways may give one name, and it is both the key of
  the actions and a path of the trace.
* *A second thread with a loop of its own.* The demo server's `start` gives up on
  it after 10 s, its `stop` after 5 s, and it may end by itself in between.

## 2. The modules

```
TopicFilters <- NodeMap                     the pure functions, and the device map on them
TopicFilters <- BrokerSession               one client and its broker
                BrokerSession implements WantedFilters, ClientLifecycle
ClientLifecycle <- Runner                   the runner, over one ClientLifecycle a client
ActionDispatch                              run_coro and stop against the loop's life
ClientActions                               get_status, list_topics, publish against one client
Configuration, DemoServer <- AppMode        the process, from the saved form to the exit
Tracing                                     what messages become
MC*                                         instances for TLC
*_proofs                                    theorems
```

**TopicFilters.** A filter is the sequence of its levels; a level is a name or
`+` or `#`. What a name spells is left out but for a leading `$` (`Dollar`). The
operators are those of the code: `Covers` is its loop's two ways of returning
true, `Intersection` goes to the first `#` of either filter and takes the rest
of the other, `Overlapping` is `check_overlaps` refusing, `Subscriptions` keeps
the outermost filters at the highest QoS below them. `Matches` is `matches`,
with aiomqtt's `Topic.matches` as an external definition. `Topic.matches` reads a
filter `$share/<group>/...` without its first two levels, which `covers` and
`intersection` do not; such filters, which `filter_error` lets pass, are not modelled
as shared.

**NodeMap.** `ReadEntry` and `Load` are `from_dict` (entry by entry - the first
that is no `Node` ends in "invalid" - then the verdict of `check_overlaps`), `Receive` is the part of `on_message` that chooses
the entries. `MatchIn` folds over the wildcard filters in their order of
insertion and keeps the best so far, as the loop does.

**BrokerSession.** One action is what a coroutine does between two awaits.
`task` says where `run` is suspended:

| `task` | where | left by |
|---|---|---|
| `connecting` | `async with client` | `Connect`, `ConnectFails` |
| `suback` | `_serve`'s SUBSCRIBE | `ServeGranted`, `ServeTimesOut` |
| `serving` | the message loop | `LinkLossNoticed` |
| `closing` | the exit of `async with`, DISCONNECT sent | `Closed` |
| `backoff` | `asyncio.sleep` | `BackoffElapses` |
| `ended` | `run` has returned | - |

and `Cancel` leaves any of them. `backoff` is the delay of the next sleep, `up` the
local of `_reconnect_forever` that resets it; a sleep takes no time in the model, its
length is a number. `call[c]` is a subscribe action:
`CallStarts` (it reaches the lock), `CallEnters` (it takes the lock and runs to
its SUBSCRIBE, to its UNSUBSCRIBE, or to the end), `CallGranted` (its SUBACK, and
`Records`), `CallDropped` (its UNSUBACK), `CallGivesUp` (aiomqtt's timeout, or
`run_coro`'s cancellation), `CallLeavesQueue`. The link is a FIFO in each
direction, lost as a whole; answers that had arrived by then are still read.
The broker keeps `session`, answers in order and refuses a fixed, arbitrary set
of filters (`denied`).

Taken from how the code uses aiomqtt and asyncio, and assumed: `subscribe` and
`unsubscribe` wait for the answer or the timeout and do not watch the link;
answers resume their coroutines in the order of arrival; a connection starts
with no subscriptions (clean session); leaving `async with` sends DISCONNECT and
waits for the link to close, and on a lost link may raise the link's error in
place of a cancellation.

**WantedFilters**, abstract: a subscribe action takes effect in one step, at
most once, on the filters the others left, and never brings in an overlap.
**ClientLifecycle**, abstract: the flags of a client change only by `Up`,
`AttemptFails`, `Down`, `Ends`, and first contact is over some day.

**Runner.** `main` is where `_run_async` is. Clients step as `ClientLifecycle`
allows while the runner is between `Start` and `Exit`; a bug inside a client is
`ClientCrashes`. `FirstContact`, `WaitReturns` and `Exit` are the three
stretches of the coroutine between its awaits; `Exit` covers both ends of the
bounded shutdown, everyone done or the timeout over.

**ActionDispatch.** Threads are preempted anywhere, so each read of
`MqttRunner._loop` is a step of its own: `ChecksNone`, `ChecksRunning`,
`ReadsLoop`, then `Submits`. The coroutine returns (`JobDone`), raises an error of its
own (`JobFails`: `_require_client` finds no connection, `check_overlaps` or the broker
refuses the filter, or aiomqtt has an error) or is cancelled; `GetsResult` hands the
caller what it left, and `Reported` is what `actions._run` makes of that. What the
coroutines do is `BrokerSession`'s and `ClientActions`', so that here any of them may
fail in any way, whatever the runner does. `Leave`, `Sweep`, `Close` are the ends of
`_run_async`, of the tasks left, and of the loop.

**Tracing.** A payload is what decoding sees of it: UTF-8 or not, `{` first or
not, JSON or not, and its leaves in order. A value is its JSON type and a text.
One message is one step: `NotText`, `LogMapped`, `NotDiscovered` (the early
returns of `_log_discovered`) or `LogDiscovered`. The arms of `Convert` and
`NodeValue` exclude each other, as the early returns of `convert` and `node_value`
do. `SavedNode` is the node
`device_map` writes for a discovered field, and `NodeValue` is `node_value`, so
that the two can be compared.

**ClientActions.** Each action of `TaskStep` writes one attribute the callers
read: `client`, then the reconnect counted, then `connected`, then
`ever_connected`, and on the way down `connected` before `client`; `Receive`,
`Discover` and `NameEvent` are a message's writes to `seen`, `discovered` and the
event's name. `PollReadsConnected`, `PollReadsEver` and `PollAnswers` are the reads
of `status()`, `ListBegins` to `ListMakesMap` those of `topics()` and
`device_map()`, one topic and one attribute at a time. A dict is copied in one
step (the GIL is held for `dict(...)` and `list(...)` of these dicts), and the new
fields of one message come in one step: nobody can tell them apart, since the
copies are taken of the dict as a whole. `publish` runs on the loop, and `AtAwait`
says where the client's task lets it: `PublishSends` up to its packet,
`PublishReturns` or `PublishTimesOut` after. Mapped topics are left out of
`list_topics`, for their fields are the map's; so are the keys of `status()` that
copy a number. The device map itself is `MapFields`: an event it declares
(`Declared`) is not discovered, one that it names with an empty list (`NamedEmpty`)
is, and `DeviceMap` adds to the map's events those discovered that it does not name.

**Configuration** is the pure part of the form: when an entry is accepted, the
names in use, the trace paths, the broker a text names, and the entries
Auto-configure proposes. What the SDK's sanitizer makes of a text is a parameter; it
is assumed that it is idempotent, leaves something of every text, and leaves a legal
name legal when a number is put behind it. **DemoServer** has one action per step of `start`
and `stop` (the owner) and of `_run` (the demo thread) that the other thread can
see. **AppMode** composes them: `AutoConfigure`, `Resolve`, `Build`, `Record`,
`StartDemo`, `DemoStarted`, `ServeEnds`, `StopDemo`, `Exit` are the stretches of
`run_app_mode`, `run_config` and `demo_server`, with every refusal ending on the way
out (`Refuse`). `ServeEnds` stands for the runner: what it does is `Runner`'s.

Variables marked *history* in the modules are read by properties alone.

## 3. The runs

| Run | Instance | What it shows |
|---|---|---|
| `map` | every pair of filters up to 3 levels over two names, one of them `$`, topics up to 3 levels, one name no filter has; up to 3 entries in every order, filters up to 2 levels, QoS 0, 2 or none that is legal | `covers` and `intersection` agree with the topics the filters match (the code's own exception, `+/#` against `#`, excluded from the first); a map is refused for cause; a topic is traced into its innermost filter whatever the order; its messages arrive once, at the QoS wanted or above |
| `session` | two actions, four requests (a cover of everything, a covered topic at a higher QoS, a topic of its own, an overlap), 2 faults, a broker that may refuse `#`, backoff 2 s up to 3 s, fairness | no filter lost, no topic between two subscriptions, the beliefs of the client exact when nothing went wrong, what an action was answered for listed by `status()`, the sleeps between attempts as long as they should be, actions answered, the client recovers; implements `WantedFilters` and `ClientLifecycle` |
| `runner` | two clients, one reconnect each, with and without `retry_unreachable`, fairness | the first-contact gate, causes of exit status 1 (`ExitStatus` is `serve`), crashes reported, the wait for first contact and the shutdown end |
| `dispatch` | two actions, two stops, fairness | every action's thread is answered, with what its coroutine returned or raised; a RuntimeError that is not the coroutine's own comes only from a runner that does not serve; abandoned coroutines end |
| `tracing` | six topics (two with one event, one with the map's event, one with an event the map names without nodes, two mapped), twelve payloads, three messages | rows fit their event's layout, layouts are fixed, values carried, nothing dropped silently, `topics()` lists what is traced, the saved map reads it |
| `actions` | two threads, each polling the status, listing the topics or publishing at QoS 0 or 1, four topics (two with one event, one with an event the map declares, one with an event it names with an empty list), two connections, two messages | the status never goes back to "connecting" and shows every drop; the map handed out has all that is listed, but for events the map names with an empty list; a publish that succeeds was received and is counted |
| `app` | every form of up to three brokers out of thirteen entries, every answer to the probe up to four brokers, three prefixes, the three commands, the demo thread in every interleaving, fairness | names and trace paths apart, brokers found by name and host, what Auto-configure proposes starts, a demo server that is up listens and hears its stop, the recording outlives what it records, the process gets to serve or exits |

Five runs end in a violation, each a place where the code departs from what its
comments, docstrings or changelog say; section 6.

Why the bounds are enough. `covers` and `intersection` look at one level at a
time and treat `#`, `+`, a name and a missing level differently; three levels
have each of these before, at and after the first difference, and the topics
have a name no filter has, so that `+` and a name can be told apart. A third
entry is what a wrong order in `match` needs. In a session the lock lets one
action in at a time, so two show what one leaves to the next; two faults are a
lost link and a failure of the reconnect after it - or two failed connects, of which
the second meets the limit of the backoff. Two clients show one client's
end while another is awaited. Three messages are a declaration, a message of
another shape, and a third that meets what the second left; for `list_topics` two are enough,
one before it and one between its reads, of its topic or another. A second connection
is what a drop and its reconnect need. Three brokers are two whose defaults collide and one
named like what the collision makes of them; four answers fill a name, its first
number and meet a label that looks like it. The bounds are constants: `MaxFaults`,
`MaxReconnects`, `MaxEntries`, `MaxMessages`, `MaxConnections`, `MaxBrokers`;
`Depth` and `TopicDepth` in `MCNodeMap`. The threads of `actions` are symmetric:
no property or action tells them apart, and the run checks no liveness. Deadlock is not checked: every one of these systems
may stop (a map refused, a client ended, an exit), and what must go on is stated
as liveness.

Fairness. *BrokerSession*: the loop runs what is ready, timers fire, the broker
answers on a live link, a DISCONNECT closes it. Nothing makes a connect fail, a
link drop, a SUBACK come too late on a live link, or the runner cancel; failed
connects and lost links are bounded by `MaxFaults`, so `Recovers` reads "once the
faults stop". *Runner*: the loop runs what is ready, and a connect attempt ends
because aiomqtt bounds it; nobody is forced to stop, crash or come up. `Exit` is
fair because the shutdown has its timeout. *ActionDispatch*: threads run, a
result or the timeout wakes the one that waits, the loop runs what is
scheduled; a coroutine need not finish by itself. *AppMode*: the process runs and
its waits with a limit end (10 s for `start`, 5 s for `stop`); nobody has to start
it, the runner need not return, and of the demo thread nothing is assumed, for
`broker.start` and `broker.shutdown` may hang: then `start` raises and `stop` leaves
the daemon thread behind, and `Exits` holds all the same.

## 4. What makes each part correct

* *Filters and map.* `CoversExact`, `IntersectionExact`, `RefusedForCause`,
  `MostSpecificTraced`, `DeliveredOnce`.
* *Connection and subscribe.* `AnsweredKept` (an answered filter stays wanted),
  `NoGap` (while the loop runs on a live link every wanted filter is
  covered at the broker, also in the middle of an action), `SettledExact`
  (broker, `_active` and cover agree between actions), `AnsweredListed` (what
  `status()` lists covers every answered topic, also between a reconnect and its
  SUBACK), `RetryPaced` (the sleep is a function of the failed connects since the
  last connection), `CallsAnswered`, `Recovers`, `ImplementsWanted`,
  `ImplementsLifecycle`. `NoGap` excepts configured filters the broker refuses,
  `SettledExact` connections on which something was refused or given up: section 6
  shows why. `NoOverlaps` and `FiltersGrow`, which `WantedFilters` implies, are
  proved and not checked again.
* *Runner.* `ContactRequired`, `FailureHasCause`, `RunningCrashExits1`,
  `NeverStuck`; `ClientsAreLifecycles` is proved.
* *Dispatch.* `OutcomeHonest`, `ErrorMeansDown` (a RuntimeError is the coroutine's
  own, as "Broker 'x' is not connected", or the runner is not serving), `ActionsAnswered`, `AbandonedJobsEnd`.
* *Actions on a client.* `NeverBackToConnecting`, `DropsShow` (two answers "ok"
  with a drop between them differ in `reconnects`: it is counted before the flag is
  set), `MapListsAll` (the topics are read first, and fields are never removed; except under
  an event the map names with an empty list, which section 6 is about),
  `PublishHonest`.
* *The process.* `TracePathsApart`, `BrokersFound`, `ProbeServes`,
  `UpMeansListening`, `StopHeard`, `RecordsAll`, `Exits`.
* *Tracing.* `RowsFit`, `LayoutFixed`, `Carried`, `NothingSilent`,
  `ListedUnderOwn`, `RoundTrip`.

Every state machine but the two abstract ones has a type invariant, `TypeOK`
(the demo server's is a part of `AppMode`'s). All of them are proved; only
`NodeMap`'s, which says that a fold over the filters returns one of them, is
model-checked too.

## 5. What is proved

For every value of the constants, from the assumptions the modules name:
`LevelAssumption` (wildcards are not names), `EntryAssumption` (entries are
filters with a QoS, what is received is a topic), `MapAssumption` and
`TopicsAssumption` (the same of what is compared; and there is a name that no filter
of the file has, and topics that use it: a file names finitely many levels, a
publisher may use any), `SessionAssumption` (what is
configured are accepted filters, requests are filters with a QoS - both are
validated before the client sees them), `RunnerAssumption`, `DispatchAssumption`
(the threads of actions do not call `stop`), `TracingAssumption` (the map's entries
are of its events), `PayloadAssumption` (what `json.loads` can give: the text is
stripped first, so a payload is an object just when it is JSON and starts with `{`;
an object's keys differ, anything else is one value), `ThreadsAssumption`, `EventNameAssumption`, `BoundsAssumption`
(finitely many callers, no topic with an empty event name, bounds that are
numbers), `NamesAssumption` (the sanitizer is idempotent and never gives an empty
name), `NumberAssumption` (`<name>_<number>` is legal when the name is, and another
one for another number), `FormAssumption` and `AnswerAssumption` (a form's hosts are
texts or empty; an answer has a label, a host and a port), `DemoAssumption` (the demo
broker's name is legal). `NumberAssumption` is about the SDK's sanitizer, which is not
in this repository: if it cut long names, `ProposedServe` would not follow, and the
other theorems that cite it only need that a numbered name is not empty.

Folds and recursive functions. `match`, `probe` and the backoff are loops, and the
provers cannot instantiate a principle of induction that takes a predicate. They can
use one that speaks of a set: `StepByStep` says that a *set* which has 0, and `k + 1`
whenever it has `k < n`, has `n`, and follows from a least counterexample. With the set
of those `m` for which a function with the fold's defining equation exists, it gives
that the library's fold is the loop it stands for (`LoopRuns`, `ProbeLoops`); with the
set of those `k` up to which an invariant of the loop holds, that the invariant holds
at its end.

**TopicFilters_proofs.** `covers` is a partial order (`CoversReflexive`,
`CoversAntisymmetric`, `CoversTransitive`), sound for matching (`CoversSound`),
and two filters that match one topic have an intersection
(`SharedTopicIntersects`), which a topic matches just when it matches both
(`IntersectionIsBoth`; `Meets` says of each pair of levels which one the result has). On these rest the two claims `subscriptions()` makes:
every wanted filter is covered by one subscribed (`SubscriptionsCover`: of the
filters above it, one with a minimal set of filters above itself is outermost;
the strict subsets of a finite set are well founded), and accepted filters leave no topic to two subscriptions
(`SubscriptionsDisjoint`, `SubscribedOnce`). None of this needs induction: the
filters are functions on `1..n`, and a level that differs is named directly.
`CoversComplete` is the converse of `CoversSound`: where `covers` says no there is a
topic that tells the two filters apart. It is constructed: the narrower filter with a
name that neither has put in for its `+` and `#` (`Filled`), one level longer or
shorter where its `#` is what the other lacks. The one exception is the code's own,
`+/#` against `#`, which the theorem names.

**NodeMap_proofs.** `OneCopy`: `Spec => []DeliveredOnce`. The invariant
`Accepted` says that the entries read are entries and that a map past its load
is one `check_overlaps` accepted; the rest is `SubscribedOnce`.
`IntersectionsAreExact` is `IntersectionIsBoth` for the filters the run compares,
`CoversAreExact` is `CoversSound` and `CoversComplete` for them. `RefusalsShown`: a
refused map has two filters with a topic in common, and each has one of its own
(`OverlapShown`, from `SharedTopic` and `CoversComplete` twice).
`MatchingEntryTraced` follows `match`: after `k` wildcard filters `best` is the
innermost of those among them that match the topic, or none does
(`MatchIsMostSpecific`, over `LoopRuns`). The step needs `MatchesNest`: of two
accepted filters that match one topic one covers the other, so `covers(best, filter)`
compares any two that the loop can meet. `Traced` carries the result to the topic that
was received.

**BrokerSession_proofs.** The inductive invariant `IInv` has five parts: where
the task is and what its flags are (`TaskInv`), the types of what is on the way
and at the broker (`NetInv`), the lock's queue (`QueueInv`), the calls and their
claims on the wanted filters (`CallsInv`), and the filters themselves
(`FiltersInv`). Three parts are what makes it inductive. A call that awaits is
the holder of the lock, and so the only one that awaits: without it another
call's `Records` could overwrite `filters`. What a call that awaits its SUBACK is
about to store is the current `filters` with its own topic added: its local copy
is not stale. And a waiter waits once and has not begun. Type correctness alone
knows none of these. From `IInv`: `TypeCorrect`,
`AnswersKept`, `NeverOverlapping`, `NoFilterLost` (an action property) and
`ActionsAreAtomic`, the refinement of `WantedFilters` (initial states map to
initial states, every step to a step or a stutter; `Records` is where `Add`
happens, in whichever step of a call comes first). `FlagsKeepPromise` is the safety
part of `ImplementsLifecycle`: the flags start and step as `ClientLifecycle` allows.
`RetriesPaced` has an invariant of its own, `BackoffInv`: in a sleep the delay is the
one due after the failures so far, and while an attempt is under way it is already
the one its failure would ask for. `DueSteps` is the arithmetic: doubling
what is due and cutting it off at the limit gives what is due next, although the cut
was made before the doubling.

What the broker holds needs more. A call that has given up leaves its request on the
link, a later one may be granted before it arrives, and `_active` may be the cover of
a connection that is gone: `NoGap` is not inductive with any of these unsaid. `GapInv`
has a part for each. What counts as active is wanted, at the QoS wanted of it
(`ActiveInv`), so what a call does not ask for again is part of the cover it replaces
(`LacksInv`). No packet on its way can lower an outermost filter's QoS or drop it,
because the cover only grows (`PacketsInv`). A call's own packet is the last one sent
and its answer the last one received, so nothing undoes what it is about to record
(`OrderInv`); `_serve`'s is the first, so no call records before it (`ServeInv`). Then
what the broker holds follows (`HeldInv`, `DeniedInv`), and with it `NothingMissed`.
`AnswersListed` adds that `_active` is empty or has all of the cover (`ListedInv`).
`SettlesExactly` is about a connection on which nothing was refused or given up, and
there `ExactInv` can name every state of the link: before `_serve`'s SUBACK its packet
and at most one call's behind it (`FirstExact`), afterwards at most the one packet of
the lock's holder (`ServingExact`), and what a lost connection leaves in `_active` is
nothing or the whole cover (`EarlyExact`).

**Runner_proofs.** `IInv` adds to the types that past the gate without
`retry_unreachable` everyone was connected (`ContactRequired`), that a client
contacted but never connected failed its first attempt or has ended
(`ContactInv`), that nobody is cancelled before the shutdown, so that who has
ended by then crashed (`CancelInv`), that what the runner recorded as a failure
has its cause (`CauseInv`), and that a crash while it serves stays visible until
the wait returns and is recorded then (`BugInv`). From it `TypeCorrect`, `GateHolds`, `FailuresHaveCause`,
`CrashesReported` and `RunsLifecycles`.

**ActionDispatch_proofs.** `OutcomesAreHonest`, `ErrorsMeanDown`. `JobInv` says that
the coroutine does not exist before its submission; with it `OutcomeHonest` is
inductive. `CancelInv` is what `ErrorsMeanDown` needs: a caller that still waits has
not cancelled, so a coroutine cancelled under it was cancelled by the teardown,
which comes after `_loop` was cleared. What the coroutine itself raised is excepted
there: it reaches the caller while the runner serves, and is meant to.

**ClientActions_proofs.** Four invariants, one per party. `LoopInv` ties the flags
to where the client's task is, write by write (while `connected` is set,
`reconnects` is one less than the connections made). On it rests `PollInv`, what a
reader between two reads may still conclude: `StatusMovesOn`, `DropsAreShown`.
`JobInv` counts the publishes that succeeded: `PublishIsHonest`. `TraceInv` and
`ListInv` say that what a listing has copied stays part of what is known until the
map is made, and that nothing known is under an event the device map declares, so
that only one it names with an empty list hides it: `MapIsWhole`.

**Tracing_proofs.** `DiscoveredInv` (an event belongs to one unmapped topic, whose
name it bears; its declared fields and those known since are apart, and never the
map's), `SeenInv` (what `topics()` lists a topic under is its own), `RowsInv` (the
last message's rows against the layouts). From it `RowsAlwaysFit`, `ListedRight`,
`LayoutsAreFixed`, `FieldsAreCarried` and `TypeCorrect`, for every payload, field
naming and device map. `WarnedTold` says what each used-up key of `_warned` stands
for, a warning about the topic's event or about that field of it: `NothingIsSilent`. The lemma `DiscoverySets` says once what `_log_discovered`
does; everything about it is cited from there. `SavedMapReadsBack` compares two ways
to one value: `payload_fields` names the leaves once and picks the first of each name,
`node_value` looks a path up. `RowsRead` says of each row which field of the message
its values are from (`DiscoveryReads`), and `FieldLeaf` that the lookup finds that leaf, because an
object's paths differ. `ConvertCoerces` says that `convert`, asked for the type the
field was declared with, gives what `coerce` gave when it was traced.

**AppMode_proofs.** `PathsApart` follows from the names the process resolved:
`NamesInv` says they passed `NamesOK`, or are the demo's, and `trace_layout` is
injective on legal names. `EveryBrokerFound` needs that they are the names of a form
that `resolve_brokers` accepted, so that no name is empty and each is its own sanitized
form. `ProposedServe` is about a form that Auto-configure proposed (`FormInv`):
`FreshIsFree` says that `while name in taken` ends with a name that is not taken, for
of one number more than there are names two would give one name (the pigeonhole
principle of the library); `AddedListed` that each answer keeps the list's names legal
and different, and `ProbedListed` takes this through the loop. `ListensOnceUp` and `StopIsHeard` rest on `ThreadInv` and
`OwnerInv`, which say what each thread may conclude from the events the other has
set; `RecordingCovers` on `StageInv`, the order in which the exit stack unwinds.

Model-checked only. Liveness (`CallsAnswered`, `Recovers`, `NeverStuck`,
`ActionsAnswered`, `AbandonedJobsEnd`, `Exits`, the `<>` of `ClientLifecycle`) is out
of the prover's reach, as is ENABLED. Every safety property that a passing run checks
is proved.

## 6. Where the code departs from what is said of it

With a run that shows it:

| Run | Property | What happens |
|---|---|---|
| `session_refused_ok` | `OkMeansHeld` | `_serve` logs a refused filter and still counts it in `_active` (`client.py:577-587`); a later action for it returns as if subscribed |
| `session_late_grant` | `NoCopies` | a SUBSCRIBE given up on may be granted later; the broker then holds a filter and one that covers it (`client.py:632`) |
| `session_no_answer` | `NoAnswerNoConnack` | a SUBACK that times out is described as "no answer to MQTT CONNECT" (`client.py:127`) |
| `dispatch_stop` | `StopNeverRaises` | `stop()` schedules on a loop closed since it was read (`client.py:842`) |
| `tracing_saved` | `SavedComplete` | a topic discovered under an event the map names with no nodes is left out of the saved map (`client.py:698`, `375`); `MapListsAll` excepts it |

Known divergences without a run of their own. The properties leave these cases
open, and say so:

* A broker whose first connect failed is forgiven when it comes up before the
  other brokers were tried (`client.py:822` reads `ever_connected`, while
  `client.py:761` says "Brokers whose first connect failed: the caller exits 1").
* A crash while another broker is awaited is not seen when a stop comes before the
  gate opens: the process exits 0 (`client.py:781-787`, `819`).
* `run_coro` may raise `AttributeError` or `CancelledError` when the loop is
  cleared between its reads or torn down under it (`client.py:891-895`), where
  its docstring speaks of `RuntimeError` and `TimeoutError`; `actions._run` turns
  both into `RuntimeError` (`Reported`).
* A text that starts with `{` and is not JSON is traced as a string, and the node
  saved for it does not read it back (`client.py:199`, `703`).
* Two keys of one object that sanitize to one name are told apart by their order
  in the message (`client.py:247-251`).
* A field called "skipped" shares its warning with the one about skipped names
  (`client.py:450`, `490`).
* `state` may read "disconnected" of a broker that is just connecting for the first
  time: `status()` reads `connected` before it is set and `ever_connected` after
  (`client.py:650-654`). And `connected` may be false in an answer whose `state` is
  "ok": they are two reads (`client.py:662`). `NeverBackToConnecting` speaks of
  what cannot happen.
* A topic may be listed with its event and without fields, when its first message
  comes between the two reads (`client.py:679`, `686`); `MapListsAll` is about the
  topics listed with fields.
* Auto-configure may propose a broker under a reserved name, when its label is one,
  or brokers that a certificate without key under Advanced refuses; the process then
  says so and exits. `ProbeServes` excepts both.
* The `RuntimeError` of a demo server that takes longer than 10 s passes the
  `except OSError` of `run_config` (`cli/app.py:290`, `demo/simulator.py:116`): the
  process ends with a traceback, and status 1 as well.

## 7. Not modelled, and what could come next

Left out for good:

* the health event: its rows copy flags that are modelled, every 5 s;
* the wording of errors and logs, but for the one text that stands for two timeouts;
* TLS contexts, paho's log level, sockets, mDNS and the connect checks of
  Auto-configure: I/O of libraries. `check_brokers` changes nothing, and its verdicts
  are wording;
* the values the demo simulates, file formats, the string rules of the trace SDK,
  and the checks of a map entry's name, data type and payload rule: pure checks of one
  value, each a unit test;
* signal handlers and the daemon threads of the actions' executor: a handler calls
  `stop()`, which `ActionDispatch` has, and the executor decides only that a thread
  left behind does not hold the process.

Still worth proving: that `Load` refuses nothing but an invalid entry or an overlap
and that the verdict does not depend on the order of the file; and the safety part of
the liveness arguments, as that every await of a subscribe action has a step that ends
it.
