---------------------------- MODULE ClientActions ----------------------------
(***************************************************************************)
(* One BrokerClient and the actions that look at it from threads of their  *)
(* own: get_status and list_topics read, without a lock, what the loop     *)
(* writes one attribute at a time, and publish runs on the loop with the   *)
(* client it found.  A step is one read or write of an attribute they      *)
(* share; a dict is copied, and a name set, in one step under the GIL.     *)
(* What is subscribed, and how an action gets to the loop and back, are    *)
(* BrokerSession's and ActionDispatch's.                                   *)
(***************************************************************************)
EXTENDS Naturals, Sequences, FiniteSets

CONSTANTS Threads, Topics,
          Fields,             \* the fields of a payload: a set of sets of names
          EventName,          \* discovery_event: of an unmapped topic
          MapFields,          \* the device map: event -> its nodes' names, {} for an
                              \* event it names with an empty list
          NoEvent,            \* ""
          MaxConnections, MaxMessages   \* bounds

ASSUME ThreadsAssumption == IsFiniteSet(Threads)
ASSUME EventNameAssumption == \A t \in Topics : EventName[t] # NoEvent
ASSUME BoundsAssumption == MaxConnections \in Nat /\ MaxMessages \in Nat

VARIABLES
  at,          \* the loop: where the client's task is
  link,        \* the connection's network is "up" or "lost"
  ups,         \* connections so far: the number of the current one
  client,      \* _client: its connection's number, 0 for None
  connected, everConnected, reconnects,
  seen,        \* _seen: topic -> event
  discovered,  \* _discovered: event -> its topic and the fields known
  message,     \* the message at hand: its topic and fields
  messages, published,
  asks,        \* what each thread calls
  poll,        \* get_status: the step, the state read, and the last answer
  listing,     \* list_topics: the parts and topics left, and the answer so far
  job,         \* publish, one per thread: the step, the QoS and the client found
  \* history, read by properties only
  missed,      \* connected has been cleared since the thread's last answer
  received     \* the publishes the broker has received

flags    == <<connected, everConnected, reconnects>>
links    == <<link, ups>>
tracing  == <<seen, discovered, message, messages>>
calls    == <<asks, poll, listing, job, missed, received>>
vars     == <<at, links, client, flags, tracing, published, calls>>

Nothing == <<>>

Update(f, g) == [x \in DOMAIN f \cup DOMAIN g |-> IF x \in DOMAIN g THEN g[x] ELSE f[x]]

\* The events made for the map's nodes, and those it names without making one.
Declared   == {e \in DOMAIN MapFields : MapFields[e] # {}}
NamedEmpty == DOMAIN MapFields \ Declared

NoListing == [step |-> "idle", parts |-> <<>>, left |-> {}, topic |-> NoEvent, fields |-> {},
              topics |-> Nothing, map |-> Nothing]

Init ==
  /\ at = "down" /\ link = "lost" /\ ups = 0 /\ client = 0
  /\ connected = FALSE /\ everConnected = FALSE /\ reconnects = 0
  /\ seen = Nothing /\ discovered = Nothing /\ message = Nothing
  /\ messages = 0 /\ published = 0
  /\ asks \in [Threads -> {"get_status", "list_topics", "publish"}]
  /\ poll = [t \in Threads |-> [step |-> "idle", state |-> "none",
                                last |-> [state |-> "none", reconnects |-> 0]]]
  /\ listing = [t \in Threads |-> NoListing]
  /\ job \in [Threads -> [step : {"idle"}, qos : {0, 1}, on : {0}]]
  /\ \A t \in Threads : asks[t] # "publish" => job[t].qos = 0
  /\ missed = [t \in Threads |-> FALSE] /\ received = {}

-----------------------------------------------------------------------------
(***************************************************************************)
(* The client's task: _serve up to its SUBSCRIBE                           *)
(***************************************************************************)
SetClient ==
  /\ at = "down" /\ ups < MaxConnections
  /\ at' = "counting" /\ client' = ups + 1
  /\ ups' = ups + 1 /\ link' = "up"
  /\ UNCHANGED <<flags, tracing, published, calls>>

\* Mutant: the count looks at the wrong flag.
CountReconnectConnected ==
  /\ at = "counting"
  /\ at' = "connecting"
  /\ reconnects' = IF connected THEN reconnects + 1 ELSE reconnects
  /\ UNCHANGED <<links, client, connected, everConnected, tracing, published, calls>>

CountReconnect ==
  /\ at = "counting"
  /\ at' = "connecting"
  /\ reconnects' = IF everConnected THEN reconnects + 1 ELSE reconnects
  /\ UNCHANGED <<links, client, connected, everConnected, tracing, published, calls>>

\* connected = ever_connected = True assigns from left to right.
SetConnected ==
  /\ at = "connecting"
  /\ at' = "connected" /\ connected' = TRUE
  /\ UNCHANGED <<links, client, everConnected, reconnects, tracing, published, calls>>

SetEverConnected ==
  /\ at = "connected"
  /\ at' = "subscribing" /\ everConnected' = TRUE
  /\ UNCHANGED <<links, client, connected, reconnects, tracing, published, calls>>

\* The SUBACK, or nothing to subscribe.
Subscribed ==
  /\ at = "subscribing" /\ link = "up"
  /\ at' = "serving"
  /\ UNCHANGED <<links, client, flags, tracing, published, calls>>

LinkDrops ==
  /\ link = "up" /\ link' = "lost"
  /\ UNCHANGED <<at, ups, client, flags, tracing, published, calls>>

Between(t) == asks[t] = "get_status" /\ poll[t].step = "idle"

\* Mutant: both flags are cleared.
GoDownForgetful ==
  /\ at \in {"subscribing", "serving"}
  /\ at' = "clearing" /\ connected' = FALSE /\ everConnected' = FALSE
  /\ missed' = [t \in Threads |-> missed[t] \/ Between(t)]
  /\ UNCHANGED <<links, client, reconnects, tracing, published,
                 asks, poll, listing, job, received>>

\* The loss is noticed, the SUBACK has not come in time, or the task is cancelled:
\* _down.
GoDown ==
  /\ at \in {"subscribing", "serving"}
  /\ at' = "clearing" /\ connected' = FALSE
  /\ missed' = [t \in Threads |-> missed[t] \/ Between(t)]
  /\ UNCHANGED <<links, client, everConnected, reconnects, tracing, published,
                 asks, poll, listing, job, received>>

ClearClient ==
  /\ at = "clearing"
  /\ at' = "down" /\ client' = 0 /\ link' = "lost"
  /\ UNCHANGED <<ups, flags, tracing, published, calls>>

-----------------------------------------------------------------------------
(***************************************************************************)
(* on_message, for a topic that is not mapped                              *)
(***************************************************************************)
Receive(t, fs) ==
  /\ at = "serving" /\ messages < MaxMessages
  /\ at' = "tracing" /\ message' = [topic |-> t, fields |-> fs, event |-> NoEvent]
  /\ messages' = messages + 1
  /\ seen' = Update([x \in {t} |-> NoEvent], seen)      \* setdefault
  /\ UNCHANGED <<links, client, flags, discovered, published, calls>>

\* _log_discovered: the event is the device map's, another topic's, declared now, or
\* known.
Discover ==
  LET e     == EventName[message.topic]
      known == IF e \in DOMAIN discovered THEN discovered[e]
               ELSE [topic |-> message.topic, fields |-> {}]
      own   == /\ known.topic = message.topic
               /\ e \in DOMAIN discovered \/ (e \notin Declared /\ message.fields # {})
  IN  /\ at = "tracing"
      /\ at' = "naming"
      /\ discovered' = IF own THEN Update(discovered, [x \in {e} |->
                                     [known EXCEPT !.fields = known.fields \cup message.fields]])
                       ELSE discovered
      /\ message' = [message EXCEPT !.event = IF own THEN e ELSE NoEvent]
      /\ UNCHANGED <<links, client, flags, seen, messages, published, calls>>

NameEvent ==
  /\ at = "naming"
  /\ at' = "serving" /\ message' = Nothing
  /\ seen' = IF message.event = NoEvent THEN seen
             ELSE [seen EXCEPT ![message.topic] = message.event]
  /\ UNCHANGED <<links, client, flags, discovered, messages, published, calls>>

-----------------------------------------------------------------------------
(***************************************************************************)
(* get_status: state reads connected and, if it is not, ever_connected;    *)
(* then come reconnects                                                    *)
(***************************************************************************)
PollReadsConnected(t) ==
  /\ asks[t] = "get_status" /\ poll[t].step = "idle"
  /\ poll' = [poll EXCEPT ![t] =
                [step  |-> IF connected THEN "reconnects" ELSE "ever",
                 state |-> IF connected THEN "ok" ELSE "none",
                 last  |-> poll[t].last]]
  /\ UNCHANGED <<at, links, client, flags, tracing, published, asks, listing, job, missed, received>>

PollReadsEver(t) ==
  /\ poll[t].step = "ever"
  /\ poll' = [poll EXCEPT ![t] =
                [step  |-> "reconnects",
                 state |-> IF everConnected THEN "disconnected" ELSE "connecting",
                 last  |-> poll[t].last]]
  /\ UNCHANGED <<at, links, client, flags, tracing, published, asks, listing, job, missed, received>>

PollAnswers(t) ==
  /\ poll[t].step = "reconnects"
  /\ poll' = [poll EXCEPT ![t] =
                [step |-> "idle", state |-> "none",
                 last |-> [state |-> poll[t].state, reconnects |-> reconnects]]]
  /\ missed' = [missed EXCEPT ![t] = FALSE]
  /\ UNCHANGED <<at, links, client, flags, tracing, published, asks, listing, job, received>>

-----------------------------------------------------------------------------
(***************************************************************************)
(* list_topics: topics() and device_map()                                  *)
(***************************************************************************)
\* Mutant: the map is made first.
PartsMapFirst == <<"device_map", "topics">>
Parts == <<"topics", "device_map">>

Lists(t, answer) ==
  /\ listing' = [listing EXCEPT ![t] = answer]
  /\ UNCHANGED <<at, links, client, flags, tracing, published, asks, poll, job, missed, received>>

\* A part of the answer is done; the answer is, when it was the last one.
PartDone(answer) == [answer EXCEPT !.parts = Tail(answer.parts),
                                   !.step  = IF Len(answer.parts) = 1 THEN "idle" ELSE "part"]

ListBegins(t) ==
  /\ asks[t] = "list_topics" /\ listing[t].step = "idle"
  /\ Lists(t, [NoListing EXCEPT !.step = "part", !.parts = Parts])

Begins(t, part) == listing[t].step = "part" /\ Head(listing[t].parts) = part

\* topics: the items of _seen are copied at once, but their events are read
\* later, once for the fields and once for the answer.
ListCopiesSeen(t) ==
  /\ Begins(t, "topics")
  /\ Lists(t, [listing[t] EXCEPT !.step = "topic", !.left = DOMAIN seen])

ListReadsFields(t) ==
  /\ listing[t].step = "topic"
  /\ \E x \in listing[t].left :
        LET e     == seen[x]
            known == e \in DOMAIN discovered /\ discovered[e].topic = x
        IN  Lists(t, [listing[t] EXCEPT !.step = "event", !.topic = x,
                                        !.fields = IF known THEN discovered[e].fields ELSE {}])

ListReadsEvent(t) ==
  /\ listing[t].step = "event"
  /\ LET x == listing[t].topic
     IN  Lists(t, [listing[t] EXCEPT !.step = "topic", !.left = listing[t].left \ {x},
                     !.topics = Update(listing[t].topics,
                                  [y \in {x} |-> [event |-> seen[x], fields |-> listing[t].fields]])])

ListTopicsDone(t) ==
  /\ listing[t].step = "topic" /\ listing[t].left = {}
  /\ Lists(t, PartDone(listing[t]))

\* device_map: the map's own events, and those discovered that it does not name.
DeviceMap ==
  Update([e \in DOMAIN discovered |-> discovered[e].fields], MapFields)

ListMakesMap(t) ==
  /\ Begins(t, "device_map")
  /\ Lists(t, PartDone([listing[t] EXCEPT !.map = DeviceMap]))

-----------------------------------------------------------------------------
(***************************************************************************)
(* publish: a coroutine on the loop, so between two awaits of the task     *)
(***************************************************************************)
AtAwait == at \in {"down", "subscribing", "serving"}

Publishes(t, step, on, count) ==
  /\ job' = [job EXCEPT ![t] = [job[t] EXCEPT !.step = step, !.on = on]]
  /\ published' = published + count
  /\ UNCHANGED <<at, links, client, flags, tracing, asks, poll, listing, missed, received>>

Calls(t) == asks[t] = "publish" /\ job[t].step = "idle"

\* _require_client raises.
PublishRefused(t) ==
  /\ Calls(t) /\ AtAwait
  /\ ~connected \/ client = 0
  /\ Publishes(t, "failed", 0, 0)

\* paho has noticed the loss: rc is MQTT_ERR_NO_CONN.
PublishUnsent(t) ==
  /\ Calls(t) /\ AtAwait /\ connected /\ client # 0 /\ link = "lost"
  /\ Publishes(t, "failed", 0, 0)

\* Mutant: nothing is waited for.
PublishSendsAndForgets(t) ==
  /\ Calls(t) /\ AtAwait /\ connected /\ client # 0
  /\ Publishes(t, "ok", client, 1)

\* Written; at QoS 0 that is all.  A loss may not show until later.
PublishSends(t) ==
  /\ Calls(t) /\ AtAwait /\ connected /\ client # 0
  /\ IF job[t].qos = 0 THEN Publishes(t, "ok", client, 1)
     ELSE Publishes(t, "waiting", client, 0)

\* The broker has the message, and then the client its acknowledgement, if the
\* connection it was sent on is still there.
OnLink(t) == job[t].on = ups /\ link = "up"

BrokerReceives(t) ==
  /\ job[t].step = "waiting" /\ t \notin received /\ OnLink(t)
  /\ received' = received \cup {t}
  /\ UNCHANGED <<at, links, client, flags, tracing, published, asks, poll, listing, job, missed>>

Acknowledged(t) ==
  /\ job[t].step = "waiting" /\ t \in received /\ OnLink(t)
  /\ Publishes(t, "acknowledged", job[t].on, 0)

\* The await returns: on whatever client, the message is counted.
PublishReturns(t) ==
  /\ job[t].step = "acknowledged" /\ AtAwait
  /\ Publishes(t, "ok", job[t].on, 1)

PublishTimesOut(t) ==
  /\ job[t].step = "waiting" /\ AtAwait
  /\ Publishes(t, "failed", job[t].on, 0)

-----------------------------------------------------------------------------
TaskStep == \/ SetClient \/ CountReconnect \/ SetConnected \/ SetEverConnected \/ Subscribed
            \/ GoDown \/ ClearClient \/ Discover \/ NameEvent
            \/ \E x \in Topics, fs \in Fields : Receive(x, fs)

ThreadStep(t) ==
  \/ PollReadsConnected(t) \/ PollReadsEver(t) \/ PollAnswers(t)
  \/ ListBegins(t) \/ ListCopiesSeen(t) \/ ListReadsFields(t) \/ ListReadsEvent(t)
  \/ ListTopicsDone(t) \/ ListMakesMap(t)
  \/ PublishRefused(t) \/ PublishUnsent(t) \/ PublishSends(t) \/ BrokerReceives(t)
  \/ Acknowledged(t) \/ PublishReturns(t) \/ PublishTimesOut(t)

Next == TaskStep \/ LinkDrops \/ \E t \in Threads : ThreadStep(t)

Spec == Init /\ [][Next]_vars

-----------------------------------------------------------------------------
(***************************************************************************)
(* Properties                                                              *)
(***************************************************************************)
TypeOK ==
  /\ at \in {"down", "counting", "connecting", "connected", "subscribing", "serving",
             "tracing", "naming", "clearing"}
  /\ link \in {"up", "lost"}
  /\ ups \in 0..MaxConnections /\ client \in {0, ups}
  /\ connected \in BOOLEAN /\ everConnected \in BOOLEAN
  /\ reconnects \in 0..(IF ups = 0 THEN 0 ELSE ups - 1)
  /\ messages \in 0..MaxMessages /\ published \in Nat
  /\ received \subseteq Threads
  /\ missed \in [Threads -> BOOLEAN]

Answers(t) == poll[t].step # "idle" /\ poll'[t].step = "idle"

\* "connecting (the first connect)": once a broker's status has said ok or
\* disconnected, no later one says connecting, whichever writes a reader runs into.
NeverBackToConnecting ==
  [][\A t \in Threads :
        Answers(t) /\ poll[t].last.state \in {"ok", "disconnected"} =>
          poll'[t].last.state # "connecting"]_vars

\* Whoever polls the status sees every drop: two answers that both say ok with a
\* drop in between count a reconnect more, however quickly it came back.
DropsShow ==
  [][\A t \in Threads :
        /\ Answers(t) /\ missed[t]
        /\ poll[t].last.state = "ok" /\ poll'[t].last.state = "ok"
        => poll'[t].last.reconnects > poll[t].last.reconnects]_vars

\* "plus a device map of them ready to save": the map list_topics returns names the
\* event of every topic it lists with fields, and has every one of those fields, though
\* messages come in while it is put together.  Except under an event the device map
\* names with an empty list: its topics are discovered, but the map keeps the list.
MapListsAll ==
  \A t \in Threads :
     listing[t].step = "idle" =>
       \A x \in DOMAIN listing[t].topics :
          listing[t].topics[x].fields # {} =>
            /\ EventName[x] \in DOMAIN listing[t].map
            /\ EventName[x] \notin NamedEmpty =>
                 listing[t].topics[x].fields \subseteq listing[t].map[EventName[x]]

Succeeded == {t \in Threads : job[t].step = "ok"}

\* A publish above QoS 0 that succeeds has reached the broker, on whichever
\* connection that was, and `published` counts those that did and no other.
PublishHonest ==
  /\ \A t \in Succeeded : job[t].qos > 0 => t \in received
  /\ published = Cardinality(Succeeded)
=============================================================================
