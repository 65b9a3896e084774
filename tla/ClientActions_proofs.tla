------------------------ MODULE ClientActions_proofs ------------------------
(***************************************************************************)
(* Proofs about ClientActions.  Three inductive invariants, one for each   *)
(* thing the threads do with the loop's state, rest on one about the flags *)
(* the loop writes: LoopInv says what each flag is at each of its writes.  *)
(***************************************************************************)
EXTENDS ClientActions, FiniteSetTheorems, TLAPS

Places == {"down", "counting", "connecting", "connected", "subscribing", "serving",
           "tracing", "naming", "clearing"}

\* The connection is there but the flags have yet to say so.
Early == {"counting", "connecting"}

LoopInv ==
  /\ at \in Places /\ link \in {"up", "lost"} /\ ups \in 0..MaxConnections
  /\ at # "down" => ups > 0
  /\ client = IF at = "down" THEN 0 ELSE ups
  /\ connected \in BOOLEAN /\ everConnected \in BOOLEAN
  /\ connected <=> at \notin Early \cup {"down", "clearing"}
  /\ everConnected <=> (ups > 1 \/ (ups = 1 /\ at \notin Early \cup {"connected"}))
  /\ reconnects = IF ups \in {0, 1} THEN 0 ELSE IF at = "counting" THEN ups - 2 ELSE ups - 1

loopVars == <<at, link, ups, client, connected, everConnected, reconnects>>

-----------------------------------------------------------------------------
(***************************************************************************)
(* Frames: what the threads, and the task, leave alone                     *)
(***************************************************************************)
PollStep(t) == PollReadsConnected(t) \/ PollReadsEver(t) \/ PollAnswers(t)
ListStep(t) == \/ ListBegins(t) \/ ListCopiesSeen(t) \/ ListReadsFields(t) \/ ListReadsEvent(t)
               \/ ListTopicsDone(t) \/ ListMakesMap(t)
JobStep(t)  == \/ PublishRefused(t) \/ PublishUnsent(t) \/ PublishSends(t) \/ BrokerReceives(t)
               \/ Acknowledged(t) \/ PublishReturns(t) \/ PublishTimesOut(t)

LEMMA StepCases ==
  ASSUME [Next]_vars
  PROVE  \/ UNCHANGED vars
         \/ TaskStep \/ LinkDrops
         \/ \E t \in Threads : PollStep(t) \/ ListStep(t) \/ JobStep(t)
BY DEF Next, ThreadStep, PollStep, ListStep, JobStep

LEMMA PollFrame ==
  ASSUME NEW t \in Threads, PollStep(t)
  PROVE  UNCHANGED <<loopVars, tracing, published, asks, listing, job, received>>
BY DEF PollStep, PollReadsConnected, PollReadsEver, PollAnswers, loopVars, links, flags, tracing

LEMMA ListFrame ==
  ASSUME NEW t \in Threads, ListStep(t)
  PROVE  UNCHANGED <<loopVars, tracing, published, asks, poll, job, missed, received>>
<1>1. ASSUME NEW answer, Lists(t, answer)
      PROVE  UNCHANGED <<loopVars, tracing, published, asks, poll, job, missed, received>>
  BY <1>1 DEF Lists, loopVars, links, flags, tracing
<1>. QED
  BY <1>1 DEF ListStep, ListBegins, ListCopiesSeen, ListReadsFields, ListReadsEvent,
              ListTopicsDone, ListMakesMap

LEMMA JobFrame ==
  ASSUME NEW t \in Threads, JobStep(t)
  PROVE  UNCHANGED <<loopVars, tracing, asks, poll, listing, missed>>
<1>1. ASSUME NEW step, NEW on, NEW count, Publishes(t, step, on, count)
      PROVE  UNCHANGED <<loopVars, tracing, asks, poll, listing, missed>>
  BY <1>1 DEF Publishes, loopVars, links, flags, tracing
<1>2. CASE BrokerReceives(t)
  BY <1>2 DEF BrokerReceives, loopVars, links, flags, tracing
<1>. QED
  BY <1>1, <1>2 DEF JobStep, PublishRefused, PublishUnsent, PublishSends, Acknowledged,
                    PublishReturns, PublishTimesOut

LEMMA LoopFrame ==
  ASSUME TaskStep \/ LinkDrops
  PROVE  UNCHANGED <<published, asks, poll, listing, job, received>>
<1>1. CASE LinkDrops
  BY <1>1 DEF LinkDrops, calls
<1>2. CASE GoDown
  BY <1>2 DEF GoDown
<1>3. CASE \E x \in Topics, fs \in Fields : Receive(x, fs)
  BY <1>3 DEF Receive, calls
<1>4. CASE Discover
  BY <1>4 DEF Discover, calls
<1>5. CASE NameEvent
  BY <1>5 DEF NameEvent, calls
<1>. QED
  BY <1>1, <1>2, <1>3, <1>4, <1>5
     DEF TaskStep, SetClient, CountReconnect, SetConnected, SetEverConnected, Subscribed,
         ClearClient, calls

-----------------------------------------------------------------------------
(***************************************************************************)
(* The flags                                                               *)
(***************************************************************************)
LEMMA LoopStep ==
  ASSUME LoopInv, [Next]_vars
  PROVE  LoopInv'
<1>. USE BoundsAssumption DEF LoopInv, Places, Early
<1>1. CASE UNCHANGED vars
  BY <1>1 DEF vars, links, flags
<1>2. CASE \E t \in Threads : PollStep(t) \/ ListStep(t) \/ JobStep(t)
  <2>1. UNCHANGED loopVars
    BY <1>2, PollFrame, ListFrame, JobFrame
  <2>. QED
    BY <2>1 DEF loopVars
<1>3. CASE LinkDrops
  BY <1>3 DEF LinkDrops, flags
<1>4. CASE SetClient
  BY <1>4 DEF SetClient, flags
<1>5. CASE CountReconnect
  <2>1. /\ at = "counting" /\ at' = "connecting" /\ ups > 0
        /\ everConnected <=> ups > 1
        /\ UNCHANGED <<link, ups, client, connected, everConnected>>
    BY <1>5 DEF CountReconnect, links
  <2>2. reconnects' = IF ups = 1 THEN 0 ELSE ups - 1
    <3>1. CASE everConnected
      BY <1>5, <2>1, <3>1 DEF CountReconnect
    <3>2. CASE ~everConnected
      BY <1>5, <2>1, <3>2 DEF CountReconnect
    <3>. QED
      BY <3>1, <3>2
  <2>3. ~connected' /\ connected' \in BOOLEAN /\ everConnected' \in BOOLEAN
        /\ (everConnected' <=> ups > 1)
    BY <2>1
  <2>. QED
    BY <2>1, <2>2, <2>3
<1>6. CASE SetConnected
  BY <1>6 DEF SetConnected, links
<1>7. CASE SetEverConnected
  BY <1>7 DEF SetEverConnected, links
<1>8. CASE Subscribed
  BY <1>8 DEF Subscribed, links, flags
<1>9. CASE GoDown
  BY <1>9 DEF GoDown, links
<1>10. CASE ClearClient
  BY <1>10 DEF ClearClient, flags
<1>11. CASE \E x \in Topics, fs \in Fields : Receive(x, fs)
  BY <1>11 DEF Receive, links, flags
<1>12. CASE Discover
  BY <1>12 DEF Discover, links, flags
<1>13. CASE NameEvent
  BY <1>13 DEF NameEvent, links, flags
<1>. QED
  BY StepCases, <1>1, <1>2, <1>3, <1>4, <1>5, <1>6, <1>7, <1>8, <1>9, <1>10, <1>11, <1>12, <1>13
     DEF TaskStep

LEMMA LoopNumbers == LoopInv => reconnects \in Nat /\ ups \in Nat
<1>1. LoopInv => ups \in Nat
  BY BoundsAssumption DEF LoopInv
<1>. QED
  BY <1>1 DEF LoopInv

LEMMA CountIsNat ==
  ASSUME NEW u \in Nat, NEW r, NEW early,
         r = IF u \in {0, 1} THEN 0 ELSE IF early = "counting" THEN u - 2 ELSE u - 1
  PROVE  r \in Nat
OBVIOUS

LEMMA LoopNumbersNext == LoopInv' => reconnects' \in Nat /\ ups' \in Nat
<1>. SUFFICES ASSUME LoopInv'
              PROVE  reconnects' \in Nat /\ ups' \in Nat
  OBVIOUS
<1>1. ups' \in Nat
  BY BoundsAssumption DEF LoopInv
<1>2. reconnects' = IF ups' \in {0, 1} THEN 0
                    ELSE IF at' = "counting" THEN ups' - 2 ELSE ups' - 1
  BY Zenon DEF LoopInv
<1>. QED
  BY <1>1, <1>2, CountIsNat, Zenon

LEMMA LoopAlways == Spec => []LoopInv
<1>1. Init => LoopInv
  <2>1. Init => /\ at = "down" /\ link = "lost" /\ ups = 0 /\ client = 0
                /\ connected = FALSE /\ everConnected = FALSE /\ reconnects = 0
    BY DEF Init
  <2>2. Init => /\ connected \in BOOLEAN /\ everConnected \in BOOLEAN
                /\ ~connected /\ ~everConnected
    BY <2>1
  <2>. QED
    BY <2>1, <2>2, BoundsAssumption DEF LoopInv, Places, Early
<1>. QED
  BY <1>1, LoopStep, PTL DEF Spec

-----------------------------------------------------------------------------
(***************************************************************************)
(* get_status                                                              *)
(***************************************************************************)
States == {"none", "ok", "disconnected", "connecting"}
Told   == {"ok", "disconnected"}
Polls  == [step : {"idle", "ever", "reconnects"}, state : States,
           last : [state : States, reconnects : Nat]]

PollTypes == poll \in [Threads -> Polls] /\ missed \in [Threads -> BOOLEAN]

WasUp   == everConnected \/ connected
IsDown  == at \in {"clearing", "down"}

\* What an answer said, and one under way has read, is still so; a drop missed
\* between two answers leaves a connection between their counts.
PollOne(t) ==
  /\ poll[t].last.reconnects <= reconnects
  /\ poll[t].last.state \in Told => WasUp
  /\ poll[t].step = "ever" /\ poll[t].last.state \in Told => everConnected
  /\ poll[t].step = "reconnects" /\ poll[t].state \in Told => WasUp
  /\ poll[t].step = "reconnects" /\ poll[t].last.state \in Told => poll[t].state # "connecting"
  /\ missed[t] => /\ poll[t].last.reconnects + 1 <= ups
                  /\ ~IsDown => poll[t].last.reconnects + 2 <= ups
  /\ poll[t].step = "reconnects" /\ poll[t].state = "ok" /\ missed[t] =>
       poll[t].last.reconnects < reconnects

PollInv == PollTypes /\ \A t \in Threads : PollOne(t)

LEMMA LoopGoesOn ==
  ASSUME LoopInv, TaskStep \/ LinkDrops
  PROVE  /\ reconnects <= reconnects' /\ ups <= ups'
         /\ everConnected => everConnected'
         /\ WasUp => WasUp'
         /\ ~IsDown' => ~IsDown \/ ups' = ups + 1
         /\ \/ missed' = missed
            \/ /\ missed' = [t \in Threads |-> missed[t] \/ Between(t)]
               /\ IsDown' /\ ups' = ups /\ reconnects + 1 = ups
<1>. USE BoundsAssumption DEF LoopInv, Places, Early, WasUp, IsDown, calls
<1>1. CASE LinkDrops
  BY <1>1 DEF LinkDrops, flags
<1>2. CASE SetClient
  BY <1>2 DEF SetClient, flags
<1>3. CASE CountReconnect
  BY <1>3 DEF CountReconnect, links
<1>4. CASE SetConnected
  BY <1>4 DEF SetConnected, links
<1>5. CASE SetEverConnected
  BY <1>5 DEF SetEverConnected, links
<1>6. CASE Subscribed
  BY <1>6 DEF Subscribed, links, flags
<1>7. CASE GoDown
  BY <1>7 DEF GoDown, links
<1>8. CASE ClearClient
  BY <1>8 DEF ClearClient, flags
<1>9. CASE \E x \in Topics, fs \in Fields : Receive(x, fs)
  BY <1>9 DEF Receive, links, flags
<1>10. CASE Discover
  BY <1>10 DEF Discover, links, flags
<1>11. CASE NameEvent
  BY <1>11 DEF NameEvent, links, flags
<1>. QED
  BY <1>1, <1>2, <1>3, <1>4, <1>5, <1>6, <1>7, <1>8, <1>9, <1>10, <1>11 DEF TaskStep

LEMMA PollStepKeeps ==
  ASSUME LoopInv, PollInv, NEW u \in Threads, PollStep(u)
  PROVE  PollInv'
<1>1. UNCHANGED loopVars
  BY PollFrame
<1>2. ASSUME NEW t \in Threads \ {u}, PollTypes', poll'[t] = poll[t], missed'[t] = missed[t]
      PROVE  PollOne(t)'
  BY <1>1, <1>2 DEF PollInv, PollOne, WasUp, IsDown, loopVars
<1>3. /\ reconnects \in Nat /\ ups \in Nat /\ poll[u] \in Polls /\ PollOne(u)
      /\ connected \in BOOLEAN /\ everConnected \in BOOLEAN /\ missed[u] \in BOOLEAN
  BY BoundsAssumption DEF LoopInv, PollInv, PollTypes
<1>4. CASE PollReadsConnected(u)
  <2>1. /\ poll'[u] = [step  |-> IF connected THEN "reconnects" ELSE "ever",
                       state |-> IF connected THEN "ok" ELSE "none",
                       last  |-> poll[u].last]
        /\ \A t \in Threads \ {u} : poll'[t] = poll[t]
        /\ missed' = missed
    BY <1>4 DEF PollReadsConnected, PollInv, PollTypes
  <2>2. PollTypes'
    BY <1>4, <1>3, <2>1 DEF PollReadsConnected, PollInv, PollTypes, Polls, States
  <2>3. connected => ~IsDown /\ reconnects + 1 = ups
    BY BoundsAssumption DEF LoopInv, IsDown, Places, Early
  <2>4. PollOne(u)'
    <3>1. CASE connected
      BY <1>1, <1>3, <2>1, <2>3, <3>1 DEF PollOne, WasUp, IsDown, Told, Polls, loopVars
    <3>2. CASE ~connected
      BY <1>1, <1>3, <2>1, <3>2 DEF PollOne, WasUp, IsDown, Told, Polls, loopVars
    <3>. QED
      BY <1>3, <3>1, <3>2
  <2>. QED
    BY <1>2, <2>1, <2>2, <2>4 DEF PollInv
<1>5. CASE PollReadsEver(u)
  <2>1. /\ poll'[u] = [step  |-> "reconnects",
                       state |-> IF everConnected THEN "disconnected" ELSE "connecting",
                       last  |-> poll[u].last]
        /\ \A t \in Threads \ {u} : poll'[t] = poll[t]
        /\ missed' = missed /\ poll[u].step = "ever"
    BY <1>5 DEF PollReadsEver, PollInv, PollTypes
  <2>2. PollTypes'
    BY <1>5, <1>3, <2>1 DEF PollReadsEver, PollInv, PollTypes, Polls, States
  <2>3. PollOne(u)'
    <3>1. CASE everConnected
      BY <1>1, <1>3, <2>1, <3>1 DEF PollOne, WasUp, IsDown, Told, Polls, loopVars
    <3>2. CASE ~everConnected
      BY <1>1, <1>3, <2>1, <3>2 DEF PollOne, WasUp, IsDown, Told, Polls, loopVars
    <3>. QED
      BY <1>3, <3>1, <3>2
  <2>. QED
    BY <1>2, <2>1, <2>2, <2>3 DEF PollInv
<1>6. CASE PollAnswers(u)
  <2>1. /\ poll'[u] = [step |-> "idle", state |-> "none",
                       last |-> [state |-> poll[u].state, reconnects |-> reconnects]]
        /\ \A t \in Threads \ {u} : poll'[t] = poll[t] /\ missed'[t] = missed[t]
        /\ missed'[u] = FALSE /\ poll[u].step = "reconnects"
    BY <1>6 DEF PollAnswers, PollInv, PollTypes
  <2>2. PollTypes'
    BY <1>6, <1>3, <2>1 DEF PollAnswers, PollInv, PollTypes, Polls, States
  <2>3. PollOne(u)'
    BY <1>1, <1>3, <2>1 DEF PollOne, WasUp, IsDown, Told, Polls, loopVars
  <2>. QED
    BY <1>2, <2>1, <2>2, <2>3 DEF PollInv
<1>. QED
  BY <1>4, <1>5, <1>6 DEF PollStep

LEMMA PollKept ==
  ASSUME LoopInv, PollInv, [Next]_vars
  PROVE  PollInv'
<1>1. CASE \E t \in Threads : PollStep(t)
  BY <1>1, PollStepKeeps
<1>2. CASE UNCHANGED <<loopVars, poll, missed>>
  BY <1>2 DEF PollInv, PollTypes, PollOne, WasUp, IsDown, loopVars
<1>3. CASE TaskStep \/ LinkDrops
  <2>1. poll' = poll
    BY <1>3, LoopFrame
  <2>2. LoopInv'
    BY <1>3, LoopStep DEF Next
  <2>3. PollTypes'
    BY <1>3, <2>1, LoopGoesOn DEF PollInv, PollTypes
  <2>4. ASSUME NEW t \in Threads
        PROVE  PollOne(t)'
    <3>1. /\ poll[t] \in Polls /\ PollOne(t) /\ missed[t] \in BOOLEAN
          /\ reconnects \in Nat /\ ups \in Nat /\ reconnects' \in Nat /\ ups' \in Nat
      BY <2>2, LoopNumbers, LoopNumbersNext DEF PollInv, PollTypes
    <3>2. missed'[t] => \/ missed[t]
                        \/ /\ poll[t].step = "idle"
                           /\ IsDown' /\ ups' = ups /\ reconnects + 1 = ups
      BY <1>3, LoopGoesOn DEF Between
    <3>3. missed'[t] => /\ poll[t].last.reconnects + 1 <= ups'
                        /\ ~IsDown' => poll[t].last.reconnects + 2 <= ups'
      BY <1>3, <3>1, <3>2, LoopGoesOn DEF PollOne, Polls
    <3>4. poll[t].step = "reconnects" /\ poll[t].state = "ok" /\ missed'[t] =>
            poll[t].last.reconnects < reconnects'
      <4>. SUFFICES ASSUME poll[t].step = "reconnects", poll[t].state = "ok", missed'[t]
                    PROVE  poll[t].last.reconnects < reconnects'
        OBVIOUS
      <4>1. missed[t] /\ poll[t].last.reconnects \in Nat
        BY <3>1, <3>2 DEF Polls
      <4>2. poll[t].last.reconnects < reconnects /\ reconnects <= reconnects'
        BY <1>3, <3>1, <4>1, LoopGoesOn DEF PollOne
      <4>. QED
        BY <3>1, <4>1, <4>2
    <3>. QED
      BY <1>3, <2>1, <3>1, <3>3, <3>4, LoopGoesOn DEF PollOne, Polls
  <2>. QED
    BY <2>3, <2>4 DEF PollInv
<1>. QED
  BY <1>1, <1>2, <1>3, StepCases, ListFrame, JobFrame DEF vars, calls, links, flags, loopVars

LEMMA PollAlways == Spec => []PollInv
<1>1. Init => PollInv
  BY DEF Init, PollInv, PollTypes, PollOne, Polls, States, Told, WasUp
<1>. QED
  BY <1>1, LoopAlways, PollKept, PTL DEF Spec

\* Only the thread's own answer changes its last one.
LEMMA AnswersAlone ==
  ASSUME PollInv, [Next]_vars, NEW t \in Threads, Answers(t)
  PROVE  PollAnswers(t)
<1>1. CASE poll' = poll
  BY <1>1 DEF Answers
<1>2. CASE \E u \in Threads : PollStep(u)
  <2>1. PICK u \in Threads : PollStep(u)
    BY <1>2
  <2>2. u = t
    BY <2>1 DEF Answers, PollInv, PollTypes, PollStep, PollReadsConnected, PollReadsEver, PollAnswers
  <2>3. CASE PollReadsConnected(t)
    BY <2>3 DEF Answers, PollReadsConnected
  <2>4. CASE PollReadsEver(t)
    BY <2>4 DEF Answers, PollInv, PollTypes, PollReadsEver
  <2>. QED
    BY <2>1, <2>2, <2>3, <2>4 DEF PollStep
<1>. QED
  BY <1>1, <1>2, StepCases, LoopFrame, ListFrame, JobFrame DEF vars, calls

\* Once a status has said ok or disconnected, no later one says connecting.
THEOREM StatusMovesOn == Spec => NeverBackToConnecting
<1>1. PollInv /\ [Next]_vars =>
        \A t \in Threads :
           Answers(t) /\ poll[t].last.state \in {"ok", "disconnected"} =>
             poll'[t].last.state # "connecting"
  <2>. SUFFICES ASSUME PollInv, [Next]_vars, NEW t \in Threads, Answers(t),
                       poll[t].last.state \in {"ok", "disconnected"}
                PROVE  poll'[t].last.state # "connecting"
    OBVIOUS
  <2>. QED
    BY AnswersAlone DEF PollAnswers, PollInv, PollTypes, PollOne, Told
<1>. QED
  BY <1>1, PollAlways, PTL DEF Spec, NeverBackToConnecting

\* A drop between two answers that both say ok shows as a reconnect.
THEOREM DropsAreShown == Spec => DropsShow
<1>1. LoopInv /\ PollInv /\ [Next]_vars =>
        \A t \in Threads :
           /\ Answers(t) /\ missed[t]
           /\ poll[t].last.state = "ok" /\ poll'[t].last.state = "ok"
           => poll'[t].last.reconnects > poll[t].last.reconnects
  <2>. SUFFICES ASSUME LoopInv, PollInv, [Next]_vars, NEW t \in Threads, Answers(t), missed[t],
                       poll'[t].last.state = "ok"
                PROVE  poll'[t].last.reconnects > poll[t].last.reconnects
    OBVIOUS
  <2>1. poll'[t].last = [state |-> poll[t].state, reconnects |-> reconnects]
        /\ poll[t].step = "reconnects"
    BY AnswersAlone DEF PollAnswers, PollInv, PollTypes
  <2>2. poll[t].last.reconnects < reconnects
    BY <2>1 DEF PollInv, PollOne
  <2>3. reconnects \in Nat /\ poll[t].last.reconnects \in Nat
    BY LoopNumbers DEF PollInv, PollTypes, Polls
  <2>. QED
    BY <2>1, <2>2, <2>3
<1>. QED
  BY <1>1, LoopAlways, PollAlways, PTL DEF Spec, DropsShow

-----------------------------------------------------------------------------
(***************************************************************************)
(* publish                                                                 *)
(***************************************************************************)
JobSteps == {"idle", "waiting", "acknowledged", "ok", "failed"}

JobInv ==
  /\ job \in [Threads -> [step : JobSteps, qos : {0, 1}, on : Nat]]
  /\ received \subseteq Threads
  /\ \A t \in Threads : \/ job[t].step = "acknowledged"
                        \/ job[t].step = "ok" /\ job[t].qos > 0
                        => t \in received
  /\ published = Cardinality(Succeeded)

\* One more success is counted once.
LEMMA OneMore ==
  ASSUME NEW t \in Threads, JobInv, job[t].step # "ok", Succeeded' = Succeeded \cup {t}
  PROVE  Cardinality(Succeeded') = published + 1
<1>1. IsFiniteSet(Succeeded) /\ t \notin Succeeded
  BY ThreadsAssumption, FS_Subset DEF Succeeded
<1>. QED
  BY <1>1, FS_AddElement DEF JobInv

LEMMA JobStepKeeps ==
  ASSUME LoopInv, JobInv, NEW t \in Threads, JobStep(t)
  PROVE  JobInv'
<1>1. client \in Nat /\ job[t].on \in Nat
  BY LoopNumbers DEF LoopInv, JobInv
<1>2. ASSUME NEW step \in JobSteps \ {"ok"}, NEW on \in Nat, Publishes(t, step, on, 0),
             job[t].step # "ok", step = "acknowledged" => t \in received
      PROVE  JobInv'
  <2>1. Succeeded' = Succeeded
    BY <1>2 DEF Publishes, JobInv, Succeeded
  <2>2. published' = published
    <3>1. published \in Nat
      BY ThreadsAssumption, FS_Subset, FS_CardinalityType DEF JobInv, Succeeded
    <3>. QED
      BY <1>2, <3>1 DEF Publishes
  <2>. QED
    BY <1>2, <2>1, <2>2 DEF Publishes, JobInv
<1>3. ASSUME NEW on \in Nat, Publishes(t, "ok", on, 1),
             job[t].step # "ok", job[t].qos > 0 => t \in received
      PROVE  JobInv'
  <2>1. Succeeded' = Succeeded \cup {t}
    BY <1>3 DEF Publishes, JobInv, Succeeded, JobSteps
  <2>2. Cardinality(Succeeded') = published'
    BY <1>3, <2>1, OneMore DEF Publishes
  <2>. QED
    BY <1>3, <2>2 DEF Publishes, JobInv, JobSteps
<1>4. CASE PublishRefused(t) \/ PublishUnsent(t)
  BY <1>2, <1>4 DEF PublishRefused, PublishUnsent, Calls, JobSteps
<1>5. CASE PublishSends(t)
  <2>1. CASE job[t].qos = 0
    BY <1>1, <1>3, <1>5, <2>1 DEF PublishSends, Calls
  <2>2. CASE job[t].qos # 0
    BY <1>1, <1>2, <1>5, <2>2 DEF PublishSends, Calls, JobSteps
  <2>. QED
    BY <2>1, <2>2
<1>6. CASE BrokerReceives(t)
  BY <1>6 DEF BrokerReceives, JobInv, Succeeded
<1>7. CASE Acknowledged(t)
  BY <1>1, <1>2, <1>7 DEF Acknowledged, JobSteps
<1>8. CASE PublishReturns(t)
  BY <1>1, <1>3, <1>8 DEF PublishReturns, JobInv
<1>9. CASE PublishTimesOut(t)
  BY <1>1, <1>2, <1>9 DEF PublishTimesOut, JobSteps
<1>. QED
  BY <1>4, <1>5, <1>6, <1>7, <1>8, <1>9 DEF JobStep

LEMMA JobKept ==
  ASSUME LoopInv, JobInv, [Next]_vars
  PROVE  JobInv'
<1>1. CASE \E t \in Threads : JobStep(t)
  BY <1>1, JobStepKeeps
<1>2. CASE UNCHANGED <<job, received, published>>
  BY <1>2 DEF JobInv, Succeeded
<1>. QED
  BY <1>1, <1>2, StepCases, LoopFrame, PollFrame, ListFrame DEF vars, calls

LEMMA JobAlways == Spec => []JobInv
<1>1. Init => JobInv
  <2>. SUFFICES ASSUME Init
                PROVE  JobInv
    OBVIOUS
  <2>1. job \in [Threads -> [step : {"idle"}, qos : {0, 1}, on : {0}]] /\ received = {}
    BY DEF Init
  <2>2. Succeeded = {} /\ published = 0
    BY <2>1 DEF Init, Succeeded
  <2>3. published = Cardinality(Succeeded)
    BY <2>2, FS_EmptySet
  <2>. QED
    BY <2>1, <2>3 DEF JobInv, JobSteps
<1>. QED
  BY <1>1, LoopAlways, JobKept, PTL DEF Spec

\* A publish that succeeds above QoS 0 has reached the broker; `published` counts
\* the successes.
THEOREM PublishIsHonest == Spec => []PublishHonest
<1>1. JobInv => PublishHonest
  BY DEF JobInv, PublishHonest, Succeeded
<1>. QED
  BY <1>1, JobAlways, PTL

-----------------------------------------------------------------------------
(***************************************************************************)
(* list_topics                                                             *)
(***************************************************************************)
FieldSets == SUBSET UNION Fields

\* Where on_message is with a topic, and what it has written about topics so far.
TraceInv ==
  /\ DOMAIN seen \subseteq Topics
  /\ \A x \in DOMAIN seen : seen[x] \in {NoEvent, EventName[x]}
  /\ NoEvent \notin DOMAIN discovered /\ DOMAIN discovered \cap Declared = {}
  /\ \A e \in DOMAIN discovered : discovered[e] \in [topic : Topics, fields : FieldSets]
  /\ at \in {"tracing", "naming"} =>
       /\ message \in [topic : Topics, fields : FieldSets, event : {message.event}]
       /\ message.event \in {NoEvent, EventName[message.topic]}

LEMMA UpdateAt ==
  ASSUME NEW f, NEW g
  PROVE  /\ DOMAIN Update(f, g) = DOMAIN f \cup DOMAIN g
         /\ \A x \in DOMAIN f \cup DOMAIN g :
               Update(f, g)[x] = IF x \in DOMAIN g THEN g[x] ELSE f[x]
BY DEF Update

\* A field once known stays known.
Grows == \A e \in DOMAIN discovered :
            e \in DOMAIN discovered' /\ discovered[e].fields \subseteq discovered'[e].fields

LEMMA DiscoverKeeps ==
  ASSUME TraceInv, Discover
  PROVE  TraceInv' /\ Grows
<1>. DEFINE x     == message.topic
            e     == EventName[x]
            known == IF e \in DOMAIN discovered THEN discovered[e]
                     ELSE [topic |-> x, fields |-> {}]
            own   == /\ known.topic = x
                     /\ e \in DOMAIN discovered \/ (e \notin Declared /\ message.fields # {})
            new   == [known EXCEPT !.fields = known.fields \cup message.fields]
<1>1. /\ at = "tracing" /\ at' = "naming" /\ seen' = seen
      /\ discovered' = IF own THEN Update(discovered, [y \in {e} |-> new]) ELSE discovered
      /\ message' = [message EXCEPT !.event = IF own THEN e ELSE NoEvent]
  BY DEF Discover
<1>2. x \in Topics /\ e # NoEvent /\ message.fields \in FieldSets
      /\ known \in [topic : Topics, fields : FieldSets]
  <2>1. message \in [topic : Topics, fields : FieldSets, event : {message.event}]
    BY <1>1 DEF TraceInv
  <2>2. x \in Topics /\ message.fields \in FieldSets
    BY <2>1
  <2>3. known \in [topic : Topics, fields : FieldSets]
    <3>1. CASE e \in DOMAIN discovered
      BY <3>1 DEF TraceInv
    <3>2. CASE e \notin DOMAIN discovered
      BY <3>2, <2>2 DEF FieldSets
    <3>. QED
      BY <3>1, <3>2
  <2>. QED
    BY <2>2, <2>3, EventNameAssumption
<1>3. new \in [topic : Topics, fields : FieldSets] /\ known.fields \subseteq new.fields
  BY <1>2 DEF FieldSets
<1>4. /\ message'.topic = x /\ message'.event \in {NoEvent, e}
      /\ message' \in [topic : Topics, fields : FieldSets, event : {message'.event}]
  <2>. HIDE DEF own
  <2>1. message \in [topic : Topics, fields : FieldSets, event : {message.event}]
    BY <1>1 DEF TraceInv
  <2>. QED
    BY <1>1, <1>2, <2>1
<1>5. /\ NoEvent \notin DOMAIN discovered' /\ DOMAIN discovered' \cap Declared = {}
      /\ \A y \in DOMAIN discovered' : discovered'[y] \in [topic : Topics, fields : FieldSets]
      /\ Grows
  <2>1. CASE own
    <3>. HIDE DEF own, new, known, e
    <3>1. /\ DOMAIN discovered' = DOMAIN discovered \cup {e}
          /\ \A y \in DOMAIN discovered' : discovered'[y] = IF y = e THEN new ELSE discovered[y]
      BY <1>1, <2>1, UpdateAt
    <3>2. /\ e \in DOMAIN discovered => known = discovered[e]
          /\ e \in DOMAIN discovered \/ e \notin Declared
      BY <2>1 DEF known, own
    <3>. QED
      BY <1>2, <1>3, <3>1, <3>2 DEF TraceInv, Grows
  <2>2. CASE ~own
    <3>. HIDE DEF own, new, known, e
    <3>. QED
      BY <1>1, <2>2 DEF TraceInv, Grows
  <2>. QED
    BY <2>1, <2>2
<1>. QED
  BY <1>1, <1>2, <1>4, <1>5 DEF TraceInv

LEMMA TraceKept ==
  ASSUME LoopInv, TraceInv, [Next]_vars
  PROVE  TraceInv' /\ Grows
<1>1. CASE Discover
  BY <1>1, DiscoverKeeps
<1>2. CASE \E x \in Topics, fs \in Fields : Receive(x, fs)
  <2>1. PICK x \in Topics, fs \in Fields : Receive(x, fs)
    BY <1>2
  <2>2. /\ discovered' = discovered
        /\ message' = [topic |-> x, fields |-> fs, event |-> NoEvent]
        /\ seen' = Update([y \in {x} |-> NoEvent], seen)
    BY <2>1 DEF Receive
  <2>3. /\ DOMAIN seen' = DOMAIN seen \cup {x}
        /\ \A y \in DOMAIN seen' : seen'[y] = IF y \in DOMAIN seen THEN seen[y] ELSE NoEvent
    <3>. DEFINE new == [y \in {x} |-> NoEvent]
    <3>1. DOMAIN new = {x} /\ new[x] = NoEvent /\ seen' = Update(new, seen)
      BY <2>2
    <3>. HIDE DEF new
    <3>2. \A y \in DOMAIN new \cup DOMAIN seen :
             seen'[y] = IF y \in DOMAIN seen THEN seen[y] ELSE new[y]
      BY <3>1, UpdateAt
    <3>3. DOMAIN seen' = {x} \cup DOMAIN seen
      BY <3>1, UpdateAt
    <3>. QED
      BY <3>1, <3>2, <3>3
  <2>4. message' \in [topic : Topics, fields : FieldSets, event : {message'.event}]
        /\ message'.event = NoEvent
    BY <2>2 DEF FieldSets
  <2>. QED
    BY <2>2, <2>3, <2>4 DEF TraceInv, Grows
<1>3. CASE NameEvent
  <2>1. /\ discovered' = discovered /\ at = "naming" /\ at' = "serving"
        /\ \A y \in DOMAIN seen : seen'[y] = IF message.event # NoEvent /\ y = message.topic
                                             THEN message.event ELSE seen[y]
        /\ DOMAIN seen' = DOMAIN seen
    BY <1>3 DEF NameEvent
  <2>. QED
    BY <2>1 DEF TraceInv, Grows
<1>4. CASE /\ UNCHANGED <<seen, discovered, message>>
           /\ at' \in {"tracing", "naming"} => at' = at
  BY <1>4 DEF TraceInv, Grows
<1>5. CASE \E t \in Threads : PollStep(t) \/ ListStep(t) \/ JobStep(t)
  BY <1>4, <1>5, PollFrame, ListFrame, JobFrame DEF tracing, loopVars
<1>. QED
  BY <1>1, <1>2, <1>3, <1>4, <1>5, StepCases
     DEF vars, tracing, TaskStep, LinkDrops, SetClient, CountReconnect, SetConnected,
         SetEverConnected, Subscribed, GoDown, ClearClient

\* The fields listed for a topic are among those of its event.
Fits(x, fs) == fs # {} => /\ EventName[x] \in DOMAIN discovered
                          /\ fs \subseteq discovered[EventName[x]].fields

MapFits(l) ==
  \A x \in DOMAIN l.topics :
     l.topics[x].fields # {} => /\ EventName[x] \in DOMAIN l.map
                                /\ EventName[x] \notin NamedEmpty =>
                                     l.topics[x].fields \subseteq l.map[EventName[x]]

LEMMA DeviceMapIs ==
  /\ DOMAIN DeviceMap = DOMAIN discovered \cup DOMAIN MapFields
  /\ \A e \in DOMAIN discovered \ DOMAIN MapFields : DeviceMap[e] = discovered[e].fields
<1>. DEFINE found == [e \in DOMAIN discovered |-> discovered[e].fields]
<1>1. DOMAIN found = DOMAIN discovered
      /\ \A e \in DOMAIN discovered : found[e] = discovered[e].fields
  OBVIOUS
<1>2. DeviceMap = Update(found, MapFields)
  BY DEF DeviceMap
<1>. HIDE DEF found
<1>3. /\ DOMAIN DeviceMap = DOMAIN found \cup DOMAIN MapFields
      /\ \A e \in DOMAIN found \cup DOMAIN MapFields :
            DeviceMap[e] = IF e \in DOMAIN MapFields THEN MapFields[e] ELSE found[e]
  BY <1>2, UpdateAt, Zenon
<1>. QED
  BY <1>1, <1>3

\* A record of the answer under way.
IsListing(l) ==
  l \in [step : {"idle", "part", "topic", "event"}, parts : {<<>>, Parts, <<"device_map">>},
         left : SUBSET Topics, topic : Topics \cup {NoEvent}, fields : FieldSets,
         topics : {l.topics}, map : {l.map}]

ListOne(t) ==
  /\ IsListing(listing[t])
  /\ listing[t].step = "part" => listing[t].parts # <<>>
  /\ listing[t].step \in {"topic", "event"} => listing[t].parts = Parts
  /\ listing[t].left \subseteq DOMAIN seen
  /\ listing[t].step = "event" =>
       listing[t].topic \in DOMAIN seen /\ Fits(listing[t].topic, listing[t].fields)
  /\ \A x \in DOMAIN listing[t].topics :
        x \in Topics /\ Fits(x, listing[t].topics[x].fields)
  /\ listing[t].step = "idle" => MapFits(listing[t])

ListInv == DOMAIN listing = Threads /\ \A t \in Threads : ListOne(t)

LEMMA PartsFacts ==
  /\ Parts # <<>> /\ Parts # <<"device_map">> /\ <<"device_map">> # <<>>
  /\ Head(Parts) = "topics" /\ Tail(Parts) = <<"device_map">> /\ Len(Parts) = 2
  /\ Head(<<"device_map">>) = "device_map" /\ Tail(<<"device_map">>) = <<>>
  /\ Len(<<"device_map">>) = 1
BY DEF Parts

LEMMA PartDoneIs ==
  ASSUME NEW l, IsListing(l), Tail(l.parts) \in {<<>>, <<"device_map">>}
  PROVE  /\ PartDone(l).step = IF Len(l.parts) = 1 THEN "idle" ELSE "part"
         /\ PartDone(l).parts = Tail(l.parts)
         /\ PartDone(l).left = l.left /\ PartDone(l).topics = l.topics
         /\ PartDone(l).map = l.map
         /\ IsListing(PartDone(l))
<1>. DEFINE tail == Tail(l.parts)
            step == IF Len(l.parts) = 1 THEN "idle" ELSE "part"
<1>1. PartDone(l) = [l EXCEPT !.parts = tail, !.step = step]
  BY DEF PartDone
<1>2. tail \in {<<>>, <<"device_map">>} /\ step \in {"idle", "part"}
  OBVIOUS
<1>. HIDE DEF tail, step
<1>3. /\ PartDone(l).step = step /\ PartDone(l).parts = tail
      /\ PartDone(l).left = l.left /\ PartDone(l).topics = l.topics /\ PartDone(l).map = l.map
      /\ IsListing(PartDone(l))
  BY <1>1, <1>2 DEF IsListing
<1>. QED
  BY <1>3 DEF tail, step

\* A new answer of one thread, the rest of the state as it was.
LEMMA ListsOne ==
  ASSUME ListInv, NEW t \in Threads, NEW answer, Lists(t, answer), ListOne(t)'
  PROVE  ListInv'
<1>1. UNCHANGED <<seen, discovered>> /\ DOMAIN listing' = Threads
      /\ \A u \in Threads \ {t} : listing'[u] = listing[u]
  BY DEF Lists, tracing, ListInv
<1>2. ASSUME NEW u \in Threads \ {t}
      PROVE  ListOne(u)'
  BY <1>1 DEF ListInv, ListOne, Fits, MapFits, IsListing
<1>. QED
  BY <1>1, <1>2 DEF ListInv

LEMMA Answered ==
  ASSUME ListInv, NEW t \in Threads, NEW answer, Lists(t, answer)
  PROVE  listing'[t] = answer /\ UNCHANGED <<seen, discovered>>
BY DEF Lists, tracing, ListInv

LEMMA ListStepKeeps ==
  ASSUME TraceInv, ListInv, NEW t \in Threads, ListStep(t)
  PROVE  ListInv'
<1>. DEFINE l == listing[t]
<1>1. ListOne(t) /\ IsListing(l)
  BY DEF ListInv, ListOne
<1>2. CASE ListBegins(t)
  <2>. DEFINE answer == [NoListing EXCEPT !.step = "part", !.parts = Parts]
  <2>1. Lists(t, answer)
    BY <1>2 DEF ListBegins
  <2>2. listing'[t] = answer
    BY <2>1, Answered
  <2>3. /\ answer.step = "part" /\ answer.parts = Parts /\ answer.left = {}
        /\ answer.topics = <<>>
    BY DEF NoListing, Nothing
  <2>4. DOMAIN answer.topics = {} /\ IsListing(answer)
    <3>1. NoListing \in [step : {"idle"}, parts : {<<>>}, left : {{}}, topic : {NoEvent},
                         fields : {{}}, topics : {Nothing}, map : {Nothing}]
      BY DEF NoListing
    <3>2. answer \in [step : {"part"}, parts : {Parts}, left : {{}}, topic : {NoEvent},
                      fields : {{}}, topics : {Nothing}, map : {Nothing}]
      <4>. HIDE DEF NoListing
      <4>. QED
        BY <3>1
    <3>. HIDE DEF answer
    <3>. QED
      BY <2>3, <3>2 DEF IsListing, FieldSets
  <2>5. ListOne(t)'
    <3>. HIDE DEF answer
    <3>. QED
      BY <2>2, <2>3, <2>4, PartsFacts DEF ListOne
  <2>. QED
    BY <2>1, <2>5, ListsOne
<1>3. CASE ListCopiesSeen(t)
  <2>. DEFINE answer == [l EXCEPT !.step = "topic", !.left = DOMAIN seen]
  <2>1. Lists(t, answer) /\ l.step = "part" /\ Head(l.parts) = "topics"
    BY <1>3 DEF ListCopiesSeen, Begins
  <2>2. listing'[t] = answer /\ UNCHANGED <<seen, discovered>>
    BY <2>1, Answered
  <2>3. l.parts = Parts
    BY <1>1, <2>1, PartsFacts DEF ListOne, IsListing
  <2>4. /\ answer.step = "topic" /\ answer.left = DOMAIN seen /\ answer.parts = l.parts
        /\ answer.topics = l.topics /\ IsListing(answer)
    BY <1>1, <2>3 DEF IsListing, TraceInv
  <2>5. ListOne(t)'
    <3>. HIDE DEF answer
    <3>. QED
      BY <1>1, <2>2, <2>3, <2>4 DEF ListOne, IsListing, Fits
  <2>. QED
    BY <2>1, <2>5, ListsOne
<1>4. CASE ListReadsFields(t)
  <2>1. PICK x \in l.left :
          LET e     == seen[x]
              known == e \in DOMAIN discovered /\ discovered[e].topic = x
          IN  Lists(t, [l EXCEPT !.step = "event", !.topic = x,
                                 !.fields = IF known THEN discovered[e].fields ELSE {}])
    BY <1>4 DEF ListReadsFields
  <2>. DEFINE fs == IF seen[x] \in DOMAIN discovered /\ discovered[seen[x]].topic = x
                    THEN discovered[seen[x]].fields ELSE {}
              answer == [l EXCEPT !.step = "event", !.topic = x, !.fields = fs]
  <2>2. Lists(t, answer) /\ listing'[t] = answer /\ UNCHANGED <<seen, discovered>>
    BY <2>1, Answered
  <2>3. l.parts = Parts /\ x \in DOMAIN seen /\ x \in Topics
    BY <1>1, <1>4 DEF ListOne, TraceInv, ListReadsFields
  <2>4. Fits(x, fs) /\ fs \in FieldSets
    BY <2>3 DEF TraceInv, Fits, FieldSets
  <2>5. /\ answer.step = "event" /\ answer.left = l.left /\ answer.parts = l.parts
        /\ answer.topics = l.topics /\ answer.topic = x /\ answer.fields = fs
        /\ IsListing(answer)
    <3>. HIDE DEF fs
    <3>. QED
      BY <1>1, <2>3, <2>4 DEF IsListing
  <2>6. ListOne(t)'
    <3>. HIDE DEF answer, fs
    <3>. QED
      BY <1>1, <2>2, <2>3, <2>4, <2>5 DEF ListOne, IsListing, Fits
  <2>. QED
    BY <2>2, <2>6, ListsOne
<1>5. CASE ListReadsEvent(t)
  <2>. DEFINE x == l.topic
              new == [y \in {x} |-> [event |-> seen[x], fields |-> l.fields]]
              answer == [l EXCEPT !.step = "topic", !.left = l.left \ {x},
                                  !.topics = Update(l.topics, new)]
  <2>1. Lists(t, answer) /\ l.step = "event"
    BY <1>5 DEF ListReadsEvent
  <2>2. listing'[t] = answer /\ UNCHANGED <<seen, discovered>>
    BY <2>1, Answered
  <2>3. l.parts = Parts /\ x \in DOMAIN seen /\ x \in Topics /\ Fits(x, l.fields)
    BY <1>1, <2>1 DEF ListOne, TraceInv
  <2>4. /\ answer.step = "topic" /\ answer.left = l.left \ {x} /\ answer.parts = l.parts
        /\ answer.topics = Update(l.topics, new) /\ IsListing(answer)
    <3>. HIDE DEF new
    <3>. QED
      BY <1>1 DEF IsListing
  <2>5. /\ DOMAIN answer.topics = DOMAIN l.topics \cup {x}
        /\ \A y \in DOMAIN answer.topics :
              answer.topics[y].fields = IF y = x THEN l.fields ELSE l.topics[y].fields
    <3>1. DOMAIN new = {x} /\ new[x].fields = l.fields
      OBVIOUS
    <3>. HIDE DEF new, answer, x, l
    <3>2. /\ DOMAIN Update(l.topics, new) = DOMAIN l.topics \cup DOMAIN new
          /\ \A y \in DOMAIN l.topics \cup DOMAIN new :
                Update(l.topics, new)[y] = IF y \in DOMAIN new THEN new[y] ELSE l.topics[y]
      BY UpdateAt
    <3>3. answer.topics = Update(l.topics, new)
      BY <2>4
    <3>. QED
      BY <3>1, <3>2, <3>3
  <2>6. ListOne(t)'
    <3>. HIDE DEF answer, x, new
    <3>. QED
      BY <1>1, <2>2, <2>3, <2>4, <2>5 DEF ListOne, Fits
  <2>. QED
    BY <2>1, <2>6, ListsOne
<1>6. CASE ListTopicsDone(t)
  <2>1. Lists(t, PartDone(l)) /\ l.step = "topic" /\ l.left = {}
    BY <1>6 DEF ListTopicsDone
  <2>2. listing'[t] = PartDone(l) /\ UNCHANGED <<seen, discovered>>
    BY <2>1, Answered
  <2>3. l.parts = Parts
    BY <1>1, <2>1 DEF ListOne
  <2>4. Tail(l.parts) = <<"device_map">> /\ Len(l.parts) # 1
    BY <2>3, PartsFacts
  <2>5. /\ PartDone(l).step = "part" /\ PartDone(l).parts = <<"device_map">>
        /\ PartDone(l).left = {} /\ PartDone(l).topics = l.topics /\ IsListing(PartDone(l))
    <3>. HIDE DEF l
    <3>1. IsListing(l) /\ Tail(l.parts) \in {<<>>, <<"device_map">>}
      BY <1>1, <2>4
    <3>. QED
      BY <2>1, <2>4, <3>1, PartDoneIs, Zenon
  <2>6. ListOne(t)'
    BY <1>1, <2>2, <2>5, PartsFacts DEF ListOne, Fits
  <2>. QED
    BY <2>1, <2>6, ListsOne
<1>7. CASE ListMakesMap(t)
  <2>. DEFINE map == DeviceMap
              full == [l EXCEPT !.map = map]
  <2>1. Lists(t, PartDone(full)) /\ l.step = "part" /\ Head(l.parts) = "device_map"
    BY <1>7 DEF ListMakesMap, Begins
  <2>2. listing'[t] = PartDone(full) /\ UNCHANGED <<seen, discovered>>
    BY <2>1, Answered
  <2>3. l.parts = <<"device_map">>
    BY <1>1, <2>1, PartsFacts DEF ListOne, IsListing
  <2>4. full.parts = <<"device_map">> /\ full.topics = l.topics /\ full.left = l.left
        /\ full.map = map /\ IsListing(full)
    <3>. HIDE DEF map
    <3>. QED
      BY <1>1, <2>3 DEF IsListing
  <2>5. Tail(full.parts) = <<>> /\ Len(full.parts) = 1
    <3>. HIDE DEF full
    <3>. QED
      BY <2>4, PartsFacts
  <2>6. /\ PartDone(full).step = "idle" /\ PartDone(full).left = l.left
        /\ PartDone(full).topics = l.topics /\ PartDone(full).map = map
        /\ IsListing(PartDone(full))
    <3>. HIDE DEF full, map
    <3>. QED
      BY <2>4, <2>5, PartDoneIs
  <2>7. MapFits(PartDone(full))
    <3>. HIDE DEF full
    <3>. QED
      BY <1>1, <2>6, DeviceMapIs DEF TraceInv, ListOne, MapFits, Fits, NamedEmpty
  <2>8. ListOne(t)'
    <3>. HIDE DEF full, map
    <3>. QED
      BY <1>1, <2>2, <2>6, <2>7 DEF ListOne, Fits, MapFits
  <2>. QED
    BY <2>1, <2>8, ListsOne
<1>. QED
  BY <1>2, <1>3, <1>4, <1>5, <1>6, <1>7 DEF ListStep

LEMMA ListKept ==
  ASSUME LoopInv, TraceInv, ListInv, [Next]_vars
  PROVE  ListInv'
<1>1. CASE \E t \in Threads : ListStep(t)
  BY <1>1, ListStepKeeps
<1>2. CASE listing' = listing
  <2>1. Grows /\ DOMAIN seen \subseteq DOMAIN seen'
    <3>1. Grows
      BY TraceKept
    <3>2. DOMAIN seen \subseteq DOMAIN seen'
      <4>1. CASE \E x \in Topics, fs \in Fields : Receive(x, fs)
        BY <4>1 DEF Receive, Update
      <4>2. CASE NameEvent
        BY <4>2 DEF NameEvent
      <4>3. CASE UNCHANGED seen
        BY <4>3
      <4>. QED
        BY <4>1, <4>2, <4>3, StepCases, PollFrame, ListFrame, JobFrame
           DEF vars, tracing, TaskStep, LinkDrops, SetClient, CountReconnect, SetConnected,
               SetEverConnected, Subscribed, GoDown, ClearClient, Discover
    <3>. QED
      BY <3>1, <3>2
  <2>2. ASSUME NEW x, NEW fs, Fits(x, fs)
        PROVE  Fits(x, fs)'
    BY <2>1, <2>2 DEF Fits, Grows
  <2>3. ASSUME NEW t \in Threads
        PROVE  ListOne(t)'
    <3>1. ListOne(t) /\ listing'[t] = listing[t]
      BY <1>2 DEF ListInv
    <3>. QED
      BY <2>1, <2>2, <3>1 DEF ListOne, IsListing, MapFits, Fits, Grows
  <2>. QED
    BY <1>2, <2>3 DEF ListInv
<1>. QED
  BY <1>1, <1>2, StepCases, LoopFrame, PollFrame, JobFrame DEF vars, calls

LEMMA ListAlways == Spec => [](TraceInv /\ ListInv)
<1>1. Init => TraceInv /\ ListInv
  <2>. SUFFICES ASSUME Init
                PROVE  TraceInv /\ ListInv
    OBVIOUS
  <2>1. /\ seen = <<>> /\ discovered = <<>> /\ at = "down"
        /\ listing = [t \in Threads |-> NoListing]
    BY DEF Init, Nothing
  <2>2. TraceInv
    BY <2>1 DEF TraceInv
  <2>3. ListInv
    BY <2>1 DEF ListInv, ListOne, IsListing, NoListing, Nothing, MapFits, FieldSets
  <2>. QED
    BY <2>2, <2>3
<1>2. LoopInv /\ TraceInv /\ ListInv /\ [Next]_vars => TraceInv' /\ ListInv'
  BY TraceKept, ListKept
<1>. QED
  BY <1>1, <1>2, LoopAlways, PTL DEF Spec

\* The map that list_topics returns names the event of every topic listed with fields,
\* and has those fields, unless the device map names that event with an empty list:
\* what is listed was discovered by then, stays so, and is not under a declared event.
THEOREM MapIsWhole == Spec => []MapListsAll
<1>1. ListInv => MapListsAll
  BY DEF ListInv, ListOne, MapFits, MapListsAll
<1>. QED
  BY <1>1, ListAlways, PTL

-----------------------------------------------------------------------------
(***************************************************************************)
(* Types                                                                   *)
(***************************************************************************)
Bounded == messages \in 0..MaxMessages

LEMMA MessagesKept ==
  ASSUME Bounded, [Next]_vars
  PROVE  Bounded'
<1>1. CASE \E x \in Topics, fs \in Fields : Receive(x, fs)
  BY <1>1, BoundsAssumption DEF Receive, Bounded
<1>. QED
  BY <1>1, StepCases, PollFrame, ListFrame, JobFrame
     DEF Bounded, vars, tracing, TaskStep, LinkDrops, SetClient, CountReconnect, SetConnected,
         SetEverConnected, Subscribed, GoDown, ClearClient, Discover, NameEvent

\* The types of the loop's state, with a reconnect less than there were
\* connections at most, for any threads and any bounds.
THEOREM TypeCorrect == Spec => []TypeOK
<1>1. Init => Bounded
  BY BoundsAssumption DEF Init, Bounded
<1>2. LoopInv /\ PollInv /\ JobInv /\ Bounded => TypeOK
  <2>. SUFFICES ASSUME LoopInv, PollInv, JobInv, Bounded
                PROVE  TypeOK
    OBVIOUS
  <2>1. published \in Nat
    BY ThreadsAssumption, FS_Subset, FS_CardinalityType DEF JobInv, Succeeded
  <2>2. ups \in 0..MaxConnections /\ ups \in Nat
    BY LoopNumbers DEF LoopInv
  <2>3. reconnects \in 0..(IF ups = 0 THEN 0 ELSE ups - 1)
    <3>1. CASE ups \in {0, 1}
      BY <2>2, <3>1 DEF LoopInv
    <3>2. CASE ups \notin {0, 1} /\ at = "counting"
      BY <2>2, <3>2 DEF LoopInv
    <3>3. CASE ups \notin {0, 1} /\ at # "counting"
      BY <2>2, <3>3 DEF LoopInv
    <3>. QED
      BY <3>1, <3>2, <3>3
  <2>4. /\ at \in Places /\ link \in {"up", "lost"} /\ client \in {0, ups}
        /\ connected \in BOOLEAN /\ everConnected \in BOOLEAN
    BY DEF LoopInv
  <2>5. received \subseteq Threads /\ missed \in [Threads -> BOOLEAN]
    BY DEF JobInv, PollInv, PollTypes
  <2>. QED
    BY <2>1, <2>2, <2>3, <2>4, <2>5 DEF TypeOK, Places, Bounded
<1>3. Bounded /\ [Next]_vars => Bounded'
  BY MessagesKept
<1>. QED
  BY <1>1, <1>2, <1>3, LoopAlways, PollAlways, JobAlways, PTL DEF Spec
=============================================================================
