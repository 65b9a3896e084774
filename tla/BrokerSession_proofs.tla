------------------------- MODULE BrokerSession_proofs -------------------------
(***************************************************************************)
(* For every configuration, every number of subscribe actions, whatever    *)
(* they ask for, and any number of faults: the lock and the order of the   *)
(* steps in BrokerClient.subscribe make the actions one after the other.   *)
(*                                                                         *)
(* Three invariants carry the proofs.  IInv says what the lock protects    *)
(* while a call waits: who waits for the broker is the holder, and what it *)
(* is about to record is computed from the filters as they still are.      *)
(* GapInv follows requests and answers over the link to what the broker    *)
(* holds, also the requests nobody waits for any more.  ExactInv says the  *)
(* same of a connection on which all went well, and leaves no room.        *)
(***************************************************************************)
EXTENDS BrokerSession, TopicFilters_proofs

-----------------------------------------------------------------------------
(***************************************************************************)
(* Dicts of filters                                                        *)
(***************************************************************************)
FilterDicts ==
  {d \in UNION {[F -> QoSs] : F \in SUBSET {f \in Seq(Level \cup {"+", "#"}) : IsFilter(f)}} :
     IsFilterDict(d)}

LEMMA DictInSet ==
  ASSUME NEW d, IsFilterDict(d)
  PROVE  d \in FilterDicts
<1>1. d \in [DOMAIN d -> QoSs]
  BY DEF IsFilterDict
<1>2. DOMAIN d \in SUBSET {f \in Seq(Level \cup {"+", "#"}) : IsFilter(f)}
  BY DEF IsFilterDict, IsFilter
<1> QED BY <1>1, <1>2 DEF FilterDicts

LEMMA NoFiltersShape == IsFilterDict(NoFilters)
BY FS_EmptySet DEF IsFilterDict, NoFilters

\* {**filters, topic: max(qos, ...)} has the topic at its QoS, and loses nothing.
LEMMA WithFilterShape ==
  ASSUME NEW d, IsFilterDict(d), NEW t, IsFilter(t), NEW q \in QoSs
  PROVE  /\ IsFilterDict(WithFilter(d, t, q))
         /\ t \in DOMAIN WithFilter(d, t, q) /\ WithFilter(d, t, q)[t] >= q
         /\ \A f \in DOMAIN d : /\ f \in DOMAIN WithFilter(d, t, q)
                                /\ WithFilter(d, t, q)[f] >= d[f]
<1>1. IsFiniteSet(DOMAIN d \cup {t})
  BY FS_AddElement DEF IsFilterDict
<1> QED
  BY <1>1 DEF WithFilter, IsFilterDict, QoSs

LEMMA MergeShape ==
  ASSUME NEW d, NEW e, IsFilterDict(d), IsFilterDict(e)
  PROVE  IsFilterDict(Merge(d, e))
<1>1. IsFiniteSet(DOMAIN d \cup DOMAIN e)
  BY FS_Union DEF IsFilterDict
<1> QED BY <1>1 DEF Merge, IsFilterDict

LEMMA WithoutShape ==
  ASSUME NEW d, IsFilterDict(d), NEW S
  PROVE  IsFilterDict(Without(d, S))
<1>1. IsFiniteSet(DOMAIN d \ S)
  BY FS_Difference DEF IsFilterDict
<1> QED BY <1>1 DEF Without, IsFilterDict

LEMMA ToSubscribeShape ==
  ASSUME NEW d, IsFilterDict(d)
  PROVE  IsFilterDict(ToSubscribe(Subscriptions(d)))
BY SubscriptionsShape, WithoutShape DEF ToSubscribe

\* The dict of an UNSUBSCRIBE: some of the filters held.
LEMMA GoneShape ==
  ASSUME NEW d, IsFilterDict(d), NEW S
  PROVE  IsFilterDict([f \in DOMAIN d \ S |-> 0])
<1>1. IsFiniteSet(DOMAIN d \ S)
  BY FS_Difference DEF IsFilterDict
<1> QED BY <1>1 DEF IsFilterDict, QoSs

-----------------------------------------------------------------------------
(***************************************************************************)
(* The inductive invariant                                                 *)
(***************************************************************************)
Kinds   == {"subscribe", "unsubscribe"}
Packets == [kind : Kinds, from : Senders, filters : FilterDicts]
Acks    == [kind : Kinds, from : Senders, refused : SUBSET Denied]

PaceInv == up \in BOOLEAN /\ backoff \in ReconnectInitial..ReconnectMax /\ failures \in Nat

TaskInv ==
  /\ PaceInv
  /\ task \in {"connecting", "suback", "serving", "closing", "backoff", "ended"}
  /\ cancelled \in BOOLEAN
  /\ connected \in BOOLEAN /\ (connected <=> task \in {"suback", "serving", "closing"})
  /\ everConnected \in BOOLEAN /\ contacted \in BOOLEAN
  /\ (connected => everConnected) /\ (everConnected => contacted)
  /\ reconnects \in Nat /\ lastError \in Errors
  /\ IsFilterDict(wanted)

NetInv ==
  /\ link \in {"up", "down"} /\ IsFilterDict(session) /\ denied \subseteq Denied
  /\ faults \in 0..MaxFaults /\ unsure \in BOOLEAN
  /\ toBroker \in Seq(Packets) /\ toClient \in Seq(Acks)

\* The lock's queue: each waiter is a call not begun, and waits once.
QueueInv ==
  /\ holder \in Calls \cup {NoCall} /\ waiters \in Seq(Calls)
  /\ \A i \in DOMAIN waiters : call[waiters[i]].phase = "queued"
  /\ \A i, j \in DOMAIN waiters : waiters[i] = waiters[j] => i = j

\* What holds of call c in state r while the filters are fs and h has the lock.
CallInv(c, r, fs, h) ==
  /\ CallOK(r)
  /\ r.phase # "idle" => IsFilter(r.topic)
  /\ r.phase \in Awaiting => h = c
  /\ r.phase = "suback" => /\ r.want = WithFilter(fs, r.topic, r.qos)
                           /\ ~Overlapping(DOMAIN r.want)
  /\ r.phase = "unsuback" => r.want = fs
  /\ r.phase \in {"unsuback", "ok"} => r.topic \in DOMAIN fs /\ fs[r.topic] >= r.qos

CallsInv == /\ call = [c \in Calls |-> call[c]]
            /\ \A c \in Calls : CallInv(c, call[c], filters, holder)

FiltersInv == /\ IsFilterDict(filters) /\ IsFilterDict(active)
              /\ ~Overlapping(DOMAIN filters)

IInv == TaskInv /\ NetInv /\ QueueInv /\ CallsInv /\ FiltersInv

\* What the invariant says of each property it carries.
LEMMA IInvImplies == IInv => TypeOK /\ AnsweredKept /\ NoOverlaps
<1> SUFFICES ASSUME IInv PROVE TypeOK /\ AnsweredKept /\ NoOverlaps
  OBVIOUS
<1>1. \A i \in DOMAIN toBroker : /\ toBroker[i].from \in Senders
                                 /\ IsFilterDict(toBroker[i].filters)
  <2>1. toBroker \in Seq(Packets)
    BY DEF IInv, NetInv
  <2>2. \A i \in DOMAIN toBroker : toBroker[i] \in Packets
    BY <2>1
  <2>3. \A p \in Packets : p.from \in Senders /\ p.filters \in FilterDicts
    BY DEF Packets
  <2>4. \A d \in FilterDicts : IsFilterDict(d)
    BY DEF FilterDicts
  <2> QED BY <2>2, <2>3, <2>4
<1>2. \A i \in DOMAIN toClient : toClient[i].from \in Senders
  <2>1. toClient \in Seq(Acks)
    BY DEF IInv, NetInv
  <2>2. \A i \in DOMAIN toClient : toClient[i] \in Acks
    BY <2>1
  <2>3. \A a \in Acks : a.from \in Senders
    BY DEF Acks
  <2> QED BY <2>2, <2>3
<1>3. \A c \in Calls : CallOK(call[c])
  BY DEF IInv, CallsInv, CallInv
<1>4. TypeOK
  BY <1>1, <1>2, <1>3
  DEF IInv, PaceInv, TaskInv, NetInv, QueueInv, CallsInv, FiltersInv, TypeOK
<1>5. AnsweredKept
  BY DEF IInv, CallsInv, CallInv, AnsweredKept
<1>6. NoOverlaps
  BY DEF IInv, FiltersInv, NoOverlaps
<1> QED BY <1>4, <1>5, <1>6

LEMMA InitIInv == Init => IInv
<1> SUFFICES ASSUME Init PROVE IInv
  OBVIOUS
<1>0. PaceInv
  <2>1. up = FALSE /\ backoff = ReconnectInitial /\ failures = 0
    BY DEF Init
  <2>2. /\ ReconnectInitial \in Nat /\ ReconnectMax \in Nat
        /\ ReconnectInitial <= ReconnectMax
    BY SessionAssumption
  <2>3. ReconnectInitial \in ReconnectInitial..ReconnectMax
    BY <2>2
  <2> QED BY <2>1, <2>3 DEF PaceInv
<1>1. TaskInv
  BY <1>0, NoFiltersShape DEF Init, TaskInv, Errors
<1>2. NetInv
  <2>1. MaxFaults \in Nat /\ faults = 0
    BY SessionAssumption DEF Init
  <2>2. toBroker = <<>> /\ toClient = <<>>
    BY DEF Init
  <2>3. toBroker \in Seq(Packets) /\ toClient \in Seq(Acks)
    BY <2>2, EmptySeq
  <2>4. faults \in 0..MaxFaults
    BY <2>1
  <2>5. /\ link = "down" /\ session = NoFilters /\ denied \subseteq Denied
        /\ unsure = FALSE
    BY DEF Init
  <2> QED BY <2>3, <2>4, <2>5, NoFiltersShape DEF NetInv
<1>3. QueueInv
  <2>1. waiters = <<>> /\ holder = NoCall
    BY DEF Init
  <2>2. waiters \in Seq(Calls) /\ DOMAIN waiters = {}
    BY <2>1, EmptySeq
  <2> QED BY <2>1, <2>2 DEF QueueInv
<1>4. ASSUME NEW c \in Calls PROVE CallInv(c, Idle, filters, holder)
  BY NoFiltersShape DEF CallInv, CallOK, Idle, Pending, Awaiting, QoSs
<1>5. CallsInv
  <2>1. call = [c \in Calls |-> Idle]
    BY DEF Init
  <2>2. call = [c \in Calls |-> call[c]] /\ \A c \in Calls : call[c] = Idle
    BY <2>1
  <2> QED BY <1>4, <2>2 DEF CallsInv
<1>6. FiltersInv
  BY NoFiltersShape, SessionAssumption DEF Init, FiltersInv
<1> QED BY <1>1, <1>2, <1>3, <1>5, <1>6 DEF IInv

-----------------------------------------------------------------------------
(***************************************************************************)
(* The steps of the broker task and of the network                         *)
(***************************************************************************)
LEMMA CallsUntouched ==
  ASSUME QueueInv, CallsInv, UNCHANGED <<filters, callVars>>
  PROVE  QueueInv' /\ CallsInv'
BY DEF QueueInv, CallsInv, CallInv, CallOK, callVars

LEMMA ResumesShape ==
  ASSUME NetInv, NEW from, Resumes(from)
  PROVE  toClient' \in Seq(Acks)
<1>1. toClient \in Seq(Acks)
  BY DEF NetInv
<1> QED BY <1>1, HeadTailProperties DEF Resumes

LEMMA PacketShape ==
  ASSUME NEW kind \in Kinds, NEW from \in Senders, NEW d, IsFilterDict(d)
  PROVE  Packet(kind, from, d) \in Packets
BY DictInSet DEF Packet, Packets

LEMMA SendShape ==
  ASSUME NetInv, NEW p \in Packets, Send(p)
  PROVE  toBroker' \in Seq(Packets)
<1>1. toBroker \in Seq(Packets)
  BY DEF NetInv
<1> QED BY <1>1, AppendProperties DEF Send

LEMMA OnePacket ==
  ASSUME NEW p \in Packets
  PROVE  <<p>> \in Seq(Packets)
OBVIOUS

LEMMA FaultShape ==
  ASSUME NetInv, Fault
  PROVE  faults' \in 0..MaxFaults
<1>1. MaxFaults \in Nat
  BY SessionAssumption
<1>2. faults \in 0..MaxFaults
  BY DEF NetInv
<1> QED BY <1>1, <1>2 DEF Fault

\* The sleep stays between the two constants, however often it is doubled.
LEMMA TaskStepPace ==
  ASSUME PaceInv, TaskStep
  PROVE  PaceInv'
<1>1. /\ ReconnectInitial \in Nat /\ ReconnectMax \in Nat
      /\ ReconnectInitial <= ReconnectMax
  BY SessionAssumption
<1>2. /\ up \in BOOLEAN /\ failures \in Nat /\ backoff \in Nat
      /\ ReconnectInitial <= backoff /\ backoff <= ReconnectMax
  BY <1>1 DEF PaceInv
<1>3. ReconnectInitial \in ReconnectInitial..ReconnectMax
  BY <1>1
<1>4. Doubled(backoff) \in ReconnectInitial..ReconnectMax
  BY <1>1, <1>2 DEF Doubled
<1>5. CASE Connect
  BY <1>1, <1>2, <1>5 DEF Connect, PaceInv
<1>6. CASE ConnectFails
  <2>1. UNCHANGED <<up, backoff>> /\ failures' = failures + 1
    BY <1>6 DEF ConnectFails
  <2> QED BY <1>1, <1>2, <2>1 DEF PaceInv
<1>7. CASE ServeGranted \/ ServeTimesOut
  BY <1>1, <1>2, <1>3, <1>7 DEF ServeGranted, ServeTimesOut, GoDown, pace, PaceInv
<1>8. CASE LinkLossNoticed \/ Closed
  BY <1>1, <1>2, <1>3, <1>8 DEF LinkLossNoticed, Closed, GoDown, End, PaceInv
<1>9. CASE BackoffElapses
  BY <1>1, <1>2, <1>4, <1>9 DEF BackoffElapses, PaceInv
<1>10. CASE Cancel
  BY <1>1, <1>2, <1>3, <1>10 DEF Cancel, GoDown, End, PaceInv
<1> QED BY <1>5, <1>6, <1>7, <1>8, <1>9, <1>10 DEF TaskStep

\* The task's own steps and variables: whatever run() does, its flags agree.
LEMMA TaskStepIInv ==
  ASSUME IInv, TaskStep
  PROVE  IInv'
<1> SUFFICES TaskInv' /\ NetInv' /\ FiltersInv' /\ UNCHANGED <<filters, callVars>>
  BY CallsUntouched DEF IInv
<1>1. TaskInv /\ NetInv /\ FiltersInv
  BY DEF IInv
<1>p. PaceInv'
  BY <1>1, TaskStepPace DEF TaskInv
<1>2. CASE Connect
  <2>1. IsFilterDict(wanted')
    BY <1>1, <1>2, SubscriptionsShape DEF Connect, FiltersInv
  <2>2. toBroker' \in Seq(Packets)
    <3>1. Packet("subscribe", Serve, wanted') \in Packets
      BY <2>1, PacketShape DEF Kinds, Senders
    <3>2. toBroker' = <<>> \/ toBroker' = <<Packet("subscribe", Serve, wanted')>>
      BY <1>2 DEF Connect
    <3> QED BY <3>1, <3>2, OnePacket, EmptySeq
  <2>3. TaskInv'
    <3>0. task' \in {"serving", "suback"}
      BY <1>2 DEF Connect
    <3>1. /\ connected' /\ everConnected' /\ contacted' /\ lastError' = ""
          /\ UNCHANGED cancelled
      BY <1>2 DEF Connect
    <3>2. reconnects' \in Nat
      <4>1. reconnects \in Nat
        BY <1>1 DEF TaskInv
      <4>2. reconnects' = IF everConnected THEN reconnects + 1 ELSE reconnects
        BY <1>2 DEF Connect
      <4> QED BY <4>1, <4>2
    <3> QED BY <1>1, <1>p, <2>1, <3>0, <3>1, <3>2 DEF TaskInv, Errors
  <2>4. NetInv'
    BY <1>1, <1>2, <2>2, NoFiltersShape DEF Connect, NetInv
  <2>5. FiltersInv'
    BY <1>1, <1>2, NoFiltersShape DEF Connect, FiltersInv
  <2> QED BY <1>2, <2>3, <2>4, <2>5 DEF Connect, callVars
<1>3. CASE ConnectFails
  <2>1. TaskInv'
    BY <1>1, <1>p, <1>3 DEF ConnectFails, TaskInv, Errors
  <2>2. NetInv'
    BY <1>1, <1>3, FaultShape DEF ConnectFails, NetInv, netVars
  <2> QED BY <1>1, <1>3, <2>1, <2>2 DEF ConnectFails, FiltersInv, callVars
<1>4. CASE ServeGranted
  <2>1. TaskInv'
    BY <1>1, <1>p, <1>4 DEF ServeGranted, TaskInv, flags
  <2>2. NetInv'
    BY <1>1, <1>4, ResumesShape DEF ServeGranted, NetInv
  <2>3. FiltersInv'
    BY <1>1, <1>4 DEF ServeGranted, FiltersInv, TaskInv
  <2> QED BY <1>4, <2>1, <2>2, <2>3 DEF ServeGranted, callVars
<1>5. CASE ServeTimesOut
  <2>1. TaskInv'
    BY <1>1, <1>p, <1>5 DEF ServeTimesOut, TaskInv, flags, GoDown, Errors
  <2>2. NetInv'
    BY <1>1, <1>5, FaultShape DEF ServeTimesOut, NetInv, netVars
  <2>3. FiltersInv'
    BY <1>1, <1>5, NoFiltersShape DEF ServeTimesOut, GoDown, FiltersInv
  <2> QED BY <1>5, <2>1, <2>2, <2>3 DEF ServeTimesOut, callVars
<1>6. CASE LinkLossNoticed
  <2>1. TaskInv'
    BY <1>1, <1>p, <1>6 DEF LinkLossNoticed, TaskInv, flags, GoDown, Errors
  <2>2. NetInv'
    BY <1>1, <1>6 DEF LinkLossNoticed, NetInv, netVars
  <2>3. FiltersInv'
    BY <1>1, <1>6, NoFiltersShape DEF LinkLossNoticed, GoDown, FiltersInv
  <2> QED BY <1>6, <2>1, <2>2, <2>3 DEF LinkLossNoticed, callVars
<1>7. CASE Closed
  <2>1. TaskInv'
    BY <1>1, <1>p, <1>7 DEF Closed, TaskInv, flags, GoDown, End, Errors
  <2>2. NetInv'
    BY <1>1, <1>7 DEF Closed, NetInv, netVars
  <2>3. FiltersInv'
    BY <1>1, <1>7, NoFiltersShape DEF Closed, GoDown, End, FiltersInv
  <2> QED BY <1>7, <2>1, <2>2, <2>3 DEF Closed, callVars
<1>8. CASE BackoffElapses
  <2>1. TaskInv'
    BY <1>1, <1>p, <1>8 DEF BackoffElapses, TaskInv, flags
  <2>2. NetInv'
    BY <1>1, <1>8 DEF BackoffElapses, NetInv, netVars
  <2> QED BY <1>1, <1>8, <2>1, <2>2 DEF BackoffElapses, FiltersInv, callVars
<1>9. CASE Cancel
  <2>1. TaskInv'
    BY <1>1, <1>p, <1>9 DEF Cancel, TaskInv, flags, GoDown, End, Errors
  <2>2. NetInv'
    BY <1>1, <1>9 DEF Cancel, NetInv, netVars
  <2>3. FiltersInv'
    BY <1>1, <1>9, NoFiltersShape DEF Cancel, GoDown, End, FiltersInv
  <2> QED BY <1>9, <2>1, <2>2, <2>3 DEF Cancel, callVars
<1> QED
  BY <1>2, <1>3, <1>4, <1>5, <1>6, <1>7, <1>8, <1>9 DEF TaskStep

LEMMA NetworkStepIInv ==
  ASSUME IInv, BrokerHandles \/ LinkDrops
  PROVE  IInv'
<1> SUFFICES TaskInv' /\ NetInv' /\ FiltersInv' /\ UNCHANGED <<filters, callVars>>
  BY CallsUntouched DEF IInv
<1>1. TaskInv /\ NetInv /\ FiltersInv
  BY DEF IInv
<1>2. UNCHANGED <<taskVars, filters, active, callVars>>
  BY DEF BrokerHandles, LinkDrops
<1>3. TaskInv' /\ FiltersInv'
  BY <1>1, <1>2 DEF TaskInv, PaceInv, FiltersInv, taskVars, flags, pace
<1>4. toBroker \in Seq(Packets) /\ toClient \in Seq(Acks)
  BY <1>1 DEF NetInv
<1>5. CASE BrokerHandles
  <2> DEFINE p       == Head(toBroker)
             refused == IF p.kind = "subscribe" THEN DOMAIN p.filters \cap denied ELSE {}
  <2>1. /\ p \in Packets /\ p.kind \in Kinds /\ p.from \in Senders
        /\ IsFilterDict(p.filters) /\ toBroker' \in Seq(Packets)
    <3>1. p \in Packets /\ toBroker' \in Seq(Packets)
      BY <1>4, <1>5, HeadTailProperties DEF BrokerHandles
    <3> QED BY <3>1 DEF Packets, FilterDicts
  <2>2. IsFilterDict(session')
    BY <1>1, <1>5, <2>1, MergeShape, WithoutShape DEF BrokerHandles, NetInv
  <2>3. Ack(p.kind, p.from, refused) \in Acks
    BY <1>1, <2>1 DEF Ack, Acks, NetInv
  <2>4. toClient' \in Seq(Acks)
    BY <1>4, <1>5, <2>3, AppendProperties DEF BrokerHandles
  <2>5. unsure' \in BOOLEAN
    BY <1>1, <1>5 DEF BrokerHandles, NetInv
  <2> QED BY <1>1, <1>2, <1>3, <1>5, <2>1, <2>2, <2>4, <2>5 DEF BrokerHandles, NetInv
<1>6. CASE LinkDrops
  <2>1. toClient' \in Seq(Acks)
    <3>1. PICK n \in 0..Len(toClient) : toClient' = SubSeq(toClient, 1, n)
      BY <1>6 DEF LinkDrops
    <3>2. \A i \in 1..n : toClient[i] \in Acks
      BY <1>4, <3>1, LenProperties
    <3> QED BY <3>1, <3>2, SubSeqProperties
  <2>2. toBroker' \in Seq(Packets) /\ IsFilterDict(session')
    BY <1>6, EmptySeq, NoFiltersShape DEF LinkDrops
  <2>3. faults' \in 0..MaxFaults
    BY <1>1, <1>6, FaultShape DEF LinkDrops, NetInv
  <2> QED BY <1>1, <1>2, <1>3, <1>6, <2>1, <2>2, <2>3 DEF LinkDrops, NetInv
<1> QED BY <1>5, <1>6

-----------------------------------------------------------------------------
(***************************************************************************)
(* The steps of the subscribe actions                                      *)
(***************************************************************************)
Grown == \A f \in DOMAIN filters : f \in DOMAIN filters' /\ filters'[f] >= filters[f]

\* A call that has the lock, or takes it, moves; the others wait for no answer.
LEMMA HolderMoves ==
  ASSUME FiltersInv, CallsInv, NEW c \in Calls, holder \in {c, NoCall}, NEW r,
         call' = [call EXCEPT ![c] = r], CallInv(c, r, filters', holder'),
         IsFilterDict(filters'), Grown
  PROVE  CallsInv'
<1>1. call' = [d \in Calls |-> call'[d]] /\ call'[c] = r
      /\ \A d \in Calls \ {c} : call'[d] = call[d]
  BY DEF CallsInv
<1>2. ASSUME NEW d \in Calls, d # c
      PROVE  CallInv(d, call[d], filters', holder')
  <2>1. CallInv(d, call[d], filters, holder) /\ holder # d
    BY <1>2, SessionAssumption DEF CallsInv
  <2>2. call[d].phase \notin Awaiting
    BY <2>1 DEF CallInv
  <2>3. ASSUME call[d].phase = "ok"
        PROVE  call[d].topic \in DOMAIN filters' /\ filters'[call[d].topic] >= call[d].qos
    <3> DEFINE t == call[d].topic
    <3>1. t \in DOMAIN filters /\ filters[t] >= call[d].qos
      BY <2>1, <2>3 DEF CallInv
    <3>2. t \in DOMAIN filters' /\ filters'[t] >= filters[t]
      BY <3>1 DEF Grown
    <3>3. filters[t] \in Int /\ filters'[t] \in Int /\ call[d].qos \in Int
      BY <2>1, <3>1, <3>2 DEF FiltersInv, IsFilterDict, CallInv, CallOK, QoSs
    <3> HIDE DEF t
    <3>4. filters'[t] >= call[d].qos
      BY <3>1, <3>2, <3>3
    <3> QED BY <3>2, <3>4 DEF t
  <2> QED BY <2>1, <2>2, <2>3 DEF CallInv, Awaiting
<1>3. \A d \in Calls : CallInv(d, call'[d], filters', holder')
  BY <1>1, <1>2
<1> QED BY <1>1, <1>3 DEF CallsInv

\* A call that leaves the lock and the filters alone moves.
LEMMA BystanderMoves ==
  ASSUME CallsInv, NEW c \in Calls, NEW r, call' = [call EXCEPT ![c] = r],
         UNCHANGED <<filters, holder>>, CallInv(c, r, filters, holder)
  PROVE  CallsInv'
<1>1. call' = [d \in Calls |-> call'[d]] /\ call'[c] = r
      /\ \A d \in Calls \ {c} : call'[d] = call[d]
  BY DEF CallsInv
<1>2. \A d \in Calls : CallInv(d, call'[d], filters, holder)
  BY <1>1 DEF CallsInv
<1>3. \A d \in Calls : CallInv(d, call'[d], filters', holder')
  BY <1>2
<1> QED BY <1>1, <1>3 DEF CallsInv

\* A call moves that is not in the queue, or no longer.
LEMMA QueueKept ==
  ASSUME QueueInv, NEW c \in Calls, NEW r, call' = [call EXCEPT ![c] = r],
         call = [d \in Calls |-> call[d]],
         call[c].phase # "queued", waiters' = waiters, holder' \in {c, NoCall, holder}
  PROVE  QueueInv'
<1>1. waiters \in Seq(Calls)
  BY DEF QueueInv
<1>2. \A i \in DOMAIN waiters : waiters[i] \in Calls /\ waiters[i] # c
  <2>1. \A i \in DOMAIN waiters : waiters[i] \in Calls
    BY <1>1
  <2>2. \A i \in DOMAIN waiters : waiters[i] # c
    BY DEF QueueInv
  <2> QED BY <2>1, <2>2
<1>3. \A i \in DOMAIN waiters : call'[waiters[i]] = call[waiters[i]]
  BY <1>2
<1>4. \A i \in DOMAIN waiters' : call'[waiters'[i]].phase = "queued"
  BY <1>3 DEF QueueInv
<1>5. \A i, j \in DOMAIN waiters' : waiters'[i] = waiters'[j] => i = j
  BY DEF QueueInv
<1>6. holder' \in Calls \cup {NoCall} /\ waiters' \in Seq(Calls)
  BY <1>1 DEF QueueInv
<1> QED BY <1>4, <1>5, <1>6 DEF QueueInv

\* self._subscribing is taken by the first in the queue.
LEMMA QueueServed ==
  ASSUME QueueInv, NEW c \in Calls, NEW r, call' = [call EXCEPT ![c] = r],
         call = [d \in Calls |-> call[d]],
         waiters # <<>>, c = Head(waiters), waiters' = Tail(waiters),
         holder' \in {c, NoCall}
  PROVE  QueueInv'
<1>1. waiters \in Seq(Calls)
  BY DEF QueueInv
<1>2. /\ waiters' \in Seq(Calls) /\ Len(waiters') = Len(waiters) - 1
      /\ \A i \in 1..Len(waiters') : waiters'[i] = waiters[i + 1]
      /\ Len(waiters) \in Nat \ {0}
  BY <1>1, HeadTailProperties, EmptySeq
<1>3. DOMAIN waiters = 1..Len(waiters) /\ DOMAIN waiters' = 1..Len(waiters')
  BY <1>1, <1>2, LenProperties
<1>4. c = waiters[1]
  BY <1>1
<1>5. ASSUME NEW i \in DOMAIN waiters'
      PROVE  waiters'[i] # c /\ i + 1 \in DOMAIN waiters /\ waiters'[i] = waiters[i + 1]
  <2>1. i + 1 \in DOMAIN waiters /\ 1 \in DOMAIN waiters /\ i + 1 # 1
    BY <1>2, <1>3
  <2> QED BY <1>2, <1>3, <1>4, <2>1 DEF QueueInv
<1>6. \A i \in DOMAIN waiters' : call'[waiters'[i]].phase = "queued"
  <2>1. \A i \in DOMAIN waiters' : waiters'[i] \in Calls
    BY <1>2, <1>3
  <2>2. \A i \in DOMAIN waiters' : call'[waiters'[i]] = call[waiters'[i]]
    BY <1>5, <2>1
  <2>3. ASSUME NEW i \in DOMAIN waiters' PROVE call[waiters'[i]].phase = "queued"
    <3>1. call[waiters[i + 1]].phase = "queued"
      BY <1>5 DEF QueueInv
    <3> QED BY <1>5, <3>1
  <2> QED BY <2>2, <2>3
<1>7. \A i, j \in DOMAIN waiters' : waiters'[i] = waiters'[j] => i = j
  <2> SUFFICES ASSUME NEW i \in DOMAIN waiters', NEW j \in DOMAIN waiters',
                      waiters'[i] = waiters'[j]
               PROVE  i = j
    OBVIOUS
  <2>1. i + 1 = j + 1
    BY <1>5 DEF QueueInv
  <2> QED BY <1>3, <2>1
<1> QED BY <1>2, <1>6, <1>7 DEF QueueInv

LEMMA RemoveAtShape ==
  ASSUME NEW S, NEW s \in Seq(S), NEW k \in 1..Len(s)
  PROVE  /\ RemoveAt(s, k) \in Seq(S)
         /\ Len(RemoveAt(s, k)) = Len(s) - 1
         /\ \A i \in 1..(Len(s) - 1) :
               RemoveAt(s, k)[i] = IF i < k THEN s[i] ELSE s[i + 1]
<1> DEFINE a == SubSeq(s, 1, k - 1)
           b == SubSeq(s, k + 1, Len(s))
<1>1. Len(s) \in Nat /\ \A i \in 1..Len(s) : s[i] \in S
  BY LenProperties, ElementOfSeq
<1>2. /\ a \in Seq(S) /\ Len(a) = k - 1
      /\ \A i \in 1..(k - 1) : a[i] = s[i]
  BY <1>1, SubSeqProperties
<1>3. /\ b \in Seq(S) /\ Len(b) = Len(s) - k
      /\ \A i \in 1..(Len(s) - k) : b[i] = s[k + i]
  BY <1>1, SubSeqProperties
<1> HIDE DEF a, b
<1>4. /\ a \o b \in Seq(S) /\ Len(a \o b) = Len(a) + Len(b)
      /\ \A i \in 1..(Len(a) + Len(b)) : (a \o b)[i] = IF i <= Len(a) THEN a[i] ELSE b[i - Len(a)]
  BY <1>2, <1>3, ConcatProperties
<1>5. RemoveAt(s, k) = a \o b
  BY DEF RemoveAt, a, b
<1>6. ASSUME NEW i \in 1..(Len(s) - 1)
      PROVE  (a \o b)[i] = IF i < k THEN s[i] ELSE s[i + 1]
  <2>1. CASE i < k
    BY <1>1, <1>2, <1>3, <1>4, <2>1
  <2>2. CASE i >= k
    <3>1. i - (k - 1) \in 1..(Len(s) - k) /\ i > Len(a) /\ i \in 1..(Len(a) + Len(b))
      BY <1>1, <1>2, <1>3, <2>2
    <3>2. (a \o b)[i] = b[i - (k - 1)]
      BY <1>2, <1>4, <3>1
    <3>3. b[i - (k - 1)] = s[i + 1]
      BY <1>1, <1>3, <3>1
    <3> QED BY <2>2, <3>2, <3>3
  <2>3. i < k \/ i >= k
    BY <1>1
  <2> QED BY <2>1, <2>2, <2>3
<1>7. Len(a \o b) = Len(s) - 1
  BY <1>1, <1>2, <1>3, <1>4
<1> QED BY <1>4, <1>5, <1>6, <1>7

\* A call is cancelled in the queue.
LEMMA QueueLeft ==
  ASSUME QueueInv, NEW c \in Calls, NEW r, call' = [call EXCEPT ![c] = r],
         call = [d \in Calls |-> call[d]],
         NEW k \in DOMAIN waiters, waiters[k] = c, waiters' = RemoveAt(waiters, k),
         UNCHANGED holder
  PROVE  QueueInv'
<1>1. waiters \in Seq(Calls) /\ DOMAIN waiters = 1..Len(waiters) /\ Len(waiters) \in Nat
  BY LenProperties DEF QueueInv
<1>2. /\ waiters' \in Seq(Calls) /\ Len(waiters') = Len(waiters) - 1
      /\ \A i \in 1..(Len(waiters) - 1) :
            waiters'[i] = IF i < k THEN waiters[i] ELSE waiters[i + 1]
  BY <1>1, RemoveAtShape
<1>3. DOMAIN waiters' = 1..(Len(waiters) - 1)
  BY <1>2, LenProperties
<1> DEFINE was(i) == IF i < k THEN i ELSE i + 1
<1>4. ASSUME NEW i \in DOMAIN waiters'
      PROVE  was(i) \in DOMAIN waiters /\ was(i) # k /\ waiters'[i] = waiters[was(i)]
  BY <1>1, <1>2, <1>3
<1>5. ASSUME NEW i \in DOMAIN waiters'
      PROVE  call'[waiters'[i]].phase = "queued"
  <2>1. waiters[was(i)] \in Calls
    BY <1>1, <1>4
  <2>2. waiters[was(i)] # c
    BY <1>4 DEF QueueInv
  <2>3. call[waiters[was(i)]].phase = "queued"
    BY <1>4 DEF QueueInv
  <2>4. waiters'[i] = waiters[was(i)]
    BY <1>4
  <2> HIDE DEF was
  <2>5. call'[waiters[was(i)]] = call[waiters[was(i)]]
    BY <2>1, <2>2
  <2> QED BY <2>3, <2>4, <2>5
<1>6. ASSUME NEW i \in DOMAIN waiters', NEW j \in DOMAIN waiters', waiters'[i] = waiters'[j]
      PROVE  i = j
  <2>1. was(i) = was(j)
    <3> HIDE DEF was
    <3> QED BY <1>4, <1>6 DEF QueueInv
  <2>2. i \in Int /\ j \in Int /\ k \in Int
    BY <1>1, <1>3
  <2> QED BY <2>1, <2>2
<1>7. holder' \in Calls \cup {NoCall}
  BY DEF QueueInv
<1> QED BY <1>2, <1>5, <1>6, <1>7 DEF QueueInv

\* A call's record after it has moved.
Phases == {"idle", "ok", "error"} \cup Pending

Moved(r, p, w, n) == [r EXCEPT !.phase = p, !.want = w, !.new = n]

LEMMA CallMoved ==
  ASSUME NEW r, CallOK(r), NEW p \in Phases,
         NEW w, IsFilterDict(w), NEW n, IsFilterDict(n)
  PROVE  /\ CallOK(Moved(r, p, w, n))
         /\ Moved(r, p, w, n).phase = p /\ Moved(r, p, w, n).want = w
         /\ Moved(r, p, w, n).topic = r.topic /\ Moved(r, p, w, n).qos = r.qos
<1> DEFINE s  == Moved(r, p, w, n)
           RS == [phase : Phases, topic : {r.topic},
                  qos : QoSs, want : FilterDicts, new : FilterDicts]
<1>1. r \in RS
  <2>1. r.want \in FilterDicts /\ r.new \in FilterDicts
    BY DictInSet DEF CallOK
  <2>2. r = [phase |-> r.phase, topic |-> r.topic, qos |-> r.qos,
             want |-> r.want, new |-> r.new]
    BY DEF CallOK
  <2>3. r.phase \in Phases /\ r.qos \in QoSs
    BY DEF CallOK, Phases
  <2> QED BY <2>1, <2>2, <2>3
<1>2. w \in FilterDicts /\ n \in FilterDicts
  BY DictInSet
<1>3. s \in RS
  BY <1>1, <1>2 DEF Moved
<1>4. s.phase = p /\ s.topic = r.topic /\ s.qos = r.qos /\ s.want = w /\ s.new = n
  BY <1>1 DEF Moved
<1> HIDE DEF s
<1>5. s = [phase |-> s.phase, topic |-> s.topic, qos |-> s.qos,
           want |-> s.want, new |-> s.new]
  BY <1>3
<1>6. CallOK(s)
  BY <1>2, <1>4, <1>5 DEF CallOK, Phases
<1> QED BY <1>4, <1>6 DEF s

\* What is recorded is what the lock has kept: the filters with the call's own.
LEMMA RecordsShape ==
  ASSUME NetInv, FiltersInv, NEW c \in Calls, CallOK(call[c]), IsFilter(call[c].topic),
         NEW want, want = WithFilter(filters, call[c].topic, call[c].qos),
         ~Overlapping(DOMAIN want), NEW new, IsFilterDict(new), Records(c, want, new)
  PROVE  /\ FiltersInv' /\ Grown /\ toBroker' \in Seq(Packets)
         /\ filters' = want /\ holder' \in {c, NoCall}
         /\ \E r : /\ call' = [call EXCEPT ![c] = r]
                   /\ CallInv(c, r, filters', holder')
                   /\ r.phase \in {"ok", "unsuback"}
                   /\ r.topic = call[c].topic /\ r.qos = call[c].qos
<1> DEFINE subs == Subscriptions(want)
           held == Merge(active, new)
           gone == DOMAIN held \ DOMAIN subs
           ok   == Moved(call[c], "ok", NoFilters, NoFilters)
           un   == Moved(call[c], "unsuback", want, NoFilters)
<1>1. /\ IsFilterDict(want) /\ filters' = want /\ Grown
      /\ call[c].topic \in DOMAIN want /\ want[call[c].topic] >= call[c].qos
  BY WithFilterShape DEF Records, FiltersInv, CallOK, Grown
<1>2. IsFilterDict(subs) /\ IsFilterDict(held) /\ IsFilterDict([f \in gone |-> 0])
  BY <1>1, SubscriptionsShape, MergeShape, GoneShape DEF FiltersInv
<1>3. CASE gone = {}
  <2>1. /\ active' = subs /\ call' = [call EXCEPT ![c] = ok] /\ holder' = NoCall
        /\ UNCHANGED toBroker
    BY <1>3 DEF Records, Ends, Moved
  <2>2. CallOK(ok) /\ ok.phase = "ok" /\ ok.topic = call[c].topic /\ ok.qos = call[c].qos
    <3>1. "ok" \in Phases
      BY DEF Phases
    <3> QED BY <3>1, CallMoved, NoFiltersShape
  <2> HIDE DEF ok, subs, held, gone
  <2>3. CallInv(c, ok, filters', holder')
    BY <1>1, <2>2 DEF CallInv, Awaiting
  <2>4. FiltersInv'
    BY <1>1, <1>2, <2>1 DEF FiltersInv
  <2> QED BY <1>1, <2>1, <2>2, <2>3, <2>4 DEF NetInv
<1>4. CASE gone # {}
  <2>1. /\ active' = held /\ call' = [call EXCEPT ![c] = un] /\ holder' = c
        /\ Send(Packet("unsubscribe", c, [f \in gone |-> 0]))
    BY <1>4 DEF Records, Waits, Moved
  <2>2. /\ CallOK(un) /\ un.phase = "unsuback" /\ un.topic = call[c].topic
        /\ un.qos = call[c].qos /\ un.want = want
    <3>1. "unsuback" \in Phases
      BY DEF Phases, Pending, Awaiting
    <3> QED BY <1>1, <3>1, CallMoved, NoFiltersShape
  <2> HIDE DEF un, subs, held, gone
  <2>3. CallInv(c, un, filters', holder')
    BY <1>1, <2>1, <2>2 DEF CallInv, Awaiting
  <2>4. FiltersInv'
    BY <1>1, <1>2, <2>1 DEF FiltersInv
  <2>5. toBroker' \in Seq(Packets)
    BY <1>2, <2>1, PacketShape, SendShape DEF Kinds, Senders
  <2> QED BY <1>1, <2>1, <2>2, <2>3, <2>4, <2>5
<1> QED BY <1>3, <1>4

\* A call that ends, with its filters recorded or without, has released the lock.
LEMMA EndsShape ==
  ASSUME CallsInv, NEW c \in Calls, call[c].phase # "idle", NEW p \in {"ok", "error"},
         Ends(c, p), UNCHANGED filters,
         p = "ok" => call[c].topic \in DOMAIN filters /\ filters[call[c].topic] >= call[c].qos
  PROVE  \E r : /\ call' = [call EXCEPT ![c] = r]
               /\ CallInv(c, r, filters', holder')
               /\ r.phase = p /\ r.topic = call[c].topic /\ r.qos = call[c].qos
<1> DEFINE r == Moved(call[c], p, NoFilters, NoFilters)
<1>1. call' = [call EXCEPT ![c] = r]
  BY DEF Ends, Moved
<1>2. CallOK(call[c]) /\ IsFilter(call[c].topic)
  BY DEF CallsInv, CallInv
<1>3. CallOK(r) /\ r.phase = p /\ r.topic = call[c].topic /\ r.qos = call[c].qos
  <2>1. p \in Phases
    BY DEF Phases
  <2> QED BY <1>2, <2>1, CallMoved, NoFiltersShape
<1> HIDE DEF r
<1>4. CallInv(c, r, filters', holder')
  BY <1>2, <1>3 DEF CallInv, Awaiting
<1> QED BY <1>1, <1>3, <1>4

LEMMA TaskUntouched ==
  ASSUME TaskInv, UNCHANGED taskVars
  PROVE  TaskInv'
BY DEF TaskInv, PaceInv, taskVars, flags, pace

LEMMA GrownRefl ==
  ASSUME FiltersInv, UNCHANGED filters
  PROVE  Grown
BY DEF FiltersInv, IsFilterDict, Grown, QoSs

LEMMA StartsIInv ==
  ASSUME IInv, NEW c \in Calls, CallStarts(c)
  PROVE  IInv' /\ UNCHANGED filters
<1>1. PICK r \in Requests :
         call' = [call EXCEPT ![c] = [Idle EXCEPT !.phase = "queued",
                                                  !.topic = r.topic, !.qos = r.qos]]
  BY DEF CallStarts
<1> DEFINE s == [Idle EXCEPT !.phase = "queued", !.topic = r.topic, !.qos = r.qos]
<1>2. CallInv(c, s, filters, holder)
  <2>1. s = [phase |-> "queued", topic |-> r.topic, qos |-> r.qos,
             want |-> NoFilters, new |-> NoFilters]
    <3>1. s \in [phase : {"queued"}, topic : {r.topic}, qos : {r.qos},
                 want : {NoFilters}, new : {NoFilters}]
      BY DEF Idle
    <3> HIDE DEF s
    <3> QED BY <3>1
  <2>2. IsFilter(r.topic) /\ r.qos \in QoSs
    BY SessionAssumption
  <2> HIDE DEF s
  <2> QED BY <2>1, <2>2, NoFiltersShape DEF CallInv, CallOK, Pending, Awaiting
<1>3. /\ UNCHANGED <<taskVars, filters, active, holder, netVars, faults, unsure>>
      /\ call[c].phase = "idle" /\ waiters' = Append(waiters, c)
  BY DEF CallStarts
<1>4. CallsInv'
  <2> HIDE DEF s
  <2> QED BY <1>1, <1>2, <1>3, BystanderMoves DEF IInv, s
<1>5. QueueInv'
  <2>1. /\ waiters \in Seq(Calls) /\ DOMAIN waiters = 1..Len(waiters)
        /\ Len(waiters) \in Nat
    BY LenProperties DEF IInv, QueueInv
  <2>2. /\ waiters' \in Seq(Calls) /\ Len(waiters') = Len(waiters) + 1
        /\ \A i \in DOMAIN waiters : waiters'[i] = waiters[i]
        /\ waiters'[Len(waiters) + 1] = c
    BY <1>3, <2>1, AppendProperties
  <2>3. DOMAIN waiters' = 1..(Len(waiters) + 1)
    BY <2>2, LenProperties
  <2>30. call = [d \in Calls |-> call[d]]
    BY DEF IInv, CallsInv
  <2>4. \A d \in Calls : d # c => call'[d] = call[d]
    BY <1>1, <2>30
  <2>5. call'[c] = s
    BY <1>1, <2>30
  <2>6. s.phase = "queued"
    BY DEF Idle
  <2>7. \A i \in DOMAIN waiters : waiters[i] # c /\ waiters[i] \in Calls
    <3>1. \A i \in DOMAIN waiters : waiters[i] # c
      BY <1>3 DEF IInv, QueueInv
    <3>2. \A i \in DOMAIN waiters : waiters[i] \in Calls
      BY <2>1
    <3> QED BY <3>1, <3>2
  <2>8. ASSUME NEW i \in DOMAIN waiters'
        PROVE  \/ i \in DOMAIN waiters /\ waiters'[i] = waiters[i] /\ waiters'[i] # c
               \/ i = Len(waiters) + 1 /\ waiters'[i] = c
    <3>1. i \in 1..Len(waiters) \/ i = Len(waiters) + 1
      BY <2>1, <2>3
    <3>2. CASE i \in 1..Len(waiters)
      <4>1. i \in DOMAIN waiters
        BY <2>1, <3>2
      <4> QED BY <2>2, <2>7, <4>1
    <3>3. CASE i = Len(waiters) + 1
      BY <2>2, <3>3
    <3> QED BY <3>1, <3>2, <3>3
  <2>9. ASSUME NEW i \in DOMAIN waiters'
        PROVE  call'[waiters'[i]].phase = "queued"
    <3>1. CASE i \in DOMAIN waiters
      <4>1. waiters[i] \in Calls /\ waiters[i] # c /\ waiters'[i] = waiters[i]
        BY <2>2, <2>7, <3>1
      <4>2. call[waiters[i]].phase = "queued"
        BY <3>1 DEF IInv, QueueInv
      <4> QED BY <2>4, <4>1, <4>2
    <3>2. CASE i \notin DOMAIN waiters
      BY <2>5, <2>6, <2>8, <3>2
    <3> QED BY <3>1, <3>2
  <2>10. ASSUME NEW i \in DOMAIN waiters', NEW j \in DOMAIN waiters', waiters'[i] = waiters'[j]
         PROVE  i = j
    BY <2>8, <2>10 DEF IInv, QueueInv
  <2>11. holder' \in Calls \cup {NoCall}
    BY <1>3 DEF IInv, QueueInv
  <2> QED BY <2>2, <2>9, <2>10, <2>11 DEF QueueInv
<1>6. TaskInv'
  BY <1>3, TaskUntouched DEF IInv
<1>7. NetInv' /\ FiltersInv'
  BY <1>3 DEF IInv, NetInv, netVars, FiltersInv
<1> QED BY <1>3, <1>4, <1>5, <1>6, <1>7 DEF IInv

LEMMA EntersIInv ==
  ASSUME IInv, NEW c \in Calls, CallEnters(c)
  PROVE  IInv' /\ Grown
<1> DEFINE want == WithFilter(filters, call[c].topic, call[c].qos)
           new  == ToSubscribe(Subscriptions(want))
<1>1. TaskInv /\ NetInv /\ QueueInv /\ CallsInv /\ FiltersInv
  BY DEF IInv
<1>2. /\ holder = NoCall /\ waiters # <<>> /\ c = Head(waiters) /\ waiters' = Tail(waiters)
      /\ UNCHANGED <<taskVars, link, toClient, session, denied, faults, unsure>>
  BY DEF CallEnters
<1>3. call[c].phase = "queued"
  <2>1. waiters \in Seq(Calls)
    BY <1>1 DEF QueueInv
  <2>2. 1 \in DOMAIN waiters /\ waiters[1] = c
    BY <1>2, <2>1, EmptySeq, LenProperties
  <2> QED BY <1>1, <2>2 DEF QueueInv
<1>4. CallOK(call[c]) /\ IsFilter(call[c].topic) /\ call[c].qos \in QoSs
  BY <1>1, <1>3 DEF CallsInv, CallInv, CallOK
<1>5. IsFilterDict(want) /\ IsFilterDict(new)
  BY <1>1, <1>4, WithFilterShape, ToSubscribeShape DEF FiltersInv
<1>6. /\ FiltersInv' /\ Grown /\ toBroker' \in Seq(Packets) /\ holder' \in {c, NoCall}
      /\ \E r : call' = [call EXCEPT ![c] = r] /\ CallInv(c, r, filters', holder')
  <2>1. CASE Refuses(want)
    <3>1. Ends(c, "error") /\ UNCHANGED <<filters, active, toBroker>>
      BY <2>1 DEF CallEnters
    <3>2. FiltersInv' /\ Grown /\ toBroker' \in Seq(Packets)
      BY <1>1, <3>1, GrownRefl DEF FiltersInv, NetInv
    <3>3. holder' = NoCall
      BY <3>1 DEF Ends
    <3> QED BY <1>1, <1>3, <3>1, <3>2, <3>3, EndsShape
  <2>2. CASE ~Refuses(want) /\ DOMAIN new = {}
    <3>1. Records(c, want, new) /\ ~Overlapping(DOMAIN want)
      BY <2>2 DEF CallEnters, Refuses
    <3> HIDE DEF want, new
    <3>2. want = WithFilter(filters, call[c].topic, call[c].qos)
      BY DEF want
    <3> QED BY <1>1, <1>4, <1>5, <3>1, <3>2, RecordsShape
  <2>3. CASE ~Refuses(want) /\ DOMAIN new # {}
    <3> DEFINE r == Moved(call[c], "suback", want, new)
    <3>1. /\ Waits(c, "suback", want, new) /\ Send(Packet("subscribe", c, new))
          /\ UNCHANGED <<filters, active>> /\ ~Overlapping(DOMAIN want)
      BY <2>3 DEF CallEnters, Refuses
    <3>2. call' = [call EXCEPT ![c] = r] /\ holder' = c
      BY <3>1 DEF Waits, Moved
    <3> HIDE DEF new
    <3>3. /\ CallOK(r) /\ r.phase = "suback" /\ r.want = want
          /\ r.topic = call[c].topic /\ r.qos = call[c].qos
      <4>1. "suback" \in Phases
        BY DEF Phases, Pending, Awaiting
      <4> QED BY <1>4, <1>5, <4>1, CallMoved
    <3> HIDE DEF r
    <3>4. CallInv(c, r, filters', holder')
      BY <1>4, <3>1, <3>2, <3>3 DEF CallInv, Awaiting
    <3>5. toBroker' \in Seq(Packets)
      BY <1>1, <1>5, <3>1, PacketShape, SendShape DEF Kinds, Senders
    <3>6. FiltersInv' /\ Grown
      BY <1>1, <3>1, GrownRefl DEF FiltersInv
    <3> QED BY <3>2, <3>4, <3>5, <3>6
  <2> QED BY <2>1, <2>2, <2>3
<1>7. CallsInv'
  BY <1>1, <1>2, <1>6, HolderMoves DEF FiltersInv
<1>8. QueueInv'
  <2>1. call = [d \in Calls |-> call[d]]
    BY <1>1 DEF CallsInv
  <2> QED BY <1>1, <1>2, <1>6, <2>1, QueueServed
<1>9. TaskInv' /\ NetInv'
  BY <1>1, <1>2, <1>6, TaskUntouched DEF NetInv
<1> QED BY <1>6, <1>7, <1>8, <1>9 DEF IInv

\* A call in a state other than "queued" and "idle" moves, the lock its own.
LEMMA AwakeIInv ==
  ASSUME IInv, NEW c \in Calls, holder = c, call[c].phase \in Awaiting,
         UNCHANGED <<taskVars, waiters>>, NetInv', FiltersInv', Grown,
         holder' \in {c, NoCall},
         NEW r, call' = [call EXCEPT ![c] = r], CallInv(c, r, filters', holder')
  PROVE  IInv'
<1>1. TaskInv /\ NetInv /\ QueueInv /\ CallsInv /\ FiltersInv
  BY DEF IInv
<1>2. CallsInv'
  BY <1>1, HolderMoves DEF FiltersInv
<1>3. QueueInv'
  <2>1. call = [d \in Calls |-> call[d]] /\ call[c].phase # "queued"
    BY <1>1 DEF CallsInv, Awaiting
  <2> QED BY <1>1, <2>1, QueueKept
<1> QED BY <1>1, <1>2, <1>3, TaskUntouched DEF IInv

\* The holder of the lock is the one who waits for the broker.
LEMMA AwaitingHolds ==
  ASSUME IInv, NEW c \in Calls, call[c].phase \in Awaiting
  PROVE  /\ holder = c /\ call[c].phase # "idle"
         /\ CallOK(call[c]) /\ IsFilter(call[c].topic)
         /\ CallInv(c, call[c], filters, holder)
BY DEF IInv, CallsInv, CallInv, Awaiting

LEMMA NothingMovesIInv ==
  ASSUME IInv, UNCHANGED <<taskVars, filters, active, callVars>>, NetInv'
  PROVE  IInv' /\ Grown
<1>1. TaskInv /\ NetInv /\ QueueInv /\ CallsInv /\ FiltersInv
  BY DEF IInv
<1>2. FiltersInv' /\ Grown
  BY <1>1, GrownRefl DEF FiltersInv
<1> QED BY <1>1, <1>2, TaskUntouched, CallsUntouched DEF IInv

LEMMA GrantedIInv ==
  ASSUME IInv, NEW c \in Calls, CallGranted(c)
  PROVE  IInv' /\ Grown
<1>1. TaskInv /\ NetInv /\ QueueInv /\ CallsInv /\ FiltersInv
  BY DEF IInv
<1>2. /\ UNCHANGED <<taskVars, waiters, link, session, denied, faults, unsure>>
      /\ Resumes(c)
  BY DEF CallGranted
<1>3. toClient' \in Seq(Acks)
  BY <1>1, <1>2, ResumesShape
<1>4. CASE call[c].phase # "suback"
  <2>1. UNCHANGED <<filters, active, call, holder, toBroker>>
    BY <1>4 DEF CallGranted
  <2>2. NetInv'
    BY <1>1, <1>2, <1>3, <2>1 DEF NetInv
  <2> QED BY <1>2, <2>1, <2>2, NothingMovesIInv DEF callVars
<1>5. CASE call[c].phase = "suback"
  <2>1. /\ holder = c /\ call[c].phase \in Awaiting /\ call[c].phase # "idle"
        /\ CallOK(call[c]) /\ IsFilter(call[c].topic)
        /\ call[c].want = WithFilter(filters, call[c].topic, call[c].qos)
        /\ ~Overlapping(DOMAIN call[c].want) /\ IsFilterDict(call[c].new)
    BY <1>5, AwaitingHolds DEF Awaiting, CallInv, CallOK
  <2>2. CASE Head(toClient).refused # {}
    <3>1. Ends(c, "error") /\ UNCHANGED <<filters, active, toBroker>>
      BY <1>5, <2>2 DEF CallGranted
    <3>2. NetInv' /\ FiltersInv' /\ Grown
      BY <1>1, <1>2, <1>3, <3>1, GrownRefl DEF NetInv, FiltersInv
    <3>3. holder' = NoCall
      BY <3>1 DEF Ends
    <3>4. PICK r : call' = [call EXCEPT ![c] = r] /\ CallInv(c, r, filters', holder')
      BY <1>1, <2>1, <3>1, EndsShape
    <3> QED BY <1>2, <2>1, <3>2, <3>3, <3>4, AwakeIInv
  <2>3. CASE Head(toClient).refused = {}
    <3>1. Records(c, call[c].want, call[c].new)
      BY <1>5, <2>3 DEF CallGranted
    <3>2. /\ FiltersInv' /\ Grown /\ toBroker' \in Seq(Packets) /\ holder' \in {c, NoCall}
          /\ \E r : call' = [call EXCEPT ![c] = r] /\ CallInv(c, r, filters', holder')
      BY <1>1, <2>1, <3>1, RecordsShape
    <3>3. NetInv'
      BY <1>1, <1>2, <1>3, <3>2 DEF NetInv
    <3> QED BY <1>2, <2>1, <3>2, <3>3, AwakeIInv
  <2> QED BY <2>2, <2>3
<1> QED BY <1>4, <1>5

LEMMA DroppedIInv ==
  ASSUME IInv, NEW c \in Calls, CallDropped(c)
  PROVE  IInv' /\ Grown
<1>1. TaskInv /\ NetInv /\ QueueInv /\ CallsInv /\ FiltersInv
  BY DEF IInv
<1>2. /\ UNCHANGED <<taskVars, filters, waiters, link, toBroker, session, denied, faults, unsure>>
      /\ Resumes(c)
  BY DEF CallDropped
<1>3. NetInv'
  <2>1. toClient' \in Seq(Acks)
    BY <1>1, <1>2, ResumesShape
  <2> QED BY <1>1, <1>2, <2>1 DEF NetInv
<1>4. CASE call[c].phase # "unsuback"
  <2>1. UNCHANGED <<active, call, holder>>
    BY <1>4 DEF CallDropped
  <2> QED BY <1>2, <1>3, <2>1, NothingMovesIInv DEF callVars
<1>5. CASE call[c].phase = "unsuback"
  <2>1. /\ holder = c /\ call[c].phase \in Awaiting /\ call[c].phase # "idle"
        /\ IsFilterDict(call[c].want)
        /\ call[c].topic \in DOMAIN filters /\ filters[call[c].topic] >= call[c].qos
    BY <1>5, AwaitingHolds DEF Awaiting, CallInv, CallOK
  <2>2. active' = Subscriptions(call[c].want) /\ Ends(c, "ok")
    BY <1>5 DEF CallDropped
  <2>3. FiltersInv' /\ Grown
    BY <1>1, <1>2, <2>1, <2>2, SubscriptionsShape, GrownRefl DEF FiltersInv
  <2>4. holder' = NoCall
    BY <2>2 DEF Ends
  <2>5. PICK r : call' = [call EXCEPT ![c] = r] /\ CallInv(c, r, filters', holder')
    BY <1>1, <1>2, <2>1, <2>2, EndsShape
  <2> QED BY <1>2, <1>3, <2>1, <2>3, <2>4, <2>5, AwakeIInv
<1> QED BY <1>4, <1>5

LEMMA GivesUpIInv ==
  ASSUME IInv, NEW c \in Calls, CallGivesUp(c)
  PROVE  IInv' /\ Grown
<1>1. TaskInv /\ NetInv /\ QueueInv /\ CallsInv /\ FiltersInv
  BY DEF IInv
<1>2. /\ UNCHANGED <<taskVars, filters, active, waiters, netVars, faults>>
      /\ unsure' = TRUE /\ call[c].phase \in Awaiting /\ Ends(c, "error")
  BY DEF CallGivesUp
<1>3. NetInv' /\ FiltersInv' /\ Grown
  BY <1>1, <1>2, GrownRefl DEF NetInv, netVars, FiltersInv
<1>4. holder = c /\ call[c].phase # "idle"
  BY <1>2, AwaitingHolds
<1>5. holder' = NoCall
  BY <1>2 DEF Ends
<1>6. PICK r : call' = [call EXCEPT ![c] = r] /\ CallInv(c, r, filters', holder')
  BY <1>1, <1>2, <1>4, EndsShape
<1> QED BY <1>2, <1>3, <1>4, <1>5, <1>6, AwakeIInv

LEMMA LeavesIInv ==
  ASSUME IInv, NEW c \in Calls, CallLeavesQueue(c)
  PROVE  IInv' /\ UNCHANGED filters
<1>1. TaskInv /\ NetInv /\ QueueInv /\ CallsInv /\ FiltersInv
  BY DEF IInv
<1>2. /\ UNCHANGED <<taskVars, filters, active, holder, netVars, faults, unsure>>
      /\ call[c].phase = "queued" /\ call' = [call EXCEPT ![c].phase = "error"]
  BY DEF CallLeavesQueue
<1>3. PICK k \in DOMAIN waiters : waiters[k] = c /\ waiters' = RemoveAt(waiters, k)
  BY DEF CallLeavesQueue
<1> DEFINE r == [call[c] EXCEPT !.phase = "error"]
<1>4. call' = [call EXCEPT ![c] = r]
  BY <1>2
<1>5. CallOK(call[c]) /\ IsFilter(call[c].topic)
  BY <1>1, <1>2 DEF CallsInv, CallInv
<1>6. CallOK(r) /\ r.phase = "error" /\ r.topic = call[c].topic
  <2> DEFINE RS == [phase : Phases, topic : {call[c].topic}, qos : QoSs,
                    want : FilterDicts, new : FilterDicts]
  <2>1. call[c] \in RS
    <3>1. call[c].want \in FilterDicts /\ call[c].new \in FilterDicts
      BY <1>5, DictInSet DEF CallOK
    <3>2. call[c] = [phase |-> call[c].phase, topic |-> call[c].topic, qos |-> call[c].qos,
                     want |-> call[c].want, new |-> call[c].new]
      BY <1>5 DEF CallOK
    <3>3. call[c].phase \in Phases /\ call[c].qos \in QoSs
      BY <1>5 DEF CallOK, Phases
    <3> QED BY <3>1, <3>2, <3>3
  <2>2. "error" \in Phases
    BY DEF Phases
  <2>3. r \in RS
    BY <2>1, <2>2
  <2>4. r.phase = "error" /\ r.topic = call[c].topic
    BY <2>1
  <2> HIDE DEF r
  <2>5. r = [phase |-> r.phase, topic |-> r.topic, qos |-> r.qos,
             want |-> r.want, new |-> r.new]
    BY <2>3
  <2>6. IsFilterDict(r.want) /\ IsFilterDict(r.new) /\ r.qos \in QoSs
    BY <2>3 DEF FilterDicts
  <2> QED BY <1>5, <2>4, <2>5, <2>6 DEF CallOK
<1> HIDE DEF r
<1>7. CallInv(c, r, filters, holder)
  BY <1>5, <1>6 DEF CallInv, Awaiting
<1>8. CallsInv'
  BY <1>1, <1>2, <1>4, <1>7, BystanderMoves
<1>9. QueueInv'
  <2>1. call = [d \in Calls |-> call[d]]
    BY <1>1 DEF CallsInv
  <2> QED BY <1>1, <1>2, <1>3, <1>4, <2>1, QueueLeft
<1>10. TaskInv' /\ NetInv' /\ FiltersInv'
  BY <1>1, <1>2, TaskUntouched DEF NetInv, netVars, FiltersInv
<1> QED BY <1>2, <1>8, <1>9, <1>10 DEF IInv

-----------------------------------------------------------------------------
(***************************************************************************)
(* The theorems                                                            *)
(***************************************************************************)
LEMMA StepIInv ==
  ASSUME IInv, [Next]_vars
  PROVE  IInv' /\ Grown
<1>1. FiltersInv
  BY DEF IInv
<1>2. CASE TaskStep
  <2>1. UNCHANGED filters
    BY <1>2 DEF TaskStep, Connect, ConnectFails, ServeGranted, ServeTimesOut,
                LinkLossNoticed, Closed, BackoffElapses, Cancel
  <2> QED BY <1>1, <1>2, <2>1, TaskStepIInv, GrownRefl
<1>3. CASE BrokerHandles \/ LinkDrops
  <2>1. UNCHANGED filters
    BY <1>3 DEF BrokerHandles, LinkDrops
  <2> QED BY <1>1, <1>3, <2>1, NetworkStepIInv, GrownRefl
<1>4. ASSUME NEW c \in Calls, CallStep(c)
      PROVE  IInv' /\ Grown
  <2>1. CASE CallStarts(c)      BY <1>1, <2>1, StartsIInv, GrownRefl
  <2>2. CASE CallEnters(c)      BY <2>2, EntersIInv
  <2>3. CASE CallGranted(c)     BY <2>3, GrantedIInv
  <2>4. CASE CallDropped(c)     BY <2>4, DroppedIInv
  <2>5. CASE CallGivesUp(c)     BY <2>5, GivesUpIInv
  <2>6. CASE CallLeavesQueue(c) BY <1>1, <2>6, LeavesIInv, GrownRefl
  <2> QED BY <1>4, <2>1, <2>2, <2>3, <2>4, <2>5, <2>6 DEF CallStep
<1>5. CASE UNCHANGED vars
  <2>1. UNCHANGED <<taskVars, filters, active, callVars, netVars, faults, unsure>>
    BY <1>5 DEF vars
  <2>2. NetInv'
    BY <2>1 DEF IInv, NetInv, netVars
  <2> QED BY <2>1, <2>2, NothingMovesIInv
<1> QED BY <1>2, <1>3, <1>4, <1>5 DEF Next

LEMMA Invariance == Spec => []IInv
<1>1. IInv /\ [Next]_vars => IInv'
  BY StepIInv
<1> QED BY <1>1, InitIInv, PTL DEF Spec

\* Type correctness: in every reachable state the client's dicts are filters at
\* a QoS, its flags agree (connected only in the block, contacted once it ever
\* was), and the lock and its queue name calls.
THEOREM TypeCorrect == Spec => []TypeOK
BY Invariance, IInvImplies, PTL

\* "Add `topic` to the wanted filters for this run": for any number of subscribe
\* actions, what one that returned asked for stays wanted, at its QoS or a higher
\* one, through reconnects and the failures of the others.
THEOREM AnswersKept == Spec => []AnsweredKept
BY Invariance, IInvImplies, PTL

\* "Overlaps without containment are refused earlier": whatever is asked for,
\* and in whatever order the actions run, the wanted filters are a set that
\* check_overlaps accepts, as subscriptions() needs.
THEOREM NeverOverlapping == Spec => []NoOverlaps
BY Invariance, IInvImplies, PTL

\* "each reads the filters the last one left": no step of the system loses a
\* wanted filter or lowers its QoS.
THEOREM NoFilterLost == Spec => FiltersGrow
<1>1. IInv /\ [Next]_vars =>
        [\A f \in DOMAIN filters : f \in DOMAIN filters' /\ filters'[f] >= filters[f]]_vars
  BY StepIInv DEF Grown
<1> QED BY <1>1, Invariance, PTL DEF Spec, FiltersGrow

-----------------------------------------------------------------------------
(***************************************************************************)
(* BrokerSession implements WantedFilters                                  *)
(***************************************************************************)
Asks     == [c \in Calls |-> [topic |-> call[c].topic, qos |-> call[c].qos]]
Statuses == [c \in Calls |-> Status(call[c].phase)]

LEMMA InitWanted == Init => Wanted!Init
<1> SUFFICES ASSUME Init PROVE Wanted!Init
  OBVIOUS
<1>1. call = [c \in Calls |-> Idle] /\ filters = Configured
  BY DEF Init
<1>2. Asks = [c \in Calls |-> [topic |-> <<>>, qos |-> 0]]
  BY <1>1 DEF Asks, Idle
<1>3. Statuses = [c \in Calls |-> "idle"]
  BY <1>1 DEF Statuses, Status, Idle
<1> QED BY <1>1, <1>2, <1>3 DEF Wanted!Init, Wanted!NoRequest, Asks, Statuses

\* The filters of the abstract specification are those of the code.
LEMMA SameFilters ==
  /\ \A d, t, q : Wanted!WithFilter(d, t, q) = WithFilter(d, t, q)
  /\ \A S : Wanted!Overlapping(S) <=> Overlapping(S)
<1>1. \A d, t, q : Wanted!WithFilter(d, t, q) = WithFilter(d, t, q)
  BY DEF WithFilter, Wanted!WithFilter
<1>2. \A a, b : Wanted!DollarApart(a, b) <=> DollarApart(a, b)
  BY DEF DollarApart, Wanted!DollarApart
<1>3. \A a, b : Wanted!Covers(a, b) <=> Covers(a, b)
  BY <1>2 DEF Covers, Wanted!Covers, LevelCovers, Wanted!LevelCovers
<1>4. \A a, b : Wanted!Intersection(a, b) = Intersection(a, b)
  BY <1>2 DEF Intersection, Wanted!Intersection, Longer, Wanted!Longer, HashAt, Wanted!HashAt,
              Narrower, Wanted!Narrower, Disjoint, Wanted!Disjoint, Min, Wanted!Min
<1>5. \A S : {f \in S : Wanted!IsWildcard(f)} = {f \in S : IsWildcard(f)}
  BY DEF IsWildcard, Wanted!IsWildcard
<1>6. \A S : Wanted!Overlapping(S) <=> Overlapping(S)
  BY <1>3, <1>4, <1>5 DEF Overlapping, Wanted!Overlapping, Disjoint, Wanted!Disjoint
<1> QED BY <1>1, <1>6

\* What a move of one call is to the abstract specification.
LEMMA MovesWanted ==
  ASSUME call = [d \in Calls |-> call[d]], NEW c \in Calls, NEW r,
         call' = [call EXCEPT ![c] = r], r.topic = call[c].topic, r.qos = call[c].qos
  PROVE  UNCHANGED Asks /\ Statuses' = [Statuses EXCEPT ![c] = Status(r.phase)]
<1>1. call'[c] = r /\ \A d \in Calls \ {c} : call'[d] = call[d]
  OBVIOUS
<1>2. Asks' = Asks
  BY <1>1 DEF Asks
<1>3. \A d \in Calls : Statuses'[d] = IF d = c THEN Status(r.phase) ELSE Statuses[d]
  BY <1>1 DEF Statuses
<1> QED BY <1>2, <1>3 DEF Statuses

LEMMA FailsWanted ==
  ASSUME CallsInv, NEW c \in Calls, call[c].phase \in Pending, UNCHANGED filters, NEW r,
         call' = [call EXCEPT ![c] = r], r.topic = call[c].topic, r.qos = call[c].qos,
         r.phase = "error"
  PROVE  Wanted!Next
<1>1. UNCHANGED Asks /\ Statuses' = [Statuses EXCEPT ![c] = "failed"]
  BY MovesWanted DEF CallsInv, Status
<1>2. Statuses[c] \in {"asked", "added"}
  BY DEF Statuses, Status, Pending, Awaiting
<1>3. Wanted!Fail(c)
  BY <1>1, <1>2 DEF Wanted!Fail, Asks, Statuses
<1> QED BY <1>3 DEF Wanted!Next

LEMMA RecordsWanted ==
  ASSUME NetInv, FiltersInv, CallsInv, NEW c \in Calls, call[c].phase \in {"queued", "suback"},
         NEW want, want = WithFilter(filters, call[c].topic, call[c].qos),
         ~Overlapping(DOMAIN want), NEW new, IsFilterDict(new), Records(c, want, new)
  PROVE  Wanted!Next
<1>1. CallOK(call[c]) /\ IsFilter(call[c].topic)
  BY DEF CallsInv, CallInv
<1>2. filters' = want
  BY <1>1, RecordsShape
<1>3. PICK r : /\ call' = [call EXCEPT ![c] = r]
               /\ r.phase \in {"ok", "unsuback"}
               /\ r.topic = call[c].topic /\ r.qos = call[c].qos
  BY <1>1, RecordsShape
<1>4. UNCHANGED Asks /\ Statuses' = [Statuses EXCEPT ![c] = Status(r.phase)]
  BY <1>3, MovesWanted DEF CallsInv
<1>5. Status(r.phase) \in {"added", "answered"}
  BY <1>3 DEF Status
<1>6. Statuses[c] = "asked"
  BY DEF Statuses, Status
<1>7. Asks[c].topic = call[c].topic /\ Asks[c].qos = call[c].qos
  BY DEF Asks
<1>8. Wanted!Add(c)
  BY <1>2, <1>4, <1>5, <1>6, <1>7, SameFilters DEF Wanted!Add, Asks, Statuses
<1> QED BY <1>8 DEF Wanted!Next

LEMMA StuttersWanted ==
  ASSUME UNCHANGED <<filters, call>>
  PROVE  UNCHANGED Wanted!wantedVars
BY DEF Wanted!wantedVars

LEMMA StartsWanted ==
  ASSUME CallsInv, NEW c \in Calls, CallStarts(c)
  PROVE  Wanted!Next
<1>1. PICK r \in Requests :
         call' = [call EXCEPT ![c] = [Idle EXCEPT !.phase = "queued",
                                                  !.topic = r.topic, !.qos = r.qos]]
  BY DEF CallStarts
<1> DEFINE s == [Idle EXCEPT !.phase = "queued", !.topic = r.topic, !.qos = r.qos]
<1>2. s.phase = "queued" /\ s.topic = r.topic /\ s.qos = r.qos
  BY DEF Idle
<1>3. call'[c] = s /\ \A d \in Calls \ {c} : call'[d] = call[d]
  <2>1. call = [d \in Calls |-> call[d]]
    BY DEF CallsInv
  <2> QED BY <1>1, <2>1
<1> HIDE DEF s
<1>4. Asks' = [Asks EXCEPT ![c] = [topic |-> r.topic, qos |-> r.qos]]
  BY <1>2, <1>3 DEF Asks
<1>5. Statuses' = [Statuses EXCEPT ![c] = "asked"]
  BY <1>2, <1>3 DEF Statuses, Status
<1>6. Statuses[c] = "idle" /\ UNCHANGED filters
  BY DEF CallStarts, Statuses, Status
<1>7. Wanted!Ask(c)
  BY <1>4, <1>5, <1>6 DEF Wanted!Ask, Asks, Statuses
<1> QED BY <1>7 DEF Wanted!Next

LEMMA EntersWanted ==
  ASSUME IInv, NEW c \in Calls, CallEnters(c)
  PROVE  Wanted!Next \/ UNCHANGED Wanted!wantedVars
<1> DEFINE want == WithFilter(filters, call[c].topic, call[c].qos)
           new  == ToSubscribe(Subscriptions(want))
<1>1. NetInv /\ QueueInv /\ CallsInv /\ FiltersInv /\ call = [d \in Calls |-> call[d]]
  BY DEF IInv, CallsInv
<1>2. call[c].phase = "queued"
  <2>1. waiters \in Seq(Calls) /\ waiters # <<>> /\ c = Head(waiters)
    BY <1>1 DEF QueueInv, CallEnters
  <2>2. 1 \in DOMAIN waiters /\ waiters[1] = c
    BY <2>1, EmptySeq, LenProperties
  <2> QED BY <1>1, <2>2 DEF QueueInv
<1>3. CallOK(call[c]) /\ IsFilter(call[c].topic) /\ call[c].qos \in QoSs
  BY <1>1, <1>2 DEF CallsInv, CallInv, CallOK
<1>4. IsFilterDict(want) /\ IsFilterDict(new)
  BY <1>1, <1>3, WithFilterShape, ToSubscribeShape DEF FiltersInv
<1>5. CASE Refuses(want)
  <2>1. Ends(c, "error") /\ UNCHANGED <<filters, active, toBroker>>
    BY <1>5 DEF CallEnters
  <2>2. PICK r : /\ call' = [call EXCEPT ![c] = r]
                 /\ r.phase = "error" /\ r.topic = call[c].topic /\ r.qos = call[c].qos
    BY <1>1, <1>2, <2>1, EndsShape
  <2> QED BY <1>1, <1>2, <2>1, <2>2, FailsWanted DEF Pending
<1>6. CASE ~Refuses(want) /\ DOMAIN new = {}
  <2>1. Records(c, want, new) /\ ~Overlapping(DOMAIN want)
    BY <1>6 DEF CallEnters, Refuses
  <2> HIDE DEF want, new
  <2>2. want = WithFilter(filters, call[c].topic, call[c].qos)
    BY DEF want
  <2> QED BY <1>1, <1>2, <1>4, <2>1, <2>2, RecordsWanted
<1>7. CASE ~Refuses(want) /\ DOMAIN new # {}
  <2> DEFINE r == Moved(call[c], "suback", want, new)
  <2>1. call' = [call EXCEPT ![c] = r] /\ UNCHANGED filters
    BY <1>7 DEF CallEnters, Waits, Moved
  <2> HIDE DEF want, new
  <2>2. r.phase = "suback" /\ r.topic = call[c].topic /\ r.qos = call[c].qos
    <3>1. "suback" \in Phases
      BY DEF Phases, Pending, Awaiting
    <3> QED BY <1>3, <1>4, <3>1, CallMoved
  <2> HIDE DEF r
  <2>3. UNCHANGED Asks /\ Statuses' = [Statuses EXCEPT ![c] = "asked"]
    BY <1>1, <2>1, <2>2, MovesWanted DEF Status
  <2>4. Statuses[c] = "asked"
    BY <1>2 DEF Statuses, Status
  <2>5. Statuses' = Statuses
    BY <2>3, <2>4 DEF Statuses
  <2> QED BY <2>1, <2>3, <2>5 DEF Wanted!wantedVars, Asks, Statuses
<1> QED BY <1>5, <1>6, <1>7

LEMMA GrantedWanted ==
  ASSUME IInv, NEW c \in Calls, CallGranted(c)
  PROVE  Wanted!Next \/ UNCHANGED Wanted!wantedVars
<1>1. NetInv /\ CallsInv /\ FiltersInv
  BY DEF IInv
<1>2. CASE call[c].phase # "suback"
  BY <1>2, StuttersWanted DEF CallGranted
<1>3. CASE call[c].phase = "suback" /\ Head(toClient).refused # {}
  <2>1. Ends(c, "error") /\ UNCHANGED <<filters, active, toBroker>>
    BY <1>3 DEF CallGranted
  <2>2. PICK r : /\ call' = [call EXCEPT ![c] = r]
                 /\ r.phase = "error" /\ r.topic = call[c].topic /\ r.qos = call[c].qos
    BY <1>1, <1>3, <2>1, EndsShape
  <2> QED BY <1>1, <1>3, <2>1, <2>2, FailsWanted DEF Pending, Awaiting
<1>4. CASE call[c].phase = "suback" /\ Head(toClient).refused = {}
  <2>1. /\ call[c].want = WithFilter(filters, call[c].topic, call[c].qos)
        /\ ~Overlapping(DOMAIN call[c].want) /\ IsFilterDict(call[c].new)
    BY <1>4, AwaitingHolds DEF Awaiting, CallInv, CallOK
  <2>2. Records(c, call[c].want, call[c].new)
    BY <1>4 DEF CallGranted
  <2> QED BY <1>1, <1>4, <2>1, <2>2, RecordsWanted
<1> QED BY <1>2, <1>3, <1>4

LEMMA DroppedWanted ==
  ASSUME IInv, NEW c \in Calls, CallDropped(c)
  PROVE  Wanted!Next \/ UNCHANGED Wanted!wantedVars
<1>1. CallsInv /\ call = [d \in Calls |-> call[d]] /\ UNCHANGED filters
  BY DEF IInv, CallsInv, CallDropped
<1>2. CASE call[c].phase # "unsuback"
  BY <1>1, <1>2, StuttersWanted DEF CallDropped
<1>3. CASE call[c].phase = "unsuback"
  <2>1. Ends(c, "ok")
    BY <1>3 DEF CallDropped
  <2>2. call[c].topic \in DOMAIN filters /\ filters[call[c].topic] >= call[c].qos
    BY <1>3, AwaitingHolds DEF Awaiting, CallInv
  <2>3. PICK r : /\ call' = [call EXCEPT ![c] = r]
                 /\ r.phase = "ok" /\ r.topic = call[c].topic /\ r.qos = call[c].qos
    BY <1>1, <1>3, <2>1, <2>2, EndsShape
  <2>4. UNCHANGED Asks /\ Statuses' = [Statuses EXCEPT ![c] = "answered"]
    BY <1>1, <2>3, MovesWanted DEF Status
  <2>5. Statuses[c] = "added"
    BY <1>3 DEF Statuses, Status
  <2>6. Wanted!Answer(c)
    BY <1>1, <2>4, <2>5 DEF Wanted!Answer, Asks, Statuses
  <2> QED BY <2>6 DEF Wanted!Next
<1> QED BY <1>2, <1>3

LEMMA GivesUpWanted ==
  ASSUME IInv, NEW c \in Calls, CallGivesUp(c)
  PROVE  Wanted!Next
<1>1. CallsInv /\ call[c].phase \in Awaiting /\ Ends(c, "error") /\ UNCHANGED filters
  BY DEF IInv, CallGivesUp
<1>2. PICK r : /\ call' = [call EXCEPT ![c] = r]
               /\ r.phase = "error" /\ r.topic = call[c].topic /\ r.qos = call[c].qos
  BY <1>1, AwaitingHolds, EndsShape
<1> QED BY <1>1, <1>2, FailsWanted DEF Pending

LEMMA LeavesWanted ==
  ASSUME IInv, NEW c \in Calls, CallLeavesQueue(c)
  PROVE  Wanted!Next
<1> DEFINE r == [call[c] EXCEPT !.phase = "error"]
<1>1. /\ CallsInv /\ call[c].phase = "queued" /\ UNCHANGED filters
      /\ call' = [call EXCEPT ![c] = r]
  BY DEF IInv, CallLeavesQueue
<1>2. r.phase = "error" /\ r.topic = call[c].topic /\ r.qos = call[c].qos
  <2>1. call[c] = [phase |-> call[c].phase, topic |-> call[c].topic, qos |-> call[c].qos,
                   want |-> call[c].want, new |-> call[c].new]
    BY <1>1 DEF CallsInv, CallInv, CallOK
  <2> QED BY <2>1
<1> HIDE DEF r
<1> QED BY <1>1, <1>2, FailsWanted DEF Pending

\* "self._subscribing": the subscribe actions, however they interleave with one
\* another, with lost links, refusals, late answers and the shutdown, are as if
\* each took effect in one step or not at all, never on filters another one is
\* about to replace.
THEOREM ActionsAreAtomic == Spec => ImplementsWanted
<1>1. IInv /\ [Next]_vars => [Wanted!Next]_(Wanted!wantedVars)
  <2> SUFFICES ASSUME IInv, [Next]_vars
               PROVE  Wanted!Next \/ UNCHANGED Wanted!wantedVars
    OBVIOUS
  <2>1. CASE TaskStep
    <3>1. UNCHANGED <<filters, call>>
      BY <2>1 DEF TaskStep, Connect, ConnectFails, ServeGranted, ServeTimesOut,
                  LinkLossNoticed, Closed, BackoffElapses, Cancel, callVars
    <3> QED BY <3>1, StuttersWanted
  <2>2. CASE BrokerHandles \/ LinkDrops
    <3>1. UNCHANGED <<filters, call>>
      BY <2>2 DEF BrokerHandles, LinkDrops, callVars
    <3> QED BY <3>1, StuttersWanted
  <2>3. ASSUME NEW c \in Calls, CallStep(c)
        PROVE  Wanted!Next \/ UNCHANGED Wanted!wantedVars
    <3>1. CASE CallStarts(c)      BY <3>1, StartsWanted DEF IInv
    <3>2. CASE CallEnters(c)      BY <3>2, EntersWanted
    <3>3. CASE CallGranted(c)     BY <3>3, GrantedWanted
    <3>4. CASE CallDropped(c)     BY <3>4, DroppedWanted
    <3>5. CASE CallGivesUp(c)     BY <3>5, GivesUpWanted
    <3>6. CASE CallLeavesQueue(c) BY <3>6, LeavesWanted
    <3> QED BY <2>3, <3>1, <3>2, <3>3, <3>4, <3>5, <3>6 DEF CallStep
  <2>4. CASE UNCHANGED vars
    <3>1. UNCHANGED <<filters, call>>
      BY <2>4 DEF vars, callVars
    <3> QED BY <3>1, StuttersWanted
  <2> QED BY <2>1, <2>2, <2>3, <2>4 DEF Next
<1> QED BY <1>1, InitWanted, Invariance, PTL DEF Spec, ImplementsWanted, Wanted!Spec

-----------------------------------------------------------------------------
(***************************************************************************)
(* BrokerSession implements ClientLifecycle, but for its liveness          *)
(***************************************************************************)

\* What only the task changes.
LifeFlags == <<task, connected, everConnected, contacted, reconnects>>

LEMMA FlagsUntouched ==
  ASSUME BrokerHandles \/ LinkDrops \/ (\E c \in Calls : CallStep(c)) \/ UNCHANGED vars
  PROVE  UNCHANGED LifeFlags
<1>1. CASE BrokerHandles \/ LinkDrops
  BY <1>1 DEF BrokerHandles, LinkDrops, taskVars, flags, LifeFlags
<1>2. ASSUME NEW c \in Calls, CallStep(c) PROVE UNCHANGED LifeFlags
  <2>1. UNCHANGED taskVars
    <3>1. CASE CallStarts(c)      BY <3>1 DEF CallStarts
    <3>2. CASE CallEnters(c)      BY <3>2 DEF CallEnters
    <3>3. CASE CallGranted(c)     BY <3>3 DEF CallGranted
    <3>4. CASE CallDropped(c)     BY <3>4 DEF CallDropped
    <3>5. CASE CallGivesUp(c)     BY <3>5 DEF CallGivesUp
    <3>6. CASE CallLeavesQueue(c) BY <3>6 DEF CallLeavesQueue
    <3> QED BY <1>2, <3>1, <3>2, <3>3, <3>4, <3>5, <3>6 DEF CallStep
  <2> QED BY <2>1 DEF taskVars, flags, LifeFlags
<1>3. CASE UNCHANGED vars
  BY <1>3 DEF vars, taskVars, flags, LifeFlags
<1> QED BY <1>1, <1>2, <1>3

LEMMA GoesDown ==
  ASSUME TaskInv, task \in {"suback", "serving", "closing"}, NEW error, GoDown(error),
         UNCHANGED <<everConnected, contacted, reconnects>>
  PROVE  Lifecycle!Down
BY DEF TaskInv, GoDown, Lifecycle!Down

LEMMA EndsLife ==
  ASSUME TaskInv, task # "ended", End
  PROVE  Lifecycle!Ends
BY DEF TaskInv, End, Lifecycle!Ends

\* Each step of the task is one of a client's life.
LEMMA TaskStepLife ==
  ASSUME TaskInv, TaskStep
  PROVE  Lifecycle!Next \/ UNCHANGED Lifecycle!lifeVars
<1>1. CASE Connect
  <2>1. /\ task = "connecting"
        /\ connected' = TRUE /\ everConnected' = TRUE /\ contacted' = TRUE
        /\ reconnects' = IF everConnected THEN reconnects + 1 ELSE reconnects
    BY <1>1 DEF Connect
  <2>2. task' \in {"serving", "suback"}
    BY <1>1 DEF Connect
  <2>3. ~connected
    BY <2>1 DEF TaskInv
  <2>4. Lifecycle!Up
    BY <2>1, <2>2, <2>3 DEF Lifecycle!Up
  <2> QED BY <2>4 DEF Lifecycle!Next
<1>2. CASE ConnectFails
  <2>1. /\ task = "connecting" /\ task' = "backoff" /\ contacted' = TRUE
        /\ UNCHANGED <<connected, everConnected, reconnects>>
    BY <1>2 DEF ConnectFails
  <2>2. ~connected
    BY <2>1 DEF TaskInv
  <2>3. Lifecycle!AttemptFails
    BY <2>1, <2>2 DEF Lifecycle!AttemptFails
  <2> QED BY <2>3 DEF Lifecycle!Next
<1>3. CASE ServeGranted \/ BackoffElapses
  BY <1>3 DEF ServeGranted, BackoffElapses, TaskInv, flags, Lifecycle!lifeVars
<1>4. CASE ServeTimesOut
  <2>1. CASE task' = "closing"
    BY <1>4, <2>1 DEF ServeTimesOut, GoDown, TaskInv, flags, Lifecycle!lifeVars
  <2>2. CASE task' # "closing"
    BY <1>4, <2>2, GoesDown DEF ServeTimesOut, flags, Lifecycle!Next
  <2> QED BY <2>1, <2>2
<1>5. CASE LinkLossNoticed
  BY <1>5, GoesDown DEF LinkLossNoticed, flags, Lifecycle!Next
<1>6. CASE Closed
  BY <1>6, GoesDown, EndsLife DEF Closed, flags, Lifecycle!Next
<1>7. CASE Cancel
  <2>1. CASE task \in {"connecting", "backoff", "closing"} /\ End
    BY <2>1, EndsLife DEF Lifecycle!Next
  <2>2. CASE task \in {"suback", "serving"} /\ GoDown(LinkLost) /\ UNCHANGED flags
    BY <2>2, GoesDown DEF flags, Lifecycle!Next
  <2>3. CASE /\ task \in {"suback", "serving"} /\ task' = "closing"
             /\ UNCHANGED <<connected, flags>>
    BY <2>3 DEF flags, Lifecycle!lifeVars
  <2> QED BY <1>7, <2>1, <2>2, <2>3 DEF Cancel
<1> QED BY <1>1, <1>2, <1>3, <1>4, <1>5, <1>6, <1>7 DEF TaskStep

\* What the runner and status() are built on: `contacted`, `ever_connected` and
\* `connected` change only as ClientLifecycle says, whatever the network, the actions
\* and the shutdown do.  That contact comes at all is left to the runs.
THEOREM FlagsKeepPromise == Spec => Lifecycle!Init /\ [][Lifecycle!Next]_(Lifecycle!lifeVars)
<1>1. Init => Lifecycle!Init
  <2> SUFFICES ASSUME Init PROVE Lifecycle!Init
    OBVIOUS
  <2>1. /\ task = "connecting" /\ connected = FALSE /\ everConnected = FALSE
        /\ contacted = FALSE /\ reconnects = 0
    BY DEF Init
  <2> QED BY <2>1 DEF Lifecycle!Init
<1>2. IInv /\ [Next]_vars => [Lifecycle!Next]_(Lifecycle!lifeVars)
  <2> SUFFICES ASSUME IInv, [Next]_vars
               PROVE  Lifecycle!Next \/ UNCHANGED Lifecycle!lifeVars
    OBVIOUS
  <2>1. CASE TaskStep
    BY <2>1, TaskStepLife DEF IInv
  <2>2. CASE BrokerHandles \/ LinkDrops \/ (\E c \in Calls : CallStep(c)) \/ UNCHANGED vars
    BY <2>2, FlagsUntouched DEF LifeFlags, Lifecycle!lifeVars
  <2> QED BY <2>1, <2>2 DEF Next
<1> QED BY <1>1, <1>2, Invariance, PTL DEF Spec

-----------------------------------------------------------------------------
(***************************************************************************)
(* NoGap: what the broker holds.  The invariant follows the requests from  *)
(* the filters they were computed from, over the link, to the session: a   *)
(* SUBSCRIBE or UNSUBSCRIBE a call has given up on stays on its way, and   *)
(* must not undo what a later one has been granted.                        *)
(***************************************************************************)

\* What counts as subscribed on the connection is wanted, at the QoS wanted of it.
ActiveInv ==
  \A g \in DOMAIN active : /\ g \in DOMAIN filters
                           /\ g \in Outermost(filters) => active[g] = Subscriptions(filters)[g]

\* Of want's cover, new is what the filters' own cover lacks.
Lacks(want, new) ==
  \A g \in Outermost(want) :
     IF g \in DOMAIN new THEN new[g] = Subscriptions(want)[g]
     ELSE g \in Outermost(filters) /\ Subscriptions(filters)[g] = Subscriptions(want)[g]

LacksInv ==
  \A c \in Calls : call[c].phase = "suback" =>
     /\ DOMAIN call[c].new \subseteq Outermost(call[c].want)
     /\ Lacks(call[c].want, call[c].new)

\* A SUBSCRIBE on its way lowers no QoS, an UNSUBSCRIBE drops no outermost filter.
PacketsInv ==
  \A i \in DOMAIN toBroker : \A g \in DOMAIN toBroker[i].filters \cap Outermost(filters) :
     /\ toBroker[i].kind = "subscribe"
     /\ toBroker[i].filters[g] >= Subscriptions(filters)[g]

DeniedInv == Outermost(filters) \cap denied \subseteq DOMAIN Configured

\* A call has sent nothing before it has the lock, and what it waits for is the
\* last that was sent.
Sent(c)     == \E i \in DOMAIN toBroker : toBroker[i].from = c
Answered(c) == \E i \in DOMAIN toClient : toClient[i].from = c

SentLast(c) ==
  \A i \in DOMAIN toBroker : toBroker[i].from = c =>
     /\ i = Len(toBroker) /\ ~Answered(c)
     /\ call[c].phase = "suback" => toBroker[i] = Packet("subscribe", c, call[c].new)

AnsweredLast(c) ==
  \A i \in DOMAIN toClient : toClient[i].from = c =>
     /\ i = Len(toClient) /\ toBroker = <<>>
     /\ call[c].phase = "suback" =>
          /\ toClient[i].refused = DOMAIN call[c].new \cap denied
          /\ link = "up" /\ toClient[i].refused = {} =>
               \A g \in DOMAIN call[c].new : g \in DOMAIN session /\ session[g] = call[c].new[g]

OrderInv ==
  \A c \in Calls : /\ call[c].phase \in {"idle", "queued"} => ~Sent(c) /\ ~Answered(c)
                   /\ call[c].phase \in Awaiting => SentLast(c) /\ AnsweredLast(c)

\* _serve's SUBACK is the first answer of a connection, of what is wanted still.
ServeInv ==
  /\ task = "connecting" => link = "down" /\ toClient = <<>>
  /\ task = "backoff" => link = "down"
  /\ task = "suback" =>
       /\ wanted = Subscriptions(filters)
       /\ toClient # <<>> => Head(toClient).from = Serve
       /\ link = "up" /\ toClient = <<>> =>
            toBroker # <<>> /\ Head(toBroker) = Packet("subscribe", Serve, wanted)

\* From then on each outermost filter is held at its QoS, or denied.
Subscribed == link = "up" /\ (task = "serving" \/ (task = "suback" /\ toClient # <<>>))

HeldInv ==
  Subscribed =>
    \A g \in Outermost(filters) :
       g \in denied \/ (g \in DOMAIN session /\ session[g] >= Subscriptions(filters)[g])

GapInv == /\ ActiveInv /\ LacksInv /\ PacketsInv /\ DeniedInv
          /\ OrderInv /\ ServeInv /\ HeldInv

LEMMA GapInvImplies == IInv /\ GapInv => NoGap
<1> SUFFICES ASSUME IInv, GapInv, task = "serving", link = "up", NEW f \in DOMAIN filters
             PROVE  \/ \E g \in DOMAIN session : Covers(g, f) /\ session[g] >= filters[f]
                    \/ \E g \in DOMAIN Configured \cap denied : Covers(g, f)
  BY DEF NoGap
<1>1. IsFilterDict(filters) /\ IsFilterDict(session)
  BY DEF IInv, FiltersInv, NetInv
<1>2. PICK g \in Outermost(filters) : Covers(g, f) /\ Subscriptions(filters)[g] >= filters[f]
  BY <1>1, SubscriptionsCover, SubscriptionsShape
<1>3. g \in denied \/ (g \in DOMAIN session /\ session[g] >= Subscriptions(filters)[g])
  BY DEF GapInv, HeldInv, Subscribed
<1>4. CASE g \in denied
  BY <1>2, <1>4 DEF GapInv, DeniedInv
<1>5. CASE g \in DOMAIN session /\ session[g] >= Subscriptions(filters)[g]
  <2>1. session[g] \in Int /\ Subscriptions(filters)[g] \in Int /\ filters[f] \in Int
    BY <1>1, <1>5, SubscriptionsShape DEF IsFilterDict, QoSs
  <2> QED BY <1>2, <1>5, <2>1
<1> QED BY <1>3, <1>4, <1>5

-----------------------------------------------------------------------------
(***************************************************************************)
(* Covers of more and more filters                                         *)
(***************************************************************************)
MoreWanted(d, e) == \A f \in DOMAIN d : f \in DOMAIN e /\ e[f] >= d[f]

\* What more filters cover, they covered before, and at no higher QoS.
LEMMA OutermostOfFewer ==
  ASSUME NEW d, NEW e, MoreWanted(d, e), NEW g \in Outermost(e), g \in DOMAIN d
  PROVE  g \in Outermost(d)
BY DEF Outermost, MoreWanted

LEMMA SubscriptionsGrow ==
  ASSUME NEW d, NEW e, IsFilterDict(d), IsFilterDict(e), MoreWanted(d, e),
         NEW g \in Outermost(d), g \in Outermost(e)
  PROVE  Subscriptions(e)[g] >= Subscriptions(d)[g]
<1> DEFINE Q == {d[f] : f \in {h \in DOMAIN d : Covers(g, h)}}
<1>1. Q \in SUBSET QoSs /\ d[g] \in Q
  <2>1. g \in DOMAIN d
    BY DEF Outermost
  <2>2. Covers(g, g)
    BY <2>1, CoversReflexive DEF IsFilterDict
  <2> QED BY <2>1, <2>2 DEF IsFilterDict
<1>2. Max(Q) \in Q
  <2> HIDE DEF Q
  <2> QED BY <1>1, MaxQoS
<1>3. Subscriptions(d)[g] = Max(Q)
  BY DEF Subscriptions
<1>4. PICK f \in DOMAIN d : Covers(g, f) /\ Subscriptions(d)[g] = d[f]
  BY <1>2, <1>3
<1>5. f \in DOMAIN e /\ e[f] >= d[f]
  BY <1>4 DEF MoreWanted
<1>6. Subscriptions(e)[g] >= e[f]
  BY <1>4, <1>5, SubscriptionsShape
<1>7. Subscriptions(e)[g] \in Int /\ e[f] \in Int /\ d[f] \in Int
  BY <1>5, SubscriptionsShape DEF IsFilterDict, QoSs
<1> QED BY <1>4, <1>5, <1>6, <1>7

\* A filter of names alone covers itself only.
LEMMA CoveringIsWildcard ==
  ASSUME NEW g, NEW f, IsFilter(g), IsFilter(f), Covers(g, f), g # f
  PROVE  IsWildcard(g)
<1> SUFFICES ASSUME ~IsWildcard(g) PROVE g = f
  OBVIOUS
<1>1. g[Len(g)] # "#" /\ \A j \in 1..Len(g) : g[j] # "+"
  BY FilterShape DEF IsWildcard
<1>2. Len(g) = Len(f) /\ \A j \in 1..Len(g) : g[j] = f[j]
  BY <1>1, CoversShape, FilterShape DEF LevelCovers
<1> QED BY <1>2, SeqEqual DEF IsFilter

\* Filters whose cover lacks nothing have the cover they had.
LEMMA NothingLacks ==
  ASSUME NEW want, IsFilterDict(filters), IsFilterDict(want), MoreWanted(filters, want),
         NEW new, DOMAIN new = {}, Lacks(want, new)
  PROVE  Subscriptions(want) = Subscriptions(filters)
<1>1. \A g \in Outermost(want) : /\ g \in Outermost(filters)
                                 /\ Subscriptions(filters)[g] = Subscriptions(want)[g]
  BY DEF Lacks
<1>2. ASSUME NEW g \in Outermost(filters) PROVE g \in Outermost(want)
  <2>1. g \in DOMAIN want /\ g \in DOMAIN filters
    BY DEF MoreWanted, Outermost
  <2>2. PICK h \in Outermost(want) : Covers(h, g)
    BY <2>1, SubscriptionsCover, SubscriptionsShape
  <2>3. h \in DOMAIN filters /\ IsFilter(h) /\ IsFilter(g)
    BY <1>1, <2>1, <2>2 DEF Outermost, IsFilterDict
  <2>4. CASE h # g
    BY <1>2, <2>2, <2>3, <2>4, CoveringIsWildcard DEF Outermost
  <2> QED BY <2>2, <2>4
<1>3. Outermost(want) = Outermost(filters)
  BY <1>1, <1>2
<1>4. /\ Subscriptions(want) = [g \in Outermost(want) |-> Subscriptions(want)[g]]
      /\ Subscriptions(filters) = [g \in Outermost(filters) |-> Subscriptions(filters)[g]]
  BY SubscriptionsShape DEF IsFilterDict
<1> QED BY <1>1, <1>3, <1>4

-----------------------------------------------------------------------------
(***************************************************************************)
(* Queues                                                                  *)
(***************************************************************************)
LEMMA Popped ==
  ASSUME NEW S, NEW s \in Seq(S), s # <<>>
  PROVE  /\ Tail(s) \in Seq(S) /\ Len(Tail(s)) = Len(s) - 1 /\ Len(s) >= 1
         /\ Head(s) = s[1] /\ 1 \in DOMAIN s
         /\ \A i \in DOMAIN Tail(s) : i + 1 \in DOMAIN s /\ Tail(s)[i] = s[i + 1]
<1>1. Len(s) \in Nat /\ Len(s) # 0 /\ DOMAIN s = 1..Len(s)
  BY EmptySeq, LenProperties
<1>2. Tail(s) \in Seq(S) /\ Len(Tail(s)) = Len(s) - 1 /\ Head(s) = s[1]
      /\ \A i \in 1..Len(Tail(s)) : Tail(s)[i] = s[i + 1]
  BY HeadTailProperties
<1>3. DOMAIN Tail(s) = 1..Len(Tail(s))
  BY <1>2, LenProperties
<1> QED BY <1>1, <1>2, <1>3

LEMMA Pushed ==
  ASSUME NEW S, NEW s \in Seq(S), NEW x \in S
  PROVE  /\ Append(s, x) \in Seq(S) /\ Len(Append(s, x)) = Len(s) + 1 /\ Len(s) \in Nat
         /\ Append(s, x) # <<>> /\ (s # <<>> => Head(Append(s, x)) = Head(s))
         /\ (s = <<>> => Head(Append(s, x)) = x)
         /\ DOMAIN Append(s, x) = DOMAIN s \cup {Len(s) + 1}
         /\ Append(s, x)[Len(s) + 1] = x
         /\ \A i \in DOMAIN s : Append(s, x)[i] = s[i] /\ i # Len(s) + 1
<1>1. Len(s) \in Nat /\ DOMAIN s = 1..Len(s) /\ (s # <<>> => Len(s) # 0)
  BY EmptySeq, LenProperties
<1>2. /\ Append(s, x) \in Seq(S) /\ Len(Append(s, x)) = Len(s) + 1
      /\ \A i \in 1..Len(s) : Append(s, x)[i] = s[i]
      /\ Append(s, x)[Len(s) + 1] = x
  BY AppendProperties
<1>3. Append(s, x) # <<>> /\ Head(Append(s, x)) = Append(s, x)[1]
  BY <1>1, <1>2, EmptySeq, HeadTailProperties
<1>4. DOMAIN Append(s, x) = 1..(Len(s) + 1)
  BY <1>2, LenProperties
<1>5. s = <<>> => Len(s) = 0
  BY EmptySeq
<1>6. s # <<>> => Head(s) = s[1] /\ 1 \in 1..Len(s)
  BY <1>1, HeadTailProperties
<1>7. DOMAIN Append(s, x) = DOMAIN s \cup {Len(s) + 1}
  BY <1>1, <1>4
<1> QED BY <1>1, <1>2, <1>3, <1>5, <1>6, <1>7

-----------------------------------------------------------------------------
(***************************************************************************)
(* The steps and NoGap's invariant                                         *)
(***************************************************************************)
LEMMA InitGap == Init => GapInv
<1> SUFFICES ASSUME Init PROVE GapInv
  OBVIOUS
<1>1. /\ task = "connecting" /\ link = "down" /\ toBroker = <<>> /\ toClient = <<>>
      /\ filters = Configured /\ active = NoFilters
  BY DEF Init
<1>2. \A c \in Calls : call[c].phase = "idle"
  <2>1. call = [c \in Calls |-> Idle]
    BY DEF Init
  <2>2. Idle.phase = "idle"
    BY DEF Idle
  <2> QED BY <2>1, <2>2
<1>3. DOMAIN toBroker = {} /\ DOMAIN toClient = {}
  BY <1>1, EmptySeq
<1>4. ActiveInv
  BY <1>1 DEF ActiveInv, NoFilters
<1>5. LacksInv /\ PacketsInv
  BY <1>2, <1>3 DEF LacksInv, PacketsInv
<1>6. DeniedInv
  BY <1>1 DEF DeniedInv, Outermost
<1>7. OrderInv
  BY <1>2, <1>3 DEF OrderInv, Sent, Answered, Awaiting
<1>8. ServeInv /\ HeldInv
  BY <1>1 DEF ServeInv, HeldInv, Subscribed
<1> QED BY <1>4, <1>5, <1>6, <1>7, <1>8 DEF GapInv

\* Calls that do not come to await an answer, while at most one answer is taken.
LEMMA OrderKept ==
  ASSUME NetInv, OrderInv, UNCHANGED <<toBroker, link, session, denied>>,
         \/ UNCHANGED toClient
         \/ toClient # <<>> /\ toClient' = Tail(toClient),
         \A c \in Calls :
            \/ call'[c] = call[c]
            \/ /\ call'[c].phase \notin Awaiting
               /\ call'[c].phase \in {"idle", "queued"} => call[c].phase \in {"idle", "queued"}
  PROVE  OrderInv'
<1>1. toClient \in Seq(Acks)
  BY DEF NetInv
<1>2. \A i \in DOMAIN toClient' :
         \E k \in DOMAIN toClient : /\ toClient'[i] = toClient[k]
                                    /\ k = Len(toClient) => i = Len(toClient')
  <2>1. CASE UNCHANGED toClient
    BY <2>1
  <2>2. CASE toClient # <<>> /\ toClient' = Tail(toClient)
    <3>1. /\ Len(toClient') = Len(toClient) - 1 /\ Len(toClient) >= 1
          /\ \A i \in DOMAIN toClient' : i + 1 \in DOMAIN toClient /\ toClient'[i] = toClient[i + 1]
      BY <1>1, <2>2, Popped
    <3>2. DOMAIN toClient' = 1..Len(toClient') /\ Len(toClient) \in Nat
      BY <1>1, <2>2, Popped, LenProperties
    <3>3. ASSUME NEW i \in DOMAIN toClient'
          PROVE  /\ i + 1 \in DOMAIN toClient /\ toClient'[i] = toClient[i + 1]
                 /\ i + 1 = Len(toClient) => i = Len(toClient')
      BY <3>1, <3>2
    <3> QED BY <3>3
  <2> QED BY <2>1, <2>2
<1>3. \A c \in Calls : (Sent(c)' <=> Sent(c)) /\ (Answered(c)' => Answered(c))
  BY <1>2 DEF Sent, Answered
<1>4. ASSUME NEW c \in Calls, call'[c] = call[c], call[c].phase \in Awaiting
      PROVE  SentLast(c)' /\ AnsweredLast(c)'
  <2>1. SentLast(c) /\ AnsweredLast(c)
    BY <1>4 DEF OrderInv
  <2>2. SentLast(c)'
    BY <1>3, <1>4, <2>1 DEF SentLast
  <2>3. AnsweredLast(c)'
    BY <1>2, <1>4, <2>1 DEF AnsweredLast
  <2> QED BY <2>2, <2>3
<1> QED BY <1>3, <1>4 DEF OrderInv

\* The task's steps other than those of a connection and its SUBACK.
LEMMA TaskAwayGap ==
  ASSUME GapInv, UNCHANGED <<filters, call, netVars>>,
         active' \in {active, NoFilters}, task' \notin {"suback", "serving"},
         task' = "connecting" => link = "down" /\ toClient = <<>>,
         task' = "backoff" => link = "down"
  PROVE  GapInv'
<1>1. ActiveInv'
  BY DEF GapInv, ActiveInv, NoFilters
<1>2. LacksInv' /\ PacketsInv' /\ DeniedInv'
  BY DEF GapInv, LacksInv, Lacks, PacketsInv, DeniedInv, netVars
<1>3. OrderInv'
  BY DEF GapInv, OrderInv, Sent, Answered, SentLast, AnsweredLast, netVars
<1>4. ServeInv' /\ HeldInv'
  BY DEF ServeInv, HeldInv, Subscribed, netVars
<1> QED BY <1>1, <1>2, <1>3, <1>4 DEF GapInv

LEMMA ConnectGap ==
  ASSUME IInv, GapInv, Connect
  PROVE  GapInv'
<1>1. /\ UNCHANGED <<filters, call, toClient, denied>> /\ toClient = <<>>
      /\ link' = "up" /\ wanted' = Subscriptions(filters)
  <2>1. task = "connecting"
    BY DEF Connect
  <2>2. toClient = <<>>
    BY <2>1 DEF GapInv, ServeInv
  <2>3. UNCHANGED <<filters, callVars, toClient, denied>> /\ link' = "up"
        /\ wanted' = Subscriptions(filters)
    BY DEF Connect
  <2> QED BY <2>2, <2>3 DEF callVars
<1>2. IsFilterDict(filters) /\ DOMAIN wanted' = Outermost(filters)
  BY <1>1, SubscriptionsShape DEF IInv, FiltersInv
<1>3. \/ /\ wanted' = NoFilters /\ task' = "serving" /\ toBroker' = <<>> /\ active' = NoFilters
      \/ /\ task' = "suback" /\ active' = active
         /\ toBroker' = <<Packet("subscribe", Serve, wanted')>>
  BY DEF Connect
<1>4. \A i \in DOMAIN toBroker' : toBroker'[i] = Packet("subscribe", Serve, wanted')
  BY <1>3, EmptySeq
<1>5. ActiveInv'
  BY <1>1, <1>3 DEF GapInv, ActiveInv, NoFilters
<1>6. LacksInv' /\ DeniedInv'
  BY <1>1 DEF GapInv, LacksInv, Lacks, DeniedInv
<1>7. PacketsInv'
  <2>1. /\ Packet("subscribe", Serve, wanted').kind = "subscribe"
        /\ Packet("subscribe", Serve, wanted').filters = wanted'
    BY DEF Packet
  <2>2. \A g \in Outermost(filters) : Subscriptions(filters)[g] \in Int
    BY <1>2, SubscriptionsShape DEF IsFilterDict, QoSs
  <2> QED BY <1>1, <1>4, <2>1, <2>2 DEF PacketsInv
<1>8. OrderInv'
  <2>1. Packet("subscribe", Serve, wanted').from = Serve
    BY DEF Packet
  <2>2. \A c \in Calls : ~Sent(c)' /\ ~Answered(c)'
    BY <1>1, <1>4, <2>1, EmptySeq, SessionAssumption DEF Sent, Answered
  <2> QED BY <2>2 DEF OrderInv, SentLast, AnsweredLast, Sent, Answered
<1>9. ServeInv'
  <2>1. CASE task' = "serving"
    BY <2>1 DEF ServeInv
  <2>2. CASE task' = "suback"
    <3>1. toBroker' # <<>> /\ Head(toBroker') = Packet("subscribe", Serve, wanted')
      BY <1>3, <2>2
    <3> QED BY <1>1, <2>2, <3>1 DEF ServeInv
  <2> QED BY <1>3, <2>1, <2>2
<1>10. HeldInv'
  <2>1. CASE wanted' = NoFilters
    BY <1>1, <1>2, <2>1 DEF HeldInv, NoFilters
  <2>2. CASE task' = "suback"
    BY <1>1, <2>2 DEF HeldInv, Subscribed
  <2> QED BY <1>3, <2>1, <2>2
<1> QED BY <1>5, <1>6, <1>7, <1>8, <1>9, <1>10 DEF GapInv

LEMMA ServeGrantedGap ==
  ASSUME IInv, GapInv, ServeGranted
  PROVE  GapInv'
<1>1. /\ UNCHANGED <<filters, call, wanted, toBroker, link, session, denied>>
      /\ toClient # <<>> /\ toClient' = Tail(toClient)
  BY DEF ServeGranted, Resumes, callVars
<1>2. \/ task = "suback" /\ task' = "serving" /\ active' = wanted
      \/ task # "suback" /\ UNCHANGED <<task, active>>
  BY DEF ServeGranted
<1>3. ActiveInv'
  <2>1. CASE task = "suback"
    <3>1. active' = Subscriptions(filters)
      BY <1>2, <2>1 DEF GapInv, ServeInv
    <3>2. DOMAIN Subscriptions(filters) \subseteq DOMAIN filters
      BY SubscriptionsShape DEF IInv, FiltersInv
    <3> QED BY <1>1, <3>1, <3>2 DEF ActiveInv
  <2>2. CASE task # "suback"
    BY <1>1, <1>2, <2>2 DEF GapInv, ActiveInv
  <2> QED BY <2>1, <2>2
<1>4. LacksInv' /\ PacketsInv' /\ DeniedInv'
  BY <1>1 DEF GapInv, LacksInv, Lacks, PacketsInv, DeniedInv
<1>5. OrderInv'
  BY <1>1, OrderKept DEF IInv, GapInv
<1>6. ServeInv' /\ HeldInv'
  BY <1>1, <1>2 DEF GapInv, ServeInv, HeldInv, Subscribed
<1> QED BY <1>3, <1>4, <1>5, <1>6 DEF GapInv

LEMMA TaskStepGap ==
  ASSUME IInv, GapInv, TaskStep
  PROVE  GapInv'
<1>1. GapInv /\ ServeInv
  BY DEF GapInv
<1>2. CASE Connect
  BY <1>2, ConnectGap
<1>3. CASE ServeGranted
  BY <1>3, ServeGrantedGap
<1>4. CASE ConnectFails
  <2>1. task = "connecting" /\ task' = "backoff" /\ UNCHANGED <<active, filters, callVars, netVars>>
    BY <1>4 DEF ConnectFails
  <2> QED BY <1>1, <2>1, TaskAwayGap DEF ServeInv, callVars
<1>5. CASE ServeTimesOut
  <2>1. /\ UNCHANGED <<filters, callVars, netVars>> /\ active' \in {active, NoFilters}
        /\ task' = "closing" \/ (task' = "backoff" /\ link = "down")
    BY <1>5 DEF ServeTimesOut, GoDown
  <2> QED BY <2>1, TaskAwayGap DEF callVars
<1>6. CASE LinkLossNoticed
  <2>1. /\ UNCHANGED <<filters, callVars, netVars>> /\ active' = NoFilters
        /\ task' = "backoff" /\ link = "down"
    BY <1>6 DEF LinkLossNoticed, GoDown
  <2> QED BY <2>1, TaskAwayGap DEF callVars
<1>7. CASE Closed
  <2>1. /\ UNCHANGED <<filters, callVars, netVars>> /\ active' = NoFilters
        /\ task' \in {"backoff", "ended"} /\ link = "down"
    BY <1>7 DEF Closed, GoDown, End
  <2> QED BY <2>1, TaskAwayGap DEF callVars
<1>8. CASE BackoffElapses
  <2>1. /\ UNCHANGED <<active, filters, callVars, netVars>>
        /\ task = "backoff" /\ task' = "connecting" /\ toClient = <<>>
    BY <1>8 DEF BackoffElapses
  <2> QED BY <1>1, <2>1, TaskAwayGap DEF ServeInv, callVars
<1>9. CASE Cancel
  <2>1. /\ UNCHANGED <<filters, callVars, netVars>> /\ active' \in {active, NoFilters}
        /\ task' \in {"closing", "ended"} \/ (task' = "backoff" /\ link = "down")
    BY <1>9 DEF Cancel, GoDown, End
  <2> QED BY <2>1, TaskAwayGap DEF callVars
<1> QED BY <1>2, <1>3, <1>4, <1>5, <1>6, <1>7, <1>8, <1>9 DEF TaskStep

LEMMA BrokerHandlesGap ==
  ASSUME IInv, GapInv, BrokerHandles
  PROVE  GapInv'
<1> DEFINE p       == Head(toBroker)
           refused == IF p.kind = "subscribe" THEN DOMAIN p.filters \cap denied ELSE {}
           ack     == Ack(p.kind, p.from, refused)
<1>1. /\ link = "up" /\ link' = "up" /\ toBroker # <<>> /\ toBroker' = Tail(toBroker)
      /\ toClient' = Append(toClient, ack)
      /\ session' = IF p.kind = "subscribe"
                    THEN Merge(session, Without(p.filters, refused))
                    ELSE Without(session, DOMAIN p.filters)
      /\ UNCHANGED <<task, wanted, filters, active, call, denied>>
  BY DEF BrokerHandles, taskVars, callVars
<1>2. toBroker \in Seq(Packets) /\ toClient \in Seq(Acks) /\ denied \subseteq Denied
  BY DEF IInv, NetInv
<1>3. /\ p = toBroker[1] /\ 1 \in DOMAIN toBroker /\ p \in Packets
      /\ toBroker' \in Seq(Packets) /\ Len(toBroker') = Len(toBroker) - 1 /\ Len(toBroker) \in Nat
      /\ \A i \in DOMAIN toBroker' : i + 1 \in DOMAIN toBroker /\ toBroker'[i] = toBroker[i + 1]
  BY <1>1, <1>2, Popped
<1>4. ack \in Acks /\ ack.from = p.from /\ ack.refused = refused
  BY <1>2, <1>3 DEF Ack, Acks, Packets
<1> HIDE DEF ack, refused, p
<1>5. /\ Head(toClient') = IF toClient = <<>> THEN ack ELSE Head(toClient)
      /\ toClient' # <<>> /\ Len(toClient') = Len(toClient) + 1
      /\ \A i \in DOMAIN toClient' : \/ i \in DOMAIN toClient /\ toClient'[i] = toClient[i]
                                     \/ i = Len(toClient') /\ toClient'[i] = ack
  BY <1>1, <1>2, <1>4, Pushed
<1>6. ActiveInv' /\ LacksInv' /\ DeniedInv'
  BY <1>1 DEF GapInv, ActiveInv, LacksInv, Lacks, DeniedInv
<1>7. PacketsInv'
  BY <1>1, <1>3 DEF GapInv, PacketsInv
<1>8. OrderInv'
  <2> SUFFICES ASSUME NEW c \in Calls
               PROVE  /\ call[c].phase \in {"idle", "queued"} => ~Sent(c)' /\ ~Answered(c)'
                      /\ call[c].phase \in Awaiting => SentLast(c)' /\ AnsweredLast(c)'
    BY <1>1 DEF OrderInv
  <2>1. (Sent(c)' => Sent(c)) /\ (p.from = c => Sent(c)) /\ (Sent(c) => toBroker # <<>>)
    BY <1>1, <1>3 DEF Sent
  <2>2. Answered(c)' => Answered(c) \/ p.from = c
    BY <1>4, <1>5 DEF Answered
  <2>3. CASE call[c].phase \in {"idle", "queued"}
    BY <2>1, <2>2, <2>3 DEF GapInv, OrderInv, Awaiting
  <2>4. CASE call[c].phase \in Awaiting
    <3>1. SentLast(c) /\ AnsweredLast(c)
      BY <2>4 DEF GapInv, OrderInv
    <3>2. ~Answered(c)
      BY <1>1, <3>1 DEF AnsweredLast, Answered
    <3>3. CASE p.from = c
      <4>1. 1 = Len(toBroker)
        BY <1>3, <3>1, <3>3 DEF SentLast
      <4>2. toBroker' = <<>>
        <5>1. toBroker' \in Seq(Packets) /\ Len(toBroker') = Len(toBroker) - 1
          BY <1>3
        <5>2. Len(toBroker') = 0
          BY <4>1, <5>1
        <5> QED BY <5>1, <5>2, EmptySeq
      <4>3. SentLast(c)'
        BY <4>2, EmptySeq DEF SentLast
      <4>4. ASSUME NEW i \in DOMAIN toClient', toClient'[i].from = c
            PROVE  i = Len(toClient') /\ toClient'[i] = ack
        BY <1>5, <3>2, <4>4 DEF Answered
      <4>5. ASSUME call[c].phase = "suback"
            PROVE  /\ refused = DOMAIN call[c].new \cap denied
                   /\ refused = {} => \A g \in DOMAIN call[c].new :
                                         g \in DOMAIN session' /\ session'[g] = call[c].new[g]
        <5>1. p = Packet("subscribe", c, call[c].new)
          BY <1>3, <3>1, <3>3, <4>5 DEF SentLast
        <5>2. p.kind = "subscribe" /\ p.filters = call[c].new
          BY <5>1 DEF Packet
        <5>3. refused = DOMAIN call[c].new \cap denied
          BY <5>2 DEF refused
        <5>4. session' = Merge(session, Without(call[c].new, refused))
          BY <1>1, <5>2
        <5> QED BY <5>3, <5>4 DEF Merge, Without
      <4>6. AnsweredLast(c)'
        BY <1>1, <1>4, <4>2, <4>4, <4>5 DEF AnsweredLast
      <4> QED BY <2>4, <4>3, <4>6 DEF Awaiting
    <3>4. CASE p.from # c
      <4>1. ~Answered(c)'
        BY <2>2, <3>2, <3>4
      <4>2. ASSUME NEW i \in DOMAIN toBroker', toBroker'[i].from = c
            PROVE  /\ i = Len(toBroker')
                   /\ call[c].phase = "suback" =>
                        toBroker'[i] = Packet("subscribe", c, call[c].new)
        <5>1. i + 1 \in DOMAIN toBroker /\ toBroker'[i] = toBroker[i + 1]
          BY <1>3
        <5>2. i + 1 = Len(toBroker) /\ i \in Int
          <6>1. DOMAIN toBroker' = 1..Len(toBroker')
            BY <1>3, LenProperties
          <6> QED BY <3>1, <4>2, <5>1, <6>1 DEF SentLast
        <5>3. call[c].phase = "suback" => toBroker[i + 1] = Packet("subscribe", c, call[c].new)
          BY <3>1, <4>2, <5>1 DEF SentLast
        <5> QED BY <1>3, <5>1, <5>2, <5>3
      <4>3. SentLast(c)'
        BY <1>1, <4>1, <4>2 DEF SentLast
      <4>4. AnsweredLast(c)'
        BY <4>1 DEF AnsweredLast, Answered
      <4> QED BY <2>4, <4>3, <4>4 DEF Awaiting
    <3> QED BY <3>3, <3>4
  <2> QED BY <2>3, <2>4 DEF Awaiting
<1>9. task = "suback" /\ toClient = <<>> =>
        p.from = Serve /\ p.kind = "subscribe" /\ p.filters = Subscriptions(filters)
  <2> SUFFICES ASSUME task = "suback", toClient = <<>>
               PROVE  p.from = Serve /\ p.kind = "subscribe" /\ p.filters = Subscriptions(filters)
    OBVIOUS
  <2>1. p = Packet("subscribe", Serve, wanted) /\ wanted = Subscriptions(filters)
    BY <1>1 DEF GapInv, ServeInv, p
  <2> QED BY <2>1 DEF Packet
<1>10. ServeInv'
  <2>1. task' # "connecting" /\ task' # "backoff"
    BY <1>1 DEF GapInv, ServeInv
  <2>2. task = "suback" => Head(toClient').from = Serve
    BY <1>4, <1>5, <1>9 DEF GapInv, ServeInv
  <2> QED BY <1>1, <1>5, <2>1, <2>2 DEF GapInv, ServeInv
<1>11. HeldInv'
  <2> SUFFICES ASSUME NEW g \in Outermost(filters), g \notin denied, task \in {"serving", "suback"}
               PROVE  g \in DOMAIN session' /\ session'[g] >= Subscriptions(filters)[g]
    BY <1>1 DEF HeldInv, Subscribed
  <2>1. IsFilterDict(Subscriptions(filters)) /\ DOMAIN Subscriptions(filters) = Outermost(filters)
        /\ g \in DOMAIN filters
    BY SubscriptionsShape DEF IInv, FiltersInv
  <2>2. Subscriptions(filters)[g] \in Int
    BY <2>1 DEF IsFilterDict, QoSs
  <2>3. g \notin refused
    BY DEF refused
  <2>4. CASE task = "suback" /\ toClient = <<>>
    <3>1. p.kind = "subscribe" /\ p.filters = Subscriptions(filters)
      BY <1>9, <2>4
    <3>2. session' = Merge(session, Without(Subscriptions(filters), refused))
      BY <1>1, <3>1
    <3>3. g \in DOMAIN session' /\ session'[g] = Subscriptions(filters)[g]
      BY <2>1, <2>3, <3>2 DEF Merge, Without
    <3> QED BY <2>2, <3>3
  <2>5. CASE ~(task = "suback" /\ toClient = <<>>)
    <3>1. g \in DOMAIN session /\ session[g] >= Subscriptions(filters)[g]
      BY <1>1, <2>5 DEF GapInv, HeldInv, Subscribed
    <3>2. g \in DOMAIN p.filters => /\ p.kind = "subscribe"
                                    /\ p.filters[g] >= Subscriptions(filters)[g]
      BY <1>3, <2>1 DEF GapInv, PacketsInv
    <3>3. CASE p.kind = "subscribe"
      <4>1. session' = Merge(session, Without(p.filters, refused))
        BY <1>1, <3>3
      <4> QED BY <2>3, <3>1, <3>2, <4>1 DEF Merge, Without
    <3>4. CASE p.kind # "subscribe"
      <4>1. session' = Without(session, DOMAIN p.filters)
        BY <1>1, <3>4
      <4> QED BY <3>1, <3>2, <3>4, <4>1 DEF Without
    <3> QED BY <3>3, <3>4
  <2> QED BY <2>4, <2>5
<1> QED BY <1>6, <1>7, <1>8, <1>10, <1>11 DEF GapInv

LEMMA LinkDropsGap ==
  ASSUME IInv, GapInv, LinkDrops
  PROVE  GapInv'
<1>1. /\ link = "up" /\ link' = "down" /\ toBroker' = <<>>
      /\ UNCHANGED <<task, wanted, filters, active, call, denied>>
  BY DEF LinkDrops, taskVars, callVars
<1>2. toClient \in Seq(Acks) /\ Len(toClient) \in Nat
  BY LenProperties DEF IInv, NetInv
<1>3. PICK n \in 0..Len(toClient) : toClient' = SubSeq(toClient, 1, n)
  BY DEF LinkDrops
<1>4. /\ Len(toClient') = n /\ toClient' \in Seq(Acks) /\ DOMAIN toClient' = 1..n
      /\ \A i \in 1..n : toClient'[i] = toClient[i] /\ i \in DOMAIN toClient
  <2>1. \A i \in 1..n : i \in DOMAIN toClient /\ toClient[i] \in Acks
    BY <1>2, <1>3, LenProperties
  <2>2. /\ toClient' \in Seq(Acks) /\ Len(toClient') = n
        /\ \A i \in 1..n : toClient'[i] = toClient[i]
    BY <1>3, <2>1, SubSeqProperties
  <2> QED BY <2>1, <2>2, LenProperties
<1>5. DOMAIN toBroker' = {}
  BY <1>1, EmptySeq
<1>6. ActiveInv' /\ LacksInv' /\ DeniedInv' /\ PacketsInv'
  BY <1>1, <1>5 DEF GapInv, ActiveInv, LacksInv, Lacks, DeniedInv, PacketsInv
<1>7. OrderInv'
  <2> SUFFICES ASSUME NEW c \in Calls
               PROVE  /\ call[c].phase \in {"idle", "queued"} => ~Sent(c)' /\ ~Answered(c)'
                      /\ call[c].phase \in Awaiting => SentLast(c)' /\ AnsweredLast(c)'
    BY <1>1 DEF OrderInv
  <2>1. ~Sent(c)' /\ (Answered(c)' => Answered(c))
    BY <1>4, <1>5 DEF Sent, Answered
  <2>2. CASE call[c].phase \in {"idle", "queued"}
    BY <2>1, <2>2 DEF GapInv, OrderInv, Awaiting
  <2>3. CASE call[c].phase \in Awaiting
    <3>1. AnsweredLast(c)
      BY <2>3 DEF GapInv, OrderInv
    <3>2. ASSUME NEW i \in 1..n, toClient[i].from = c
          PROVE  i = n
      BY <1>2, <1>3, <1>4, <3>1, <3>2 DEF AnsweredLast
    <3>3. AnsweredLast(c)'
      BY <1>1, <1>4, <3>1, <3>2 DEF AnsweredLast
    <3>4. SentLast(c)'
      BY <1>5 DEF SentLast
    <3> QED BY <2>3, <3>3, <3>4 DEF Awaiting
  <2> QED BY <2>2, <2>3 DEF Awaiting
<1>8. ServeInv'
  <2>1. task' # "connecting" /\ task' # "backoff"
    BY <1>1 DEF GapInv, ServeInv
  <2>2. ASSUME task = "suback", toClient' # <<>> PROVE Head(toClient').from = Serve
    <3>1. n # 0
      BY <1>4, <2>2, EmptySeq
    <3>2. Head(toClient') = toClient'[1] /\ 1 \in 1..n
      BY <1>2, <1>3, <1>4, <2>2, <3>1
    <3>3. toClient # <<>> /\ Head(toClient) = toClient[1]
      BY <1>2, <1>3, <3>1, EmptySeq
    <3> QED BY <1>4, <2>2, <3>2, <3>3 DEF GapInv, ServeInv
  <2> QED BY <1>1, <2>1, <2>2 DEF GapInv, ServeInv
<1>9. HeldInv'
  BY <1>1 DEF HeldInv, Subscribed
<1> QED BY <1>6, <1>7, <1>8, <1>9 DEF GapInv

LEMMA OnlyOneMoves ==
  ASSUME CallsInv, NEW c \in Calls, NEW r, call' = [call EXCEPT ![c] = r]
  PROVE  call'[c] = r /\ \A d \in Calls \ {c} : call'[d] = call[d]
BY DEF CallsInv

LEMMA ActiveSubscribed ==
  ASSUME FiltersInv, UNCHANGED filters, active' = Subscriptions(filters)
  PROVE  ActiveInv'
<1>1. DOMAIN Subscriptions(filters) \subseteq DOMAIN filters
  BY SubscriptionsShape DEF FiltersInv
<1> QED BY <1>1 DEF ActiveInv

\* Calls that wait for the lock, end, or take an answer that ends them.
LEMMA CallAwayGap ==
  ASSUME IInv, GapInv, UNCHANGED <<taskVars, filters, toBroker, link, session, denied>>,
         active' \in {active, Subscriptions(filters)},
         \/ UNCHANGED toClient
         \/ toClient # <<>> /\ Head(toClient).from # Serve /\ toClient' = Tail(toClient),
         NEW c \in Calls, NEW r, call' = [call EXCEPT ![c] = r], r.phase \notin Awaiting,
         r.phase \in {"idle", "queued"} => call[c].phase \in {"idle", "queued"}
  PROVE  GapInv'
<1>1. UNCHANGED <<task, wanted>>
  BY DEF taskVars
<1>2. \A d \in Calls : \/ call'[d] = call[d]
                       \/ /\ call'[d].phase \notin Awaiting
                          /\ call'[d].phase \in {"idle", "queued"}
                               => call[d].phase \in {"idle", "queued"}
  BY OnlyOneMoves DEF IInv
<1>3. ActiveInv'
  <2>1. CASE UNCHANGED active
    BY <2>1 DEF GapInv, ActiveInv
  <2>2. CASE active' = Subscriptions(filters)
    BY <2>2, ActiveSubscribed DEF IInv
  <2> QED BY <2>1, <2>2
<1>4. LacksInv'
  <2>1. \A d \in Calls : call'[d].phase = "suback" => call'[d] = call[d]
    BY <1>2 DEF Awaiting
  <2> QED BY <2>1 DEF GapInv, LacksInv, Lacks
<1>5. PacketsInv' /\ DeniedInv'
  BY DEF GapInv, PacketsInv, DeniedInv
<1>6. OrderInv'
  BY <1>2, OrderKept DEF IInv, GapInv
<1>7. task = "suback" => UNCHANGED toClient
  BY DEF GapInv, ServeInv
<1>8. ServeInv'
  <2>1. toClient = <<>> => toClient' = <<>>
    OBVIOUS
  <2>2. CASE UNCHANGED toClient
    BY <1>1, <2>2 DEF GapInv, ServeInv
  <2>3. CASE ~UNCHANGED toClient
    BY <1>1, <1>7, <2>1, <2>3 DEF GapInv, ServeInv
  <2> QED BY <2>2, <2>3
<1>9. HeldInv'
  BY <1>1, <1>7 DEF GapInv, HeldInv, Subscribed
<1> QED BY <1>3, <1>4, <1>5, <1>6, <1>8, <1>9 DEF GapInv

\* The holder of the lock sends a packet when no other is on its way.
LEMMA OrderSends ==
  ASSUME NetInv, OrderInv, NEW c \in Calls, NEW p \in Packets, p.from = c, Send(p),
         \A d \in Calls \ {c} : call'[d] = call[d] /\ call[d].phase \notin Awaiting,
         call'[c].phase \in Awaiting,
         call'[c].phase = "suback" => p = Packet("subscribe", c, call'[c].new),
         ~Sent(c), ~Answered(c), \A d \in Calls : Answered(d)' => Answered(d)
  PROVE  OrderInv'
<1>1. toBroker \in Seq(Packets)
  BY DEF NetInv
<1>2. \A i \in DOMAIN toBroker' : \/ i \in DOMAIN toBroker /\ toBroker'[i] = toBroker[i]
                                  \/ i = Len(toBroker') /\ toBroker'[i] = p
  <2>1. CASE toBroker' = toBroker
    BY <2>1
  <2>2. CASE toBroker' = Append(toBroker, p)
    BY <1>1, <2>2, Pushed
  <2> QED BY <2>1, <2>2 DEF Send
<1>3. ASSUME NEW d \in Calls \ {c}, call[d].phase \in {"idle", "queued"}
      PROVE  ~Sent(d)' /\ ~Answered(d)'
  <2>1. ~Sent(d) /\ ~Answered(d)
    BY <1>3 DEF OrderInv
  <2> QED BY <1>2, <2>1 DEF Sent
<1>4. ~Answered(c)'
  OBVIOUS
<1>5. \A i \in DOMAIN toBroker' : toBroker'[i].from = c => i = Len(toBroker') /\ toBroker'[i] = p
  BY <1>2 DEF Sent
<1>6. SentLast(c)' /\ AnsweredLast(c)'
  BY <1>4, <1>5 DEF SentLast, AnsweredLast, Answered
<1> QED BY <1>3, <1>6 DEF OrderInv, Awaiting

\* What is subscribed is what _active lacks of the new cover.
LEMMA ToSubscribeLacks ==
  ASSUME FiltersInv, ActiveInv, NEW want, IsFilterDict(want), MoreWanted(filters, want)
  PROVE  /\ DOMAIN ToSubscribe(Subscriptions(want)) \subseteq Outermost(want)
         /\ Lacks(want, ToSubscribe(Subscriptions(want)))
<1> DEFINE subs == Subscriptions(want)
           new  == ToSubscribe(subs)
<1>1. DOMAIN subs = Outermost(want)
  BY SubscriptionsShape
<1> HIDE DEF subs
<1>2. /\ DOMAIN new \subseteq DOMAIN subs /\ \A g \in DOMAIN new : new[g] = subs[g]
      /\ \A g \in DOMAIN subs \ DOMAIN new : g \in DOMAIN active /\ active[g] = subs[g]
  BY DEF ToSubscribe, Without
<1>3. ASSUME NEW g \in Outermost(want), g \notin DOMAIN new
      PROVE  g \in Outermost(filters) /\ Subscriptions(filters)[g] = subs[g]
  <2>1. g \in DOMAIN active /\ active[g] = subs[g] /\ g \in DOMAIN filters
    BY <1>1, <1>2, <1>3 DEF ActiveInv
  <2>2. g \in Outermost(filters)
    BY <2>1, OutermostOfFewer
  <2> QED BY <2>1, <2>2 DEF ActiveInv
<1> HIDE DEF new
<1>4. Lacks(want, new)
  BY <1>1, <1>2, <1>3 DEF Lacks, subs
<1> QED BY <1>1, <1>2, <1>4 DEF new, subs

\* A call sends its SUBSCRIBE.
LEMMA WaitsGap ==
  ASSUME IInv, GapInv, UNCHANGED <<taskVars, filters, active, toClient, link, session, denied>>,
         NEW c \in Calls, call[c].phase = "queued",
         \A d \in Calls : call[d].phase \notin Awaiting,
         NEW want, IsFilterDict(want), MoreWanted(filters, want),
         NEW new, IsFilterDict(new), DOMAIN new \subseteq Outermost(want), Lacks(want, new),
         NEW r, call' = [call EXCEPT ![c] = r],
         r.phase = "suback", r.want = want, r.new = new,
         Send(Packet("subscribe", c, new))
  PROVE  GapInv'
<1> DEFINE p == Packet("subscribe", c, new)
<1>1. /\ p \in Packets /\ p.from = c /\ p.kind = "subscribe" /\ p.filters = new
  BY PacketShape DEF Kinds, Senders, Packet
<1>2. call'[c] = r /\ \A d \in Calls \ {c} : call'[d] = call[d]
  BY OnlyOneMoves DEF IInv
<1>3. toBroker \in Seq(Packets) /\ UNCHANGED <<task, wanted>>
  BY DEF IInv, NetInv, taskVars
<1>4. /\ \A i \in DOMAIN toBroker' : \/ i \in DOMAIN toBroker /\ toBroker'[i] = toBroker[i]
                                     \/ toBroker'[i] = p
      /\ toBroker # <<>> => toBroker' # <<>> /\ Head(toBroker') = Head(toBroker)
  <2> HIDE DEF p
  <2>1. CASE toBroker' = toBroker
    BY <2>1
  <2>2. CASE toBroker' = Append(toBroker, p)
    BY <1>1, <1>3, <2>2, Pushed
  <2>3. Send(p)
    BY DEF p
  <2> QED BY <2>1, <2>2, <2>3 DEF Send
<1>5. Send(p)
  OBVIOUS
<1>6. p = Packet("subscribe", c, new)
  OBVIOUS
<1> HIDE DEF p
<1>7. ActiveInv' /\ DeniedInv' /\ HeldInv'
  BY <1>3 DEF GapInv, ActiveInv, DeniedInv, HeldInv, Subscribed
<1>8. LacksInv'
  <2>1. \A d \in Calls : call'[d].phase = "suback" => d = c
    BY <1>2 DEF Awaiting
  <2> QED BY <1>2, <2>1 DEF LacksInv, Lacks
<1>9. PacketsInv'
  <2>1. ASSUME NEW g \in DOMAIN new \cap Outermost(filters)
        PROVE  new[g] >= Subscriptions(filters)[g]
    <3>1. g \in Outermost(want) /\ new[g] = Subscriptions(want)[g]
      BY DEF Lacks
    <3> QED BY <3>1, SubscriptionsGrow DEF IInv, FiltersInv
  <2> QED BY <1>1, <1>4, <2>1 DEF GapInv, PacketsInv
<1>10. OrderInv'
  <2>1. ~Sent(c) /\ ~Answered(c)
    BY DEF GapInv, OrderInv
  <2>2. \A d \in Calls : Answered(d)' => Answered(d)
    BY DEF Answered
  <2>3. /\ \A d \in Calls \ {c} : call'[d] = call[d] /\ call[d].phase \notin Awaiting
        /\ call'[c].phase \in Awaiting
        /\ call'[c].phase = "suback" => p = Packet("subscribe", c, call'[c].new)
    BY <1>2, <1>6 DEF Awaiting
  <2> QED BY <1>1, <1>5, <2>1, <2>2, <2>3, OrderSends DEF IInv, GapInv
<1>11. ServeInv'
  BY <1>3, <1>4 DEF GapInv, ServeInv
<1> QED BY <1>7, <1>8, <1>9, <1>10, <1>11 DEF GapInv

\* The new cover is recorded with the broker's grant, or needed none.
LEMMA RecordsGap ==
  ASSUME IInv, GapInv, UNCHANGED <<taskVars, link, session, denied>>,
         NEW c \in Calls, \A d \in Calls \ {c} : call[d].phase \notin Awaiting,
         NEW want, IsFilterDict(want), MoreWanted(filters, want),
         NEW new, IsFilterDict(new), DOMAIN new \subseteq Outermost(want), Lacks(want, new),
         Records(c, want, new), ~Sent(c),
         \/ /\ DOMAIN new = {} /\ UNCHANGED toClient /\ ~Answered(c)
         \/ /\ toBroker = <<>> /\ task # "suback"
            /\ toClient # <<>> /\ toClient' = Tail(toClient) /\ toClient' = <<>>
            /\ DOMAIN new \cap denied = {}
            /\ link = "up" => \A g \in DOMAIN new : g \in DOMAIN session /\ session[g] = new[g]
  PROVE  GapInv'
<1> DEFINE subs == Subscriptions(want)
           held == Merge(active, new)
           gone == DOMAIN held \ DOMAIN subs
           p    == Packet("unsubscribe", c, [f \in gone |-> 0])
           NoneNeeded == DOMAIN new = {} /\ UNCHANGED toClient /\ ~Answered(c)
           Granted == /\ toBroker = <<>> /\ task # "suback"
                      /\ toClient # <<>> /\ toClient' = Tail(toClient) /\ toClient' = <<>>
                      /\ DOMAIN new \cap denied = {}
                      /\ link = "up" => \A g \in DOMAIN new : g \in DOMAIN session
                                                              /\ session[g] = new[g]
<1>1. NoneNeeded \/ Granted
  OBVIOUS
<1>2. /\ filters' = want /\ UNCHANGED <<task, wanted>> /\ IsFilterDict(active)
      /\ IsFilterDict(filters)
  BY DEF Records, taskVars, IInv, FiltersInv
<1>3. /\ DOMAIN subs = Outermost(want) /\ Outermost(want) \subseteq DOMAIN want
      /\ IsFilterDict(subs) /\ \A g \in Outermost(want) : subs[g] \in Int
  BY SubscriptionsShape DEF IsFilterDict, QoSs
<1>4. /\ IsFilterDict(held) /\ IsFilterDict([f \in gone |-> 0])
      /\ DOMAIN held = DOMAIN active \cup DOMAIN new
      /\ \A g \in DOMAIN held : held[g] = IF g \in DOMAIN new THEN new[g] ELSE active[g]
  BY <1>2, MergeShape, GoneShape DEF Merge
<1>5. /\ p \in Packets /\ p.from = c /\ p.kind = "unsubscribe"
      /\ DOMAIN p.filters \cap Outermost(want) = {}
  BY <1>3, <1>4, PacketShape DEF Kinds, Senders, Packet
<1>6. PICK r : /\ call' = [call EXCEPT ![c] = r]
               /\ \/ gone = {} /\ active' = subs /\ r.phase = "ok" /\ UNCHANGED toBroker
                  \/ gone # {} /\ active' = held /\ r.phase = "unsuback" /\ Send(p)
  <2>0. CallOK(call[c])
    BY DEF IInv, CallsInv, CallInv
  <2>1. CASE gone = {}
    <3>1. /\ active' = subs /\ UNCHANGED toBroker
          /\ call' = [call EXCEPT ![c] = Moved(call[c], "ok", NoFilters, NoFilters)]
      BY <2>1 DEF Records, Ends, Moved
    <3>2. Moved(call[c], "ok", NoFilters, NoFilters).phase = "ok"
      BY <2>0, CallMoved, NoFiltersShape DEF Phases
    <3> QED BY <2>1, <3>1, <3>2
  <2>2. CASE gone # {}
    <3>1. /\ active' = held /\ Send(p)
          /\ call' = [call EXCEPT ![c] = Moved(call[c], "unsuback", want, NoFilters)]
      BY <2>2 DEF Records, Waits, Moved
    <3>2. Moved(call[c], "unsuback", want, NoFilters).phase = "unsuback"
      BY <2>0, CallMoved, NoFiltersShape DEF Phases, Pending, Awaiting
    <3> QED BY <2>2, <3>1, <3>2
  <2> QED BY <2>1, <2>2
<1> HIDE DEF subs, held, gone, p
<1>7. call'[c] = r /\ \A d \in Calls \ {c} : call'[d] = call[d]
  BY <1>6, OnlyOneMoves DEF IInv
<1>8. ASSUME NEW g \in Outermost(want), g \notin DOMAIN new
      PROVE  g \in Outermost(filters) /\ Subscriptions(filters)[g] = subs[g]
  BY <1>8 DEF Lacks, subs
<1>9. \A g \in DOMAIN new : new[g] = subs[g]
  BY DEF Lacks, subs
<1>10. DOMAIN new = {} => subs = Subscriptions(filters) /\ Outermost(want) = Outermost(filters)
  <2>1. DOMAIN new = {} => subs = Subscriptions(filters)
    BY <1>2, NothingLacks DEF subs
  <2> QED BY <1>2, <1>3, <2>1, SubscriptionsShape
<1>11. ActiveInv'
  <2>1. CASE active' = subs
    BY <1>2, <1>3, <2>1 DEF ActiveInv, subs
  <2>2. CASE active' = held
    <3> SUFFICES ASSUME NEW g \in DOMAIN held
                 PROVE  g \in DOMAIN want /\ (g \in Outermost(want) => held[g] = subs[g])
      BY <1>2, <2>2 DEF ActiveInv, subs
    <3>1. CASE g \in DOMAIN new
      BY <1>3, <1>4, <1>9, <3>1
    <3>2. CASE g \notin DOMAIN new
      <4>1. g \in DOMAIN active /\ held[g] = active[g] /\ g \in DOMAIN filters
        BY <1>4, <3>2 DEF GapInv, ActiveInv
      <4>2. g \in DOMAIN want
        BY <4>1 DEF MoreWanted
      <4> QED BY <1>8, <3>2, <4>1, <4>2 DEF GapInv, ActiveInv
    <3> QED BY <3>1, <3>2
  <2> QED BY <1>6, <2>1, <2>2
<1>12. LacksInv'
  BY <1>6, <1>7 DEF LacksInv, Awaiting
<1>13. \A i \in DOMAIN toBroker' : \/ i \in DOMAIN toBroker /\ toBroker'[i] = toBroker[i]
                                   \/ toBroker'[i] = p
  <2>0. toBroker \in Seq(Packets)
    BY DEF IInv, NetInv
  <2>1. CASE toBroker' = toBroker
    BY <2>1
  <2>2. CASE toBroker' = Append(toBroker, p)
    BY <1>5, <2>0, <2>2, Pushed
  <2> QED BY <1>6, <2>1, <2>2 DEF Send
<1>14. PacketsInv'
  <2>1. ASSUME NEW i \in DOMAIN toBroker, NEW g \in DOMAIN toBroker[i].filters \cap Outermost(want)
        PROVE  /\ toBroker[i].kind = "subscribe"
               /\ toBroker[i].filters[g] >= subs[g]
    <3>1. DOMAIN new = {}
      BY <1>1, <2>1, EmptySeq
    <3> QED BY <1>10, <3>1 DEF GapInv, PacketsInv
  <2> QED BY <1>2, <1>5, <1>13, <2>1 DEF PacketsInv, subs
<1>15. DeniedInv'
  <2>1. ASSUME NEW g \in Outermost(want), g \in denied PROVE g \in DOMAIN Configured
    <3>1. g \notin DOMAIN new
      BY <1>1, <2>1
    <3> QED BY <1>8, <2>1, <3>1 DEF GapInv, DeniedInv
  <2> QED BY <1>2, <2>1 DEF DeniedInv
<1>16. OrderInv'
  <2>1. CASE gone = {}
    <3>1. UNCHANGED <<toBroker, link, session, denied>> /\ r.phase = "ok"
      BY <1>6, <2>1
    <3>2. \A d \in Calls : \/ call'[d] = call[d]
                           \/ /\ call'[d].phase \notin Awaiting
                              /\ call'[d].phase \notin {"idle", "queued"}
      BY <1>7, <3>1 DEF Awaiting
    <3>3. UNCHANGED toClient \/ (toClient # <<>> /\ toClient' = Tail(toClient))
      OBVIOUS
    <3> QED BY <3>1, <3>2, <3>3, OrderKept DEF IInv, GapInv
  <2>2. CASE gone # {}
    <3>1. Send(p) /\ r.phase = "unsuback"
      BY <1>6, <2>2
    <3>2. CASE NoneNeeded
      <4>1. ~Answered(c) /\ \A d \in Calls : Answered(d)' => Answered(d)
        BY <3>2 DEF Answered
      <4> QED BY <1>5, <1>7, <3>1, <4>1, OrderSends DEF IInv, GapInv, Awaiting
    <3>3. CASE Granted
      <4>1. \A d \in Calls : ~Answered(d)' /\ ~Sent(d)
        BY <3>3, EmptySeq DEF Answered, Sent
      <4>2. \A i \in DOMAIN toBroker' : i = Len(toBroker') /\ toBroker'[i] = p
        <5>1. toBroker' = <<>> \/ toBroker' = <<p>>
          BY <3>1, <3>3 DEF Send
        <5>2. CASE toBroker' = <<>>
          BY <5>2, EmptySeq
        <5>3. CASE toBroker' = <<p>>
          BY <5>3
        <5> QED BY <5>1, <5>2, <5>3
      <4>3. \A d \in Calls \ {c} : ~Sent(d)'
        BY <1>5, <4>2 DEF Sent
      <4>4. SentLast(c)' /\ AnsweredLast(c)'
        BY <1>7, <3>1, <4>1, <4>2 DEF SentLast, AnsweredLast, Answered
      <4> QED BY <1>7, <3>1, <4>1, <4>3, <4>4 DEF OrderInv, Awaiting
    <3> QED BY <1>1, <3>2, <3>3
  <2> QED BY <2>1, <2>2
<1>17. ServeInv'
  <2>1. (task = "connecting" => link' = "down" /\ toClient' = <<>>)
        /\ (task = "backoff" => link' = "down")
    BY <1>1 DEF GapInv, ServeInv
  <2>2. ASSUME task = "suback"
        PROVE  /\ wanted = subs
               /\ toClient' # <<>> => Head(toClient').from = Serve
               /\ link = "up" /\ toClient' = <<>> =>
                    toBroker' # <<>> /\ Head(toBroker') = Packet("subscribe", Serve, wanted)
    <3>1. DOMAIN new = {} /\ UNCHANGED toClient
      BY <1>1, <2>2
    <3>2. toBroker # <<>> => toBroker' # <<>> /\ Head(toBroker') = Head(toBroker)
      <4>0. toBroker \in Seq(Packets)
        BY DEF IInv, NetInv
      <4>1. CASE toBroker' = toBroker
        BY <4>1
      <4>2. CASE toBroker' = Append(toBroker, p)
        BY <1>5, <4>0, <4>2, Pushed
      <4> QED BY <1>6, <4>1, <4>2 DEF Send
    <3> QED BY <1>10, <2>2, <3>1, <3>2 DEF GapInv, ServeInv
  <2> QED BY <1>2, <2>1, <2>2 DEF ServeInv, subs
<1>18. HeldInv'
  <2> SUFFICES ASSUME Subscribed', NEW g \in Outermost(want), g \notin denied
               PROVE  g \in DOMAIN session /\ session[g] >= subs[g]
    BY <1>2 DEF HeldInv, subs
  <2>1. Subscribed
    BY <1>1, <1>2 DEF Subscribed
  <2>2. CASE g \in DOMAIN new
    <3>1. g \in DOMAIN session /\ session[g] = new[g]
      BY <1>1, <2>1, <2>2 DEF Subscribed
    <3> QED BY <1>3, <1>9, <2>2, <3>1
  <2>3. CASE g \notin DOMAIN new
    BY <1>8, <2>1, <2>3 DEF GapInv, HeldInv
  <2> QED BY <2>2, <2>3
<1> QED BY <1>11, <1>12, <1>14, <1>15, <1>16, <1>17, <1>18 DEF GapInv

LEMMA EntersGap ==
  ASSUME IInv, GapInv, NEW c \in Calls, CallEnters(c)
  PROVE  GapInv'
<1> DEFINE want == WithFilter(filters, call[c].topic, call[c].qos)
           new  == ToSubscribe(Subscriptions(want))
<1>1. TaskInv /\ NetInv /\ QueueInv /\ CallsInv /\ FiltersInv
  BY DEF IInv
<1>2. /\ holder = NoCall /\ waiters # <<>> /\ c = Head(waiters)
      /\ UNCHANGED <<taskVars, link, toClient, session, denied>>
  BY DEF CallEnters
<1>3. call[c].phase = "queued"
  <2>1. waiters \in Seq(Calls)
    BY <1>1 DEF QueueInv
  <2>2. 1 \in DOMAIN waiters /\ waiters[1] = c
    BY <1>2, <2>1, EmptySeq, LenProperties
  <2> QED BY <1>1, <2>2 DEF QueueInv
<1>4. \A d \in Calls : call[d].phase \notin Awaiting
  BY <1>1, <1>2, SessionAssumption DEF CallsInv, CallInv
<1>5. CallOK(call[c]) /\ IsFilter(call[c].topic) /\ call[c].qos \in QoSs
  BY <1>1, <1>3 DEF CallsInv, CallInv, CallOK
<1>6. IsFilterDict(want) /\ IsFilterDict(new) /\ MoreWanted(filters, want)
  BY <1>1, <1>5, WithFilterShape, ToSubscribeShape DEF FiltersInv, MoreWanted
<1>7. DOMAIN new \subseteq Outermost(want) /\ Lacks(want, new)
  <2> HIDE DEF want
  <2> QED BY <1>1, <1>6, ToSubscribeLacks DEF GapInv
<1>8. ~Sent(c) /\ ~Answered(c)
  BY <1>3 DEF GapInv, OrderInv
<1>9. CASE Refuses(want)
  <2> DEFINE r == Moved(call[c], "error", NoFilters, NoFilters)
  <2>1. Ends(c, "error") /\ UNCHANGED <<filters, active, toBroker>>
    BY <1>9 DEF CallEnters
  <2>2. call' = [call EXCEPT ![c] = r]
    BY <2>1 DEF Ends, Moved
  <2>3. r.phase = "error"
    BY <1>5, CallMoved, NoFiltersShape DEF Phases
  <2> HIDE DEF r
  <2>4. r.phase \notin Awaiting /\ r.phase \notin {"idle", "queued"}
    BY <2>3 DEF Awaiting
  <2> QED BY <1>2, <2>1, <2>2, <2>4, CallAwayGap
<1>10. CASE ~Refuses(want) /\ DOMAIN new = {}
  <2>1. Records(c, want, new)
    BY <1>10 DEF CallEnters
  <2> HIDE DEF want, new
  <2> QED BY <1>2, <1>4, <1>6, <1>7, <1>8, <1>10, <2>1, RecordsGap
<1>11. CASE ~Refuses(want) /\ DOMAIN new # {}
  <2> DEFINE r == Moved(call[c], "suback", want, new)
  <2>1. /\ Waits(c, "suback", want, new) /\ Send(Packet("subscribe", c, new))
        /\ UNCHANGED <<filters, active>>
    BY <1>11 DEF CallEnters
  <2>2. call' = [call EXCEPT ![c] = r]
    BY <2>1 DEF Waits, Moved
  <2> HIDE DEF want, new
  <2>3. r.phase = "suback" /\ r.want = want /\ r.new = new
    <3>1. r.phase = "suback" /\ r.want = want
      BY <1>5, <1>6, CallMoved DEF Phases, Pending, Awaiting
    <3>2. call[c] = [phase |-> call[c].phase, topic |-> call[c].topic, qos |-> call[c].qos,
                     want |-> call[c].want, new |-> call[c].new]
      BY <1>5 DEF CallOK
    <3>3. r.new = new
      BY <3>2 DEF Moved
    <3> QED BY <3>1, <3>3
  <2> HIDE DEF r
  <2> QED BY <1>2, <1>3, <1>4, <1>6, <1>7, <2>1, <2>2, <2>3, WaitsGap
<1> QED BY <1>9, <1>10, <1>11

\* The first answer is the call's, and its coroutine takes it.
LEMMA AnswerTaken ==
  ASSUME IInv, NEW c \in Calls, Resumes(c)
  PROVE  /\ toClient # <<>> /\ toClient' = Tail(toClient) /\ Head(toClient).from = c
         /\ Head(toClient).from # Serve
         /\ 1 \in DOMAIN toClient /\ Head(toClient) = toClient[1]
<1>1. toClient \in Seq(Acks)
  BY DEF IInv, NetInv
<1>2. toClient # <<>> /\ toClient' = Tail(toClient) /\ Head(toClient).from = c
  BY DEF Resumes
<1> QED BY <1>1, <1>2, Popped, SessionAssumption

\* A call takes no notice of an answer that comes too late.
LEMMA LateAnswerGap ==
  ASSUME IInv, GapInv, NEW c \in Calls, Resumes(c), UNCHANGED <<taskVars, filters, active, call>>,
         UNCHANGED <<toBroker, link, session, denied>>
  PROVE  GapInv'
<1>1. ActiveInv' /\ LacksInv' /\ PacketsInv' /\ DeniedInv'
  BY DEF GapInv, ActiveInv, LacksInv, Lacks, PacketsInv, DeniedInv
<1>2. toClient # <<>> /\ toClient' = Tail(toClient) /\ Head(toClient).from # Serve
  BY AnswerTaken
<1>3. OrderInv'
  BY <1>2, OrderKept DEF IInv, GapInv
<1>4. task' = task /\ wanted' = wanted /\ task # "suback" /\ task # "connecting"
  BY <1>2 DEF GapInv, ServeInv, taskVars
<1>5. ServeInv' /\ HeldInv'
  BY <1>4 DEF GapInv, ServeInv, HeldInv, Subscribed
<1> QED BY <1>1, <1>3, <1>5 DEF GapInv

LEMMA GrantedGap ==
  ASSUME IInv, GapInv, NEW c \in Calls, CallGranted(c)
  PROVE  GapInv'
<1>1. UNCHANGED <<taskVars, link, session, denied>> /\ Resumes(c)
  BY DEF CallGranted
<1>2. CASE call[c].phase # "suback"
  <2>1. UNCHANGED <<filters, active, call, toBroker>>
    BY <1>2 DEF CallGranted
  <2> QED BY <1>1, <2>1, LateAnswerGap
<1>3. CASE call[c].phase = "suback"
  <2>1. /\ toClient # <<>> /\ toClient' = Tail(toClient) /\ Head(toClient).from = c
        /\ Head(toClient).from # Serve
        /\ 1 \in DOMAIN toClient /\ Head(toClient) = toClient[1]
    BY <1>1, AnswerTaken
  <2>2. CallOK(call[c])
    BY DEF IInv, CallsInv, CallInv
  <2>3. CASE Head(toClient).refused # {}
    <3> DEFINE r == Moved(call[c], "error", NoFilters, NoFilters)
    <3>1. Ends(c, "error") /\ UNCHANGED <<filters, active, toBroker>>
      BY <1>3, <2>3 DEF CallGranted
    <3>2. call' = [call EXCEPT ![c] = r]
      BY <3>1 DEF Ends, Moved
    <3>3. r.phase = "error"
      BY <2>2, CallMoved, NoFiltersShape DEF Phases
    <3> HIDE DEF r
    <3>4. r.phase \notin Awaiting /\ r.phase \notin {"idle", "queued"}
      BY <3>3 DEF Awaiting
    <3> QED BY <1>1, <2>1, <3>1, <3>2, <3>4, CallAwayGap
  <2>4. CASE Head(toClient).refused = {}
    <3> DEFINE want == call[c].want
               new  == call[c].new
    <3>1. Records(c, want, new)
      BY <1>3, <2>4 DEF CallGranted
    <3>2. /\ holder = c /\ CallInv(c, call[c], filters, holder) /\ IsFilter(call[c].topic)
      BY <1>3, AwaitingHolds DEF Awaiting
    <3>3. /\ IsFilterDict(want) /\ IsFilterDict(new) /\ call[c].qos \in QoSs
          /\ want = WithFilter(filters, call[c].topic, call[c].qos)
      BY <1>3, <3>2 DEF CallInv, CallOK
    <3>4. MoreWanted(filters, want)
      BY <3>2, <3>3, WithFilterShape DEF MoreWanted, IInv, FiltersInv
    <3>5. DOMAIN new \subseteq Outermost(want) /\ Lacks(want, new)
      BY <1>3 DEF GapInv, LacksInv
    <3>6. \A d \in Calls \ {c} : call[d].phase \notin Awaiting
      BY <3>2 DEF IInv, CallsInv, CallInv
    <3>7. SentLast(c) /\ AnsweredLast(c)
      BY <1>3 DEF GapInv, OrderInv, Awaiting
    <3>8. /\ 1 = Len(toClient) /\ toBroker = <<>>
          /\ toClient[1].refused = DOMAIN new \cap denied
          /\ link = "up" => \A g \in DOMAIN new : g \in DOMAIN session /\ session[g] = new[g]
      BY <1>3, <2>1, <2>4, <3>7 DEF AnsweredLast
    <3>9. toClient' = <<>>
      <4>1. toClient \in Seq(Acks)
        BY DEF IInv, NetInv
      <4>2. toClient' \in Seq(Acks) /\ Len(toClient') = Len(toClient) - 1
        BY <2>1, <4>1, Popped
      <4>3. Len(toClient') = 0
        BY <3>8, <4>2
      <4> QED BY <4>2, <4>3, EmptySeq
    <3>10. task # "suback"
      BY <2>1 DEF GapInv, ServeInv
    <3>11. ~Sent(c)
      BY <3>8, EmptySeq DEF Sent
    <3> HIDE DEF want, new
    <3> QED BY <1>1, <2>1, <2>4, <3>1, <3>3, <3>4, <3>5, <3>6, <3>8, <3>9, <3>10, <3>11, RecordsGap
  <2> QED BY <2>3, <2>4
<1> QED BY <1>2, <1>3

LEMMA DroppedGap ==
  ASSUME IInv, GapInv, NEW c \in Calls, CallDropped(c)
  PROVE  GapInv'
<1>1. UNCHANGED <<taskVars, filters, toBroker, link, session, denied>> /\ Resumes(c)
  BY DEF CallDropped
<1>2. CASE call[c].phase # "unsuback"
  <2>1. UNCHANGED <<active, call>>
    BY <1>2 DEF CallDropped
  <2> QED BY <1>1, <2>1, LateAnswerGap
<1>3. CASE call[c].phase = "unsuback"
  <2> DEFINE r == Moved(call[c], "ok", NoFilters, NoFilters)
  <2>1. active' = Subscriptions(call[c].want) /\ Ends(c, "ok")
    BY <1>3 DEF CallDropped
  <2>2. CallOK(call[c]) /\ call[c].want = filters
    BY <1>3 DEF IInv, CallsInv, CallInv
  <2>3. call' = [call EXCEPT ![c] = r]
    BY <2>1 DEF Ends, Moved
  <2>4. r.phase = "ok"
    BY <2>2, CallMoved, NoFiltersShape DEF Phases
  <2> HIDE DEF r
  <2>5. r.phase \notin Awaiting /\ r.phase \notin {"idle", "queued"}
    BY <2>4 DEF Awaiting
  <2>6. toClient # <<>> /\ toClient' = Tail(toClient) /\ Head(toClient).from # Serve
    BY <1>1, AnswerTaken
  <2> QED BY <1>1, <2>1, <2>2, <2>3, <2>5, <2>6, CallAwayGap
<1> QED BY <1>2, <1>3

LEMMA CallStepGap ==
  ASSUME IInv, GapInv, NEW c \in Calls, CallStep(c)
  PROVE  GapInv'
<1>0. CallOK(call[c])
  BY DEF IInv, CallsInv, CallInv
<1>1. CASE CallStarts(c)
  <2>1. PICK q \in Requests :
           call' = [call EXCEPT ![c] = [Idle EXCEPT !.phase = "queued",
                                                    !.topic = q.topic, !.qos = q.qos]]
    BY <1>1 DEF CallStarts
  <2> DEFINE r == [Idle EXCEPT !.phase = "queued", !.topic = q.topic, !.qos = q.qos]
  <2>2. call' = [call EXCEPT ![c] = r] /\ call[c].phase = "idle"
    BY <1>1, <2>1 DEF CallStarts
  <2>3. r.phase = "queued"
    BY DEF Idle
  <2>4. UNCHANGED <<taskVars, filters, active, toBroker, toClient, link, session, denied>>
    BY <1>1 DEF CallStarts, netVars
  <2> HIDE DEF r
  <2>5. r.phase \notin Awaiting
    BY <2>3 DEF Awaiting
  <2> QED BY <2>2, <2>4, <2>5, CallAwayGap
<1>2. CASE CallGivesUp(c)
  <2> DEFINE r == Moved(call[c], "error", NoFilters, NoFilters)
  <2>1. Ends(c, "error") /\ UNCHANGED <<taskVars, filters, active, netVars>>
    BY <1>2 DEF CallGivesUp
  <2>2. call' = [call EXCEPT ![c] = r]
    BY <2>1 DEF Ends, Moved
  <2>3. r.phase = "error"
    BY <1>0, CallMoved, NoFiltersShape DEF Phases
  <2>4. UNCHANGED <<taskVars, filters, active, toBroker, toClient, link, session, denied>>
    BY <2>1 DEF netVars
  <2> HIDE DEF r
  <2>5. r.phase \notin Awaiting /\ r.phase \notin {"idle", "queued"}
    BY <2>3 DEF Awaiting
  <2> QED BY <2>2, <2>4, <2>5, CallAwayGap
<1>3. CASE CallLeavesQueue(c)
  <2> DEFINE r == [call[c] EXCEPT !.phase = "error"]
  <2>1. call' = [call EXCEPT ![c] = r]
    BY <1>3 DEF CallLeavesQueue
  <2>2. r.phase = "error"
    <3>1. call[c] = [phase |-> call[c].phase, topic |-> call[c].topic, qos |-> call[c].qos,
                     want |-> call[c].want, new |-> call[c].new]
      BY <1>0 DEF CallOK
    <3> QED BY <3>1
  <2>3. UNCHANGED <<taskVars, filters, active, toBroker, toClient, link, session, denied>>
    BY <1>3 DEF CallLeavesQueue, netVars
  <2> HIDE DEF r
  <2>4. r.phase \notin Awaiting /\ r.phase \notin {"idle", "queued"}
    BY <2>2 DEF Awaiting
  <2> QED BY <2>1, <2>3, <2>4, CallAwayGap
<1>4. CASE CallEnters(c)  BY <1>4, EntersGap
<1>5. CASE CallGranted(c) BY <1>5, GrantedGap
<1>6. CASE CallDropped(c) BY <1>6, DroppedGap
<1> QED BY <1>1, <1>2, <1>3, <1>4, <1>5, <1>6 DEF CallStep

LEMMA StepGap ==
  ASSUME IInv, GapInv, [Next]_vars
  PROVE  GapInv'
<1>1. CASE UNCHANGED vars
  <2>1. UNCHANGED <<task, wanted, filters, active, call, netVars>>
    BY <1>1 DEF vars, taskVars, callVars
  <2>2. UNCHANGED <<task, wanted, filters, active, call, toBroker, toClient, link, session, denied>>
    BY <2>1 DEF netVars
  <2>3. ActiveInv' /\ LacksInv' /\ PacketsInv' /\ DeniedInv'
    BY <2>2 DEF GapInv, ActiveInv, LacksInv, Lacks, PacketsInv, DeniedInv
  <2>4. OrderInv'
    BY <2>2 DEF GapInv, OrderInv, Sent, Answered, SentLast, AnsweredLast
  <2>5. ServeInv' /\ HeldInv'
    BY <2>2 DEF GapInv, ServeInv, HeldInv, Subscribed
  <2> QED BY <2>3, <2>4, <2>5 DEF GapInv
<1>2. CASE Next
  BY <1>2, TaskStepGap, CallStepGap, BrokerHandlesGap, LinkDropsGap DEF Next
<1> QED BY <1>1, <1>2

\* No gap in what is received, for every configuration, every number of actions
\* and faults: while the message loop runs on a live link the broker holds a
\* subscription over each wanted filter, at its QoS or a higher one, or has denied
\* a configured one.
THEOREM NothingMissed == Spec => []NoGap
<1>1. IInv /\ GapInv /\ [Next]_vars => GapInv'
  BY StepGap
<1> QED BY <1>1, InitGap, InitIInv, Invariance, GapInvImplies, PTL DEF Spec

-----------------------------------------------------------------------------
(***************************************************************************)
(* AnsweredListed: what status() lists                                     *)
(***************************************************************************)
ListedInv == active = NoFilters \/ Outermost(filters) \subseteq DOMAIN active

LEMMA ListedInvImplies == IInv /\ ListedInv => AnsweredListed
<1> DEFINE listed == IF active = NoFilters THEN Subscriptions(filters) ELSE active
<1> SUFFICES ASSUME IInv, ListedInv, NEW c \in Calls, call[c].phase = "ok"
             PROVE  \E f \in DOMAIN listed : Covers(f, call[c].topic)
  BY DEF AnsweredListed
<1>1. call[c].topic \in DOMAIN filters /\ IsFilterDict(filters)
  BY DEF IInv, CallsInv, CallInv, FiltersInv
<1>2. PICK g \in Outermost(filters) : Covers(g, call[c].topic)
  BY <1>1, SubscriptionsCover, SubscriptionsShape
<1>3. g \in DOMAIN listed
  BY <1>1, <1>2, SubscriptionsShape DEF ListedInv
<1> QED BY <1>2, <1>3

LEMMA RecordsListed ==
  ASSUME FiltersInv, ListedInv, NEW c \in Calls, NEW want, IsFilterDict(want),
         NEW new, DOMAIN new \subseteq Outermost(want), Lacks(want, new), Records(c, want, new)
  PROVE  ListedInv'
<1> DEFINE subs == Subscriptions(want)
           held == Merge(active, new)
<1>1. filters' = want /\ DOMAIN subs = Outermost(want)
  BY SubscriptionsShape DEF Records
<1>2. CASE DOMAIN held \subseteq DOMAIN subs
  <2>1. active' = subs
    BY <1>2 DEF Records
  <2> HIDE DEF subs
  <2> QED BY <1>1, <2>1 DEF ListedInv
<1>3. CASE ~(DOMAIN held \subseteq DOMAIN subs)
  <2>1. active' = held
    BY <1>3 DEF Records
  <2>2. DOMAIN held = DOMAIN active \cup DOMAIN new
    BY DEF Merge
  <2> HIDE DEF subs, held
  <2>3. active # NoFilters
    BY <1>1, <1>3, <2>2 DEF NoFilters
  <2>4. Outermost(want) \subseteq DOMAIN held
    BY <2>2, <2>3 DEF ListedInv, Lacks
  <2> QED BY <1>1, <2>1, <2>4 DEF ListedInv
<1> QED BY <1>2, <1>3

LEMMA StepListed ==
  ASSUME IInv, GapInv, ListedInv, [Next]_vars
  PROVE  ListedInv'
<1>1. FiltersInv /\ IsFilterDict(filters) /\ CallsInv
  BY DEF IInv, FiltersInv
<1>2. ASSUME UNCHANGED filters, active' \in {active, NoFilters, Subscriptions(filters)}
      PROVE  ListedInv'
  <2>1. DOMAIN Subscriptions(filters) = Outermost(filters)
    BY <1>1, SubscriptionsShape
  <2> QED BY <1>2, <2>1 DEF ListedInv
<1>3. CASE TaskStep
  <2>1. CASE Connect
    <3>1. UNCHANGED filters /\ active' \in {active, NoFilters}
      BY <2>1 DEF Connect
    <3> QED BY <1>2, <3>1
  <2>2. CASE ServeGranted
    <3>1. UNCHANGED filters /\ (active' = active \/ (task = "suback" /\ active' = wanted))
      BY <2>2 DEF ServeGranted
    <3> QED BY <1>2, <3>1 DEF GapInv, ServeInv
  <2>3. CASE ConnectFails \/ ServeTimesOut \/ LinkLossNoticed
    <3>1. UNCHANGED filters /\ active' \in {active, NoFilters}
      BY <2>3 DEF ConnectFails, ServeTimesOut, LinkLossNoticed, GoDown
    <3> QED BY <1>2, <3>1
  <2>4. CASE Closed \/ BackoffElapses \/ Cancel
    <3>1. UNCHANGED filters /\ active' \in {active, NoFilters}
      BY <2>4 DEF Closed, BackoffElapses, Cancel, GoDown, End
    <3> QED BY <1>2, <3>1
  <2> QED BY <1>3, <2>1, <2>2, <2>3, <2>4 DEF TaskStep
<1>4. CASE BrokerHandles \/ LinkDrops \/ UNCHANGED vars
  <2>1. UNCHANGED <<filters, active>>
    BY <1>4 DEF BrokerHandles, LinkDrops, vars
  <2> QED BY <1>2, <2>1
<1>5. ASSUME NEW c \in Calls, CallStep(c)
      PROVE  ListedInv'
  <2>1. CASE CallStarts(c) \/ CallGivesUp(c) \/ CallLeavesQueue(c)
    <3>1. UNCHANGED <<filters, active>>
      BY <2>1 DEF CallStarts, CallGivesUp, CallLeavesQueue
    <3> QED BY <1>2, <3>1
  <2>2. CASE CallDropped(c)
    <3>1. /\ UNCHANGED filters
          /\ \/ UNCHANGED active
             \/ call[c].phase = "unsuback" /\ active' = Subscriptions(call[c].want)
      BY <2>2 DEF CallDropped
    <3>2. call[c].phase = "unsuback" => call[c].want = filters
      BY <1>1 DEF CallsInv, CallInv
    <3> QED BY <1>2, <3>1, <3>2
  <2>3. CASE CallEnters(c)
    <3> DEFINE want == WithFilter(filters, call[c].topic, call[c].qos)
               new  == ToSubscribe(Subscriptions(want))
    <3>1. UNCHANGED <<filters, active>> \/ Records(c, want, new)
      BY <2>3 DEF CallEnters
    <3>2. call[c].phase = "queued"
      <4>1. waiters \in Seq(Calls) /\ waiters # <<>> /\ c = Head(waiters)
        BY <2>3 DEF CallEnters, IInv, QueueInv
      <4>2. 1 \in DOMAIN waiters /\ waiters[1] = c
        BY <4>1, EmptySeq, LenProperties
      <4> QED BY <4>2 DEF IInv, QueueInv
    <3>3. IsFilter(call[c].topic) /\ call[c].qos \in QoSs
      BY <1>1, <3>2 DEF CallsInv, CallInv, CallOK
    <3>4. IsFilterDict(want) /\ MoreWanted(filters, want)
      BY <1>1, <3>3, WithFilterShape DEF MoreWanted
    <3> HIDE DEF want
    <3>5. DOMAIN new \subseteq Outermost(want) /\ Lacks(want, new)
      BY <1>1, <3>4, ToSubscribeLacks DEF GapInv
    <3> HIDE DEF new
    <3> QED BY <1>1, <1>2, <3>1, <3>4, <3>5, RecordsListed
  <2>4. CASE CallGranted(c)
    <3>1. \/ UNCHANGED <<filters, active>>
          \/ call[c].phase = "suback" /\ Records(c, call[c].want, call[c].new)
      BY <2>4 DEF CallGranted
    <3>2. ASSUME call[c].phase = "suback"
          PROVE  /\ IsFilterDict(call[c].want) /\ DOMAIN call[c].new \subseteq Outermost(call[c].want)
                 /\ Lacks(call[c].want, call[c].new)
      BY <1>1, <3>2 DEF CallsInv, CallInv, CallOK, GapInv, LacksInv
    <3> QED BY <1>1, <1>2, <3>1, <3>2, RecordsListed
  <2> QED BY <1>5, <2>1, <2>2, <2>3, <2>4 DEF CallStep
<1> QED BY <1>3, <1>4, <1>5 DEF Next

\* Whatever a reconnect or another action is in the middle of, a topic that an
\* action has returned is received by a filter that status() lists.
THEOREM AnswersListed == Spec => []AnsweredListed
<1>1. Init => ListedInv
  BY DEF Init, ListedInv
<1>2. IInv /\ GapInv /\ ListedInv /\ [Next]_vars => ListedInv'
  BY StepListed
<1>3. Spec => []GapInv
  <2>1. IInv /\ GapInv /\ [Next]_vars => GapInv'
    BY StepGap
  <2> QED BY <2>1, InitGap, Invariance, PTL DEF Spec
<1> QED BY <1>1, <1>2, <1>3, Invariance, ListedInvImplies, PTL DEF Spec

-----------------------------------------------------------------------------
(***************************************************************************)
(* SettledExact: nothing more than the wanted filters, once all is settled *)
(***************************************************************************)

\* A call that waits for its SUBACK, one that waits for its UNSUBACK, and the
\* packets between them and the broker while it has refused nothing.
Asking(c)  == call[c].phase = "suback"
Leaving(c) == call[c].phase = "unsuback"

Asked(c)    == Packet("subscribe", c, call[c].new)
Left(c)     == Packet("unsubscribe", c, [f \in DOMAIN active \ Outermost(filters) |-> 0])
ServeAsked  == Packet("subscribe", Serve, wanted)
Granted(from) == Ack("subscribe", from, {})

\* Before _serve's SUBACK.
FirstExact ==
  \/ /\ session = NoFilters /\ toClient = <<>>
     /\ \/ toBroker = <<ServeAsked>>
        \/ \E c \in Calls : Asking(c) /\ toBroker = <<ServeAsked, Asked(c)>>
  \/ /\ session = wanted /\ toClient = <<Granted(Serve)>>
     /\ toBroker = <<>> \/ \E c \in Calls : Asking(c) /\ toBroker = <<Asked(c)>>
  \/ \E c \in Calls : /\ Asking(c) /\ session = Merge(wanted, call[c].new)
                      /\ toBroker = <<>> /\ toClient = <<Granted(Serve), Granted(c)>>

\* From then on, the one action that has the lock is all that is under way.
ServingExact ==
  \/ /\ session = active /\ active = Subscriptions(filters) /\ toClient = <<>>
     /\ toBroker = <<>> \/ \E c \in Calls : Asking(c) /\ toBroker = <<Asked(c)>>
  \/ \E c \in Calls : /\ Asking(c) /\ active = Subscriptions(filters)
                      /\ session = Merge(active, call[c].new)
                      /\ toBroker = <<>> /\ toClient = <<Granted(c)>>
  \/ \E c \in Calls : /\ Leaving(c) /\ session = active
                      /\ Without(active, DOMAIN active \ Outermost(filters)) = Subscriptions(filters)
                      /\ toBroker = <<Left(c)>> /\ toClient = <<>>
  \/ \E c \in Calls : /\ Leaving(c) /\ session = Subscriptions(filters)
                      /\ toBroker = <<>> /\ toClient = <<Ack("unsubscribe", c, {})>>

\* What a broken connection leaves behind it in _active.
EarlyExact ==
  /\ task \in {"connecting", "backoff"} =>
       active = NoFilters \/ (active = Subscriptions(filters) /\ holder = NoCall)
  /\ task = "suback" => active \in {NoFilters, Subscriptions(filters)}

ExactInv ==
  /\ EarlyExact
  /\ link = "up" /\ ~unsure => /\ task = "suback" => FirstExact
                               /\ task = "serving" => ServingExact

LEMMA ExactInvImplies == IInv /\ ExactInv => SettledExact
<1> SUFFICES ASSUME IInv, ExactInv, task = "serving", link = "up", holder = NoCall, ~unsure
             PROVE  session = active /\ active = Subscriptions(filters)
  BY DEF SettledExact
<1>1. \A c \in Calls : ~Asking(c) /\ ~Leaving(c)
  BY SessionAssumption DEF IInv, CallsInv, CallInv, Awaiting, Asking, Leaving
<1> QED BY <1>1 DEF ExactInv, ServingExact

LEMMA Tuples ==
  ASSUME NEW a, NEW b
  PROVE  /\ <<a>> # <<>> /\ Head(<<a>>) = a /\ Tail(<<a>>) = <<>>
         /\ <<a, b>> # <<>> /\ Head(<<a, b>>) = a /\ Tail(<<a, b>>) = <<b>>
         /\ Append(<<>>, a) = <<a>> /\ Append(<<a>>, b) = <<a, b>>
<1>1. <<a>> # <<>> /\ <<a, b>> # <<>>
  OBVIOUS
<1>2. Head(<<a>>) = a /\ Head(<<a, b>>) = a
  OBVIOUS
<1>3. Tail(<<a>>) = <<>>
  OBVIOUS
<1>4. Tail(<<a, b>>) = <<b>>
  OBVIOUS
<1>5. Append(<<>>, a) = <<a>>
  OBVIOUS
<1>6. Append(<<a>>, b) = <<a, b>>
  <2> DEFINE s == Append(<<a>>, b)
             S == {a, b}
  <2>1. <<a>> \in Seq(S) /\ <<a, b>> \in Seq(S) /\ b \in S /\ Len(<<a>>) = 1 /\ <<a>>[1] = a
    OBVIOUS
  <2> HIDE DEF S
  <2>2. s \in Seq(S) /\ Len(s) = 2 /\ s[1] = a /\ s[2] = b
    BY <2>1, AppendProperties
  <2>3. Len(<<a, b>>) = 2 /\ <<a, b>>[1] = a /\ <<a, b>>[2] = b
    OBVIOUS
  <2> HIDE DEF s
  <2>4. \A i \in 1..2 : s[i] = <<a, b>>[i]
    BY <2>2, <2>3
  <2>5. s = <<a, b>>
    BY <2>1, <2>2, <2>3, <2>4, SeqEqual
  <2> QED BY <2>5 DEF s
<1> QED BY <1>1, <1>2, <1>3, <1>4, <1>5, <1>6

LEMMA DictUnits ==
  ASSUME NEW d, IsFilterDict(d)
  PROVE  Without(d, {}) = d /\ Merge(NoFilters, d) = d
<1>1. d = [f \in DOMAIN d |-> d[f]]
  BY DEF IsFilterDict
<1>2. Without(d, {}) = d
  BY <1>1 DEF Without
<1>3. Merge(NoFilters, d) = [f \in DOMAIN d |-> d[f]]
  BY DEF Merge, NoFilters
<1> QED BY <1>1, <1>2, <1>3

\* No step of a call that awaits an answer, nor of what it awaits.
LEMMA ExactKept ==
  ASSUME UNCHANGED <<wanted, filters, active, session, toBroker, toClient>>,
         \A c \in Calls : call[c].phase \in Awaiting => call'[c] = call[c]
  PROVE  (FirstExact => FirstExact') /\ (ServingExact => ServingExact')
<1>1. \A c \in Calls : /\ Asking(c) => Asking(c)' /\ Asked(c)' = Asked(c)
                                       /\ call'[c].new = call[c].new
                       /\ Leaving(c) => Leaving(c)' /\ Left(c)' = Left(c)
  BY DEF Asking, Leaving, Asked, Left, Awaiting
<1>2. ServeAsked' = ServeAsked /\ Granted(Serve)' = Granted(Serve)
  BY DEF ServeAsked, Granted
<1>3. FirstExact => FirstExact'
  BY <1>1, <1>2 DEF FirstExact, Granted
<1>4. ServingExact => ServingExact'
  BY <1>1 DEF ServingExact, Granted
<1> QED BY <1>3, <1>4

LEMMA TaskStepExact ==
  ASSUME IInv, GapInv, ExactInv, TaskStep
  PROVE  ExactInv'
<1>1. CASE Connect
  <2>1. /\ UNCHANGED <<filters, holder, toClient>> /\ task = "connecting" /\ toClient = <<>>
        /\ session' = NoFilters /\ wanted' = Subscriptions(filters)
        /\ \/ wanted' = NoFilters /\ task' = "serving" /\ active' = NoFilters /\ toBroker' = <<>>
           \/ task' = "suback" /\ UNCHANGED active /\ toBroker' = <<ServeAsked'>>
    <3>1. task = "connecting" /\ UNCHANGED <<filters, callVars, toClient>>
          /\ session' = NoFilters /\ wanted' = Subscriptions(filters)
      BY <1>1 DEF Connect
    <3>2. \/ wanted' = NoFilters /\ task' = "serving" /\ active' = NoFilters /\ toBroker' = <<>>
          \/ task' = "suback" /\ UNCHANGED active /\ toBroker' = <<ServeAsked'>>
      BY <1>1 DEF Connect, ServeAsked
    <3>3. toClient = <<>>
      BY <3>1 DEF GapInv, ServeInv
    <3> QED BY <3>1, <3>2, <3>3 DEF callVars
  <2>2. CASE task' = "serving"
    <3>1. ServingExact'
      BY <2>1, <2>2 DEF ServingExact
    <3> QED BY <2>2, <3>1 DEF ExactInv, EarlyExact
  <2>3. CASE task' = "suback"
    <3>1. FirstExact'
      BY <2>1, <2>3 DEF FirstExact
    <3>2. active' \in {NoFilters, Subscriptions(filters')}
      BY <2>1, <2>3 DEF ExactInv, EarlyExact
    <3> QED BY <2>3, <3>1, <3>2 DEF ExactInv, EarlyExact
  <2> QED BY <2>1, <2>2, <2>3
<1>2. CASE ServeGranted
  <2>1. /\ UNCHANGED <<filters, holder, call, wanted, toBroker, link, session, unsure>>
        /\ toClient # <<>> /\ Head(toClient).from = Serve /\ toClient' = Tail(toClient)
    BY <1>2 DEF ServeGranted, Resumes, callVars
  <2>2. CASE task = "suback"
    <3>1. task' = "serving" /\ active' = wanted /\ wanted = Subscriptions(filters)
      BY <1>2, <2>2 DEF ServeGranted, GapInv, ServeInv
    <3>2. ASSUME link = "up", ~unsure PROVE ServingExact'
      <4>1. FirstExact
        BY <2>2, <3>2 DEF ExactInv
      <4>2. \A c \in Calls : (Asking(c) => Asking(c)') /\ Asked(c)' = Asked(c)
        BY <2>1 DEF Asking, Asked
      <4>3. CASE /\ session = wanted /\ toClient = <<Granted(Serve)>>
                 /\ toBroker = <<>> \/ \E c \in Calls : Asking(c) /\ toBroker = <<Asked(c)>>
        <5>1. toClient' = <<>>
          BY <2>1, <4>3, Tuples
        <5> QED BY <2>1, <3>1, <4>2, <4>3, <5>1 DEF ServingExact
      <4>4. ASSUME NEW c \in Calls, Asking(c), session = Merge(wanted, call[c].new),
                   toBroker = <<>>, toClient = <<Granted(Serve), Granted(c)>>
            PROVE  ServingExact'
        <5>1. toClient' = <<Granted(c)>>
          BY <2>1, <4>4, Tuples
        <5> QED BY <2>1, <3>1, <4>2, <4>4, <5>1 DEF ServingExact, Granted
      <4> QED BY <2>1, <4>1, <4>3, <4>4 DEF FirstExact
    <3> QED BY <2>1, <3>1, <3>2 DEF ExactInv, EarlyExact
  <2>3. CASE task # "suback"
    <3>1. task' = task /\ active' = active
      BY <1>2, <2>3 DEF ServeGranted
    <3>2. ServingExact => FALSE
      <4>1. \A c \in Calls : Granted(c).from = c /\ Ack("unsubscribe", c, {}).from = c
        BY DEF Granted, Ack
      <4> QED BY <2>1, <4>1, Tuples, SessionAssumption DEF ServingExact
    <3> QED BY <2>1, <2>3, <3>1, <3>2 DEF ExactInv, EarlyExact
  <2> QED BY <2>2, <2>3
<1>3. CASE ConnectFails \/ BackoffElapses
  <2>1. /\ UNCHANGED <<filters, active, holder>> /\ task \in {"connecting", "backoff"}
        /\ task' \in {"connecting", "backoff"}
    BY <1>3 DEF ConnectFails, BackoffElapses, callVars
  <2> QED BY <2>1 DEF ExactInv, EarlyExact
<1>4. CASE ServeTimesOut \/ LinkLossNoticed
  <2>1. task' = "closing" \/ (task' = "backoff" /\ active' = NoFilters)
    BY <1>4 DEF ServeTimesOut, LinkLossNoticed, GoDown
  <2> QED BY <2>1 DEF ExactInv, EarlyExact
<1>5. CASE Closed \/ Cancel
  <2>1. task' \in {"closing", "ended"} \/ (task' = "backoff" /\ active' = NoFilters)
    BY <1>5 DEF Closed, Cancel, GoDown, End
  <2> QED BY <2>1 DEF ExactInv, EarlyExact
<1> QED BY <1>1, <1>2, <1>3, <1>4, <1>5 DEF TaskStep

LEMMA BrokerHandlesExact ==
  ASSUME IInv, GapInv, ExactInv, BrokerHandles
  PROVE  ExactInv'
<1> DEFINE p       == Head(toBroker)
           refused == IF p.kind = "subscribe" THEN DOMAIN p.filters \cap denied ELSE {}
<1>1. /\ link = "up" /\ link' = "up" /\ toBroker # <<>> /\ toBroker' = Tail(toBroker)
      /\ toClient' = Append(toClient, Ack(p.kind, p.from, refused))
      /\ session' = IF p.kind = "subscribe"
                    THEN Merge(session, Without(p.filters, refused))
                    ELSE Without(session, DOMAIN p.filters)
      /\ unsure' = (unsure \/ refused # {})
      /\ UNCHANGED <<task, wanted, filters, active, call, holder>>
  BY DEF BrokerHandles, taskVars, callVars
<1> HIDE DEF p, refused
<1>2. EarlyExact'
  BY <1>1 DEF ExactInv, EarlyExact
<1> SUFFICES ASSUME ~unsure, refused = {}, task \in {"suback", "serving"}
             PROVE  /\ task = "suback" => FirstExact'
                    /\ task = "serving" => ServingExact'
  BY <1>1, <1>2 DEF ExactInv
<1>3. ASSUME NEW from, NEW d, IsFilterDict(d), p = Packet("subscribe", from, d)
      PROVE  /\ session' = Merge(session, d)
             /\ toClient' = Append(toClient, Granted(from))
  <2>1. p.kind = "subscribe" /\ p.from = from /\ p.filters = d
    BY <1>3 DEF Packet
  <2>2. Without(d, refused) = d
    BY <1>3, DictUnits
  <2> QED BY <1>1, <2>1, <2>2 DEF Granted
<1>4. /\ ServeAsked' = ServeAsked /\ IsFilterDict(wanted)
      /\ \A c \in Calls : /\ (Asking(c) => Asking(c)') /\ (Leaving(c) => Leaving(c)')
                          /\ Asked(c)' = Asked(c) /\ IsFilterDict(call[c].new)
  BY <1>1 DEF ServeAsked, Asking, Leaving, Asked, IInv, TaskInv, CallsInv, CallInv, CallOK
<1>5. CASE task = "suback"
  <2>1. FirstExact
    BY <1>1, <1>5 DEF ExactInv
  <2>2. CASE /\ session = NoFilters /\ toClient = <<>>
             /\ \/ toBroker = <<ServeAsked>>
                \/ \E c \in Calls : Asking(c) /\ toBroker = <<ServeAsked, Asked(c)>>
    <3>1. /\ p = ServeAsked
          /\ toBroker' = <<>> \/ \E c \in Calls : Asking(c) /\ toBroker' = <<Asked(c)>>
      <4>1. p = Head(toBroker) /\ toBroker' = Tail(toBroker)
        BY <1>1 DEF p
      <4>2. CASE toBroker = <<ServeAsked>>
        BY <4>1, <4>2, Tuples
      <4>3. ASSUME NEW c \in Calls, Asking(c), toBroker = <<ServeAsked, Asked(c)>>
            PROVE  p = ServeAsked /\ toBroker' = <<Asked(c)>>
        BY <4>1, <4>3, Tuples
      <4> QED BY <2>2, <4>2, <4>3
    <3>2. session' = wanted /\ toClient' = <<Granted(Serve)>>
      <4>1. session' = Merge(NoFilters, wanted) /\ toClient' = Append(<<>>, Granted(Serve))
        BY <1>3, <1>4, <2>2, <3>1 DEF ServeAsked
      <4> QED BY <1>4, <4>1, Tuples, DictUnits
    <3> QED BY <1>1, <1>4, <1>5, <3>1, <3>2 DEF FirstExact, Granted
  <2>3. ASSUME NEW c \in Calls, Asking(c), session = wanted, toClient = <<Granted(Serve)>>,
               toBroker = <<Asked(c)>>
        PROVE  FirstExact'
    <3>1. p = Asked(c) /\ toBroker' = <<>>
      BY <1>1, <2>3, Tuples DEF p
    <3>2. session' = Merge(wanted, call[c].new) /\ toClient' = <<Granted(Serve), Granted(c)>>
      <4>1. /\ session' = Merge(wanted, call[c].new)
            /\ toClient' = Append(<<Granted(Serve)>>, Granted(c))
        BY <1>3, <1>4, <2>3, <3>1 DEF Asked
      <4> QED BY <4>1, Tuples
    <3> QED BY <1>1, <1>4, <2>3, <3>1, <3>2 DEF FirstExact, Granted
  <2> QED BY <1>1, <1>5, <2>1, <2>2, <2>3 DEF FirstExact
<1>6. CASE task = "serving"
  <2>1. ServingExact
    BY <1>1, <1>6 DEF ExactInv
  <2>2. ASSUME NEW c \in Calls, Asking(c), session = active, active = Subscriptions(filters),
               toClient = <<>>, toBroker = <<Asked(c)>>
        PROVE  ServingExact'
    <3>1. p = Asked(c) /\ toBroker' = <<>>
      BY <1>1, <2>2, Tuples DEF p
    <3>2. session' = Merge(active, call[c].new) /\ toClient' = <<Granted(c)>>
      <4>1. session' = Merge(active, call[c].new) /\ toClient' = Append(<<>>, Granted(c))
        BY <1>3, <1>4, <2>2, <3>1 DEF Asked
      <4> QED BY <4>1, Tuples
    <3> QED BY <1>1, <1>4, <2>2, <3>1, <3>2 DEF ServingExact, Granted
  <2>3. ASSUME NEW c \in Calls, Leaving(c), session = active, toClient = <<>>,
               Without(active, DOMAIN active \ Outermost(filters)) = Subscriptions(filters),
               toBroker = <<Left(c)>>
        PROVE  ServingExact'
    <3>1. p = Left(c) /\ toBroker' = <<>>
      BY <1>1, <2>3, Tuples DEF p
    <3>2. /\ p.kind = "unsubscribe" /\ p.from = c
          /\ DOMAIN p.filters = DOMAIN active \ Outermost(filters)
      BY <3>1 DEF Left, Packet
    <3>3. session' = Subscriptions(filters)
      BY <1>1, <2>3, <3>2
    <3>4. toClient' = <<Ack("unsubscribe", c, {})>>
      <4>1. toClient' = Append(<<>>, Ack("unsubscribe", c, {}))
        BY <1>1, <2>3, <3>2
      <4> QED BY <4>1, Tuples
    <3> QED BY <1>1, <1>4, <2>3, <3>1, <3>3, <3>4 DEF ServingExact
  <2> QED BY <1>1, <1>6, <2>1, <2>2, <2>3 DEF ServingExact
<1> QED BY <1>5, <1>6

\* Of the recorded cover nothing is left to drop, or the rest is what it must be.
LEMMA NewCover ==
  ASSUME FiltersInv, active = Subscriptions(filters), NEW want, IsFilterDict(want),
         NEW new, DOMAIN new \subseteq Outermost(want), Lacks(want, new)
  PROVE  LET held == Merge(active, new)
         IN  /\ Without(held, DOMAIN held \ Outermost(want)) = Subscriptions(want)
             /\ DOMAIN held \subseteq Outermost(want) => held = Subscriptions(want)
<1> DEFINE held == Merge(active, new)
           subs == Subscriptions(want)
<1>1. DOMAIN subs = Outermost(want) /\ subs = [g \in DOMAIN subs |-> subs[g]]
  BY SubscriptionsShape DEF IsFilterDict
<1>2. DOMAIN active = Outermost(filters) /\ \A g \in DOMAIN active : active[g] = Subscriptions(filters)[g]
  BY SubscriptionsShape DEF FiltersInv
<1>3. /\ DOMAIN held = DOMAIN active \cup DOMAIN new /\ held = [g \in DOMAIN held |-> held[g]]
      /\ \A g \in DOMAIN held : held[g] = IF g \in DOMAIN new THEN new[g] ELSE active[g]
  BY DEF Merge
<1> HIDE DEF held
<1>4. \A g \in Outermost(want) : g \in DOMAIN held /\ held[g] = subs[g]
  BY <1>2, <1>3 DEF Lacks
<1> HIDE DEF subs
<1>5. Without(held, DOMAIN held \ Outermost(want)) = subs
  <2>1. DOMAIN held \ (DOMAIN held \ Outermost(want)) = Outermost(want)
    BY <1>4
  <2>2. Without(held, DOMAIN held \ Outermost(want)) = [g \in Outermost(want) |-> held[g]]
    BY <2>1 DEF Without
  <2>3. [g \in Outermost(want) |-> held[g]] = [g \in Outermost(want) |-> subs[g]]
    BY <1>4
  <2> QED BY <1>1, <2>2, <2>3
<1>6. DOMAIN held \subseteq Outermost(want) => held = subs
  <2> SUFFICES ASSUME DOMAIN held \subseteq Outermost(want) PROVE held = subs
    OBVIOUS
  <2>1. DOMAIN held = Outermost(want)
    BY <1>4
  <2>2. [g \in Outermost(want) |-> held[g]] = [g \in Outermost(want) |-> subs[g]]
    BY <1>4
  <2> QED BY <1>1, <1>3, <2>1, <2>2
<1> QED BY <1>5, <1>6 DEF held, subs

\* The two ways to record.
LEMMA RecordsCases ==
  ASSUME CallsInv, NEW c \in Calls, NEW want, IsFilterDict(want), NEW new, Records(c, want, new)
  PROVE  LET held == Merge(active, new)
             gone == DOMAIN held \ Outermost(want)
         IN  /\ filters' = want
             /\ \A d \in Calls \ {c} : call'[d] = call[d]
             /\ \/ /\ gone = {} /\ active' = Subscriptions(want) /\ UNCHANGED toBroker
                   /\ call'[c].phase = "ok" /\ holder' = NoCall
                \/ /\ gone # {} /\ active' = held
                   /\ call'[c].phase = "unsuback"
                   /\ Send(Packet("unsubscribe", c, [f \in gone |-> 0]))
<1> DEFINE held == Merge(active, new)
           gone == DOMAIN held \ Outermost(want)
           done == DOMAIN held \ DOMAIN Subscriptions(want)
<1>1. gone = done /\ filters' = want
  BY SubscriptionsShape DEF Records
<1>2. CallOK(call[c])
  BY DEF CallsInv, CallInv
<1>3. CASE gone = {}
  <2>1. /\ active' = Subscriptions(want) /\ UNCHANGED toBroker /\ holder' = NoCall
        /\ call' = [call EXCEPT ![c] = Moved(call[c], "ok", NoFilters, NoFilters)]
    BY <1>1, <1>3 DEF Records, Ends, Moved
  <2>2. Moved(call[c], "ok", NoFilters, NoFilters).phase = "ok"
    <3>1. "ok" \in Phases
      BY DEF Phases
    <3> QED BY <1>2, <3>1, CallMoved, NoFiltersShape
  <2> QED BY <1>1, <1>3, <2>1, <2>2, OnlyOneMoves
<1>4. CASE gone # {}
  <2>1. /\ active' = held /\ Send(Packet("unsubscribe", c, [f \in done |-> 0]))
        /\ call' = [call EXCEPT ![c] = Moved(call[c], "unsuback", want, NoFilters)]
    BY <1>1, <1>4 DEF Records, Waits, Moved
  <2>2. Moved(call[c], "unsuback", want, NoFilters).phase = "unsuback"
    BY <1>2, CallMoved, NoFiltersShape DEF Phases, Pending, Awaiting
  <2>3. [f \in done |-> 0] = [f \in gone |-> 0]
    BY <1>1
  <2> HIDE DEF held, gone, done
  <2>4. Send(Packet("unsubscribe", c, [f \in gone |-> 0]))
    BY <2>1, <2>3
  <2> QED BY <1>1, <1>4, <2>1, <2>2, <2>4, OnlyOneMoves DEF held, gone
<1> QED BY <1>3, <1>4

LEMMA EntersExact ==
  ASSUME IInv, GapInv, ExactInv, NEW c \in Calls, CallEnters(c)
  PROVE  ExactInv'
<1> DEFINE want == WithFilter(filters, call[c].topic, call[c].qos)
           new  == ToSubscribe(Subscriptions(want))
<1>1. TaskInv /\ NetInv /\ QueueInv /\ CallsInv /\ FiltersInv
  BY DEF IInv
<1>2. /\ holder = NoCall /\ waiters # <<>> /\ c = Head(waiters)
      /\ UNCHANGED <<task, connected, wanted, link, toClient, session, unsure>>
  BY DEF CallEnters, taskVars
<1>3. call[c].phase = "queued"
  <2>1. waiters \in Seq(Calls)
    BY <1>1 DEF QueueInv
  <2>2. 1 \in DOMAIN waiters /\ waiters[1] = c
    BY <1>2, <2>1, EmptySeq, LenProperties
  <2> QED BY <1>1, <2>2 DEF QueueInv
<1>4. \A d \in Calls : call[d].phase \notin Awaiting
  BY <1>1, <1>2, SessionAssumption DEF CallsInv, CallInv
<1>5. \A d \in Calls : ~Asking(d) /\ ~Leaving(d)
  BY <1>4 DEF Asking, Leaving, Awaiting
<1>6. CallOK(call[c]) /\ IsFilter(call[c].topic) /\ call[c].qos \in QoSs
  BY <1>1, <1>3 DEF CallsInv, CallInv, CallOK
<1>7. IsFilterDict(want) /\ IsFilterDict(new) /\ MoreWanted(filters, want)
  BY <1>1, <1>6, WithFilterShape, ToSubscribeShape DEF FiltersInv, MoreWanted
<1>8. DOMAIN new \subseteq Outermost(want) /\ Lacks(want, new)
  <2> HIDE DEF want
  <2> QED BY <1>1, <1>7, ToSubscribeLacks DEF GapInv
<1>9. CASE Refuses(want)
  <2>1. Ends(c, "error") /\ UNCHANGED <<filters, active, toBroker>>
    BY <1>9 DEF CallEnters
  <2>2. holder' = NoCall
    BY <2>1 DEF Ends
  <2>3. (FirstExact => FirstExact') /\ (ServingExact => ServingExact')
    BY <1>2, <1>4, <2>1, ExactKept
  <2> QED BY <1>2, <2>1, <2>2, <2>3 DEF ExactInv, EarlyExact
<1>10. CASE ~Refuses(want)
  <2>0. task \notin {"connecting", "backoff"}
    BY <1>1, <1>10 DEF Refuses, TaskInv
  <2>1. CASE DOMAIN new = {}
    <3>1. Records(c, want, new)
      BY <1>10, <2>1 DEF CallEnters
    <3> HIDE DEF want, new
    <3>2. Subscriptions(want) = Subscriptions(filters) /\ Outermost(want) = Outermost(filters)
      <4>1. Subscriptions(want) = Subscriptions(filters)
        BY <1>1, <1>7, <1>8, <2>1, NothingLacks DEF FiltersInv
      <4> QED BY <1>1, <1>7, <4>1, SubscriptionsShape DEF FiltersInv
    <3> DEFINE held == Merge(active, new)
               gone == DOMAIN held \ Outermost(want)
    <3>3. /\ filters' = want /\ \A d \in Calls \ {c} : call'[d] = call[d]
          /\ gone = {} => active' = Subscriptions(want) /\ UNCHANGED toBroker
      <4>1. CallsInv /\ IsFilterDict(want) /\ Records(c, want, new)
        BY <1>1, <1>7, <3>1
      <4> DEFINE done == DOMAIN Merge(active, new) \ Outermost(want)
      <4>2. /\ filters' = want
            /\ \A d \in Calls \ {c} : call'[d] = call[d]
            /\ \/ /\ done = {} /\ active' = Subscriptions(want) /\ UNCHANGED toBroker
                  /\ call'[c].phase = "ok" /\ holder' = NoCall
               \/ /\ done # {} /\ active' = Merge(active, new)
                  /\ call'[c].phase = "unsuback"
                  /\ Send(Packet("unsubscribe", c, [f \in done |-> 0]))
        BY <4>1, RecordsCases
      <4>3. gone = done
        OBVIOUS
      <4> HIDE DEF done, gone
      <4> QED BY <4>2, <4>3
    <3>4. ASSUME active \in {NoFilters, Subscriptions(filters)}
          PROVE  /\ active' = Subscriptions(filters) /\ active' = Subscriptions(filters')
                 /\ UNCHANGED toBroker
      <4>1. DOMAIN held = DOMAIN active
        BY <2>1 DEF Merge
      <4>2. DOMAIN active \subseteq Outermost(filters)
        BY <1>1, <3>4, SubscriptionsShape DEF FiltersInv, NoFilters
      <4> HIDE DEF held
      <4> QED BY <3>2, <3>3, <4>1, <4>2
    <3> HIDE DEF held, gone
    <3>5. task = "suback" => active' \in {NoFilters, Subscriptions(filters')}
      BY <3>4 DEF ExactInv, EarlyExact
    <3>6. ASSUME link = "up", ~unsure, task = "suback" PROVE FirstExact'
      <4>1. UNCHANGED toBroker /\ FirstExact
        BY <3>4, <3>6 DEF ExactInv, EarlyExact
      <4>2. ServeAsked' = ServeAsked
        BY <1>2 DEF ServeAsked
      <4> QED BY <1>2, <1>5, <4>1, <4>2 DEF FirstExact, Granted
    <3>7. ASSUME link = "up", ~unsure, task = "serving" PROVE ServingExact'
      <4>1. /\ session = active /\ active = Subscriptions(filters) /\ toClient = <<>>
            /\ toBroker = <<>>
        BY <1>5, <3>7 DEF ExactInv, ServingExact
      <4> QED BY <1>2, <3>4, <4>1 DEF ServingExact
    <3> QED BY <1>2, <2>0, <3>5, <3>6, <3>7 DEF ExactInv, EarlyExact
  <2>2. CASE DOMAIN new # {}
    <3> DEFINE r == Moved(call[c], "suback", want, new)
    <3>1. /\ Waits(c, "suback", want, new) /\ Send(Packet("subscribe", c, new))
          /\ UNCHANGED <<filters, active>>
      BY <1>10, <2>2 DEF CallEnters
    <3>2. call' = [call EXCEPT ![c] = r]
      BY <3>1 DEF Waits, Moved
    <3> HIDE DEF want, new
    <3>3. r.phase = "suback" /\ r.new = new
      <4>1. r.phase = "suback"
        BY <1>6, <1>7, CallMoved DEF Phases, Pending, Awaiting
      <4>2. call[c] = [phase |-> call[c].phase, topic |-> call[c].topic, qos |-> call[c].qos,
                       want |-> call[c].want, new |-> call[c].new]
        BY <1>6 DEF CallOK
      <4>3. r.new = new
        BY <4>2 DEF Moved
      <4> QED BY <4>1, <4>3
    <3> HIDE DEF r
    <3>4. Asking(c)' /\ Asked(c)' = Packet("subscribe", c, new)
      <4>1. call'[c] = r
        BY <1>1, <3>2, OnlyOneMoves
      <4> QED BY <3>3, <4>1 DEF Asking, Asked
    <3>5. ASSUME link = "up" PROVE toBroker' = Append(toBroker, Asked(c)')
      BY <3>1, <3>4, <3>5 DEF Send
    <3>6. ASSUME link = "up", ~unsure, task = "suback" PROVE FirstExact'
      <4>1. FirstExact /\ ServeAsked' = ServeAsked
        BY <1>2, <3>6 DEF ExactInv, ServeAsked
      <4>2. CASE session = NoFilters /\ toClient = <<>> /\ toBroker = <<ServeAsked>>
        <5>1. toBroker' = <<ServeAsked', Asked(c)'>>
          BY <3>5, <3>6, <4>1, <4>2, Tuples
        <5> QED BY <1>2, <3>4, <4>2, <5>1 DEF FirstExact
      <4>3. CASE session = wanted /\ toClient = <<Granted(Serve)>> /\ toBroker = <<>>
        <5>1. toBroker' = <<Asked(c)'>>
          BY <3>5, <3>6, <4>3, Tuples
        <5> QED BY <1>2, <3>4, <4>3, <5>1 DEF FirstExact, Granted
      <4> QED BY <1>5, <4>1, <4>2, <4>3 DEF FirstExact
    <3>7. ASSUME link = "up", ~unsure, task = "serving" PROVE ServingExact'
      <4>1. /\ session = active /\ active = Subscriptions(filters) /\ toClient = <<>>
            /\ toBroker = <<>>
        BY <1>5, <3>7 DEF ExactInv, ServingExact
      <4>2. toBroker' = <<Asked(c)'>>
        BY <3>5, <3>7, <4>1, Tuples
      <4> QED BY <1>2, <3>1, <3>4, <4>1, <4>2 DEF ServingExact
    <3> QED BY <1>2, <2>0, <3>1, <3>6, <3>7 DEF ExactInv, EarlyExact
  <2> QED BY <2>1, <2>2
<1> QED BY <1>9, <1>10

\* Before _serve's SUBACK no call is resumed; a late one finds _active empty.
LEMMA AnswerIsOwn ==
  ASSUME IInv, GapInv, ExactInv, NEW c \in Calls, Resumes(c)
  PROVE  /\ task # "suback" /\ task # "connecting"
         /\ link = "up" /\ ~unsure /\ task = "serving" =>
              \/ /\ Asking(c) /\ active = Subscriptions(filters)
                 /\ session = Merge(active, call[c].new)
                 /\ toBroker = <<>> /\ Head(toClient) = Granted(c) /\ toClient' = <<>>
              \/ /\ Leaving(c) /\ session = Subscriptions(filters)
                 /\ toBroker = <<>> /\ Head(toClient) = Ack("unsubscribe", c, {})
                 /\ toClient' = <<>>
<1>1. toClient # <<>> /\ toClient' = Tail(toClient) /\ Head(toClient).from = c /\ c # Serve
  BY SessionAssumption DEF Resumes
<1>2. task # "suback" /\ task # "connecting"
  BY <1>1 DEF GapInv, ServeInv
<1> SUFFICES ASSUME link = "up", ~unsure, task = "serving"
             PROVE  \/ /\ Asking(c) /\ active = Subscriptions(filters)
                       /\ session = Merge(active, call[c].new)
                       /\ toBroker = <<>> /\ Head(toClient) = Granted(c) /\ toClient' = <<>>
                    \/ /\ Leaving(c) /\ session = Subscriptions(filters)
                       /\ toBroker = <<>> /\ Head(toClient) = Ack("unsubscribe", c, {})
                       /\ toClient' = <<>>
  BY <1>2
<1>3. ServingExact
  BY DEF ExactInv
<1>4. \A d \in Calls : Granted(d).from = d /\ Ack("unsubscribe", d, {}).from = d
  BY DEF Granted, Ack
<1>5. ASSUME NEW d \in Calls, Asking(d), active = Subscriptions(filters),
             session = Merge(active, call[d].new), toBroker = <<>>, toClient = <<Granted(d)>>
      PROVE  d = c /\ Head(toClient) = Granted(c) /\ toClient' = <<>>
  BY <1>1, <1>4, <1>5, Tuples
<1>6. ASSUME NEW d \in Calls, Leaving(d), session = Subscriptions(filters),
             toBroker = <<>>, toClient = <<Ack("unsubscribe", d, {})>>
      PROVE  d = c /\ Head(toClient) = Ack("unsubscribe", c, {}) /\ toClient' = <<>>
  BY <1>1, <1>4, <1>6, Tuples
<1> QED BY <1>1, <1>3, <1>5, <1>6 DEF ServingExact

LEMMA GrantedExact ==
  ASSUME IInv, GapInv, ExactInv, NEW c \in Calls, CallGranted(c)
  PROVE  ExactInv'
<1>1. /\ UNCHANGED <<task, wanted, link, session, unsure>> /\ Resumes(c)
      /\ Head(toClient).kind = "subscribe"
  BY DEF CallGranted, taskVars
<1>2. /\ task # "suback" /\ task # "connecting"
      /\ link = "up" /\ ~unsure /\ task = "serving" =>
           /\ Asking(c) /\ active = Subscriptions(filters)
           /\ session = Merge(active, call[c].new)
           /\ toBroker = <<>> /\ Head(toClient) = Granted(c) /\ toClient' = <<>>
  <2>1. Ack("unsubscribe", c, {}).kind # "subscribe"
    BY DEF Ack
  <2> QED BY <1>1, <2>1, AnswerIsOwn
<1>3. CASE call[c].phase # "suback"
  <2>1. UNCHANGED <<filters, active, holder>>
    BY <1>3 DEF CallGranted
  <2>2. ~(link = "up" /\ ~unsure /\ task = "serving")
    BY <1>2, <1>3 DEF Asking
  <2> QED BY <1>1, <1>2, <2>1, <2>2 DEF ExactInv, EarlyExact
<1>4. CASE call[c].phase = "suback"
  <2>1. holder = c /\ holder # NoCall
    BY <1>4, AwaitingHolds, SessionAssumption DEF Awaiting
  <2>2. task = "backoff" => active = NoFilters
    BY <2>1 DEF ExactInv, EarlyExact
  <2>3. CASE Head(toClient).refused # {}
    <3>1. UNCHANGED <<filters, active>>
      BY <1>4, <2>3 DEF CallGranted
    <3>2. Granted(c).refused = {}
      BY DEF Granted, Ack
    <3>3. ~(link = "up" /\ ~unsure /\ task = "serving")
      BY <1>2, <2>3, <3>2
    <3> QED BY <1>1, <1>2, <2>2, <3>1, <3>3 DEF ExactInv, EarlyExact
  <2>4. CASE Head(toClient).refused = {}
    <3> DEFINE want == call[c].want
               new  == call[c].new
               held == Merge(active, new)
               gone == DOMAIN held \ Outermost(want)
    <3>1. CallsInv /\ FiltersInv /\ IsFilterDict(want)
      BY DEF IInv, CallsInv, CallInv, CallOK
    <3>2. DOMAIN new \subseteq Outermost(want) /\ Lacks(want, new)
      BY <1>4 DEF GapInv, LacksInv
    <3>3. Records(c, want, new)
      BY <1>4, <2>4 DEF CallGranted
    <3>4. active = Subscriptions(filters) =>
            /\ Without(held, gone) = Subscriptions(want)
            /\ gone = {} => held = Subscriptions(want)
      <4> HIDE DEF want, new
      <4> QED BY <3>1, <3>2, NewCover
    <3>5. active = NoFilters => gone = {}
      BY <3>2 DEF Merge, NoFilters
    <3>6. /\ filters' = want
          /\ \/ /\ gone = {} /\ active' = Subscriptions(want) /\ UNCHANGED toBroker
                /\ holder' = NoCall
             \/ /\ gone # {} /\ active' = held /\ call'[c].phase = "unsuback"
                /\ Send(Packet("unsubscribe", c, [f \in gone |-> 0]))
      <4> DEFINE done == DOMAIN Merge(active, new) \ Outermost(want)
      <4> HIDE DEF want, new
      <4>1. /\ filters' = want
            /\ \A d \in Calls \ {c} : call'[d] = call[d]
            /\ \/ /\ done = {} /\ active' = Subscriptions(want) /\ UNCHANGED toBroker
                  /\ call'[c].phase = "ok" /\ holder' = NoCall
               \/ /\ done # {} /\ active' = Merge(active, new)
                  /\ call'[c].phase = "unsuback"
                  /\ Send(Packet("unsubscribe", c, [f \in done |-> 0]))
        BY <3>1, <3>3, RecordsCases
      <4>2. done = gone
        OBVIOUS
      <4>3. [f \in done |-> 0] = [f \in gone |-> 0]
        OBVIOUS
      <4> HIDE DEF done, gone
      <4> QED BY <4>1, <4>2, <4>3
    <3> HIDE DEF want
    <3>7. task = "backoff" => active' = Subscriptions(filters') /\ holder' = NoCall
      BY <2>2, <3>5, <3>6
    <3>8. ASSUME link = "up", ~unsure, task = "serving" PROVE ServingExact'
      <4>1. /\ active = Subscriptions(filters) /\ session = held
            /\ toBroker = <<>> /\ toClient' = <<>>
        BY <1>2, <3>8
      <4> HIDE DEF held, new
      <4>2. CASE gone = {}
        <5>1. active' = Subscriptions(filters') /\ session' = active' /\ toBroker' = <<>>
          BY <1>1, <3>4, <3>6, <4>1, <4>2
        <5> QED BY <4>1, <5>1 DEF ServingExact
      <4>3. CASE gone # {}
        <5>1. /\ active' = held /\ call'[c].phase = "unsuback" /\ filters' = want
              /\ Send(Packet("unsubscribe", c, [f \in gone |-> 0]))
          BY <3>6, <4>3
        <5>2. Left(c)' = Packet("unsubscribe", c, [f \in gone |-> 0])
          BY <5>1 DEF Left
        <5>3. toBroker' = <<Left(c)'>>
          <6>1. toBroker' = Append(<<>>, Left(c)')
            BY <3>8, <4>1, <5>1, <5>2 DEF Send
          <6> QED BY <6>1, Tuples
        <5>4. /\ Leaving(c)' /\ session' = active'
              /\ Without(active', DOMAIN active' \ Outermost(filters')) = Subscriptions(filters')
          BY <1>1, <3>4, <4>1, <5>1 DEF Leaving
        <5> QED BY <4>1, <5>3, <5>4 DEF ServingExact
      <4> QED BY <4>2, <4>3
    <3> HIDE DEF gone
    <3> QED BY <1>1, <1>2, <3>7, <3>8 DEF ExactInv, EarlyExact
  <2> QED BY <2>3, <2>4
<1> QED BY <1>3, <1>4

LEMMA DroppedExact ==
  ASSUME IInv, GapInv, ExactInv, NEW c \in Calls, CallDropped(c)
  PROVE  ExactInv'
<1>1. /\ UNCHANGED <<task, wanted, filters, toBroker, link, session, unsure>> /\ Resumes(c)
      /\ Head(toClient).kind = "unsubscribe"
  BY DEF CallDropped, taskVars
<1>2. /\ task # "suback" /\ task # "connecting"
      /\ link = "up" /\ ~unsure /\ task = "serving" =>
           /\ Leaving(c) /\ session = Subscriptions(filters)
           /\ toBroker = <<>> /\ toClient' = <<>>
  <2>1. Granted(c).kind # "unsubscribe"
    BY DEF Granted, Ack
  <2> QED BY <1>1, <2>1, AnswerIsOwn
<1>3. CASE call[c].phase # "unsuback"
  <2>1. UNCHANGED <<active, holder>>
    BY <1>3 DEF CallDropped
  <2>2. ~(link = "up" /\ ~unsure /\ task = "serving")
    BY <1>2, <1>3 DEF Leaving
  <2> QED BY <1>1, <1>2, <2>1, <2>2 DEF ExactInv, EarlyExact
<1>4. CASE call[c].phase = "unsuback"
  <2>1. call[c].want = filters
    BY <1>4 DEF IInv, CallsInv, CallInv
  <2>2. active' = Subscriptions(filters) /\ holder' = NoCall
    BY <1>4, <2>1 DEF CallDropped, Ends
  <2>3. ASSUME link = "up", ~unsure, task = "serving" PROVE ServingExact'
    BY <1>1, <1>2, <2>2, <2>3 DEF ServingExact
  <2> QED BY <1>1, <1>2, <2>2, <2>3 DEF ExactInv, EarlyExact
<1> QED BY <1>3, <1>4

LEMMA CallStepExact ==
  ASSUME IInv, GapInv, ExactInv, NEW c \in Calls, CallStep(c)
  PROVE  ExactInv'
<1>1. CASE CallStarts(c) \/ CallLeavesQueue(c)
  <2>1. /\ UNCHANGED <<filters, active, holder>>
        /\ UNCHANGED <<task, wanted, toBroker, toClient, link, session, unsure>>
        /\ call[c].phase \in {"idle", "queued"}
    BY <1>1 DEF CallStarts, CallLeavesQueue, taskVars, netVars
  <2>2. \A d \in Calls \ {c} : call'[d] = call[d]
    BY <1>1 DEF CallStarts, CallLeavesQueue, IInv, CallsInv
  <2>3. \A d \in Calls : call[d].phase \in Awaiting => call'[d] = call[d]
    BY <2>1, <2>2 DEF Awaiting
  <2>4. (FirstExact => FirstExact') /\ (ServingExact => ServingExact')
    BY <2>1, <2>3, ExactKept
  <2> QED BY <2>1, <2>4 DEF ExactInv, EarlyExact
<1>2. CASE CallGivesUp(c)
  <2>1. UNCHANGED <<task, filters, active>> /\ unsure' = TRUE /\ holder' = NoCall
    BY <1>2 DEF CallGivesUp, Ends, taskVars
  <2> QED BY <2>1 DEF ExactInv, EarlyExact
<1>3. CASE CallEnters(c)  BY <1>3, EntersExact
<1>4. CASE CallGranted(c) BY <1>4, GrantedExact
<1>5. CASE CallDropped(c) BY <1>5, DroppedExact
<1> QED BY <1>1, <1>2, <1>3, <1>4, <1>5 DEF CallStep

LEMMA StepExact ==
  ASSUME IInv, GapInv, ExactInv, [Next]_vars
  PROVE  ExactInv'
<1>1. CASE UNCHANGED vars
  <2>1. UNCHANGED <<task, wanted, filters, active, call, holder, netVars, unsure>>
    BY <1>1 DEF vars, taskVars, callVars
  <2>2. UNCHANGED <<toBroker, toClient, link, session>>
    BY <2>1 DEF netVars
  <2>3. (FirstExact => FirstExact') /\ (ServingExact => ServingExact')
    BY <2>1, <2>2, ExactKept
  <2> QED BY <2>1, <2>2, <2>3 DEF ExactInv, EarlyExact
<1>2. CASE LinkDrops
  <2>1. link' = "down" /\ UNCHANGED <<task, filters, active, holder>>
    BY <1>2 DEF LinkDrops, taskVars, callVars
  <2> QED BY <2>1 DEF ExactInv, EarlyExact
<1>3. CASE TaskStep \/ (\E c \in Calls : CallStep(c)) \/ BrokerHandles
  BY <1>3, TaskStepExact, CallStepExact, BrokerHandlesExact
<1> QED BY <1>1, <1>2, <1>3 DEF Next

\* Between actions, on a live link on which nothing was refused or given up, the
\* broker holds the cover of the wanted filters and nothing else, and `_active`
\* says so: each message arrives once.
THEOREM SettlesExactly == Spec => []SettledExact
<1>1. Init => ExactInv
  BY DEF Init, ExactInv, EarlyExact
<1>2. IInv /\ GapInv /\ ExactInv /\ [Next]_vars => ExactInv'
  BY StepExact
<1>3. IInv /\ GapInv /\ [Next]_vars => GapInv'
  BY StepGap
<1> QED BY <1>1, <1>2, <1>3, InitGap, Invariance, ExactInvImplies, PTL DEF Spec

-----------------------------------------------------------------------------
(***************************************************************************)
(* The backoff                                                             *)
(***************************************************************************)
\* The powers are what their equation says: a function solves it up to each number,
\* two such agree as far as both go, and so one solves it for all.
LEMMA PowerDefined == Power2 = [n \in Nat |-> IF n = 0 THEN 1 ELSE 2 * Power2[n - 1]]
<1> DEFINE Solves(f, S) == f = [k \in S |-> IF k = 0 THEN 1 ELSE 2 * f[k - 1]]
           Good         == {n \in Nat : \E f : Solves(f, 0..n)}
           Val          == [n \in Nat |-> (CHOOSE f : Solves(f, 0..n))[n]]
<1>1. ASSUME NEW n \in Nat PROVE \E f : Solves(f, 0..n)
  <2>1. 0 \in Good
    <3>1. Solves([k \in 0..0 |-> 1], 0..0)
      OBVIOUS
    <3> QED BY <3>1
  <2>2. ASSUME NEW k \in 0..(n - 1), k \in Good PROVE k + 1 \in Good
    <3>1. PICK f : Solves(f, 0..k)
      BY <2>2
    <3> DEFINE g == [j \in 0..(k + 1) |-> IF j <= k THEN f[j] ELSE 2 * f[k]]
    <3>2. ASSUME NEW j \in 0..(k + 1) PROVE g[j] = IF j = 0 THEN 1 ELSE 2 * g[j - 1]
      BY <3>1
    <3>3. Solves(g, 0..(k + 1))
      BY <3>2
    <3> HIDE DEF Solves, g
    <3> QED BY <3>3
  <2>3. n \in Good
    <3> HIDE DEF Good
    <3> QED BY <2>1, <2>2, StepByStep
  <2> QED BY <2>3
<1>2. ASSUME NEW n \in Nat, NEW m \in 0..n, NEW f, NEW g, Solves(f, 0..n), Solves(g, 0..m)
      PROVE  f[m] = g[m]
  <2> DEFINE Same == {k \in Nat : k <= m => f[k] = g[k]}
  <2>1. 0 \in Same
    BY <1>2
  <2>2. ASSUME NEW k \in 0..(m - 1), k \in Same PROVE k + 1 \in Same
    BY <1>2, <2>2
  <2>3. m \in Same
    <3>1. m \in Nat
      OBVIOUS
    <3> HIDE DEF Same, Solves
    <3> QED BY <2>1, <2>2, <3>1, StepByStep
  <2> QED BY <2>3
<1>3. ASSUME NEW n \in Nat PROVE Solves(CHOOSE f : Solves(f, 0..n), 0..n)
  <2> HIDE DEF Solves
  <2> QED BY <1>1
<1>4. ASSUME NEW n \in Nat PROVE Val[n] = IF n = 0 THEN 1 ELSE 2 * Val[n - 1]
  <2> DEFINE f == CHOOSE h : Solves(h, 0..n)
             g == CHOOSE h : Solves(h, 0..(n - 1))
  <2>1. Solves(f, 0..n) /\ (n # 0 => Solves(g, 0..(n - 1)))
    <3>1. n # 0 => n - 1 \in Nat
      OBVIOUS
    <3> HIDE DEF Solves
    <3> QED BY <1>3, <3>1
  <2>2. Val[n] = f[n] /\ (n # 0 => Val[n - 1] = g[n - 1])
    OBVIOUS
  <2> HIDE DEF f, g, Val
  <2>3. n # 0 => f[n - 1] = g[n - 1]
    <3>1. n # 0 => n - 1 \in 0..n
      OBVIOUS
    <3> HIDE DEF Solves
    <3>2. CASE n # 0
      <4>1. Solves(f, 0..n) /\ Solves(g, 0..(n - 1)) /\ n - 1 \in 0..n
        BY <2>1, <3>1, <3>2
      <4> QED BY <4>1, <1>2
    <3> QED BY <3>2
  <2> QED BY <2>1, <2>2, <2>3
<1>5. Solves(Val, Nat)
  <2>1. Val = [n \in Nat |-> Val[n]]
    OBVIOUS
  <2> QED BY <1>4, <2>1
<1>6. Power2 = CHOOSE f : Solves(f, Nat)
  BY DEF Power2
<1>7. Solves(Power2, Nat)
  <2> HIDE DEF Solves, Val
  <2> QED BY <1>5, <1>6
<1> QED BY <1>7

LEMMA PowerSteps ==
  /\ Power2[0] = 1
  /\ \A n \in Nat : Power2[n] \in Nat \ {0} /\ Power2[n + 1] = 2 * Power2[n]
<1>1. Power2[0] = 1 /\ \A n \in Nat : Power2[n + 1] = 2 * Power2[n]
  BY PowerDefined
<1>2. ASSUME NEW n \in Nat PROVE n \in {k \in Nat : Power2[k] \in Nat \ {0}}
  <2> DEFINE S == {k \in Nat : Power2[k] \in Nat \ {0}}
  <2>1. 0 \in S
    BY <1>1
  <2>2. ASSUME NEW k \in 0..(n - 1), k \in S PROVE k + 1 \in S
    BY <1>1, <2>2
  <2> HIDE DEF S
  <2>3. n \in S
    BY <2>1, <2>2, StepByStep
  <2> QED BY <2>3 DEF S
<1> QED BY <1>1, <1>2

\* The first two sleeps are the initial one; doubling one gives the next.
LEMMA DueSteps ==
  /\ Due(0) = ReconnectInitial /\ Due(1) = ReconnectInitial
  /\ \A n \in Nat \ {0} : Due(n + 1) = Doubled(Due(n))
<1>1. /\ ReconnectInitial \in Nat \ {0} /\ ReconnectMax \in Nat
      /\ ReconnectInitial <= ReconnectMax
  BY SessionAssumption
<1>2. Due(0) = ReconnectInitial /\ Due(1) = ReconnectInitial
  BY <1>1, PowerSteps DEF Due
<1>3. ASSUME NEW n \in Nat \ {0} PROVE Due(n + 1) = Doubled(Due(n))
  <2> DEFINE x == ReconnectInitial * Power2[n - 1]
             y == ReconnectInitial * Power2[n]
  <2>1. Power2[n - 1] \in Nat \ {0} /\ Power2[n] = 2 * Power2[n - 1]
    <3>1. n - 1 \in Nat /\ (n - 1) + 1 = n
      OBVIOUS
    <3> QED BY <3>1, PowerSteps
  <2>2. x \in Nat /\ y = 2 * x
    BY <1>1, <2>1
  <2>3. /\ Due(n) = IF x <= ReconnectMax THEN x ELSE ReconnectMax
        /\ Due(n + 1) = IF y <= ReconnectMax THEN y ELSE ReconnectMax
    <3>1. n # 0 /\ n + 1 # 0 /\ (n + 1) - 1 = n
      OBVIOUS
    <3> QED BY <3>1, Zenon DEF Due
  <2> HIDE DEF x, y
  <2> QED BY <1>1, <2>2, <2>3 DEF Doubled
<1> QED BY <1>2, <1>3

\* The delay a step ahead: while an attempt is under way `backoff` is already the
\* sleep that its failure would ask for, and `up` says whether one was in vain.
BackoffInv ==
  /\ task = "backoff" => (up <=> failures = 0) /\ backoff = Due(failures)
  /\ task = "connecting" => ~up /\ backoff = Due(failures + 1)
  /\ connected => up /\ failures = 0

LEMMA StepBackoff ==
  ASSUME IInv, BackoffInv, [Next]_vars
  PROVE  BackoffInv'
<1>1. /\ up \in BOOLEAN /\ failures \in Nat
      /\ (connected <=> task \in {"suback", "serving", "closing"})
  BY DEF IInv, TaskInv, PaceInv
<1>2. CASE Connect
  BY <1>2 DEF Connect, BackoffInv
<1>3. CASE ConnectFails
  <2>1. /\ task = "connecting" /\ task' = "backoff" /\ failures' = failures + 1
        /\ UNCHANGED <<connected, up, backoff>>
    BY <1>3 DEF ConnectFails
  <2>2. ~connected' /\ ~up' /\ failures' # 0 /\ backoff' = Due(failures')
    BY <1>1, <2>1 DEF BackoffInv
  <2> QED BY <2>1, <2>2 DEF BackoffInv
<1>4. CASE ServeGranted
  BY <1>1, <1>4 DEF ServeGranted, pace, BackoffInv
<1>5. ASSUME NEW error, GoDown(error), UNCHANGED <<up, failures>>, connected
      PROVE  BackoffInv'
  <2>1. /\ task' = "backoff" /\ ~connected' /\ up' /\ failures' = 0
        /\ backoff' = Due(failures')
    BY <1>1, <1>5, DueSteps DEF GoDown, BackoffInv
  <2> QED BY <2>1 DEF BackoffInv
<1>6. CASE ServeTimesOut
  <2>1. CASE task' = "closing"
    BY <1>1, <1>6, <2>1 DEF ServeTimesOut, GoDown, BackoffInv
  <2>2. CASE task' # "closing"
    BY <1>1, <1>5, <1>6, <2>2 DEF ServeTimesOut
  <2> QED BY <2>1, <2>2
<1>7. CASE LinkLossNoticed
  BY <1>1, <1>5, <1>7 DEF LinkLossNoticed
<1>8. ASSUME End PROVE BackoffInv'
  BY <1>8 DEF End, BackoffInv
<1>9. CASE Closed
  BY <1>1, <1>5, <1>8, <1>9 DEF Closed
<1>10. CASE BackoffElapses
  <2>1. /\ task = "backoff" /\ task' = "connecting" /\ ~up' /\ UNCHANGED <<connected, failures>>
        /\ backoff' = IF up THEN backoff ELSE Doubled(backoff)
    BY <1>10 DEF BackoffElapses
  <2>2. backoff = Due(failures) /\ (up <=> failures = 0)
    BY <2>1 DEF BackoffInv
  <2>3. backoff' = Due(failures' + 1)
    <3>1. CASE failures = 0
      <4>1. failures' + 1 = 1
        BY <2>1, <3>1
      <4> QED BY <2>1, <2>2, <3>1, <4>1, DueSteps
    <3>2. CASE failures # 0
      BY <1>1, <2>1, <2>2, <3>2, DueSteps
    <3> QED BY <3>1, <3>2
  <2>4. ~connected'
    BY <1>1, <2>1
  <2> QED BY <2>1, <2>3, <2>4 DEF BackoffInv
<1>11. CASE Cancel
  <2>1. CASE End
    BY <1>8, <2>1
  <2>2. CASE /\ task \in {"suback", "serving"} /\ task' = "closing"
             /\ UNCHANGED <<connected, up, failures>>
    BY <1>1, <2>2 DEF BackoffInv
  <2>3. CASE task \in {"suback", "serving"} /\ GoDown(LinkLost) /\ UNCHANGED <<up, failures>>
    BY <1>1, <1>5, <2>3
  <2> QED BY <1>11, <2>1, <2>2, <2>3 DEF Cancel
<1>12. CASE BrokerHandles \/ LinkDrops \/ (\E c \in Calls : CallStep(c)) \/ UNCHANGED vars
  <2>1. UNCHANGED taskVars
    <3>1. CASE BrokerHandles \/ LinkDrops
      BY <3>1 DEF BrokerHandles, LinkDrops
    <3>2. CASE \E c \in Calls : CallStep(c)
      BY <3>2 DEF CallStep, CallStarts, CallEnters, CallGranted, CallDropped, CallGivesUp,
                  CallLeavesQueue
    <3>3. CASE UNCHANGED vars
      BY <3>3 DEF vars
    <3> QED BY <1>12, <3>1, <3>2, <3>3
  <2>2. UNCHANGED <<task, connected, up, backoff, failures>>
    BY <2>1 DEF taskVars, pace
  <2> QED BY <2>2 DEF BackoffInv
<1> QED
  BY <1>2, <1>3, <1>4, <1>6, <1>7, <1>9, <1>10, <1>11, <1>12 DEF Next, TaskStep

\* "reconnect with backoff": for any delays, and any number and order of failed
\* connects, connections and losses, the sleep is the initial one, doubled for each
\* failed connect after the first since the last connection, up to the maximum.
THEOREM RetriesPaced == Spec => []RetryPaced
<1>1. Init => BackoffInv
  <2>1. 0 + 1 = 1
    OBVIOUS
  <2> QED BY <2>1, DueSteps DEF Init, BackoffInv
<1>2. IInv /\ BackoffInv /\ [Next]_vars => BackoffInv'
  BY StepBackoff
<1>3. BackoffInv => RetryPaced
  BY DEF BackoffInv, RetryPaced
<1> QED BY <1>1, <1>2, <1>3, Invariance, PTL DEF Spec
=============================================================================
