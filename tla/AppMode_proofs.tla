--------------------------- MODULE AppMode_proofs ---------------------------
(***************************************************************************)
(* For every form, every sanitizer and every interleaving of the demo      *)
(* thread with its owner: brokers trace apart from each other, the demo    *)
(* server is up when start() returns and hears stop(), and a recording     *)
(* covers what is served.                                                  *)
(***************************************************************************)
EXTENDS AppMode, FiniteSetTheorems, WellFoundedInduction, SequenceTheorems, TLAPS

-----------------------------------------------------------------------------
(***************************************************************************)
(* What Auto-configure proposes                                            *)
(***************************************************************************)
\* The least element that Min picks.
LEMMA MinNat ==
  ASSUME NEW S \in SUBSET Nat, S # {}
  PROVE  Min(S) \in S /\ \A n \in S : Min(S) <= n
<1> DEFINE T == {1..n : n \in S}
<1>1. T # {} /\ T \subseteq FiniteSubsetsOf(Nat)
  <2>1. ASSUME NEW n \in S PROVE IsFiniteSet(1..n) /\ 1..n \subseteq Nat
    BY FS_Interval
  <2> QED BY <2>1 DEF FiniteSubsetsOf
<1>2. PICK x \in T : \A y \in T : <<y, x>> \notin StrictSubsetOrdering(Nat)
  BY <1>1, FS_StrictSubsetOrderingWellFounded, WFMin
<1>3. PICK m \in S : x = 1..m
  OBVIOUS
<1>4. ASSUME NEW n \in S, n < m PROVE FALSE
  <2>1. 1..n \subseteq 1..m /\ m \in 1..m /\ m \notin 1..n
    BY <1>4
  <2>2. <<1..n, 1..m>> \in StrictSubsetOrdering(Nat)
    BY <2>1 DEF StrictSubsetOrdering
  <2> QED BY <1>2, <1>3, <2>2
<1>5. \A n \in S : m <= n
  BY <1>4
<1> QED BY <1>5 DEF Min

\* What holds at 0, and at each number once at the one before, holds up to any n.
LEMMA StepByStep ==
  ASSUME NEW n \in Nat, NEW S, 0 \in S,
         ASSUME NEW k \in 0..(n - 1), k \in S PROVE k + 1 \in S
  PROVE  n \in S
<1> SUFFICES ASSUME n \notin S PROVE FALSE
  OBVIOUS
<1> DEFINE m == Min((0..n) \ S)
<1>1. m \in (0..n) \ S /\ \A k \in (0..n) \ S : m <= k
  <2>1. (0..n) \ S \in SUBSET Nat /\ (0..n) \ S # {}
    OBVIOUS
  <2> QED BY <2>1, MinNat
<1> HIDE DEF m
<1>2. m # 0 /\ m - 1 \in 0..(n - 1)
  BY <1>1
<1>3. m - 1 \in S
  BY <1>1, <1>2
<1> QED BY <1>1, <1>2, <1>3

\* Max of a bounded set of indices is the last of them.
LEMMA MaxIndex ==
  ASSUME NEW n \in Nat, NEW S \in SUBSET (1..n), S # {}
  PROVE  Max(S) \in S /\ \A i \in S : Max(S) >= i
<1> DEFINE m == Min({n - i : i \in S})
<1>1. m \in {n - i : i \in S} /\ \A k \in {n - i : i \in S} : m <= k
  <2>1. {n - i : i \in S} \in SUBSET Nat /\ {n - i : i \in S} # {}
    <3>1. \A i \in S : n - i \in Nat
      OBVIOUS
    <3> QED BY <3>1
  <2> HIDE DEF m
  <2> QED BY <2>1, MinNat DEF m
<1> HIDE DEF m
<1>2. n - m \in S /\ \A i \in S : n - m >= i
  BY <1>1
<1> QED BY <1>2 DEF Max

\* The names probe can give: a label's, or that with a number.
ProbeName == {Sanitize(t) : t \in Text}
               \cup {Suffixed(Sanitize(t), k) : t \in Text, k \in Number}

Answer == [label : Text, host : Text, port : Number]
Offer == [name : ProbeName, host : Text, port : Number, topicsOK : {TRUE}, cert : {FALSE},
          key : {FALSE}, loads : {TRUE}]

\* The brokers listed so far, of n that answered: no two have one name.
Taken(bs) == {bs[i].name : i \in DOMAIN bs}
Listed(bs, n) == /\ bs \in Seq(Offer)
                 /\ IsFiniteSet(Taken(bs)) /\ Cardinality(Taken(bs)) <= n
                 /\ \A i, j \in 1..Len(bs) : i # j => bs[i].name # bs[j].name

LEMMA ProbeNameLegal ==
  ASSUME NEW n \in ProbeName
  PROVE  n # "" /\ Sanitize(n) = n
<1>1. CASE \E t \in Text : n = Sanitize(t)
  BY <1>1, NamesAssumption
<1>2. CASE \E t \in Text, k \in Number : n = Suffixed(Sanitize(t), k)
  BY <1>2, NumberAssumption
<1>3. \/ \E t \in Text : n = Sanitize(t)
      \/ \E t \in Text, k \in Number : n = Suffixed(Sanitize(t), k)
  BY DEF ProbeName
<1> QED BY <1>1, <1>2, <1>3

\* `while name in taken` ends, with a name that no other has.
LEMMA FreshIsFree ==
  ASSUME NEW t \in Text, NEW taken, IsFiniteSet(taken),
         2..(Cardinality(taken) + 2) \subseteq Number
  PROVE  Fresh(Sanitize(t), taken) \in ProbeName \ taken
<1> DEFINE c == Cardinality(taken)
           free == {k \in 2..(c + 2) : Suffixed(Sanitize(t), k) \notin taken}
<1>1. CASE Sanitize(t) \notin taken
  BY <1>1 DEF Fresh, ProbeName
<1>2. CASE Sanitize(t) \in taken
  <2>1. c \in Nat
    BY FS_CardinalityType
  <2>2. free # {}
    <3> SUFFICES ASSUME free = {} PROVE FALSE
      OBVIOUS
    <3> DEFINE f == [k \in 2..(c + 2) |-> Suffixed(Sanitize(t), k)]
    <3>1. f \in [2..(c + 2) -> taken]
      OBVIOUS
    <3>2. IsFiniteSet(2..(c + 2)) /\ Cardinality(2..(c + 2)) = c + 1
      <4>1. 2 \in Int /\ c + 2 \in Int /\ ~(2 > c + 2) /\ (c + 2) - 2 + 1 = c + 1
        BY <2>1
      <4> HIDE DEF c
      <4> QED BY <4>1, FS_Interval
    <3>3. PICK k \in 2..(c + 2), m \in 2..(c + 2) : k # m /\ f[k] = f[m]
      <4>1. c < c + 1
        BY <2>1
      <4> DEFINE S == 2..(c + 2)
      <4>2. IsFiniteSet(S) /\ IsFiniteSet(taken) /\ Cardinality(taken) < Cardinality(S)
        BY <3>2, <4>1
      <4>3. f \in [S -> taken]
        BY <3>1
      <4> HIDE DEF f, S
      <4>4. \E k, m \in S : k # m /\ f[k] = f[m]
        BY <4>2, <4>3, FS_PigeonHole
      <4> QED BY <4>4 DEF S
    <3>4. k \in Number /\ m \in Number
      BY <3>3
    <3> QED BY <3>3, <3>4, NumberAssumption
  <2>3. Min(free) \in free
    <3>1. free \in SUBSET Nat
      BY <2>1
    <3> HIDE DEF free
    <3> QED BY <2>2, <3>1, MinNat
  <2>4. Fresh(Sanitize(t), taken) = Suffixed(Sanitize(t), Min(free))
    BY <1>2 DEF Fresh
  <2> HIDE DEF free
  <2>5. Min(free) \in Number /\ Suffixed(Sanitize(t), Min(free)) \notin taken
    BY <2>3 DEF free
  <2> QED BY <2>4, <2>5 DEF ProbeName
<1> QED BY <1>1, <1>2

\* Each answer is listed under a name of its own, or was listed before.
LEMMA AddedListed ==
  ASSUME NEW bs, NEW n \in Nat, Listed(bs, n), NEW a \in Answer, 2..(n + 2) \subseteq Number
  PROVE  Listed(Added(bs, a), n + 1)
<1> DEFINE e == Proposed(bs, a)
<1>1. bs \in Seq(Offer) /\ Len(bs) \in Nat /\ DOMAIN bs = 1..Len(bs)
  BY DEF Listed
<1>2. IsFiniteSet(Taken(bs)) /\ Cardinality(Taken(bs)) <= n /\ Cardinality(Taken(bs)) \in Nat
  BY FS_CardinalityType DEF Listed
<1>3. e.name \in ProbeName \ Taken(bs)
  <2>1. e.name = Fresh(Sanitize(a.label), Taken(bs))
    BY DEF Proposed, Taken
  <2>2. 2..(Cardinality(Taken(bs)) + 2) \subseteq Number
    <3>1. 2..(Cardinality(Taken(bs)) + 2) \subseteq 2..(n + 2)
      BY <1>2
    <3> QED BY <3>1
  <2>3. a.label \in Text
    BY DEF Answer
  <2> QED BY <1>2, <2>1, <2>2, <2>3, FreshIsFree
<1>4. e \in Offer
  BY <1>3 DEF Proposed, Offer, Answer
<1>5. CASE Added(bs, a) = bs
  BY <1>2, <1>5 DEF Listed
<1>6. CASE Added(bs, a) = Append(bs, e)
  <2>1. /\ Append(bs, e) \in Seq(Offer) /\ Len(Append(bs, e)) = Len(bs) + 1
        /\ \A i \in 1..Len(bs) : Append(bs, e)[i] = bs[i]
        /\ Append(bs, e)[Len(bs) + 1] = e
    <3> HIDE DEF e
    <3> QED BY <1>1, <1>4
  <2>2. \A i \in 1..Len(bs) : bs[i].name # e.name
    BY <1>1, <1>3 DEF Taken
  <2> HIDE DEF e
  <2>3. \A i, j \in 1..(Len(bs) + 1) : i # j => Append(bs, e)[i].name # Append(bs, e)[j].name
    <3> SUFFICES ASSUME NEW i \in 1..(Len(bs) + 1), NEW j \in 1..(Len(bs) + 1), i # j
                 PROVE  Append(bs, e)[i].name # Append(bs, e)[j].name
      OBVIOUS
    <3>1. (i \in 1..Len(bs) \/ i = Len(bs) + 1) /\ (j \in 1..Len(bs) \/ j = Len(bs) + 1)
      BY <1>1
    <3>2. i \in 1..Len(bs) /\ j \in 1..Len(bs) => bs[i].name # bs[j].name
      BY DEF Listed
    <3> QED BY <2>1, <2>2, <3>1, <3>2
  <2>4. Taken(Append(bs, e)) = Taken(bs) \cup {e.name}
    <3>1. DOMAIN Append(bs, e) = 1..Len(bs) \cup {Len(bs) + 1}
      BY <1>1, <2>1
    <3>2. Taken(Append(bs, e)) = {Append(bs, e)[i].name : i \in 1..Len(bs)} \cup {e.name}
      BY <2>1, <3>1 DEF Taken
    <3>3. {Append(bs, e)[i].name : i \in 1..Len(bs)} = Taken(bs)
      BY <1>1, <2>1 DEF Taken
    <3> QED BY <3>2, <3>3
  <2>5. IsFiniteSet(Taken(Append(bs, e))) /\ Cardinality(Taken(Append(bs, e))) <= n + 1
    <3>1. /\ IsFiniteSet(Taken(bs) \cup {e.name})
          /\ Cardinality(Taken(bs) \cup {e.name}) = Cardinality(Taken(bs)) + 1
      BY <1>2, <1>3, FS_AddElement
    <3> QED BY <1>2, <2>4, <3>1
  <2> QED BY <1>6, <2>1, <2>3, <2>5 DEF Listed
<1> QED BY <1>5, <1>6 DEF Added

\* The fold is probe's loop: the list after each answer, and the last is proposed.
LEMMA ProbeLoops ==
  ASSUME NEW answers, NEW n \in Nat, DOMAIN answers = 1..n
  PROVE  \E bs : /\ bs[0] = <<>>
                 /\ \A k \in 1..n : bs[k] = Added(bs[k - 1], answers[k])
                 /\ bs[n] = Probed(answers)
<1> DEFINE Solves(g, m) ==
             g = [s \in SUBSET (1..m) |->
                    IF s = {} THEN <<>> ELSE Added(g[s \ {Max(s)}], answers[Max(s)])]
           Good == {m \in Nat : \E g : Solves(g, m)}
           iter == CHOOSE g : Solves(g, n)
           bs == [k \in 0..n |-> iter[1..k]]
<1>1. 0 \in Good
  <2>1. Solves([s \in SUBSET (1..0) |-> <<>>], 0)
    OBVIOUS
  <2> QED BY <2>1
<1>2. ASSUME NEW m \in 0..(n - 1), m \in Good PROVE m + 1 \in Good
  <2>1. PICK g : Solves(g, m)
    BY <1>2
  <2> DEFINE h == [s \in SUBSET (1..(m + 1)) |->
                     IF m + 1 \in s THEN Added(g[s \ {m + 1}], answers[m + 1]) ELSE g[s]]
  <2>2. ASSUME NEW s \in SUBSET (1..(m + 1)), s # {}
        PROVE  h[s] = Added(h[s \ {Max(s)}], answers[Max(s)])
    <3>1. Max(s) \in s /\ \A i \in s : Max(s) >= i
      <4>1. m + 1 \in Nat
        OBVIOUS
      <4> QED BY <2>2, <4>1, MaxIndex, Zenon
    <3>2. CASE m + 1 \in s
      <4>1. Max(s) = m + 1
        <5>1. Max(s) \in 1..(m + 1) /\ Max(s) >= m + 1
          BY <3>1, <3>2
        <5> QED BY <5>1
      <4>2. s \ {m + 1} \in SUBSET (1..m) /\ m + 1 \notin s \ {m + 1}
        OBVIOUS
      <4>3. h[s \ {m + 1}] = g[s \ {m + 1}]
        BY <4>2
      <4> QED BY <3>2, <4>1, <4>3
    <3>3. CASE m + 1 \notin s
      <4>1. s \in SUBSET (1..m)
        BY <3>3
      <4>2. s \ {Max(s)} \in SUBSET (1..m) /\ m + 1 \notin s \ {Max(s)}
        BY <3>3, <4>1, Zenon
      <4>3. h[s] = g[s] /\ h[s \ {Max(s)}] = g[s \ {Max(s)}]
        BY <3>3, <4>2
      <4>4. g[s] = Added(g[s \ {Max(s)}], answers[Max(s)])
        BY <2>1, <2>2, <4>1
      <4> QED BY <4>3, <4>4
    <3> QED BY <3>2, <3>3
  <2>3. h[{}] = <<>>
    BY <2>1
  <2>4. Solves(h, m + 1)
    <3>1. \A s \in SUBSET (1..(m + 1)) :
             h[s] = IF s = {} THEN <<>> ELSE Added(h[s \ {Max(s)}], answers[Max(s)])
      <4> HIDE DEF h
      <4> QED BY <2>2, <2>3
    <3>2. h = [s \in SUBSET (1..(m + 1)) |-> h[s]]
      OBVIOUS
    <3> HIDE DEF h
    <3> QED BY <3>1, <3>2
  <2> HIDE DEF h, Solves
  <2> QED BY <2>4
<1>3. n \in Good
  <2> HIDE DEF Good
  <2> QED BY <1>1, <1>2, StepByStep
<1>4. Solves(iter, n)
  <2> HIDE DEF Solves
  <2> QED BY <1>3
<1>5. bs[n] = Probed(answers)
  <2> HIDE DEF Solves
  <2> QED BY DEF Probed, FoldLeft, MapThenFoldSet, Solves
<1>6. bs[0] = <<>>
  <2>1. 1..0 = {} /\ {} \in SUBSET (1..n)
    OBVIOUS
  <2>2. iter[{}] = <<>>
    <3> HIDE DEF iter
    <3> QED BY <1>4, <2>1
  <2> HIDE DEF iter
  <2> QED BY <2>1, <2>2
<1>7. ASSUME NEW k \in 1..n PROVE bs[k] = Added(bs[k - 1], answers[k])
  <2>1. 1..k \in SUBSET (1..n) /\ k \in 1..k /\ 1..k # {}
    <3>1. 1..k \subseteq 1..n /\ k \in 1..k
      OBVIOUS
    <3> QED BY <3>1
  <2>2. Max(1..k) = k
    <3>1. Max(1..k) \in 1..k /\ Max(1..k) >= k
      BY <2>1, MaxIndex, Zenon
    <3> QED BY <3>1
  <2>3. (1..k) \ {k} = 1..(k - 1) /\ k - 1 \in 0..n /\ k \in 0..n
    OBVIOUS
  <2>4. iter[1..k] = Added(iter[(1..k) \ {Max(1..k)}], answers[Max(1..k)])
    <3> HIDE DEF iter
    <3> QED BY <1>4, <2>1
  <2> HIDE DEF iter
  <2> QED BY <2>2, <2>3, <2>4
<1> HIDE DEF bs
<1> QED BY <1>5, <1>6, <1>7

\* Whatever answers, in whatever order, the proposed brokers' names are legal and
\* differ.
LEMMA ProbedListed ==
  ASSUME NEW answers \in Answers
  PROVE  Listed(Probed(answers), Len(answers))
<1>1. answers \in Seq(Answer) /\ 2..(Len(answers) + 1) \subseteq Number
  BY AnswerAssumption DEF Answer
<1> DEFINE n == Len(answers)
<1>2. n \in Nat /\ DOMAIN answers = 1..n
  BY <1>1
<1> HIDE DEF n
<1>3. PICK bs : /\ bs[0] = <<>>
                /\ \A k \in 1..n : bs[k] = Added(bs[k - 1], answers[k])
                /\ bs[n] = Probed(answers)
  BY <1>2, ProbeLoops
<1> DEFINE Good == {k \in Nat : k <= n => Listed(bs[k], k)}
<1>4. 0 \in Good
  <2>1. Taken(<<>>) = {}
    BY DEF Taken
  <2>2. Listed(<<>>, 0)
    BY <2>1, FS_EmptySet DEF Listed
  <2> QED BY <1>3, <2>2
<1>5. ASSUME NEW k \in 0..(n - 1), k \in Good PROVE k + 1 \in Good
  <2>1. k \in Nat /\ k <= n /\ k + 1 \in 1..n /\ (k + 1) - 1 = k
    BY <1>2
  <2>2. Listed(bs[k], k)
    BY <1>5, <2>1
  <2>3. answers[k + 1] \in Answer
    BY <1>1, <1>2, <2>1
  <2>4. 2..(k + 2) \subseteq Number
    <3>1. 2..(k + 2) \subseteq 2..(n + 1)
      BY <1>2
    <3> QED BY <1>1, <3>1 DEF n
  <2>5. Listed(Added(bs[k], answers[k + 1]), k + 1)
    BY <2>1, <2>2, <2>3, <2>4, AddedListed
  <2> QED BY <1>3, <2>1, <2>5
<1>6. n \in Good
  <2> HIDE DEF Good
  <2> QED BY <1>2, <1>4, <1>5, StepByStep
<1> QED BY <1>2, <1>3, <1>6 DEF n

LEMMA ProbedNamed ==
  ASSUME NEW es, \E a \in Answers : es = Probed(a)
  PROVE  \A i \in DOMAIN es :
            /\ es[i] \in Offer /\ es[i].name # "" /\ Sanitize(es[i].name) = es[i].name
            /\ \A j \in DOMAIN es \ {i} : es[j].name # es[i].name
<1>1. PICK n : Listed(es, n)
  <2>1. PICK a \in Answers : es = Probed(a)
    OBVIOUS
  <2> QED BY <2>1, ProbedListed
<1>2. DOMAIN es = 1..Len(es) /\ \A i \in DOMAIN es : es[i] \in Offer
  BY <1>1 DEF Listed
<1>3. \A i \in DOMAIN es : es[i].name \in ProbeName
  BY <1>2 DEF Offer
<1>4. \A i \in DOMAIN es : \A j \in DOMAIN es \ {i} : es[j].name # es[i].name
  BY <1>1, <1>2 DEF Listed
<1> QED BY <1>2, <1>3, <1>4, ProbeNameLegal

-----------------------------------------------------------------------------
(***************************************************************************)
(* The demo server                                                         *)
(***************************************************************************)
\* Where the thread is, as its shared fields show it.  A thread whose broker did
\* not start has set _error before _ready, and goes straight to its end; "closing"
\* and "ended" are reached both ways and told apart by error.
ThreadInv ==
  /\ listening <=> demo \in {"started", "publishing", "shutdown"}
  /\ demo \in {"none", "begins", "starting", "started"} => ~error
  /\ demo \in {"publishing", "shutdown"} => ~error
  /\ demo = "unstarted" => error
  /\ demo \in {"none", "begins"} => loop = "none"
  /\ demo \in {"starting", "started", "unstarted", "publishing", "shutdown", "closing"}
       => loop = "open"
  /\ demo = "ended" => loop = "closed"
  /\ ready <=> demo \in {"publishing", "shutdown", "closing", "ended"}

OwnerInv ==
  /\ owner = "new" => demo = "none"
  /\ owner = "woken" => ready
  /\ owner \in {"up"} \cup Stopping => ready /\ ~error
  /\ owner \in {"joining"} \cup Stopped => stopSet # "clear" \/ demo = "ended"

DemoInv == DemoTypeOK /\ ThreadInv /\ OwnerInv

LEMMA DemoInitInv == DemoInit => DemoInv
BY DEF DemoInit, DemoInv, DemoTypeOK, ThreadInv, OwnerInv, Stopping, Stopped

\* The owner's steps, those of the process that drives it included.
LEMMA OwnerStepInv ==
  ASSUME DemoInv, OwnerStep \/ StartThread \/ StopBegins
  PROVE  DemoInv'
<1>1. CASE StartThread
  BY <1>1 DEF StartThread, shared, DemoInv, DemoTypeOK, ThreadInv, OwnerInv, Stopping, Stopped
<1>2. CASE ReadyWaited
  BY <1>2 DEF ReadyWaited, shared, DemoInv, DemoTypeOK, ThreadInv, OwnerInv, Stopping, Stopped
<1>3. CASE ErrorRead
  BY <1>3 DEF ErrorRead, shared, DemoInv, DemoTypeOK, ThreadInv, OwnerInv, Stopping, Stopped
<1>4. CASE StopBegins
  BY <1>4 DEF StopBegins, shared, DemoInv, DemoTypeOK, ThreadInv, OwnerInv, Stopping, Stopped
<1>5. CASE Schedule
  BY <1>5 DEF Schedule, DemoInv, DemoTypeOK, ThreadInv, OwnerInv, Stopping, Stopped
<1>6. CASE Joined
  BY <1>6 DEF Joined, shared, DemoInv, DemoTypeOK, ThreadInv, OwnerInv, Stopping, Stopped
<1> QED BY <1>1, <1>2, <1>3, <1>4, <1>5, <1>6 DEF OwnerStep

LEMMA ThreadStepInv ==
  ASSUME DemoInv, ThreadStep
  PROVE  DemoInv'
<1>1. CASE LoopMade
  BY <1>1 DEF LoopMade, DemoInv, DemoTypeOK, ThreadInv, OwnerInv, Stopping, Stopped
<1>2. CASE BrokerStarts
  <2>1. /\ demo = "starting" /\ ~error /\ ~listening /\ loop = "open" /\ ~ready
        /\ UNCHANGED <<owner, loop, stopSet, ready>>
    BY <1>2 DEF BrokerStarts, DemoInv, DemoTypeOK, ThreadInv
  <2>2. owner \notin {"woken", "up", "new"} \cup Stopping
    BY <2>1 DEF DemoInv, OwnerInv
  <2>3. CASE demo' = "started" /\ listening' = TRUE /\ UNCHANGED error
    BY <2>1, <2>2, <2>3 DEF DemoInv, DemoTypeOK, ThreadInv, OwnerInv, Stopping, Stopped
  <2>4. CASE demo' = "unstarted" /\ error' = TRUE /\ UNCHANGED listening
    BY <2>1, <2>2, <2>4 DEF DemoInv, DemoTypeOK, ThreadInv, OwnerInv, Stopping, Stopped
  <2> QED BY <1>2, <2>3, <2>4 DEF BrokerStarts
<1>3. CASE ReadySet
  BY <1>3 DEF ReadySet, DemoInv, DemoTypeOK, ThreadInv, OwnerInv, Stopping, Stopped
<1>4. CASE StopRuns
  BY <1>4 DEF StopRuns, DemoInv, DemoTypeOK, ThreadInv, OwnerInv, Stopping, Stopped
<1>5. CASE PublishEnds \/ PublishFails
  <2>1. demo = "publishing" /\ demo' = "shutdown" /\ UNCHANGED <<owner, shared>>
    BY <1>5 DEF PublishEnds, PublishFails
  <2> QED
    BY <2>1 DEF shared, DemoInv, DemoTypeOK, ThreadInv, OwnerInv, Stopping, Stopped
<1>6. CASE BrokerShutdown
  BY <1>6 DEF BrokerShutdown, DemoInv, DemoTypeOK, ThreadInv, OwnerInv, Stopping, Stopped
<1>7. CASE LoopClosed
  BY <1>7 DEF LoopClosed, DemoInv, DemoTypeOK, ThreadInv, OwnerInv, Stopping, Stopped
<1> QED BY <1>1, <1>2, <1>3, <1>4, <1>5, <1>6, <1>7 DEF ThreadStep

-----------------------------------------------------------------------------
(***************************************************************************)
(* The process                                                             *)
(***************************************************************************)
GivenInv ==
  /\ mode \in {"app", "demo", "demo-server"} /\ saved \in {"ok", "legacy", "invalid"}
  /\ advanced \in Advanced
  /\ file \in BOOLEAN /\ recording \in BOOLEAN /\ probed \in BOOLEAN
  /\ exitStatus \in {0, 1}

\* The names are those of the form as it was accepted; it changes no more then.
NamesInv ==
  /\ stage = "form" => names = <<>>
  /\ \/ names = <<>>
     \/ mode = "demo" /\ names = <<DemoName>>
     \/ mode = "app" /\ Resolves(form, advanced) /\ names = Names(form)

\* The form is one that was saved, or what probe made of the answers.
FormInv == IF probed THEN form # <<>> /\ \E a \in Answers : form = Probed(a)
           ELSE form \in Forms

\* The demo server is touched between the opening of the recording and its end.
StageInv ==
  /\ stage \in {"form", "resolved", "built", "demo", "serve", "unwinding", "exit"}
  /\ stage \in {"form", "resolved", "built"} => owner = "new"
  /\ mode = "demo-server" => ~file
  /\ file /\ stage \in {"demo", "serve"} => recording
  /\ file /\ owner # "new" /\ stage # "exit" => recording
  /\ stage = "exit" => owner \notin {"up", "stopping", "joining"}

IInv == GivenInv /\ NamesInv /\ FormInv /\ StageInv /\ DemoInv

LEMMA NamesKept ==
  ASSUME NamesInv, UNCHANGED <<mode, form, advanced, names>>, stage' = "form" => stage = "form"
  PROVE  NamesInv'
<1>1. stage' = "form" => names' = <<>>
  BY DEF NamesInv
<1>2. CASE names = <<>>
  BY <1>1, <1>2 DEF NamesInv
<1>3. CASE mode = "demo" /\ names = <<DemoName>>
  BY <1>1, <1>3 DEF NamesInv
<1>4. CASE mode = "app" /\ Resolves(form, advanced) /\ names = Names(form)
  <2>1. mode' = "app" /\ Resolves(form', advanced') /\ names' = Names(form')
    BY <1>4
  <2> QED BY <1>1, <2>1 DEF NamesInv
<1> QED BY <1>2, <1>3, <1>4 DEF NamesInv

LEMMA FormKept ==
  ASSUME FormInv, UNCHANGED <<form, probed>>
  PROVE  FormInv'
<1>1. CASE probed
  <2>1. probed' /\ form' # <<>> /\ \E a \in Answers : form' = Probed(a)
    BY <1>1 DEF FormInv
  <2> QED BY <2>1 DEF FormInv
<1>2. CASE ~probed
  BY <1>2 DEF FormInv
<1> QED BY <1>1, <1>2

LEMMA InitIInv == Init => IInv
<1> SUFFICES ASSUME Init PROVE IInv
  OBVIOUS
<1>1. DemoInv
  BY DemoInitInv DEF Init
<1>2. owner = "new"
  BY DEF Init, DemoInit
<1> QED BY <1>1, <1>2 DEF Init, IInv, GivenInv, NamesInv, FormInv, StageInv

\* A step of the process before the demo server and after it.
LEMMA RunStepIInv ==
  ASSUME IInv, AutoConfigure \/ Resolve \/ Build \/ Record \/ DemoStarted \/ ServeEnds \/ Exit
  PROVE  IInv'
<1> USE DEF given
<1>1. DemoInv'
  <2>1. UNCHANGED demoVars
    BY DEF AutoConfigure, Resolve, Build, Record, DemoStarted, ServeEnds, Exit
  <2> QED BY <2>1 DEF IInv, DemoInv, DemoTypeOK, ThreadInv, OwnerInv, demoVars, shared
<1>2. UNCHANGED owner
  BY DEF AutoConfigure, Resolve, Build, Record, DemoStarted, ServeEnds, Exit, demoVars
<1>3. GivenInv /\ NamesInv /\ FormInv /\ StageInv
  BY DEF IInv
<1>4. CASE AutoConfigure
  <2>1. GivenInv' /\ StageInv'
    BY <1>2, <1>3, <1>4 DEF AutoConfigure, GivenInv, StageInv
  <2>2. NamesInv'
    <3>1. names' = <<>>
      BY <1>3, <1>4 DEF AutoConfigure, NamesInv
    <3> QED BY <3>1 DEF NamesInv
  <2>3. FormInv'
    <3>1. probed' /\ form' # <<>> /\ \E a \in Answers : form' = Probed(a)
      BY <1>4 DEF AutoConfigure
    <3> QED BY <3>1 DEF FormInv
  <2> QED BY <1>1, <2>1, <2>2, <2>3 DEF IInv
<1>5. CASE Resolve
  <2>1. GivenInv' /\ StageInv'
    BY <1>2, <1>3, <1>5 DEF Resolve, Refuse, GivenInv, StageInv
  <2>2. NamesInv'
    <3>1. mode = "app" \/ mode = "demo"
      BY <1>3, <1>5 DEF Resolve, GivenInv
    <3>2. stage' # "form" /\ UNCHANGED <<mode, form>> /\ names = <<>>
      BY <1>3, <1>5 DEF Resolve, Refuse, NamesInv
    <3>3. CASE names' = <<>>
      BY <3>2, <3>3 DEF NamesInv
    <3>4. CASE mode = "demo" /\ names' = <<DemoName>>
      BY <3>2, <3>4 DEF NamesInv
    <3>5. CASE mode = "app" /\ Resolves(form, advanced) /\ names' = Names(form)
      <4>1. UNCHANGED advanced
        BY <1>5 DEF Resolve
      <4>2. Resolves(form', advanced') /\ names' = Names(form') /\ mode' = "app"
        BY <3>2, <3>5, <4>1
      <4> QED BY <3>2, <4>2 DEF NamesInv
    <3> QED BY <1>5, <3>1, <3>2, <3>3, <3>4, <3>5 DEF Resolve
  <2>3. FormInv'
    BY <1>3, <1>5, FormKept DEF Resolve
  <2> QED BY <1>1, <2>1, <2>2, <2>3 DEF IInv
<1>6. CASE Build \/ Record \/ DemoStarted \/ ServeEnds \/ Exit
  <2>1. UNCHANGED <<mode, form, advanced, names, probed>> /\ stage # "form" /\ stage' # "form"
    BY <1>3, <1>6 DEF Build, Record, DemoStarted, ServeEnds, Exit, Refuse
  <2>2. NamesInv'
    BY <1>3, <2>1, NamesKept
  <2>3. GivenInv' /\ StageInv'
    <3>1. CASE Build
      BY <1>2, <1>3, <3>1 DEF Build, Refuse, GivenInv, StageInv
    <3>2. CASE Record
      BY <1>2, <1>3, <3>2 DEF Record, Refuse, GivenInv, StageInv
    <3>3. CASE DemoStarted
      BY <1>2, <1>3, <3>3 DEF DemoStarted, Refuse, GivenInv, StageInv
    <3>4. CASE ServeEnds
      BY <1>2, <1>3, <3>4 DEF ServeEnds, GivenInv, StageInv
    <3>5. CASE Exit
      BY <1>2, <1>3, <3>5 DEF Exit, GivenInv, StageInv
    <3> QED BY <1>6, <3>1, <3>2, <3>3, <3>4, <3>5
  <2>4. FormInv'
    BY <1>3, <2>1, FormKept
  <2> QED BY <1>1, <2>2, <2>3, <2>4 DEF IInv
<1> QED BY <1>4, <1>5, <1>6

\* A step of the demo server, its start and its stop.
LEMMA DemoStepIInv ==
  ASSUME IInv,
         \/ StartDemo \/ StopDemo
         \/ stage # "exit" /\ (OwnerStep \/ ThreadStep) /\ UNCHANGED appVars
  PROVE  IInv'
<1> USE DEF given
<1>1. GivenInv /\ NamesInv /\ FormInv /\ StageInv /\ DemoInv
  BY DEF IInv
<1>2. DemoInv'
  BY <1>1, OwnerStepInv, ThreadStepInv DEF StartDemo, StopDemo
<1>3. UNCHANGED <<mode, saved, advanced, file, form, names, recording, exitStatus, probed>>
  BY DEF StartDemo, StopDemo, appVars
<1>4. GivenInv' /\ FormInv'
  BY <1>1, <1>3, FormKept DEF GivenInv
<1>5. CASE StartDemo
  <2>1. NamesInv'
    BY <1>1, <1>3, <1>5, NamesKept DEF StartDemo
  <2>2. StageInv'
    BY <1>1, <1>3, <1>5 DEF StartDemo, StartThread, StageInv
  <2> QED BY <1>2, <1>4, <2>1, <2>2 DEF IInv
<1>6. CASE StopDemo \/ (stage # "exit" /\ (OwnerStep \/ ThreadStep) /\ UNCHANGED appVars)
  <2>1. UNCHANGED stage /\ stage # "exit"
    BY <1>6 DEF StopDemo, appVars
  <2>2. owner = "new" => owner' = "new"
    BY <1>6
    DEF StopDemo, StopBegins, OwnerStep, ReadyWaited, ErrorRead, Schedule, Joined, ThreadStep,
        LoopMade, BrokerStarts, ReadySet, StopRuns, PublishEnds, PublishFails, BrokerShutdown,
        LoopClosed
  <2>3. owner # "new" => owner' # "new"
    BY <1>6
    DEF StopDemo, StopBegins, OwnerStep, ReadyWaited, ErrorRead, Schedule, Joined, ThreadStep,
        LoopMade, BrokerStarts, ReadySet, StopRuns, PublishEnds, PublishFails, BrokerShutdown,
        LoopClosed
  <2>4. StageInv'
    BY <1>1, <1>3, <2>1, <2>2, <2>3 DEF StageInv
  <2>5. NamesInv'
    BY <1>1, <1>3, <2>1, NamesKept
  <2> QED BY <1>2, <1>4, <2>4, <2>5 DEF IInv
<1> QED BY <1>5, <1>6

LEMMA Invariance == Spec => []IInv
<1>1. IInv /\ [Next]_vars => IInv'
  <2> SUFFICES ASSUME IInv, [Next]_vars PROVE IInv'
    OBVIOUS
  <2>1. CASE UNCHANGED vars
    <3>1. NamesInv' /\ FormInv'
      BY <2>1, NamesKept, FormKept DEF vars, appVars, given, IInv
    <3>2. GivenInv' /\ StageInv'
      BY <2>1 DEF vars, appVars, given, demoVars, IInv, GivenInv, StageInv
    <3>3. DemoInv'
      BY <2>1
      DEF vars, demoVars, shared, IInv, DemoInv, DemoTypeOK, ThreadInv, OwnerInv
    <3> QED BY <3>1, <3>2, <3>3 DEF IInv
  <2> QED BY <2>1, RunStepIInv, DemoStepIInv DEF Next, AppStep
<1> QED BY <1>1, InitIInv, PTL DEF Spec

-----------------------------------------------------------------------------
(***************************************************************************)
(* What it gives                                                           *)
(***************************************************************************)
\* The state of the process and of the demo server has its types: the owner of a
\* demo server never ends in an exception of stop().
THEOREM TypeCorrect == Spec => []TypeOK
<1>1. ASSUME IInv PROVE TypeOK
  <2>1. DOMAIN names \in {{}, DOMAIN form, {1}}
    BY <1>1 DEF IInv, NamesInv, Names
  <2> QED BY <1>1, <2>1 DEF IInv, GivenInv, StageInv, DemoInv, TypeOK
<1> QED BY <1>1, Invariance, PTL

\* "The one trace-naming rule": whatever names and hosts a form holds and whatever
\* the sanitizer makes of them, no two brokers and no broker and the logs share a
\* place in the trace.
THEOREM PathsApart == Spec => []TracePathsApart
<1>1. ASSUME IInv PROVE TracePathsApart
  <2>1. \A i \in DOMAIN names : NameOK(names[i], Reserved)
    <3>1. CASE names = <<>>
      BY <3>1
    <3>2. CASE names = <<DemoName>>
      <4>1. DOMAIN names = {1} /\ names[1] = DemoName
        BY <3>2
      <4> QED BY <4>1, DemoAssumption
    <3>3. CASE Resolves(form, advanced) /\ names = Names(form)
      BY <3>3 DEF Resolves, NamesOK, Names
    <3> QED BY <1>1, <3>1, <3>2, <3>3 DEF IInv, NamesInv
  <2>2. \A i \in DOMAIN names, j \in DOMAIN names : i # j => names[i] # names[j]
    BY <1>1 DEF IInv, NamesInv, Resolves, NamesOK, Names
  <2>3. \A i \in DOMAIN names : names[i] # LogName /\ names[i] # LogSourceName
    BY <2>1, NamesAssumption DEF NameOK, Reserved
  <2> QED BY <2>2, <2>3 DEF TracePathsApart, Layout, LogLayout
<1> QED BY <1>1, Invariance, PTL

\* An action's text finds the broker it names: no name is empty, and each is its
\* own sanitized form.
THEOREM EveryBrokerFound == Spec => []BrokersFound
<1>1. ASSUME IInv PROVE BrokersFound
  <2> SUFFICES ASSUME NEW i \in DOMAIN names
               PROVE  /\ Lookup(names, names[i]) = {i}
                      /\ mode = "app" /\ form[i].name = "" /\ ~Collides(form, i) =>
                           Lookup(names, form[i].host) = {i}
    BY DEF BrokersFound
  <2>1. CASE mode = "demo" /\ names = <<DemoName>>
    <3>1. DOMAIN names = {1} /\ i = 1 /\ names[1] = DemoName
      BY <2>1
    <3>2. DemoName # "" /\ Sanitize(DemoName) = DemoName
      BY DemoAssumption DEF NameOK
    <3> QED BY <2>1, <3>1, <3>2 DEF Lookup
  <2>2. CASE mode = "app" /\ Resolves(form, advanced) /\ names = Names(form)
    <3>1. DOMAIN names = DOMAIN form /\ \A j \in DOMAIN form : names[j] = NameOf(form, j)
      BY <2>2 DEF Names
    <3>2. /\ NameOK(NameOf(form, i), Reserved) /\ EntryOK(form[i], advanced)
          /\ \A j \in DOMAIN form \ {i} : NameOf(form, j) # NameOf(form, i)
      BY <2>2, <3>1 DEF Resolves, NamesOK
    <3>3. form[i].host # ""
      BY <3>2 DEF EntryOK
    <3>4. form[i].name = "" => form[i].host \in Text /\ form[i].port \in Number
      BY <1>1, <3>1, <3>3, FormAssumption, ProbedNamed DEF IInv, FormInv
    <3>5. NameOf(form, i) # ""
      BY <3>4, NamesAssumption, NumberAssumption DEF NameOf, Default
    <3>6. Lookup(names, names[i]) = {i}
      BY <3>1, <3>2, <3>5 DEF Lookup, NameOK
    <3>7. ASSUME form[i].name = "", ~Collides(form, i)
          PROVE  Lookup(names, form[i].host) = {i}
      <4>1. names[i] = Sanitize(form[i].host)
        BY <3>1, <3>7 DEF NameOf, Default
      <4>2. \A j \in DOMAIN names : names[j] = Sanitize(form[i].host) <=> j = i
        BY <3>1, <3>2, <4>1
      <4> QED BY <3>3, <4>2 DEF Lookup
    <3> QED BY <3>6, <3>7
  <2>3. names # <<>>
    OBVIOUS
  <2> QED BY <1>1, <2>1, <2>2, <2>3 DEF IInv, NamesInv
<1> QED BY <1>1, Invariance, PTL

\* What Auto-configure proposes starts, whatever answered: only a reserved label or
\* half a pair of TLS files under Advanced is refused.
THEOREM ProposedServe == Spec => []ProbeServes
<1>1. ASSUME IInv PROVE ProbeServes
  <2> SUFFICES ASSUME probed, advanced.cert = advanced.key,
                      \A i \in DOMAIN form : form[i].name \notin Reserved
               PROVE  Resolves(form, advanced)
    BY DEF ProbeServes
  <2>1. form # <<>> /\ \E a \in Answers : form = Probed(a)
    BY <1>1 DEF IInv, FormInv
  <2>2. \A i \in DOMAIN form :
           /\ form[i] \in Offer /\ form[i].name # "" /\ Sanitize(form[i].name) = form[i].name
           /\ \A j \in DOMAIN form \ {i} : form[j].name # form[i].name
    BY <2>1, ProbedNamed
  <2>3. \A i \in DOMAIN form : EntryOK(form[i], advanced)
    <3> SUFFICES ASSUME NEW i \in DOMAIN form PROVE EntryOK(form[i], advanced)
      OBVIOUS
    <3>1. form[i].host # "" /\ form[i].topicsOK /\ ~form[i].cert /\ ~form[i].key
      BY <2>2, NamesAssumption DEF Offer
    <3>2. PairOK(form[i], advanced)
      BY <3>1 DEF PairOK
    <3> QED BY <2>2, <3>1, <3>2 DEF EntryOK, NameOK
  <2>4. NamesOK(form)
    BY <2>2 DEF NamesOK, NameOf, NameOK
  <2> QED BY <2>1, <2>3, <2>4 DEF Resolves
<1> QED BY <1>1, Invariance, PTL

\* DemoServer.start returns for a server that listens, and for no other.
THEOREM ListensOnceUp == Spec => []UpMeansListening
<1>1. ASSUME IInv PROVE UpMeansListening
  BY <1>1
  DEF IInv, DemoInv, DemoTypeOK, ThreadInv, OwnerInv, UpMeansListening, Stopping, Stopped
<1> QED BY <1>1, Invariance, PTL

\* DemoServer.stop is heard, wherever the thread is when it is called.
THEOREM StopIsHeard == Spec => []StopHeard
<1>1. ASSUME IInv PROVE StopHeard
  BY <1>1 DEF IInv, DemoInv, OwnerInv, StopHeard
<1> QED BY <1>1, Invariance, PTL

\* A recording covers all that is served, to the end of the demo server.
THEOREM RecordingCovers == Spec => []RecordsAll
<1>1. ASSUME IInv PROVE RecordsAll
  BY <1>1 DEF IInv, StageInv, RecordsAll
<1> QED BY <1>1, Invariance, PTL
=============================================================================
