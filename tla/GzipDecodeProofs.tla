--------------------------- MODULE GzipDecodeProofs --------------------------
(***************************************************************************)
(* First the staged pipeline.  For any number of jobs and workers, any     *)
(* budget and any coordinator that holds one lease at a time: its counters *)
(* are exact and within the limits, every unretired job is owed by exactly *)
(* one holder, and every stage task is in one place.                       *)
(*                                                                         *)
(* Then the decoder on it.  For every stream, every grid, any number of    *)
(* threads and any guesses of the jobs: the parallel DEFLATE decoder       *)
(* implements the serial one (Inflation), uses the staged pipeline as it   *)
(* is meant to be used, and never has more completed segments than         *)
(* threads.                                                                *)
(***************************************************************************)
EXTENDS GzipDecode, OrderedPipelineProofs, WellFoundedInduction

------------------------------------------------------------------------------
(* The staged pipeline: its invariant.                                     *)

StagedTypes ==
    /\ BudgetTypes
    /\ next \in 0..N
    /\ cancelled \in BOOLEAN
    /\ pc \in [Workers -> {"admitting", "probing", "executing", "sending", "staging",
                           "answering", "returned", "panicked"}]
    /\ job \in [Workers -> 0..N]
    /\ channel \in Seq(Jobs)
    /\ ready \subseteq Jobs
    /\ phase \in {"working", "taking", "dropped", "cancelled", "joined"}
    /\ front \in 1..(N + 1)
    /\ submitted \in Seq(Jobs)
    /\ stageQueue \in Seq(Tasks)
    /\ stageTask \in [Workers -> 0..Len(submitted)]
    /\ stageChannel \in Seq(Tasks)
    /\ stageReady \subseteq Tasks
    /\ hand \in 0..N
    /\ awaited \in 0..Len(submitted)

Occupied(w) == pc[w] \in {"staging", "answering"}
Staging(w) == pc[w] = "staging"
Distinct(q) == \A i, j \in 1..Len(q) : q[i] = q[j] => i = j

\* Every task is in one place: in the queue, with a worker, in the channel of
\* answers, or received, until it is taken.
TaskPlaces ==
    /\ Distinct(stageQueue)
    /\ Distinct(stageChannel)
    /\ \A w \in Workers : Occupied(w) =>
          /\ stageTask[w] \in Tasks
          /\ stageTask[w] \notin Queued
          /\ stageTask[w] \notin Answering
          /\ stageTask[w] \notin stageReady
    /\ \A v, w \in Workers :
          Occupied(v) /\ Occupied(w) /\ stageTask[v] = stageTask[w] => v = w
    /\ Queued \cap Answering = {}
    /\ Queued \cap stageReady = {}
    /\ Answering \cap stageReady = {}

\* Jobs are taken in ascending order, so that no job becomes a task twice.
Ascending ==
    /\ hand < front
    /\ \A r \in Tasks : submitted[r] < front
    /\ hand # 0 => \A r \in Tasks : submitted[r] < hand
    /\ \A r, s \in Tasks : submitted[r] = submitted[s] => r = s

\* A job that is neither with its worker nor on its way to the coordinator.
Arrived(k) ==
    /\ k \in DOMAIN lease
    /\ k \notin InChannel
    /\ k \notin ready
    /\ \A w \in Workers : Holding(w) => job[w] # k

Open(r) == r \in Queued \/ \E w \in Workers : Staging(w) /\ stageTask[w] = r

\* Where the leases are.  Those a returning coordinator drops are nowhere.
LeasePlaces ==
    /\ OnePlace
    /\ hand # 0 => Arrived(hand)
    /\ \A r \in Tasks : Open(r) => Arrived(submitted[r])

NoneForgotten ==
    ReceiverAlive => \A k \in DOMAIN lease :
        \/ \E w \in Workers : Holding(w) /\ job[w] = k
        \/ k \in InChannel
        \/ k \in ready
        \/ k = hand
        \/ \E r \in Tasks : Open(r) /\ submitted[r] = k

StagedIInv ==
    /\ StagedTypes
    /\ Accounting
    /\ WithinLimits
    /\ Leases
    /\ TaskPlaces
    /\ Ascending
    /\ LeasePlaces
    /\ NoneForgotten
    /\ phase = "taking" => hand = 0

------------------------------------------------------------------------------
(* The staged pipeline: the queue and the channels.                        *)

Elements(q) == {q[i] : i \in 1..Len(q)}

LEMMA AppendedElements ==
    ASSUME NEW S, NEW q \in Seq(S), NEW x \in S
    PROVE  /\ Append(q, x) \in Seq(S)
           /\ Elements(Append(q, x)) = Elements(q) \cup {x}
           /\ Distinct(q) /\ x \notin Elements(q) => Distinct(Append(q, x))
<1> DEFINE p == Append(q, x)
<1>1. /\ p \in Seq(S)
      /\ Len(q) \in Nat
      /\ Len(p) = Len(q) + 1
      /\ p[Len(p)] = x
      /\ \A i \in 1..Len(q) : p[i] = q[i]
  OBVIOUS
<1> HIDE DEF p
<1>2. \A i \in 1..Len(p) : i \in 1..Len(q) \/ i = Len(p)
  BY <1>1
<1>3. 1..Len(q) \subseteq 1..Len(p) /\ Len(p) \in 1..Len(p)
  BY <1>1
<1>4. Elements(p) = Elements(q) \cup {x}
  BY <1>1, <1>2, <1>3 DEF Elements
<1>5. ASSUME Distinct(q), x \notin Elements(q),
             NEW i \in 1..Len(p), NEW j \in 1..Len(p), p[i] = p[j]
      PROVE  i = j
  <2>1. \A n \in 1..Len(q) : p[n] # x
    BY <1>1, <1>5 DEF Elements
  <2> QED BY <1>1, <1>2, <1>5, <2>1 DEF Distinct
<1>6. Distinct(q) /\ x \notin Elements(q) => Distinct(p)
  BY <1>5 DEF Distinct
<1> QED BY <1>1, <1>4, <1>6 DEF p

LEMMA TailElements ==
    ASSUME NEW S, NEW q \in Seq(S), q # <<>>, NEW p, p = Tail(q)
    PROVE  /\ p \in Seq(S)
           /\ Head(q) \in S
           /\ Elements(q) = Elements(p) \cup {Head(q)}
           /\ Distinct(q) => Distinct(p) /\ Head(q) \notin Elements(p)
<1>1. /\ p \in Seq(S)
      /\ Len(q) \in Nat \ {0}
      /\ Len(p) = Len(q) - 1
      /\ Head(q) = q[1] /\ Head(q) \in S
      /\ \A i \in 1..Len(p) : p[i] = q[i + 1] /\ i + 1 \in 1..Len(q) /\ i + 1 # 1
  OBVIOUS
<1>2. \A i \in 1..Len(q) : i = 1 \/ (i - 1 \in 1..Len(p) /\ p[i - 1] = q[i])
  BY <1>1
<1>3. 1 \in 1..Len(q)
  BY <1>1
<1>4. Elements(q) = Elements(p) \cup {Head(q)}
  <2>1. ASSUME NEW x \in Elements(q) PROVE x \in Elements(p) \cup {Head(q)}
    <3>1. PICK i \in 1..Len(q) : q[i] = x
      BY DEF Elements
    <3>2. CASE i = 1
      BY <1>1, <3>1, <3>2
    <3>3. CASE i - 1 \in 1..Len(p) /\ p[i - 1] = q[i]
      BY <3>1, <3>3 DEF Elements
    <3> QED BY <1>2, <3>2, <3>3
  <2>2. Elements(p) \cup {Head(q)} \subseteq Elements(q)
    <3>1. Elements(p) \subseteq Elements(q)
      BY <1>1 DEF Elements
    <3>2. Head(q) \in Elements(q)
      BY <1>1, <1>3 DEF Elements
    <3> QED BY <3>1, <3>2
  <2> QED BY <2>1, <2>2
<1>5. ASSUME Distinct(q) PROVE Head(q) \notin Elements(p)
  BY <1>1, <1>3, <1>5 DEF Elements, Distinct
<1>6. ASSUME Distinct(q), NEW i \in 1..Len(p), NEW j \in 1..Len(p), p[i] = p[j]
      PROVE  i = j
  <2>1. i + 1 = j + 1
    BY <1>1, <1>6 DEF Distinct
  <2> QED BY <2>1
<1> QED BY <1>1, <1>4, <1>5, <1>6 DEF Distinct

LEMMA Queues ==
    /\ InChannel = Elements(channel)
    /\ Queued = Elements(stageQueue)
    /\ Answering = Elements(stageChannel)
BY DEF InChannel, Queued, Answering, Elements

------------------------------------------------------------------------------
(* The staged pipeline: the budget.                                        *)

\* Nobody sleeps, so notify_all wakes nobody.
LEMMA NobodyWoken == StagedTypes => Woken = pc
BY DEF StagedTypes, Woken

LEMMA TaskJobs ==
    ASSUME StagedIInv
    PROVE  /\ front \in Nat /\ hand \in Nat /\ submitted \in Seq(Jobs)
           /\ \A r \in Tasks : submitted[r] \in Jobs /\ submitted[r] \in Nat
<1>1. submitted \in Seq(Jobs) /\ front \in 1..(N + 1) /\ hand \in 0..N
  BY DEF StagedIInv, StagedTypes
<1>2. front \in Nat /\ hand \in Nat
  BY <1>1, PipelineAssumption
<1>3. \A r \in Tasks : submitted[r] \in Jobs
  BY <1>1 DEF Tasks
<1>4. \A r \in Tasks : submitted[r] \in Nat
  BY <1>3, PipelineAssumption DEF Jobs
<1> QED BY <1>1, <1>2, <1>3, <1>4

\* What giving back a lease does to the counters and to the other leases.
LEMMA StagedRetire ==
    ASSUME StagedIInv, NEW k \in DOMAIN lease, Retire(k)
    PROVE  /\ BudgetTypes' /\ Accounting' /\ WithinLimits'
           /\ DOMAIN lease' = DOMAIN lease \ {k}
           /\ \A x \in DOMAIN lease' : lease'[x] = lease[x]
<1>1. /\ Accounting'
      /\ reserved' \in Nat /\ reserved' <= reserved
      /\ active' \in Nat /\ active' <= active
      /\ DOMAIN lease' = DOMAIN lease \ {k}
      /\ \A x \in DOMAIN lease' : lease'[x] = lease[x]
  BY RetireLemma DEF StagedIInv, StagedTypes
<1>2. BudgetTypes'
  BY <1>1 DEF BudgetTypes, StagedIInv, StagedTypes
<1>3. WithinLimits'
  BY <1>1, PipelineAssumption DEF WithinLimits, BudgetTypes, StagedIInv, StagedTypes
<1> QED BY <1>1, <1>2, <1>3

\* What a step that retires job k must see to: that k had one holder, which
\* has let go of it, and that the others hold what they held.
LEMMA RetiringStep ==
    ASSUME StagedIInv, NEW k \in DOMAIN lease, Retire(k), next' = next,
           BudgetTypes' => StagedTypes', TaskPlaces', Ascending', OnePlace',
           hand' # 0 => Arrived(hand)',
           \A r \in Tasks' : Open(r)' => Arrived(submitted[r])',
           NoneForgotten', phase' = "taking" => hand' = 0,
           \A v \in Workers : pc'[v] = "executing" =>
               pc[v] = "executing" /\ job'[v] = job[v] /\ job[v] # k
    PROVE  StagedIInv'
<1>1. /\ BudgetTypes' /\ Accounting' /\ WithinLimits'
      /\ DOMAIN lease' = DOMAIN lease \ {k}
      /\ \A x \in DOMAIN lease' : lease'[x] = lease[x]
  BY StagedRetire
<1>2. Leases'
  <2>1. ASSUME NEW v \in Workers, pc'[v] = "executing"
        PROVE  lease'[job'[v]] = Reservation[job'[v]]
    <3>1. pc[v] = "executing" /\ job'[v] = job[v] /\ job[v] # k
      BY <2>1
    <3>2. job[v] \in DOMAIN lease
      BY <3>1 DEF StagedIInv, LeasePlaces, OnePlace, Holding
    <3> QED BY <1>1, <3>1, <3>2 DEF StagedIInv, Leases
  <2>2. \A x \in DOMAIN lease' : x <= next'
    BY <1>1 DEF StagedIInv, Leases
  <2> QED BY <2>1, <2>2 DEF Leases
<1>3. LeasePlaces'
  BY DEF LeasePlaces
<1> QED BY <1>1, <1>2, <1>3 DEF StagedIInv

------------------------------------------------------------------------------
(* The staged pipeline: the workers.                                       *)

LEMMA StagedInitLemma == StagedInit => StagedIInv
<1> SUFFICES ASSUME StagedInit PROVE StagedIInv
  OBVIOUS
<1>1. /\ DOMAIN lease = {} /\ InChannel = {} /\ Len(channel) = 0
      /\ Queued = {} /\ Answering = {} /\ Tasks = {}
      /\ Len(stageQueue) = 0 /\ Len(stageChannel) = 0 /\ Len(submitted) = 0
  BY DEF StagedInit, Init, InChannel, Queued, Answering, Tasks
<1>2. StagedTypes
  <2>1. /\ channel \in Seq(Jobs) /\ submitted \in Seq(Jobs)
        /\ stageQueue \in Seq(Tasks) /\ stageChannel \in Seq(Tasks)
    BY DEF StagedInit, Init
  <2>2. next \in 0..N /\ front \in 1..(N + 1) /\ job \in [Workers -> 0..N] /\ hand \in 0..N
    BY PipelineAssumption DEF StagedInit, Init
  <2>3. BudgetTypes
    BY <1>1 DEF StagedInit, Init, BudgetTypes
  <2>4. /\ pc \in [Workers -> {"admitting", "probing", "executing", "sending", "staging",
                             "answering", "returned", "panicked"}]
        /\ stageTask \in [Workers -> 0..Len(submitted)]
    BY <1>1 DEF StagedInit, Init
  <2>5. /\ stageReady \subseteq Tasks /\ ready \subseteq Jobs /\ awaited \in 0..Len(submitted)
        /\ phase = "working" /\ cancelled = FALSE
    BY <1>1 DEF StagedInit, Init
  <2> QED BY <2>1, <2>2, <2>3, <2>4, <2>5 DEF StagedTypes
<1>3. Accounting /\ WithinLimits
  BY <1>1, TotalEmpty, FS_EmptySet, PipelineAssumption
     DEF StagedInit, Init, Accounting, WithinLimits
<1>4. Leases /\ OnePlace
  BY <1>1 DEF StagedInit, Init, Leases, OnePlace, Holding
<1>5. TaskPlaces /\ Ascending
  BY <1>1 DEF StagedInit, Init, TaskPlaces, Occupied, Distinct, Ascending
<1>6. LeasePlaces /\ NoneForgotten
  BY <1>1, <1>4 DEF StagedInit, Init, LeasePlaces, NoneForgotten
<1> QED BY <1>2, <1>3, <1>4, <1>5, <1>6 DEF StagedIInv, StagedInit

\* Steps that move no lease and no task: a worker looks for work and finds
\* none, or panics; the coordinator asks, cancels and joins.
LEMMA QuietStep ==
    ASSUME StagedIInv,
           UNCHANGED <<next, reserved, active, job, lease, channel, ready, hand>>,
           UNCHANGED <<submitted, stageQueue, stageTask, stageChannel, stageReady>>,
           cancelled' \in BOOLEAN,
           front' \in 1..(N + 1), front <= front',
           awaited' \in 0..Len(submitted),
           phase' \in {"working", "taking", "dropped", "cancelled", "joined"},
           ReceiverAlive' => ReceiverAlive,
           phase' = "taking" => hand = 0,
           pc' \in [Workers -> {"admitting", "probing", "executing", "sending", "staging",
                                "answering", "returned", "panicked"}],
           \A v \in Workers : /\ pc'[v] = "executing" => pc[v] = "executing"
                              /\ Holding(v)' <=> Holding(v)
                              /\ Staging(v)' <=> Staging(v)
                              /\ Occupied(v)' <=> Occupied(v)
    PROVE  StagedIInv'
<1>1. /\ Tasks' = Tasks /\ Queued' = Queued /\ Answering' = Answering
      /\ InChannel' = InChannel
  BY DEF Tasks, Queued, Answering, InChannel
<1>2. StagedTypes'
  BY <1>1 DEF StagedIInv, StagedTypes, BudgetTypes
<1>3. Accounting' /\ WithinLimits' /\ Leases'
  BY DEF StagedIInv, Accounting, WithinLimits, Leases
<1>4. TaskPlaces'
  BY <1>1 DEF StagedIInv, TaskPlaces, Distinct
<1>5. Ascending'
  <2>1. /\ front \in Nat /\ front' \in Nat /\ hand \in Nat
        /\ \A r \in Tasks : submitted[r] \in Nat
    BY TaskJobs, PipelineAssumption
  <2>2. hand < front' /\ \A r \in Tasks : submitted[r] < front'
    BY <2>1 DEF StagedIInv, Ascending
  <2> QED BY <1>1, <2>2 DEF StagedIInv, Ascending
<1>6. /\ OnePlace'
      /\ \A k : Arrived(k)' <=> Arrived(k)
      /\ \A r : Open(r)' <=> Open(r)
  BY <1>1 DEF StagedIInv, LeasePlaces, OnePlace, Arrived, Open
<1>7. LeasePlaces'
  BY <1>1, <1>6 DEF StagedIInv, LeasePlaces
<1>8. NoneForgotten'
  BY <1>1, <1>6 DEF StagedIInv, NoneForgotten
<1> QED BY <1>2, <1>3, <1>4, <1>5, <1>7, <1>8 DEF StagedIInv

LEMMA QuietWorker ==
    ASSUME StagedIInv, NEW w \in Workers,
           \/ NoTask(w) \/ TryNextPending(w) \/ TryNextCancelled(w)
           \/ Panic(w) /\ UNCHANGED staged
    PROVE  StagedIInv'
<1>1. /\ UNCHANGED <<budget, job, lease, channel, ready, coordinator, staged>>
      /\ \/ /\ pc[w] \in {"admitting", "probing"}
            /\ \E state \in {"admitting", "probing", "returned"} :
                  pc' = [pc EXCEPT ![w] = state]
         \/ /\ pc[w] = "executing"
            /\ pc' = [pc EXCEPT ![w] = "panicked"]
  BY DEF NoTask, TryNextPending, TryNextCancelled, Panic
<1>2. /\ UNCHANGED <<next, reserved, active, job, lease, channel, ready, hand>>
      /\ UNCHANGED <<submitted, stageQueue, stageTask, stageChannel, stageReady>>
      /\ UNCHANGED <<cancelled, awaited, phase, front>>
  BY <1>1 DEF budget, coordinator, staged, stageWork, stageAnswers
<1>3. /\ pc' \in [Workers -> {"admitting", "probing", "executing", "sending", "staging",
                              "answering", "returned", "panicked"}]
      /\ \A v \in Workers : /\ pc'[v] = "executing" => pc[v] = "executing"
                            /\ Holding(v)' <=> Holding(v)
                            /\ Staging(v)' <=> Staging(v)
                            /\ Occupied(v)' <=> Occupied(v)
  BY <1>1 DEF StagedIInv, StagedTypes, Holding, Staging, Occupied
<1>4. ReceiverAlive' => ReceiverAlive
  BY <1>2 DEF ReceiverAlive
<1>5. /\ cancelled' \in BOOLEAN /\ awaited' \in 0..Len(submitted)
      /\ front' \in 1..(N + 1) /\ front <= front'
      /\ phase' \in {"working", "taking", "dropped", "cancelled", "joined"}
      /\ phase' = "taking" => hand = 0
  BY <1>2 DEF StagedIInv, StagedTypes
<1> QED BY <1>2, <1>3, <1>4, <1>5, QuietStep

LEMMA QuietCoordinator ==
    ASSUME StagedIInv,
           \/ \E k \in 1..(N + 1) : CallTakePrimary(k)
           \/ \E r \in Tasks : CallTakeStage(r)
           \/ StagedCancel \/ StagedJoin
    PROVE  StagedIInv'
<1>1. /\ UNCHANGED <<next, reserved, active, job, lease, channel, ready, hand>>
      /\ UNCHANGED <<submitted, stageQueue, stageTask, stageChannel, stageReady>>
      /\ front' = front \/ (front' \in 1..(N + 1) /\ front <= front')
      /\ cancelled' \in {cancelled, TRUE}
      /\ awaited' \in {awaited} \cup Tasks
      /\ phase' \in {phase, "taking", "cancelled", "joined"}
      /\ phase' \in {"cancelled", "joined"} \/ ReceiverAlive
      /\ phase' = "taking" /\ phase # "taking" => hand = 0
      /\ pc' \in {pc, Woken}
  BY DEF CallTakePrimary, CallTake, CallTakeStage, StagedCancel, Cancel, StagedJoin, Join,
         budget, workers, vars, coordinator, staged, stageWork, stageAnswers, ReceiverAlive, Idle
<1>2. pc' = pc
  BY <1>1, NobodyWoken DEF StagedIInv
<1>3. awaited' \in 0..Len(submitted)
  BY <1>1 DEF StagedIInv, StagedTypes, Tasks
<1>4. ReceiverAlive' => ReceiverAlive
  BY <1>1 DEF ReceiverAlive
<1>5. front' \in 1..(N + 1) /\ front <= front'
  BY <1>1, PipelineAssumption DEF StagedIInv, StagedTypes
<1>6. /\ cancelled' \in BOOLEAN
      /\ phase' \in {"working", "taking", "dropped", "cancelled", "joined"}
      /\ phase' = "taking" => hand = 0
      /\ pc' \in [Workers -> {"admitting", "probing", "executing", "sending", "staging",
                              "answering", "returned", "panicked"}]
  BY <1>1, <1>2 DEF StagedIInv, StagedTypes
<1>7. \A v \in Workers : /\ pc'[v] = "executing" => pc[v] = "executing"
                         /\ Holding(v)' <=> Holding(v)
                         /\ Staging(v)' <=> Staging(v)
                         /\ Occupied(v)' <=> Occupied(v)
  BY <1>2 DEF Holding, Staging, Occupied
<1> QED BY <1>1, <1>3, <1>4, <1>5, <1>6, <1>7, QuietStep

\* try_recv: the task moves from the queue to the worker.
LEMMA ReceiveTaskStep ==
    ASSUME StagedIInv, NEW w \in Workers, ReceiveTask(w)
    PROVE  StagedIInv'
<1> DEFINE t == Head(stageQueue)
<1>1. /\ pc[w] = "admitting" /\ stageQueue # <<>>
      /\ stageTask' = [stageTask EXCEPT ![w] = t]
      /\ stageQueue' = Tail(stageQueue)
      /\ pc' = [pc EXCEPT ![w] = "staging"]
      /\ UNCHANGED <<next, reserved, active, cancelled, job, lease, channel, ready, phase, front>>
      /\ UNCHANGED <<submitted, stageChannel, stageReady, hand, awaited>>
  BY DEF ReceiveTask, budget, coordinator, stageAnswers
<1>2. /\ stageQueue' \in Seq(Tasks)
      /\ t \in Tasks
      /\ Queued = Queued' \cup {t}
      /\ Distinct(stageQueue') /\ t \notin Queued'
  <2>1. stageQueue \in Seq(Tasks) /\ Distinct(stageQueue)
    BY DEF StagedIInv, StagedTypes, TaskPlaces
  <2>2. /\ stageQueue' \in Seq(Tasks)
        /\ t \in Tasks
        /\ Elements(stageQueue) = Elements(stageQueue') \cup {t}
        /\ Distinct(stageQueue') /\ t \notin Elements(stageQueue')
    BY <1>1, <2>1, TailElements
  <2> QED BY <2>2 DEF Queued, Elements
<1> HIDE DEF t
<1>3. Tasks' = Tasks /\ InChannel' = InChannel /\ Answering' = Answering
  BY <1>1 DEF Tasks, InChannel, Answering
<1>4. /\ pc' \in [Workers -> {"admitting", "probing", "executing", "sending", "staging",
                              "answering", "returned", "panicked"}]
      /\ \A v \in Workers : Holding(v)' <=> Holding(v)
      /\ \A v \in Workers : Occupied(v)' <=> Occupied(v) \/ v = w
      /\ \A v \in Workers : Staging(v)' <=> Staging(v) \/ v = w
      /\ ~Occupied(w) /\ ~Staging(w)
      /\ \A v \in Workers : pc'[v] = "executing" => pc[v] = "executing"
      /\ stageTask'[w] = t
      /\ \A v \in Workers \ {w} : stageTask'[v] = stageTask[v]
  BY <1>1 DEF StagedIInv, StagedTypes, Holding, Occupied, Staging
<1>5. StagedTypes'
  <2>1. stageTask' \in [Workers -> 0..Len(submitted)]
    BY <1>1, <1>2 DEF StagedIInv, StagedTypes, Tasks
  <2>2. stageQueue' \in Seq(Tasks') /\ stageChannel' \in Seq(Tasks') /\ stageReady' \subseteq Tasks'
    BY <1>1, <1>2, <1>3 DEF StagedIInv, StagedTypes
  <2> QED BY <1>1, <1>4, <2>1, <2>2 DEF StagedIInv, StagedTypes, BudgetTypes
<1>6. Accounting' /\ WithinLimits' /\ Leases'
  BY <1>1, <1>4 DEF StagedIInv, Accounting, WithinLimits, Leases
<1>7. TaskPlaces'
  <2>1. \A v \in Workers : Occupied(v) => stageTask[v] # t
    BY <1>2 DEF StagedIInv, TaskPlaces
  <2> QED BY <1>1, <1>2, <1>3, <1>4, <2>1 DEF StagedIInv, TaskPlaces
<1>8. Ascending'
  BY <1>1, <1>3 DEF StagedIInv, Ascending
<1>9. /\ OnePlace'
      /\ \A k : Arrived(k)' <=> Arrived(k)
  BY <1>1, <1>3, <1>4 DEF StagedIInv, LeasePlaces, OnePlace, Arrived
<1>10. \A r : Open(r)' <=> Open(r)
  BY <1>2, <1>4 DEF Open
<1>11. LeasePlaces' /\ NoneForgotten'
  BY <1>1, <1>3, <1>4, <1>9, <1>10 DEF StagedIInv, LeasePlaces, NoneForgotten, ReceiverAlive
<1> QED BY <1>1, <1>5, <1>6, <1>7, <1>8, <1>11 DEF StagedIInv

\* try_next: the next job, which nobody has held before, is charged.
LEMMA TryNextReadyStep ==
    ASSUME StagedIInv, NEW w \in Workers, TryNextReady(w)
    PROVE  StagedIInv'
<1> DEFINE k == next + 1
<1>1. /\ k \in Jobs /\ k \notin DOMAIN lease
      /\ Reservation[k] \in Nat /\ Reservation[k] <= Limit - reserved
      /\ active < MaxActive
  <2>1. /\ next \in 0..N /\ next < N /\ reserved \in Nat /\ reserved <= Limit
        /\ Admissible(k)
        /\ \A x \in DOMAIN lease : x <= next
    BY DEF TryNextReady, StagedIInv, StagedTypes, BudgetTypes, Leases, WithinLimits
  <2>2. k \in Jobs /\ ~(k <= next)
    BY <2>1, PipelineAssumption DEF Jobs
  <2>3. Reservation[k] \in Nat /\ Limit \in Nat
    BY <2>2, PipelineAssumption
  <2>4. Reservation[k] <= Limit - reserved /\ active < MaxActive
    BY <2>1, <2>3 DEF Admissible, Monus
  <2> QED BY <2>1, <2>2, <2>3, <2>4
<1>2. /\ pc[w] = "probing"
      /\ next' = k
      /\ reserved' = reserved + Reservation[k]
      /\ active' = active + 1
      /\ lease' = Charged(lease, k, Reservation[k])
      /\ job' = [job EXCEPT ![w] = k]
      /\ pc' = [pc EXCEPT ![w] = "executing"]
      /\ UNCHANGED <<cancelled, channel, ready, phase, front>>
      /\ UNCHANGED <<submitted, stageQueue, stageTask, stageChannel, stageReady, hand, awaited>>
  BY DEF TryNextReady, coordinator, staged, stageWork, stageAnswers
<1>3. k > next /\ k \in Nat
  BY DEF StagedIInv, StagedTypes
<1> HIDE DEF k
<1>4. /\ Accounting'
      /\ DOMAIN lease' = DOMAIN lease \cup {k}
      /\ lease'[k] = Reservation[k]
      /\ \A x \in DOMAIN lease : lease'[x] = lease[x]
  BY <1>1, <1>2, AdmitLemma DEF StagedIInv, StagedTypes
<1>5. /\ Tasks' = Tasks /\ InChannel' = InChannel /\ Answering' = Answering
      /\ Queued' = Queued
  BY <1>2 DEF Tasks, InChannel, Answering, Queued
<1>6. /\ pc' \in [Workers -> {"admitting", "probing", "executing", "sending", "staging",
                              "answering", "returned", "panicked"}]
      /\ job' \in [Workers -> 0..N]
      /\ job'[w] = k /\ pc'[w] = "executing"
      /\ \A v \in Workers \ {w} : job'[v] = job[v] /\ pc'[v] = pc[v]
      /\ \A v \in Workers : Holding(v)' <=> Holding(v) \/ v = w
      /\ \A v \in Workers : Occupied(v)' <=> Occupied(v)
      /\ \A v \in Workers : Staging(v)' <=> Staging(v)
      /\ ~Holding(w)
  <2>1. /\ pc \in [Workers -> {"admitting", "probing", "executing", "sending", "staging",
                               "answering", "returned", "panicked"}]
        /\ job \in [Workers -> 0..N]
    BY DEF StagedIInv, StagedTypes
  <2>2. k \in 0..N
    BY <1>1, PipelineAssumption DEF Jobs
  <2>3. job' \in [Workers -> 0..N] /\ job'[w] = k /\ \A v \in Workers \ {w} : job'[v] = job[v]
    BY <1>2, <2>1, <2>2
  <2> QED BY <1>2, <2>1, <2>3 DEF Holding, Occupied, Staging
<1>7. StagedTypes'
  <2>1. BudgetTypes'
    <3>1. BudgetTypes
      BY DEF StagedIInv, StagedTypes
    <3>2. \A x \in DOMAIN lease' : lease'[x] \in Nat
      BY <1>1, <1>4, <3>1 DEF BudgetTypes
    <3> QED BY <1>1, <1>2, <1>4, <3>1, <3>2 DEF BudgetTypes
  <2>2. next' \in 0..N
    BY <1>1, <1>2 DEF Jobs
  <2> QED BY <1>2, <1>5, <1>6, <2>1, <2>2 DEF StagedIInv, StagedTypes
<1>8. WithinLimits'
  BY <1>1, <1>2, PipelineAssumption DEF StagedIInv, StagedTypes, BudgetTypes, WithinLimits
<1>9. Leases'
  <2>1. ASSUME NEW v \in Workers, pc'[v] = "executing"
        PROVE  lease'[job'[v]] = Reservation[job'[v]]
    <3>1. CASE v = w
      BY <1>4, <1>6, <3>1
    <3>2. CASE v # w
      <4>1. pc[v] = "executing" /\ job'[v] = job[v]
        BY <1>6, <2>1, <3>2
      <4>2. job[v] \in DOMAIN lease
        BY <4>1 DEF StagedIInv, LeasePlaces, OnePlace, Holding
      <4> QED BY <1>4, <4>1, <4>2 DEF StagedIInv, Leases
    <3> QED BY <3>1, <3>2
  <2>2. \A x \in DOMAIN lease' : x <= next'
    BY <1>2, <1>3, <1>4 DEF StagedIInv, StagedTypes, BudgetTypes, Leases, Jobs
  <2> QED BY <2>1, <2>2 DEF Leases
<1>10. TaskPlaces'
  BY <1>2, <1>5, <1>6 DEF StagedIInv, TaskPlaces
<1>11. Ascending'
  BY <1>2, <1>5 DEF StagedIInv, Ascending
<1>12. OnePlace'
  <2>1. \A v \in Workers : Holding(v) => job[v] \in DOMAIN lease
    BY DEF StagedIInv, LeasePlaces, OnePlace
  <2> QED BY <1>1, <1>2, <1>4, <1>5, <1>6, <2>1 DEF StagedIInv, LeasePlaces, OnePlace
<1>13. \A x : Arrived(x) => Arrived(x)'
  BY <1>1, <1>2, <1>4, <1>5, <1>6 DEF Arrived
<1>14. \A r : Open(r)' <=> Open(r)
  BY <1>2, <1>5, <1>6 DEF Open
<1>15. LeasePlaces'
  BY <1>2, <1>5, <1>12, <1>13, <1>14 DEF StagedIInv, LeasePlaces
<1>16. NoneForgotten'
  <2>1. ASSUME NEW x \in DOMAIN lease,
               \E v \in Workers : Holding(v) /\ job[v] = x
        PROVE  \E v \in Workers : Holding(v)' /\ job'[v] = x
    BY <1>6, <2>1
  <2>2. \E v \in Workers : Holding(v)' /\ job'[v] = k
    BY <1>6
  <2> QED BY <1>2, <1>4, <1>5, <1>14, <2>1, <2>2 DEF StagedIInv, NoneForgotten, ReceiverAlive
<1> QED BY <1>2, <1>4, <1>7, <1>8, <1>9, <1>10, <1>11, <1>15, <1>16 DEF StagedIInv

\* complete: the charge shrinks to what the job retains.
LEMMA StagedCompleteStep ==
    ASSUME StagedIInv, NEW w \in Workers, Complete(w), UNCHANGED staged
    PROVE  StagedIInv'
<1> DEFINE k == job[w]
<1>1. /\ pc[w] = "executing"
      /\ k \in DOMAIN lease
      /\ k \in Jobs
      /\ lease[k] = Reservation[k]
      /\ Reservation[k] \in Nat
  BY PipelineAssumption
     DEF Complete, StagedIInv, StagedTypes, BudgetTypes, LeasePlaces, OnePlace, Holding, Leases
<1>2. PICK size \in Sizes :
         /\ reserved' = Monus(reserved, Reservation[k]) + AtMost(size, Reservation[k])
         /\ lease' = Charged(lease, k, AtMost(size, Reservation[k]))
  BY DEF Complete
<1> DEFINE amount == AtMost(size, Reservation[k])
<1>3. amount \in Nat /\ amount <= Reservation[k]
  BY <1>1, PipelineAssumption DEF AtMost
<1>4. /\ pc' = [pc EXCEPT ![w] = "sending"]
      /\ UNCHANGED <<next, active, cancelled, job, channel, ready, phase, front>>
      /\ UNCHANGED <<submitted, stageQueue, stageTask, stageChannel, stageReady, hand, awaited>>
  BY NobodyWoken DEF Complete, coordinator, staged, stageWork, stageAnswers, StagedIInv
<1> HIDE DEF k, amount
<1>5. /\ reserved' = Monus(reserved, lease[k]) + amount
      /\ lease' = Charged(lease, k, amount)
  BY <1>1, <1>2 DEF amount
<1>6. /\ Accounting'
      /\ reserved' = reserved - lease[k] + amount
      /\ lease[k] <= reserved
      /\ DOMAIN lease' = DOMAIN lease
      /\ lease'[k] = amount
      /\ \A x \in DOMAIN lease \ {k} : lease'[x] = lease[x]
  BY <1>1, <1>3, <1>4, <1>5, RechargeLemma DEF StagedIInv, StagedTypes
<1>7. /\ pc' \in [Workers -> {"admitting", "probing", "executing", "sending", "staging",
                              "answering", "returned", "panicked"}]
      /\ \A v \in Workers : Holding(v)' <=> Holding(v)
      /\ \A v \in Workers : Occupied(v)' <=> Occupied(v)
      /\ \A v \in Workers : Staging(v)' <=> Staging(v)
      /\ \A v \in Workers : pc'[v] = "executing" => v # w /\ pc[v] = "executing"
      /\ Holding(w)
  BY <1>1, <1>4 DEF StagedIInv, StagedTypes, Holding, Occupied, Staging
<1>8. /\ Tasks' = Tasks /\ InChannel' = InChannel /\ Answering' = Answering
      /\ Queued' = Queued
  BY <1>4 DEF Tasks, InChannel, Answering, Queued
<1>9. StagedTypes' /\ WithinLimits'
  <2>1. reserved \in Nat /\ active \in Nat
    BY DEF StagedIInv, StagedTypes, BudgetTypes
  <2>2. reserved' \in Nat /\ reserved' <= reserved
    BY <1>1, <1>3, <1>6, <2>1
  <2>3. BudgetTypes'
    BY <1>3, <1>4, <1>6, <2>2 DEF StagedIInv, StagedTypes, BudgetTypes
  <2>4. WithinLimits'
    BY <1>4, <2>1, <2>2, PipelineAssumption DEF StagedIInv, WithinLimits
  <2> QED BY <1>4, <1>7, <1>8, <2>3, <2>4 DEF StagedIInv, StagedTypes
<1>10. Leases'
  <2>1. ASSUME NEW v \in Workers, pc'[v] = "executing"
        PROVE  lease'[job'[v]] = Reservation[job'[v]]
    <3>1. v # w /\ pc[v] = "executing" /\ Holding(v) /\ job'[v] = job[v]
      BY <1>4, <1>7, <2>1 DEF Holding
    <3>2. job[v] \in DOMAIN lease \ {k}
      BY <1>7, <3>1 DEF StagedIInv, LeasePlaces, OnePlace, k
    <3> QED BY <1>6, <3>1, <3>2 DEF StagedIInv, Leases
  <2>2. \A x \in DOMAIN lease' : x <= next'
    BY <1>4, <1>6 DEF StagedIInv, Leases
  <2> QED BY <2>1, <2>2 DEF Leases
<1>11. TaskPlaces' /\ Ascending'
  BY <1>4, <1>7, <1>8 DEF StagedIInv, TaskPlaces, Ascending
<1>12. OnePlace'
  BY <1>4, <1>6, <1>7, <1>8 DEF StagedIInv, LeasePlaces, OnePlace
<1>13. /\ \A x : Arrived(x)' <=> Arrived(x)
       /\ \A r : Open(r)' <=> Open(r)
  BY <1>4, <1>6, <1>7, <1>8 DEF Arrived, Open
<1>14. LeasePlaces'
  BY <1>4, <1>8, <1>12, <1>13 DEF StagedIInv, LeasePlaces
<1>15. NoneForgotten'
  BY <1>4, <1>6, <1>7, <1>8, <1>13 DEF StagedIInv, NoneForgotten, ReceiverAlive
<1> QED BY <1>4, <1>6, <1>9, <1>10, <1>11, <1>14, <1>15 DEF StagedIInv

\* The result goes from the worker into the channel.
LEMMA StagedSendStep ==
    ASSUME StagedIInv, NEW w \in Workers, Send(w), UNCHANGED staged
    PROVE  StagedIInv'
<1> DEFINE k == job[w]
<1>1. /\ pc[w] = "sending" /\ Holding(w)
      /\ k \in DOMAIN lease /\ k \in Jobs
      /\ k \notin InChannel \cup ready
  BY DEF Send, StagedIInv, StagedTypes, BudgetTypes, LeasePlaces, OnePlace, Holding
<1>2. /\ channel' = Append(channel, k)
      /\ job' = [job EXCEPT ![w] = 0]
      /\ pc' = [pc EXCEPT ![w] = "admitting"]
      /\ UNCHANGED <<next, reserved, active, cancelled, lease, ready, phase, front>>
      /\ UNCHANGED <<submitted, stageQueue, stageTask, stageChannel, stageReady, hand, awaited>>
  BY DEF Send, budget, coordinator, staged, stageWork, stageAnswers
<1>3. \A v \in Workers : Holding(v) /\ job[v] = k => v = w
  BY <1>1 DEF StagedIInv, LeasePlaces, OnePlace
<1> HIDE DEF k
<1>4. /\ channel' \in Seq(Jobs)
      /\ InChannel' = InChannel \cup {k}
      /\ Distinct(channel')
  <2>1. channel \in Seq(Jobs) /\ Distinct(channel)
    BY DEF StagedIInv, StagedTypes, LeasePlaces, OnePlace, Distinct
  <2>2. k \notin Elements(channel)
    BY <1>1 DEF InChannel, Elements
  <2>3. /\ Append(channel, k) \in Seq(Jobs)
        /\ Elements(Append(channel, k)) = Elements(channel) \cup {k}
        /\ Distinct(Append(channel, k))
    BY <1>1, <2>1, <2>2, AppendedElements
  <2> QED BY <1>2, <2>3 DEF InChannel, Elements
<1>5. /\ pc' \in [Workers -> {"admitting", "probing", "executing", "sending", "staging",
                              "answering", "returned", "panicked"}]
      /\ job' \in [Workers -> 0..N]
      /\ \A v \in Workers : Holding(v)' <=> Holding(v) /\ v # w
      /\ \A v \in Workers : Occupied(v)' <=> Occupied(v)
      /\ \A v \in Workers : Staging(v)' <=> Staging(v)
      /\ \A v \in Workers : pc'[v] = "executing" => v # w /\ pc[v] = "executing"
      /\ \A v \in Workers \ {w} : job'[v] = job[v]
  <2>1. /\ pc \in [Workers -> {"admitting", "probing", "executing", "sending", "staging",
                               "answering", "returned", "panicked"}]
        /\ job \in [Workers -> 0..N] /\ 0 \in 0..N
    BY PipelineAssumption DEF StagedIInv, StagedTypes
  <2>2. /\ pc' \in [Workers -> {"admitting", "probing", "executing", "sending", "staging",
                                "answering", "returned", "panicked"}]
        /\ job' \in [Workers -> 0..N]
        /\ \A v \in Workers \ {w} : job'[v] = job[v] /\ pc'[v] = pc[v]
        /\ pc'[w] = "admitting" /\ job'[w] = 0
    BY <1>2, <2>1
  <2>3. pc[w] = "sending"
    BY <1>1
  <2> QED BY <1>2, <2>2, <2>3 DEF Holding, Occupied, Staging
<1>6. Tasks' = Tasks /\ Answering' = Answering /\ Queued' = Queued
  BY <1>2 DEF Tasks, Answering, Queued
<1>7. StagedTypes'
  BY <1>2, <1>4, <1>5, <1>6 DEF StagedIInv, StagedTypes, BudgetTypes
<1>8. Accounting' /\ WithinLimits' /\ Leases'
  BY <1>2, <1>5 DEF StagedIInv, Accounting, WithinLimits, Leases
<1>9. TaskPlaces' /\ Ascending'
  BY <1>2, <1>5, <1>6 DEF StagedIInv, TaskPlaces, Ascending
<1>10. OnePlace'
  BY <1>1, <1>2, <1>3, <1>4, <1>5 DEF StagedIInv, LeasePlaces, OnePlace, Distinct, k
<1>11. ASSUME NEW x, Arrived(x) PROVE Arrived(x)'
  <2>1. x # k
    BY <1>1, <1>11 DEF Arrived, k
  <2> QED BY <1>2, <1>4, <1>5, <1>11, <2>1 DEF Arrived
<1>12. \A r : Open(r)' <=> Open(r)
  BY <1>2, <1>5, <1>6 DEF Open
<1>13. LeasePlaces'
  BY <1>2, <1>6, <1>10, <1>11, <1>12 DEF StagedIInv, LeasePlaces
<1>14. NoneForgotten'
  BY <1>2, <1>4, <1>5, <1>6, <1>12 DEF StagedIInv, NoneForgotten, ReceiverAlive, k
<1> QED BY <1>2, <1>7, <1>8, <1>9, <1>13, <1>14 DEF StagedIInv

\* The send fails, and the worker gives back what its job holds.
LEMMA StagedSendFailsStep ==
    ASSUME StagedIInv, NEW w \in Workers, SendFails(w), UNCHANGED staged
    PROVE  StagedIInv'
<1> DEFINE k == job[w]
<1>1. /\ pc[w] = "sending" /\ Holding(w)
      /\ k \in DOMAIN lease /\ k \notin InChannel \cup ready
      /\ \A v \in Workers : Holding(v) /\ job[v] = k => v = w
  BY DEF SendFails, StagedIInv, LeasePlaces, OnePlace, Holding
<1>2. /\ Retire(k)
      /\ job' = [job EXCEPT ![w] = 0]
      /\ pc' = [pc EXCEPT ![w] = "returned"]
      /\ ~ReceiverAlive
      /\ UNCHANGED <<next, cancelled, channel, ready, phase, front>>
      /\ UNCHANGED <<submitted, stageQueue, stageTask, stageChannel, stageReady, hand, awaited>>
  BY NobodyWoken DEF SendFails, coordinator, staged, stageWork, stageAnswers, StagedIInv
<1> HIDE DEF k
<1>3. DOMAIN lease' = DOMAIN lease \ {k}
  BY <1>1, <1>2, StagedRetire
<1>4. /\ pc' \in [Workers -> {"admitting", "probing", "executing", "sending", "staging",
                              "answering", "returned", "panicked"}]
      /\ job' \in [Workers -> 0..N]
      /\ \A v \in Workers : Holding(v)' <=> Holding(v) /\ v # w
      /\ \A v \in Workers : Occupied(v)' <=> Occupied(v)
      /\ \A v \in Workers : Staging(v)' <=> Staging(v)
      /\ \A v \in Workers : pc'[v] = "executing" => v # w /\ pc[v] = "executing"
      /\ \A v \in Workers \ {w} : job'[v] = job[v]
  BY <1>1, <1>2, PipelineAssumption DEF StagedIInv, StagedTypes, Holding, Occupied, Staging
<1>5. /\ Tasks' = Tasks /\ InChannel' = InChannel /\ Answering' = Answering
      /\ Queued' = Queued
  BY <1>2 DEF Tasks, InChannel, Answering, Queued
<1>6. BudgetTypes' => StagedTypes'
  BY <1>2, <1>4, <1>5 DEF StagedIInv, StagedTypes
<1>7. TaskPlaces' /\ Ascending'
  BY <1>2, <1>4, <1>5 DEF StagedIInv, TaskPlaces, Ascending
<1>8. OnePlace'
  BY <1>1, <1>2, <1>3, <1>4, <1>5 DEF StagedIInv, LeasePlaces, OnePlace
<1>9. ASSUME NEW x, Arrived(x) PROVE Arrived(x)'
  <2>1. x # k
    BY <1>1, <1>9 DEF Arrived, k
  <2> QED BY <1>2, <1>3, <1>4, <1>5, <1>9, <2>1 DEF Arrived
<1>10. \A r : Open(r)' <=> Open(r)
  BY <1>2, <1>4, <1>5 DEF Open
<1>11. /\ hand' # 0 => Arrived(hand)'
       /\ \A r \in Tasks' : Open(r)' => Arrived(submitted[r])'
  BY <1>2, <1>5, <1>9, <1>10 DEF StagedIInv, LeasePlaces
<1>12. NoneForgotten'
  BY <1>2 DEF NoneForgotten, ReceiverAlive
<1>13. \A v \in Workers : pc'[v] = "executing" =>
           pc[v] = "executing" /\ job'[v] = job[v] /\ job[v] # k
  BY <1>1, <1>4 DEF Holding
<1>14. phase' = "taking" => hand' = 0
  BY <1>2 DEF StagedIInv
<1> QED BY <1>1, <1>2, <1>6, <1>7, <1>8, <1>11, <1>12, <1>13, <1>14, RetiringStep

\* The task is done, and its worker gives back what the job held.
LEMMA EndTaskStep ==
    ASSUME StagedIInv, NEW w \in Workers, EndTask(w)
    PROVE  StagedIInv'
<1> DEFINE t == stageTask[w]
           k == submitted[t]
<1>1. /\ pc[w] = "staging" /\ Staging(w) /\ Occupied(w)
      /\ Retire(k)
      /\ pc' = [pc EXCEPT ![w] = "answering"]
      /\ UNCHANGED <<next, cancelled, job, channel, ready, phase, front>>
      /\ UNCHANGED <<submitted, stageQueue, stageTask, stageChannel, stageReady, hand, awaited>>
  BY DEF EndTask, Staging, Occupied, coordinator, staged, stageWork, stageAnswers
<1>2. /\ t \in Tasks /\ t \notin Queued
      /\ \A v \in Workers : Occupied(v) /\ stageTask[v] = t => v = w
  BY <1>1 DEF StagedIInv, TaskPlaces
<1>3. Arrived(k)
  BY <1>1, <1>2 DEF StagedIInv, LeasePlaces, Open
<1>4. \A r \in Tasks : r # t => submitted[r] # k
  BY <1>2 DEF StagedIInv, Ascending
<1>5. hand # 0 => hand # k
  <2>1. hand \in Nat /\ k \in Nat
    BY <1>2, TaskJobs
  <2> QED BY <1>2, <2>1 DEF StagedIInv, Ascending
<1> HIDE DEF k, t
<1>6. DOMAIN lease' = DOMAIN lease \ {k} /\ k \in DOMAIN lease
  BY <1>1, <1>3, StagedRetire DEF Arrived
<1>7. /\ pc' \in [Workers -> {"admitting", "probing", "executing", "sending", "staging",
                              "answering", "returned", "panicked"}]
      /\ \A v \in Workers : Holding(v)' <=> Holding(v)
      /\ \A v \in Workers : Occupied(v)' <=> Occupied(v)
      /\ \A v \in Workers : Staging(v)' <=> Staging(v) /\ v # w
      /\ \A v \in Workers : pc'[v] = "executing" => Holding(v) /\ pc[v] = "executing"
  BY <1>1 DEF StagedIInv, StagedTypes, Holding, Occupied, Staging
<1>8. /\ Tasks' = Tasks /\ InChannel' = InChannel /\ Answering' = Answering
      /\ Queued' = Queued
  BY <1>1 DEF Tasks, InChannel, Answering, Queued
<1>9. BudgetTypes' => StagedTypes'
  BY <1>1, <1>7, <1>8 DEF StagedIInv, StagedTypes
<1>10. TaskPlaces' /\ Ascending'
  BY <1>1, <1>7, <1>8 DEF StagedIInv, TaskPlaces, Ascending
<1>11. OnePlace'
  BY <1>1, <1>3, <1>6, <1>7, <1>8 DEF StagedIInv, LeasePlaces, OnePlace, Arrived
<1>12. \A x : Arrived(x) /\ x # k => Arrived(x)'
  BY <1>1, <1>6, <1>7, <1>8 DEF Arrived
<1>13. \A r : Open(r)' <=> Open(r) /\ r # t
  <2>1. \A v \in Workers : Staging(v) => Occupied(v)
    BY DEF Staging, Occupied
  <2> QED BY <1>1, <1>2, <1>7, <1>8, <2>1 DEF Open, t
<1>14. /\ hand' # 0 => Arrived(hand)'
       /\ \A r \in Tasks' : Open(r)' => Arrived(submitted[r])'
  BY <1>1, <1>4, <1>5, <1>8, <1>12, <1>13 DEF StagedIInv, LeasePlaces
<1>15. NoneForgotten'
  BY <1>1, <1>6, <1>7, <1>8, <1>13 DEF StagedIInv, NoneForgotten, ReceiverAlive, k
<1>16. \A v \in Workers : pc'[v] = "executing" =>
           pc[v] = "executing" /\ job'[v] = job[v] /\ job[v] # k
  BY <1>1, <1>3, <1>7 DEF Arrived
<1>17. phase' = "taking" => hand' = 0
  BY <1>1 DEF StagedIInv
<1> QED BY <1>1, <1>6, <1>9, <1>10, <1>11, <1>14, <1>15, <1>16, <1>17, RetiringStep

\* The answer goes from the worker into the channel, or is lost.
LEMMA AnswerTaskStep ==
    ASSUME StagedIInv, NEW w \in Workers, AnswerTask(w)
    PROVE  StagedIInv'
<1> DEFINE t == stageTask[w]
<1>1. /\ pc[w] = "answering" /\ Occupied(w)
      /\ stageTask' = [stageTask EXCEPT ![w] = 0]
      /\ \/ stageChannel' = Append(stageChannel, t)
         \/ stageChannel' = stageChannel
      /\ \E state \in {"admitting", "returned"} : pc' = [pc EXCEPT ![w] = state]
      /\ UNCHANGED <<next, reserved, active, cancelled, job, lease, channel, ready, phase, front>>
      /\ UNCHANGED <<submitted, stageQueue, stageReady, hand, awaited>>
  BY DEF AnswerTask, Occupied, budget, coordinator
<1>2. /\ t \in Tasks /\ t \notin Queued /\ t \notin Answering /\ t \notin stageReady
      /\ \A v \in Workers : Occupied(v) /\ stageTask[v] = t => v = w
  BY <1>1 DEF StagedIInv, TaskPlaces
<1> HIDE DEF t
<1>3. /\ stageChannel' \in Seq(Tasks)
      /\ Answering' \subseteq Answering \cup {t}
      /\ Distinct(stageChannel')
  <2>1. stageChannel \in Seq(Tasks) /\ Distinct(stageChannel)
    BY DEF StagedIInv, StagedTypes, TaskPlaces
  <2>2. t \notin Elements(stageChannel)
    BY <1>2 DEF Answering, Elements
  <2>3. CASE stageChannel' = stageChannel
    BY <2>1, <2>3 DEF Answering
  <2>4. CASE stageChannel' = Append(stageChannel, t)
    <3>1. /\ Append(stageChannel, t) \in Seq(Tasks)
          /\ Elements(Append(stageChannel, t)) = Elements(stageChannel) \cup {t}
          /\ Distinct(Append(stageChannel, t))
      BY <1>2, <2>1, <2>2, AppendedElements
    <3> QED BY <2>4, <3>1 DEF Answering, Elements
  <2> QED BY <1>1, <2>3, <2>4
<1>4. /\ pc' \in [Workers -> {"admitting", "probing", "executing", "sending", "staging",
                              "answering", "returned", "panicked"}]
      /\ stageTask' \in [Workers -> 0..Len(submitted)]
      /\ \A v \in Workers \ {w} : stageTask'[v] = stageTask[v]
      /\ \A v \in Workers : Holding(v)' <=> Holding(v)
      /\ \A v \in Workers : Occupied(v)' <=> Occupied(v) /\ v # w
      /\ \A v \in Workers : Staging(v)' <=> Staging(v)
      /\ ~Staging(w)
      /\ \A v \in Workers : pc'[v] = "executing" => pc[v] = "executing"
  BY <1>1 DEF StagedIInv, StagedTypes, Holding, Occupied, Staging
<1>5. Tasks' = Tasks /\ InChannel' = InChannel /\ Queued' = Queued
  BY <1>1 DEF Tasks, InChannel, Queued
<1>6. StagedTypes'
  BY <1>1, <1>3, <1>4, <1>5 DEF StagedIInv, StagedTypes, BudgetTypes
<1>7. Accounting' /\ WithinLimits' /\ Leases'
  BY <1>1, <1>4 DEF StagedIInv, Accounting, WithinLimits, Leases
<1>8. TaskPlaces'
  <2>1. \A v \in Workers : Occupied(v)' =>
           Occupied(v) /\ stageTask'[v] = stageTask[v] /\ stageTask'[v] # t
    BY <1>2, <1>4
  <2> QED BY <1>1, <1>2, <1>3, <1>5, <2>1 DEF StagedIInv, TaskPlaces
<1>9. Ascending' /\ OnePlace'
  BY <1>1, <1>4, <1>5 DEF StagedIInv, Ascending, LeasePlaces, OnePlace
<1>10. /\ \A k : Arrived(k)' <=> Arrived(k)
       /\ \A r : Open(r)' <=> Open(r)
  BY <1>1, <1>4, <1>5 DEF Arrived, Open
<1>11. LeasePlaces' /\ NoneForgotten'
  BY <1>1, <1>4, <1>5, <1>9, <1>10 DEF StagedIInv, LeasePlaces, NoneForgotten, ReceiverAlive
<1> QED BY <1>1, <1>6, <1>7, <1>8, <1>9, <1>11 DEF StagedIInv

------------------------------------------------------------------------------
(* The staged pipeline: the coordinator.                                   *)

\* Results go from the channel into `ready`.
LEMMA ReceivePrimaryStep ==
    ASSUME StagedIInv, ReceivePrimary
    PROVE  StagedIInv'
<1> DEFINE k == Head(channel)
<1>1. /\ channel # <<>> /\ channel' = Tail(channel)
      /\ ready' = ready \cup {k}
      /\ UNCHANGED <<next, reserved, active, cancelled, pc, job, lease, phase, front>>
      /\ UNCHANGED <<submitted, stageQueue, stageTask, stageChannel, stageReady, hand, awaited>>
  BY DEF ReceivePrimary, Receive, budget, workers, coordinator, staged, stageWork, stageAnswers
<1>2. /\ channel' \in Seq(Jobs) /\ k \in Jobs
      /\ InChannel = InChannel' \cup {k}
      /\ Distinct(channel') /\ k \notin InChannel'
  <2>1. channel \in Seq(Jobs) /\ Distinct(channel)
    BY DEF StagedIInv, StagedTypes, LeasePlaces, OnePlace, Distinct
  <2>2. /\ channel' \in Seq(Jobs) /\ k \in Jobs
        /\ Elements(channel) = Elements(channel') \cup {k}
        /\ Distinct(channel') /\ k \notin Elements(channel')
    BY <1>1, <2>1, TailElements
  <2> QED BY <2>2 DEF InChannel, Elements
<1> HIDE DEF k
<1>3. /\ Tasks' = Tasks /\ Answering' = Answering /\ Queued' = Queued
      /\ \A v \in Workers : Holding(v)' <=> Holding(v)
      /\ \A v \in Workers : Occupied(v)' <=> Occupied(v)
      /\ \A r : Open(r)' <=> Open(r)
  BY <1>1 DEF Tasks, Answering, Queued, Holding, Occupied, Open, Staging
<1>4. StagedTypes'
  BY <1>1, <1>2, <1>3 DEF StagedIInv, StagedTypes, BudgetTypes
<1>5. Accounting' /\ WithinLimits' /\ Leases'
  BY <1>1 DEF StagedIInv, Accounting, WithinLimits, Leases
<1>6. TaskPlaces' /\ Ascending'
  BY <1>1, <1>3 DEF StagedIInv, TaskPlaces, Ascending
<1>7. OnePlace'
  BY <1>1, <1>2, <1>3 DEF StagedIInv, LeasePlaces, OnePlace, Distinct
<1>8. \A x : Arrived(x)' <=> Arrived(x)
  BY <1>1, <1>2, <1>3 DEF Arrived
<1>9. LeasePlaces' /\ NoneForgotten'
  BY <1>1, <1>2, <1>3, <1>7, <1>8 DEF StagedIInv, LeasePlaces, NoneForgotten, ReceiverAlive
<1> QED BY <1>1, <1>4, <1>5, <1>6, <1>9 DEF StagedIInv

\* The result asked for goes from `ready` into the coordinator's hand.
LEMMA TakePrimaryStep ==
    ASSUME StagedIInv, TakePrimary
    PROVE  StagedIInv'
<1>1. /\ phase = "taking" /\ front \in ready
      /\ ready' = ready \ {front}
      /\ hand' = front /\ front' = front + 1 /\ phase' = "working"
      /\ UNCHANGED <<next, reserved, active, cancelled, pc, job, lease, channel>>
      /\ UNCHANGED <<submitted, stageQueue, stageTask, stageChannel, stageReady, awaited>>
  BY DEF TakePrimary, budget, workers, stageWork, stageAnswers
<1>2. hand = 0 /\ front \in Jobs /\ front \in DOMAIN lease
  BY <1>1 DEF StagedIInv, StagedTypes, LeasePlaces, OnePlace
<1>3. /\ Tasks' = Tasks /\ Answering' = Answering /\ Queued' = Queued
      /\ InChannel' = InChannel
      /\ \A v \in Workers : Holding(v)' <=> Holding(v)
      /\ \A v \in Workers : Occupied(v)' <=> Occupied(v)
      /\ \A r : Open(r)' <=> Open(r)
  BY <1>1 DEF Tasks, Answering, Queued, InChannel, Holding, Occupied, Open, Staging
<1>4. StagedTypes'
  <2>1. hand' \in 0..N /\ front' \in 1..(N + 1)
    BY <1>1, <1>2, PipelineAssumption DEF Jobs
  <2> QED BY <1>1, <1>3, <2>1 DEF StagedIInv, StagedTypes, BudgetTypes
<1>5. Accounting' /\ WithinLimits' /\ Leases'
  BY <1>1 DEF StagedIInv, Accounting, WithinLimits, Leases
<1>6. TaskPlaces'
  BY <1>1, <1>3 DEF StagedIInv, TaskPlaces
<1>7. Ascending'
  <2>1. front \in Nat /\ \A r \in Tasks : submitted[r] \in Nat
    BY TaskJobs
  <2> QED BY <1>1, <1>3, <2>1 DEF StagedIInv, Ascending
<1>8. OnePlace'
  BY <1>1, <1>3 DEF StagedIInv, LeasePlaces, OnePlace
<1>9. Arrived(hand)'
  BY <1>1, <1>2, <1>3 DEF StagedIInv, LeasePlaces, OnePlace, Arrived
<1>10. \A x : Arrived(x) => Arrived(x)'
  BY <1>1, <1>3 DEF Arrived
<1>11. LeasePlaces'
  BY <1>1, <1>3, <1>8, <1>9, <1>10 DEF StagedIInv, LeasePlaces
<1>12. NoneForgotten'
  <2>1. \A x : ~(x \in DOMAIN lease /\ x = 0)
    BY PipelineAssumption DEF StagedIInv, StagedTypes, BudgetTypes, Jobs
  <2> QED BY <1>1, <1>2, <1>3, <2>1 DEF StagedIInv, NoneForgotten, ReceiverAlive
<1> QED BY <1>1, <1>4, <1>5, <1>6, <1>7, <1>11, <1>12 DEF StagedIInv

\* The coordinator gives back what the job in its hand holds.
LEMMA RetireHandStep ==
    ASSUME StagedIInv, RetireHand
    PROVE  StagedIInv'
<1>1. /\ hand # 0 /\ Retire(hand) /\ hand' = 0 /\ phase = "working"
      /\ UNCHANGED <<next, cancelled, pc, job, channel, ready, phase, front>>
      /\ UNCHANGED <<submitted, stageQueue, stageTask, stageChannel, stageReady, awaited>>
  BY DEF RetireHand, Idle, workers, coordinator, stageWork, stageAnswers
<1>2. Arrived(hand)
  BY <1>1 DEF StagedIInv, LeasePlaces
<1>3. DOMAIN lease' = DOMAIN lease \ {hand} /\ hand \in DOMAIN lease
  BY <1>1, <1>2, StagedRetire DEF Arrived
<1>4. /\ Tasks' = Tasks /\ Answering' = Answering /\ Queued' = Queued
      /\ InChannel' = InChannel
      /\ \A v \in Workers : Holding(v)' <=> Holding(v)
      /\ \A v \in Workers : Occupied(v)' <=> Occupied(v)
      /\ \A r : Open(r)' <=> Open(r)
  BY <1>1 DEF Tasks, Answering, Queued, InChannel, Holding, Occupied, Open, Staging
<1>5. BudgetTypes' => StagedTypes'
  BY <1>1, <1>4, PipelineAssumption DEF StagedIInv, StagedTypes
<1>6. \A r \in Tasks : submitted[r] # hand
  BY <1>1, TaskJobs DEF StagedIInv, Ascending
<1>7. TaskPlaces'
  BY <1>1, <1>4 DEF StagedIInv, TaskPlaces
<1>8. Ascending'
  BY <1>1, <1>4, PipelineAssumption DEF StagedIInv, StagedTypes, Ascending
<1>9. OnePlace'
  BY <1>1, <1>2, <1>3, <1>4 DEF StagedIInv, LeasePlaces, OnePlace, Arrived
<1>10. \A x : Arrived(x) /\ x # hand => Arrived(x)'
  BY <1>1, <1>3, <1>4 DEF Arrived
<1>11. /\ hand' # 0 => Arrived(hand)'
       /\ \A r \in Tasks' : Open(r)' => Arrived(submitted[r])'
  BY <1>1, <1>4, <1>6, <1>10 DEF StagedIInv, LeasePlaces
<1>12. NoneForgotten'
  BY <1>1, <1>3, <1>4 DEF StagedIInv, NoneForgotten, ReceiverAlive
<1>13. \A v \in Workers : pc'[v] = "executing" =>
           pc[v] = "executing" /\ job'[v] = job[v] /\ job[v] # hand
  BY <1>1, <1>2 DEF Arrived, Holding
<1> QED BY <1>1, <1>3, <1>5, <1>7, <1>8, <1>9, <1>11, <1>12, <1>13, RetiringStep

\* The lease goes from the coordinator's hand into a new task.
LEMMA SubmitStep ==
    ASSUME StagedIInv, Submit
    PROVE  StagedIInv'
<1> DEFINE t == Len(submitted) + 1
<1>1. /\ hand # 0 /\ hand' = 0 /\ phase = "working"
      /\ submitted' = Append(submitted, hand)
      /\ stageQueue' = Append(stageQueue, t)
      /\ UNCHANGED <<next, reserved, active, cancelled, pc, job, lease, channel, ready>>
      /\ UNCHANGED <<phase, front, stageTask, stageChannel, stageReady, awaited>>
  BY DEF Submit, Idle, vars, budget, workers, coordinator, stageAnswers
<1>2. /\ hand \in Jobs /\ hand \in Nat /\ submitted \in Seq(Jobs)
      /\ stageQueue \in Seq(Tasks) /\ stageChannel \in Seq(Tasks)
      /\ \A r \in Tasks : submitted[r] \in Nat
  <2>1. /\ hand \in 0..N
        /\ stageQueue \in Seq(Tasks) /\ stageChannel \in Seq(Tasks)
    BY DEF StagedIInv, StagedTypes
  <2>2. hand \in Jobs
    BY <1>1, <2>1, PipelineAssumption DEF Jobs
  <2> QED BY <2>1, <2>2, TaskJobs
<1>3. /\ submitted' \in Seq(Jobs)
      /\ Len(submitted) \in Nat /\ Len(submitted') = t
      /\ t \in Nat /\ t \notin Tasks
      /\ Tasks' = Tasks \cup {t}
      /\ submitted'[t] = hand
      /\ \A r \in Tasks : submitted'[r] = submitted[r]
  BY <1>1, <1>2 DEF Tasks
<1> HIDE DEF t
<1>4. /\ Queued \subseteq Tasks /\ Answering \subseteq Tasks /\ stageReady \subseteq Tasks
      /\ \A w \in Workers : Occupied(w) => stageTask[w] \in Tasks
  BY <1>2 DEF StagedIInv, StagedTypes, TaskPlaces, Queued, Answering
<1>5. /\ stageQueue' \in Seq(Tasks')
      /\ Queued' = Queued \cup {t}
      /\ Distinct(stageQueue')
  <2>1. stageQueue \in Seq(Tasks \cup {t})
    BY <1>2
  <2>2. t \notin Elements(stageQueue)
    BY <1>3, <1>4 DEF Queued, Elements
  <2>3. Distinct(stageQueue)
    BY DEF StagedIInv, TaskPlaces
  <2>4. /\ Append(stageQueue, t) \in Seq(Tasks \cup {t})
        /\ Elements(Append(stageQueue, t)) = Elements(stageQueue) \cup {t}
        /\ Distinct(Append(stageQueue, t))
    BY <2>1, <2>2, <2>3, AppendedElements
  <2> QED BY <1>1, <1>3, <2>4 DEF Queued, Elements
<1>6. /\ InChannel' = InChannel /\ Answering' = Answering
      /\ \A w \in Workers : Holding(w)' <=> Holding(w)
      /\ \A w \in Workers : Occupied(w)' <=> Occupied(w)
      /\ \A x : Arrived(x)' <=> Arrived(x)
  BY <1>1 DEF InChannel, Answering, Holding, Occupied, Arrived
<1>7. StagedTypes'
  <2>1. stageChannel' \in Seq(Tasks') /\ stageReady' \subseteq Tasks'
    BY <1>1, <1>2, <1>3, <1>4
  <2>2. /\ stageTask' \in [Workers -> 0..Len(submitted')]
        /\ awaited' \in 0..Len(submitted')
    BY <1>1, <1>3 DEF StagedIInv, StagedTypes, t
  <2> QED
    BY <1>1, <1>3, <1>5, <2>1, <2>2, PipelineAssumption DEF StagedIInv, StagedTypes, BudgetTypes
<1>8. Accounting' /\ WithinLimits' /\ Leases'
  BY <1>1 DEF StagedIInv, Accounting, WithinLimits, Leases
<1>9. TaskPlaces'
  <2>1. \A w \in Workers : Occupied(w) => stageTask[w] # t
    BY <1>3, <1>4
  <2> QED BY <1>1, <1>3, <1>4, <1>5, <1>6, <2>1 DEF StagedIInv, TaskPlaces
<1>10. Ascending'
  <2>1. /\ front \in Nat /\ 0 < front
        /\ hand < front /\ \A r \in Tasks : submitted[r] < hand
    BY <1>1, PipelineAssumption DEF StagedIInv, StagedTypes, Ascending
  <2>2. \A r \in Tasks : submitted[r] < front
    BY DEF StagedIInv, Ascending
  <2>3. \A r, s \in Tasks' : submitted'[r] = submitted'[s] => r = s
    <3>1. \A r \in Tasks : submitted[r] # hand
      BY <1>2, <2>1
    <3> QED BY <1>3, <3>1 DEF StagedIInv, Ascending
  <2> QED BY <1>1, <1>3, <2>1, <2>2, <2>3 DEF Ascending
<1>11. OnePlace'
  BY <1>1, <1>6 DEF StagedIInv, LeasePlaces, OnePlace
<1>12. \A r : Open(r)' <=> Open(r) \/ r = t
  BY <1>1, <1>5 DEF Open, Staging
<1>13. LeasePlaces'
  <2>1. ASSUME NEW r \in Tasks', Open(r)' PROVE Arrived(submitted'[r])
    <3>1. CASE r = t
      BY <1>1, <1>3, <3>1 DEF StagedIInv, LeasePlaces
    <3>2. CASE r # t
      BY <1>3, <1>12, <2>1, <3>2 DEF StagedIInv, LeasePlaces
    <3> QED BY <3>1, <3>2
  <2>2. \A r \in Tasks' : Open(r)' => Arrived(submitted[r])'
    BY <1>6, <2>1 DEF Arrived
  <2> QED BY <1>1, <1>11, <2>2 DEF LeasePlaces
<1>14. NoneForgotten'
  BY <1>1, <1>3, <1>6, <1>12 DEF StagedIInv, NoneForgotten, ReceiverAlive
<1> QED BY <1>1, <1>7, <1>8, <1>9, <1>10, <1>13, <1>14 DEF StagedIInv

\* An answer goes from the channel into stage_ready.
LEMMA ReceiveStageStep ==
    ASSUME StagedIInv, ReceiveStage
    PROVE  StagedIInv'
<1> DEFINE t == Head(stageChannel)
<1>1. /\ stageChannel # <<>> /\ stageChannel' = Tail(stageChannel)
      /\ stageReady' = stageReady \cup {t}
      /\ UNCHANGED <<next, reserved, active, cancelled, pc, job, lease, channel, ready>>
      /\ UNCHANGED <<phase, front, submitted, stageQueue, stageTask, hand, awaited>>
  BY DEF ReceiveStage, vars, budget, workers, coordinator, stageWork
<1>2. /\ stageChannel' \in Seq(Tasks) /\ t \in Tasks
      /\ Answering = Answering' \cup {t}
      /\ Distinct(stageChannel') /\ t \notin Answering'
  <2>1. stageChannel \in Seq(Tasks) /\ Distinct(stageChannel)
    BY DEF StagedIInv, StagedTypes, TaskPlaces
  <2>2. /\ stageChannel' \in Seq(Tasks) /\ t \in Tasks
        /\ Elements(stageChannel) = Elements(stageChannel') \cup {t}
        /\ Distinct(stageChannel') /\ t \notin Elements(stageChannel')
    BY <1>1, <2>1, TailElements
  <2> QED BY <2>2 DEF Answering, Elements
<1> HIDE DEF t
<1>3. /\ Tasks' = Tasks /\ InChannel' = InChannel /\ Queued' = Queued
      /\ \A w \in Workers : Occupied(w)' <=> Occupied(w)
  BY <1>1 DEF Tasks, InChannel, Queued, Occupied
<1>4. StagedTypes'
  BY <1>1, <1>2, <1>3 DEF StagedIInv, StagedTypes, BudgetTypes
<1>5. TaskPlaces'
  BY <1>1, <1>2, <1>3 DEF StagedIInv, TaskPlaces
<1>6. Accounting' /\ WithinLimits' /\ Leases' /\ Ascending' /\ OnePlace'
  BY <1>1, <1>3
     DEF StagedIInv, Accounting, WithinLimits, Leases, Ascending, LeasePlaces, OnePlace, Holding
<1>7. /\ \A k : Arrived(k)' <=> Arrived(k)
      /\ \A r : Open(r)' <=> Open(r)
  BY <1>1, <1>3 DEF Arrived, Open, Holding, Staging
<1>8. LeasePlaces' /\ NoneForgotten'
  BY <1>1, <1>3, <1>6, <1>7
     DEF StagedIInv, LeasePlaces, NoneForgotten, ReceiverAlive, Holding
<1> QED BY <1>1, <1>4, <1>5, <1>6, <1>8 DEF StagedIInv

\* Answers disappear: the one that take_stage asked for, or, with the
\* receivers, all of them, all results and the lease in the coordinator's hand.
LEMMA DroppingStep ==
    ASSUME StagedIInv,
           UNCHANGED <<next, reserved, active, cancelled, pc, job, lease, front>>,
           UNCHANGED <<submitted, stageQueue, stageTask>>,
           phase' \in {phase, "dropped"},
           awaited' \in {awaited, 0},
           hand' \in {hand, 0},
           channel' \in {channel, <<>>}, ready' \in {ready, {}},
           stageChannel' \in {stageChannel, <<>>}, stageReady' \subseteq stageReady,
           \/ phase' = "dropped"
           \/ UNCHANGED <<hand, channel, ready, phase>>
    PROVE  StagedIInv'
<1>1. /\ channel' \in Seq(Jobs) /\ InChannel' \subseteq InChannel
      /\ channel' = channel \/ Len(channel') = 0
      /\ stageChannel' \in Seq(Tasks) /\ Answering' \subseteq Answering
      /\ Distinct(stageChannel')
  <2>1. /\ channel \in Seq(Jobs) /\ stageChannel \in Seq(Tasks) /\ Distinct(stageChannel)
    BY DEF StagedIInv, StagedTypes, TaskPlaces
  <2>2. /\ channel' \in Seq(Jobs) /\ InChannel' \subseteq InChannel
        /\ channel' = channel \/ Len(channel') = 0
    <3>1. CASE channel' = channel
      BY <2>1, <3>1 DEF InChannel
    <3>2. CASE channel' = <<>>
      BY <3>2 DEF InChannel
    <3> QED BY <3>1, <3>2
  <2>3. /\ stageChannel' \in Seq(Tasks) /\ Answering' \subseteq Answering
        /\ Distinct(stageChannel')
    <3>1. CASE stageChannel' = stageChannel
      BY <2>1, <3>1 DEF Answering
    <3>2. CASE stageChannel' = <<>>
      BY <3>2 DEF Answering, Distinct
    <3> QED BY <3>1, <3>2
  <2> QED BY <2>2, <2>3
<1>2. /\ Tasks' = Tasks /\ Queued' = Queued
      /\ \A w \in Workers : Holding(w)' <=> Holding(w)
      /\ \A w \in Workers : Occupied(w)' <=> Occupied(w)
      /\ \A r : Open(r)' <=> Open(r)
  BY DEF Tasks, Queued, Holding, Occupied, Open, Staging
<1>3. StagedTypes'
  <2>1. hand' \in 0..N /\ awaited' \in 0..Len(submitted) /\ ready' \subseteq Jobs
        /\ stageReady' \subseteq Tasks
    <3>1. /\ hand \in 0..N /\ awaited \in 0..Len(submitted) /\ ready \subseteq Jobs
          /\ stageReady \subseteq Tasks /\ 0 \in 0..N /\ 0 \in 0..Len(submitted)
          /\ submitted' = submitted
      BY PipelineAssumption DEF StagedIInv, StagedTypes
    <3>2. hand' \in 0..N /\ awaited' \in 0..Len(submitted)
      BY <3>1
    <3>3. ready' \subseteq Jobs /\ stageReady' \subseteq Tasks
      BY <3>1
    <3> QED BY <3>2, <3>3
  <2>2. BudgetTypes' /\ phase' \in {"working", "taking", "dropped", "cancelled", "joined"}
    BY DEF StagedIInv, StagedTypes, BudgetTypes
  <2> QED BY <1>1, <1>2, <2>1, <2>2 DEF StagedIInv, StagedTypes
<1>4. Accounting' /\ WithinLimits' /\ Leases'
  BY DEF StagedIInv, Accounting, WithinLimits, Leases
<1>5. TaskPlaces'
  BY <1>1, <1>2 DEF StagedIInv, TaskPlaces
<1>6. Ascending'
  BY <1>2, PipelineAssumption DEF StagedIInv, StagedTypes, Ascending
<1>7. OnePlace'
  BY <1>1, <1>2 DEF StagedIInv, LeasePlaces, OnePlace
<1>8. \A k : Arrived(k) => Arrived(k)'
  BY <1>1, <1>2 DEF Arrived
<1>9. LeasePlaces'
  BY <1>2, <1>7, <1>8 DEF StagedIInv, LeasePlaces
<1>10. NoneForgotten'
  BY <1>2 DEF StagedIInv, NoneForgotten, ReceiverAlive, InChannel
<1> QED BY <1>3, <1>4, <1>5, <1>6, <1>9, <1>10 DEF StagedIInv

LEMMA TakeStageStep ==
    ASSUME StagedIInv, TakeStage
    PROVE  StagedIInv'
<1>1. /\ UNCHANGED <<next, reserved, active, cancelled, pc, job, lease, front>>
      /\ UNCHANGED <<submitted, stageQueue, stageTask, stageChannel>>
      /\ UNCHANGED <<hand, channel, ready, phase>>
      /\ awaited' = 0 /\ stageReady' \subseteq stageReady
  BY DEF TakeStage, vars, budget, workers, coordinator, stageWork
<1> QED BY <1>1, DroppingStep

LEMMA StagedReturnStep ==
    ASSUME StagedIInv, StagedReturn
    PROVE  StagedIInv'
<1>1. /\ UNCHANGED <<next, reserved, active, cancelled, pc, job, lease, front>>
      /\ UNCHANGED <<submitted, stageQueue, stageTask, awaited>>
      /\ phase' = "dropped" /\ hand' = 0
      /\ channel' = <<>> /\ ready' = {} /\ stageChannel' = <<>> /\ stageReady' = {}
  BY DEF StagedReturn, Return, budget, workers, stageWork
<1> QED BY <1>1, DroppingStep

LEMMA StutteringStep ==
    ASSUME StagedIInv, UNCHANGED stagedVars
    PROVE  StagedIInv'
<1>1. /\ UNCHANGED <<next, reserved, active, cancelled, pc, job, lease, front>>
      /\ UNCHANGED <<submitted, stageQueue, stageTask, stageChannel, stageReady, awaited>>
      /\ UNCHANGED <<hand, channel, ready, phase>>
  BY DEF stagedVars, vars, budget, workers, coordinator, staged, stageWork, stageAnswers
<1> QED BY <1>1, DroppingStep

LEMMA StagedWorkerStep ==
    ASSUME StagedIInv, NEW w \in Workers, StagedWorker(w)
    PROVE  StagedIInv'
<1>1. CASE ReceiveTask(w)
  BY <1>1, ReceiveTaskStep
<1>2. CASE NoTask(w)
  BY <1>2, QuietWorker
<1>3. CASE TryNextReady(w)
  BY <1>3, TryNextReadyStep
<1>4. CASE TryNextPending(w)
  BY <1>4, QuietWorker
<1>5. CASE TryNextCancelled(w)
  BY <1>5, QuietWorker
<1>6. CASE EndTask(w)
  BY <1>6, EndTaskStep
<1>7. CASE AnswerTask(w)
  BY <1>7, AnswerTaskStep
<1>8. CASE Complete(w) /\ UNCHANGED staged
  BY <1>8, StagedCompleteStep
<1>9. CASE Panic(w) /\ UNCHANGED staged
  BY <1>9, QuietWorker
<1>10. CASE Send(w) /\ UNCHANGED staged
  BY <1>10, StagedSendStep
<1>11. CASE SendFails(w) /\ UNCHANGED staged
  BY <1>11, StagedSendFailsStep
<1> QED
  BY <1>1, <1>2, <1>3, <1>4, <1>5, <1>6, <1>7, <1>8, <1>9, <1>10, <1>11 DEF StagedWorker

LEMMA StagedNextStep ==
    ASSUME StagedIInv, [StagedNext]_stagedVars
    PROVE  StagedIInv'
<1>1. CASE \E w \in Workers : StagedWorker(w)
  BY <1>1, StagedWorkerStep
<1>2. CASE \E k \in 1..(N + 1) : CallTakePrimary(k)
  BY <1>2, QuietCoordinator
<1>3. CASE ReceivePrimary
  BY <1>3, ReceivePrimaryStep
<1>4. CASE TakePrimary
  BY <1>4, TakePrimaryStep
<1>5. CASE RetireHand
  BY <1>5, RetireHandStep
<1>6. CASE Submit
  BY <1>6, SubmitStep
<1>7. CASE \E r \in Tasks : CallTakeStage(r)
  BY <1>7, QuietCoordinator
<1>8. CASE ReceiveStage
  BY <1>8, ReceiveStageStep
<1>9. CASE TakeStage
  BY <1>9, TakeStageStep
<1>10. CASE StagedReturn
  BY <1>10, StagedReturnStep
<1>11. CASE StagedCancel \/ StagedJoin
  BY <1>11, QuietCoordinator
<1>12. CASE UNCHANGED stagedVars
  BY <1>12, StutteringStep
<1> QED
  BY <1>1, <1>2, <1>3, <1>4, <1>5, <1>6, <1>7, <1>8, <1>9, <1>10, <1>11, <1>12
     DEF StagedNext, StagedCoordinator

------------------------------------------------------------------------------
(* The staged pipeline: the theorems.                                      *)

\* The staged pipeline keeps every job and every stage task in one place.
THEOREM StagedInvariant == StagedSpec => []StagedIInv
<1>1. StagedInit => StagedIInv
  BY StagedInitLemma
<1>2. StagedIInv /\ [StagedNext]_stagedVars => StagedIInv'
  BY StagedNextStep
<1> QED BY <1>1, <1>2, PTL DEF StagedSpec

LEMMA StagedCounters == StagedIInv => StagedAccounting
BY DEF StagedIInv, Accounting, WithinLimits, StagedAccounting

LEMMA OwedOnceHolds == StagedIInv => OwedOnce
<1> SUFFICES ASSUME StagedIInv, ReceiverAlive
             PROVE  LET byWorkers == {job[w] : w \in {v \in Workers : Holding(v)}}
                        inHand == {hand} \ {0}
                        holders == <<byWorkers, InChannel, ready, inHand, OwedByTasks>>
                    IN  /\ DOMAIN lease = UNION {holders[i] : i \in 1..5}
                        /\ \A i, j \in 1..5 : i # j => holders[i] \cap holders[j] = {}
                        /\ \A r, s \in Tasks : submitted[r] = submitted[s] => r = s
  BY DEF OwedOnce
<1> DEFINE byWorkers == {job[w] : w \in {v \in Workers : Holding(v)}}
           inHand == {hand} \ {0}
           holders == <<byWorkers, InChannel, ready, inHand, OwedByTasks>>
<1>1. \A k : k \in byWorkers <=> \E w \in Workers : Holding(w) /\ job[w] = k
  OBVIOUS
<1>2. \A k : k \in OwedByTasks <=> \E r \in Tasks : Open(r) /\ submitted[r] = k
  <2>1. \A r : Open(r) => r \in Tasks
    BY DEF StagedIInv, StagedTypes, TaskPlaces, Open, Queued, Staging, Occupied
  <2> QED BY <2>1 DEF OwedByTasks, Open, Staging
<1>3. \A k : k \in inHand => k = hand /\ Arrived(k)
  BY DEF StagedIInv, LeasePlaces
<1>4. \A k \in OwedByTasks : Arrived(k)
  BY <1>2 DEF StagedIInv, LeasePlaces
<1>5. 0 \notin DOMAIN lease
  BY PipelineAssumption DEF StagedIInv, StagedTypes, BudgetTypes, Jobs
<1>6. inHand \cap OwedByTasks = {}
  <2>1. \A r \in Tasks : hand # 0 => submitted[r] # hand
    BY TaskJobs DEF StagedIInv, Ascending
  <2> QED BY <1>2, <2>1
<1>7. DOMAIN lease = byWorkers \cup InChannel \cup ready \cup inHand \cup OwedByTasks
  <2>1. DOMAIN lease \subseteq byWorkers \cup InChannel \cup ready \cup inHand \cup OwedByTasks
    BY <1>1, <1>2, <1>5 DEF StagedIInv, NoneForgotten
  <2>2. byWorkers \cup InChannel \cup ready \subseteq DOMAIN lease
    BY <1>1 DEF StagedIInv, LeasePlaces, OnePlace
  <2>3. inHand \cup OwedByTasks \subseteq DOMAIN lease
    BY <1>3, <1>4 DEF Arrived
  <2> QED BY <2>1, <2>2, <2>3
<1>8. /\ byWorkers \cap InChannel = {} /\ byWorkers \cap ready = {}
      /\ InChannel \cap ready = {}
  BY <1>1 DEF StagedIInv, LeasePlaces, OnePlace
<1>9. /\ (inHand \cup OwedByTasks) \cap byWorkers = {}
      /\ (inHand \cup OwedByTasks) \cap InChannel = {}
      /\ (inHand \cup OwedByTasks) \cap ready = {}
  BY <1>1, <1>3, <1>4 DEF Arrived
<1>10. /\ holders[1] = byWorkers /\ holders[2] = InChannel /\ holders[3] = ready
       /\ holders[4] = inHand /\ holders[5] = OwedByTasks
  OBVIOUS
<1>11. \A i \in 1..5 : i = 1 \/ i = 2 \/ i = 3 \/ i = 4 \/ i = 5
  OBVIOUS
<1> HIDE DEF byWorkers, inHand, holders
<1>12. DOMAIN lease = UNION {holders[i] : i \in 1..5}
  <2>1. \A k : k \in UNION {holders[i] : i \in 1..5} <=> \E i \in 1..5 : k \in holders[i]
    OBVIOUS
  <2>2. /\ 1 \in 1..5 /\ 2 \in 1..5 /\ 3 \in 1..5 /\ 4 \in 1..5 /\ 5 \in 1..5
    OBVIOUS
  <2> QED BY <1>7, <1>10, <1>11, <2>1, <2>2
<1>13. ASSUME NEW i \in 1..5, NEW j \in 1..5, i # j
       PROVE  holders[i] \cap holders[j] = {}
  BY <1>6, <1>8, <1>9, <1>10, <1>11, <1>13
<1>14. \A r, s \in Tasks : submitted[r] = submitted[s] => r = s
  BY DEF StagedIInv, Ascending
<1> QED BY <1>12, <1>13, <1>14 DEF byWorkers, inHand, holders

\* The budget's counters are what the unretired jobs hold and stay within the
\* limits, although a lease travels through a task to another worker.
THEOREM StagedAccounts == StagedSpec => []StagedAccounting
BY StagedInvariant, StagedCounters, PTL

\* While the coordinator lives, every unretired job is owed by exactly one
\* holder, and no job becomes two tasks.
THEOREM StagedOwedOnce == StagedSpec => []OwedOnce
BY StagedInvariant, OwedOnceHolds, PTL

------------------------------------------------------------------------------
(* The parallel decoder: its invariant. *)

Segments == [start : Nat, end : Nat, blocks : Seq(Nat), final : BOOLEAN]

GzipTypes ==
    /\ input \in Inputs
    /\ stage \in {"start", "loop", "refused", "full", "serial", "over"}
    /\ at \in Nat
    /\ window = at
    /\ final \in BOOLEAN
    /\ key \in 1..(N + 1)
    /\ tasks \in Seq([segment : Segments, predecessor : Nat])
    /\ nextResolve \in 0..Len(tasks)
    /\ written \in Seq(Nat)
    /\ outcome \in {"none", "ok", "data error", "too big", "aborted", "panicked"}

\* Where the coordinator is.  It asks for jobs and tasks in ascending order,
\* and returns with an outcome.
Control ==
    /\ awaited # 0 =>
          /\ phase = "working" /\ outcome = "none"
          /\ awaited = nextResolve + 1
    /\ phase = "taking" => outcome = "none" /\ stage = "loop" /\ front = key
    /\ phase = "taking" \/ (hand # 0 /\ outcome = "none") => ~final
    /\ hand # 0 => phase = "working" /\ stage = "loop" /\ hand = key
    /\ phase \notin {"working", "taking"} => outcome # "none"
    /\ stage = "refused" => key <= N /\ ~final
    /\ stage \in {"serial", "over"} => phase = "working" /\ awaited = 0
    /\ stage = "serial" => outcome = "none"
    /\ stage = "start" =>
          /\ Usable(0, InitialStop) /\ at = 0 /\ written = <<>> /\ Outstanding = 0
          /\ phase = "working" \/ outcome # "none"

\* The tasks that are somewhere: queued, with a worker, or answered.
InPlay == Queued \cup Answering \cup stageReady
              \cup {stageTask[w] : w \in {v \in Workers : Occupied(v)}}

\* None of them has been committed, and there are no more than threads.
TaskBound ==
    /\ Len(tasks) = Len(submitted)
    /\ Outstanding <= Threads
    /\ stage # "full" => Outstanding < Threads
    /\ \A r \in InPlay : nextResolve < r

\* A segment of the stream: the blocks from b to c, without c.
Stretch(segment, b, c) ==
    /\ segment \in Segments
    /\ b < c
    /\ segment.start = StartOf(b)
    /\ segment.end = StartOf(c)
    /\ segment.blocks = [i \in 1..(c - b) |-> b + i - 1]
    /\ segment.final <=> c = Count + 1 /\ input.final

\* The places where blocks start, and the end of the last.
Starts == {StartOf(b) : b \in 1..(Count + 1)}

\* Where the chain of uncommitted segments is when r is to be committed.
Chain(r) == IF r \in 1..Len(tasks) THEN tasks[r].segment.start ELSE at

\* The uncommitted segments follow one another from what has been written to
\* where the coordinator is, each with the history it lacks.
Chained ==
    /\ at \in Starts
    /\ final <=> at = StartOf(Count + 1) /\ input.final
    /\ Chain(nextResolve + 1) = StartOf(Len(written) + 1)
    /\ \A r \in (nextResolve + 1)..Len(tasks) :
          LET segment == tasks[r].segment IN
          /\ \E b, c \in 1..(Count + 1) : Stretch(segment, b, c)
          /\ segment.end = Chain(r + 1)
          /\ tasks[r].predecessor = segment.start

\* What has been written can be decoded.
Decoded == Len(written) <= Count /\ \A f \in input.far : ~(f <= Len(written))

\* What the outcome says of the stream.
Truthful ==
    /\ outcome = "ok" => input.final /\ input.far = {} /\ Len(written) = Count
    /\ outcome = "data error" => ~(input.final /\ input.far = {})
    /\ outcome = "too big" => input.big # {}

\* What is told of the decoder when jobs do not panic.
Rest ==
    /\ GzipTypes
    /\ Control
    /\ TaskBound
    /\ Parallel => Chained
    /\ Decoded
    /\ Truthful

NoPanic == \A w \in Workers : pc[w] # "panicked"

GzipIInv ==
    /\ StagedIInv
    /\ Rest
    /\ Panicking = {} => NoPanic /\ outcome # "panicked"

------------------------------------------------------------------------------
(* The stream: places, blocks and segments. *)

LEMMA LeastOf ==
    ASSUME NEW S, S \subseteq Nat, S # {}
    PROVE  Least(S) \in S /\ \A b \in S : Least(S) <= b
<1> DEFINE Less == {p \in Nat \X Nat : p[1] < p[2]}
<1>1. OpToRel(<, Nat) = Less
  BY DEF OpToRel
<1>2. IsWellFoundedOn(Less, Nat)
  BY <1>1, NatLessThanWellFounded
<1> HIDE DEF Less
<1>3. PICK a \in S : \A b \in S : <<b, a>> \notin Less
  BY <1>2, WFMin
<1>4. \A b \in S : a <= b
  <2> SUFFICES ASSUME NEW b \in S, b < a PROVE FALSE
    OBVIOUS
  <2>1. <<b, a>> \in Nat \X Nat
    OBVIOUS
  <2>2. <<b, a>> \in Less
    BY <2>1 DEF Less
  <2> QED BY <1>3, <2>2
<1> QED BY <1>4 DEF Least

\* What the inputs are.
LEMMA InputFacts ==
    ASSUME GzipTypes
    PROVE  /\ Count \in Nat
           /\ \A b \in 1..Count : input.ends[b] \in 1..End /\ input.ends[b] \notin input.decoys
           /\ \A b, c \in 1..Count : b < c => input.ends[b] < input.ends[c]
           /\ input.dynamic \subseteq 1..Count
           /\ input.big \subseteq 1..Count
           /\ input.far \subseteq 1..Count
           /\ input.decoys \subseteq 1..End
           /\ input.final => Count > 0
           /\ End \in Nat
<1>1. input \in Inputs
  BY DEF GzipTypes
<1>2. /\ input.ends \in Seq(1..End)
      /\ \A b, c \in 1..Len(input.ends) : b < c => input.ends[b] < input.ends[c]
      /\ {input.dynamic, input.big, input.far} \subseteq SUBSET (1..Len(input.ends))
      /\ input.decoys \subseteq 1..End
      /\ \A b \in 1..Len(input.ends) : input.ends[b] \notin input.decoys
      /\ input.final => Len(input.ends) > 0
      /\ End \in Nat
  BY <1>1, GzipAssumption
<1> QED BY <1>2 DEF Count

\* Blocks start at different places, none of them a decoy.
LEMMA StartFacts ==
    ASSUME GzipTypes, NEW b \in 1..(Count + 1)
    PROVE  /\ StartOf(b) \in Nat
           /\ StartOf(b) \notin input.decoys
           /\ \A c \in 1..(Count + 1) : StartOf(c) = StartOf(b) => c = b
           /\ BlockAt(StartOf(b)) = b
<1>1. /\ Count \in Nat
      /\ \A c \in 1..Count : input.ends[c] \in 1..End /\ input.ends[c] \notin input.decoys
      /\ \A c, d \in 1..Count : c < d => input.ends[c] < input.ends[d]
      /\ input.decoys \subseteq 1..End /\ End \in Nat
  BY InputFacts
<1>2. \A c \in 1..(Count + 1) : c = 1 \/ c - 1 \in 1..Count
  BY <1>1
<1>3. StartOf(b) \in Nat /\ StartOf(b) \notin input.decoys
  BY <1>1, <1>2 DEF StartOf
<1>4. ASSUME NEW c \in 1..(Count + 1), NEW d \in 1..(Count + 1), c < d
      PROVE  StartOf(c) # StartOf(d)
  <2>1. d - 1 \in 1..Count /\ d # 1
    BY <1>1, <1>4
  <2>2. StartOf(d) = input.ends[d - 1] /\ input.ends[d - 1] \in 1..End
    BY <1>1, <2>1 DEF StartOf
  <2>3. CASE c = 1
    BY <1>1, <2>2, <2>3 DEF StartOf
  <2>4. CASE c # 1
    <3>1. c - 1 \in 1..Count /\ c - 1 < d - 1
      BY <1>1, <1>2, <1>4, <2>4
    <3>2. input.ends[c - 1] < input.ends[d - 1] /\ input.ends[c - 1] \in 1..End
      BY <1>1, <2>1, <3>1
    <3> QED BY <1>1, <2>2, <2>4, <3>2 DEF StartOf
  <2> QED BY <2>3, <2>4
<1>5. ASSUME NEW c \in 1..(Count + 1), StartOf(c) = StartOf(b) PROVE c = b
  <2>1. ~(c < b) /\ ~(b < c)
    BY <1>4, <1>5
  <2> QED BY <1>1, <2>1
<1>6. BlockAt(StartOf(b)) = b
  BY <1>5 DEF BlockAt
<1> QED BY <1>3, <1>5, <1>6

\* Inflating from the start of a block that can be inflated gives a stretch.
LEMMA SegmentIsStretch ==
    ASSUME GzipTypes, NEW b \in 1..(Count + 1), NEW stop,
           Ends(StartOf(b), stop) # {}
    PROVE  \E c \in 1..(Count + 1) : Stretch(Segment(StartOf(b), stop), b, c)
<1> DEFINE place == StartOf(b)
           last == Least(Ends(place, stop))
<1>1. /\ Count \in Nat
      /\ \A c \in 1..Count : input.ends[c] \in Nat
  BY InputFacts
<1>2. place \in Nat /\ BlockAt(place) = b
  BY StartFacts
<1>3. last \in b..Count
  <2>1. Ends(place, stop) \subseteq b..Count
    BY <1>2 DEF Ends
  <2>2. Ends(place, stop) \subseteq Nat
    BY <1>1, <2>1
  <2>3. last \in Ends(place, stop)
    BY <2>2, LeastOf
  <2> QED BY <2>1, <2>3
<1>4. /\ Segment(place, stop).start = place
      /\ Segment(place, stop).end = input.ends[last]
      /\ Segment(place, stop).blocks = [i \in 1..(last - b + 1) |-> b + i - 1]
      /\ Segment(place, stop).final = (last = Count /\ input.final)
      /\ Segment(place, stop) =
            [start |-> place, end |-> input.ends[last],
             blocks |-> [i \in 1..(last - b + 1) |-> b + i - 1],
             final |-> last = Count /\ input.final]
  BY <1>2 DEF Segment
<1> HIDE DEF last, place
<1> DEFINE c == last + 1
<1>5. c \in 1..(Count + 1) /\ b < c /\ c - b = last - b + 1 /\ c - 1 = last /\ c # 1
      /\ last \in 1..Count /\ c - b \in Nat
  BY <1>1, <1>3
<1>6. StartOf(c) = input.ends[last]
  BY <1>5 DEF StartOf
<1>7. [i \in 1..(c - b) |-> b + i - 1] \in Seq(Nat)
  BY <1>1, <1>5
<1>8. Segment(place, stop) \in Segments
  BY <1>1, <1>2, <1>4, <1>5, <1>7 DEF Segments
<1>9. (last = Count /\ input.final) <=> (c = Count + 1 /\ input.final)
  BY <1>1, <1>5
<1>10. Stretch(Segment(place, stop), b, c)
  BY <1>4, <1>5, <1>6, <1>8, <1>9 DEF Stretch, place
<1> QED BY <1>5, <1>10 DEF place

\* A guess that continues the chain is a stretch: it is no decoy.
LEMMA FittingGuess ==
    ASSUME GzipTypes, NEW b \in 1..(Count + 1), at = StartOf(b), NEW k \in Jobs, Fits(k)
    PROVE  \E c \in 1..(Count + 1) : Stretch(Guess(k), b, c)
<1> DEFINE place == Least(Guesses(k))
<1>1. place \in Guesses(k)
  <2>1. /\ k * Grid \in Nat /\ Guesses(k) # {}
    BY PipelineAssumption, GzipAssumption DEF Jobs, Fits
  <2>2. Guesses(k) \subseteq Nat
    BY <2>1 DEF Guesses
  <2> QED BY <2>1, <2>2, LeastOf
<1>2. Guess(k).start = place
  BY DEF Guess, Segment
<1>3. place = StartOf(b)
  BY <1>2 DEF Fits
<1> HIDE DEF place
<1>4. place \notin input.decoys
  BY <1>3, StartFacts
<1>5. Inflatable(place, StopOf(k))
  BY <1>1, <1>4 DEF Guesses
<1>6. Guess(k) = Segment(place, StopOf(k))
  BY <1>4 DEF Guess, place
<1> QED BY <1>3, <1>5, <1>6, SegmentIsStretch DEF Inflatable

------------------------------------------------------------------------------
(* The tasks in play. *)

LEMMA PlayedByWorkers ==
    ASSUME StagedIInv, NEW w \in Workers, StagedWorker(w)
    PROVE  InPlay' \subseteq InPlay
<1> DEFINE Held == {stageTask[v] : v \in {u \in Workers : Occupied(u)}}
<1>1. /\ stageTask \in [Workers -> 0..Len(submitted)]
      /\ DOMAIN pc = Workers
      /\ stageQueue \in Seq(Tasks) /\ stageChannel \in Seq(Tasks)
  BY DEF StagedIInv, StagedTypes
<1>2. CASE ReceiveTask(w)
  <2>1. /\ stageQueue # <<>> /\ stageQueue' = Tail(stageQueue)
        /\ stageTask' = [stageTask EXCEPT ![w] = Head(stageQueue)]
        /\ pc' = [pc EXCEPT ![w] = "staging"]
        /\ stageChannel' = stageChannel /\ stageReady' = stageReady
    BY <1>2 DEF ReceiveTask, stageAnswers
  <2>2. Elements(stageQueue) = Elements(Tail(stageQueue)) \cup {Head(stageQueue)}
    BY <1>1, <2>1, TailElements
  <2>3. Queued = Queued' \cup {Head(stageQueue)} /\ Answering' = Answering
    BY <2>1, <2>2 DEF Queued, Answering, Elements
  <2>4. \A v \in Workers : v # w => stageTask'[v] = stageTask[v] /\ (Occupied(v)' <=> Occupied(v))
    BY <1>1, <2>1 DEF Occupied
  <2>5. Held' \subseteq Held \cup {Head(stageQueue)}
    BY <1>1, <2>1, <2>4
  <2> QED BY <2>1, <2>3, <2>5 DEF InPlay
<1>3. CASE AnswerTask(w)
  <2>1. /\ stageTask' = [stageTask EXCEPT ![w] = 0]
        /\ stageChannel' = Append(stageChannel, stageTask[w]) \/ stageChannel' = stageChannel
        /\ \E state \in {"admitting", "returned"} : pc' = [pc EXCEPT ![w] = state]
        /\ stageQueue' = stageQueue /\ stageReady' = stageReady
        /\ Occupied(w)
    BY <1>3 DEF AnswerTask, Occupied
  <2>2. stageTask[w] \in Tasks
    BY <2>1 DEF StagedIInv, TaskPlaces
  <2>3. Elements(Append(stageChannel, stageTask[w])) = Elements(stageChannel) \cup {stageTask[w]}
    BY <1>1, <2>2, AppendedElements
  <2>4. Queued' = Queued /\ Answering' \subseteq Answering \cup {stageTask[w]}
    BY <2>1, <2>3 DEF Queued, Answering, Elements
  <2>5. \A v \in Workers : Occupied(v)' => v # w /\ Occupied(v) /\ stageTask'[v] = stageTask[v]
    BY <1>1, <2>1 DEF Occupied
  <2>6. Held' \subseteq Held /\ stageTask[w] \in Held
    BY <2>1, <2>5
  <2> QED BY <2>1, <2>4, <2>6 DEF InPlay
<1>4. CASE ~ReceiveTask(w) /\ ~AnswerTask(w)
  <2>1. /\ UNCHANGED <<stageQueue, stageTask, stageChannel, stageReady>>
        /\ \/ /\ pc[w] = "staging"
              /\ pc' = [pc EXCEPT ![w] = "answering"]
           \/ /\ pc[w] \notin {"staging", "answering"}
              /\ \E state \in {"admitting", "probing", "executing", "sending", "returned",
                               "panicked"} : pc' = [pc EXCEPT ![w] = state]
    BY <1>4, NobodyWoken
       DEF StagedWorker, NoTask, TryNextReady, TryNextPending, TryNextCancelled, EndTask, Complete,
           Panic, Send, SendFails, staged, stageWork, stageAnswers, StagedIInv
  <2>2. \A v \in Workers : Occupied(v)' <=> Occupied(v)
    BY <1>1, <2>1 DEF Occupied
  <2>3. Queued' = Queued /\ Answering' = Answering /\ Held' = Held
    BY <2>1, <2>2 DEF Queued, Answering
  <2> QED BY <2>1, <2>3 DEF InPlay
<1> QED BY <1>2, <1>3, <1>4

LEMMA PlayedBySubmit ==
    ASSUME StagedIInv, Submit
    PROVE  /\ InPlay' \subseteq InPlay \cup {Len(submitted')}
           /\ Len(submitted') = Len(submitted) + 1
<1>1. /\ submitted' = Append(submitted, hand)
      /\ stageQueue' = Append(stageQueue, Len(submitted) + 1)
      /\ UNCHANGED <<pc, stageTask, stageChannel, stageReady>>
  BY DEF Submit, vars, workers, stageAnswers
<1>2. submitted \in Seq(Jobs) /\ stageQueue \in Seq(Tasks)
  BY DEF StagedIInv, StagedTypes
<1>3. Len(submitted') = Len(submitted) + 1 /\ Len(submitted) \in Nat
  BY <1>1, <1>2
<1>4. stageQueue \in Seq(Nat)
  BY <1>2 DEF Tasks
<1>5. Elements(Append(stageQueue, Len(submitted) + 1)) = Elements(stageQueue) \cup {Len(submitted) + 1}
  BY <1>3, <1>4, AppendedElements
<1>6. Queued' = Queued \cup {Len(submitted')} /\ Answering' = Answering
  BY <1>1, <1>3, <1>5 DEF Queued, Answering, Elements
<1> QED BY <1>1, <1>3, <1>6 DEF InPlay, Occupied

LEMMA PlayedByTakeStage ==
    ASSUME StagedIInv, TakeStage
    PROVE  /\ InPlay' \subseteq InPlay \ {awaited}
           /\ awaited \in InPlay
<1>1. /\ awaited \in stageReady /\ stageReady' = stageReady \ {awaited}
      /\ UNCHANGED <<pc, stageTask, stageQueue, stageChannel>>
  BY DEF TakeStage, vars, workers, stageWork
<1>2. /\ awaited \notin Queued /\ awaited \notin Answering
      /\ \A w \in Workers : Occupied(w) => stageTask[w] # awaited
  BY <1>1 DEF StagedIInv, TaskPlaces
<1>3. Queued' = Queued /\ Answering' = Answering
  BY <1>1 DEF Queued, Answering
<1> QED BY <1>1, <1>2, <1>3 DEF InPlay, Occupied

LEMMA PlayedByCoordinator ==
    ASSUME StagedIInv,
           \/ CallTakePrimary(key) \/ ReceivePrimary \/ TakePrimary \/ RetireHand
           \/ (\E r \in Tasks : CallTakeStage(r))
           \/ ReceiveStage \/ TakeStage \/ StagedReturn \/ StagedCancel \/ StagedJoin
           \/ UNCHANGED stagedVars
    PROVE  InPlay' \subseteq InPlay /\ submitted' = submitted
<1>1. CASE ReceiveStage
  <2>1. /\ stageChannel # <<>> /\ stageChannel' = Tail(stageChannel)
        /\ stageReady' = stageReady \cup {Head(stageChannel)}
        /\ UNCHANGED <<pc, stageTask, stageQueue, submitted>>
    BY <1>1 DEF ReceiveStage, vars, workers, stageWork
  <2>2. stageChannel \in Seq(Tasks)
    BY DEF StagedIInv, StagedTypes
  <2>3. Elements(stageChannel) = Elements(Tail(stageChannel)) \cup {Head(stageChannel)}
    BY <2>1, <2>2, TailElements
  <2>4. Answering = Answering' \cup {Head(stageChannel)} /\ Queued' = Queued
    BY <2>1, <2>3 DEF Answering, Queued, Elements
  <2> QED BY <2>1, <2>4 DEF InPlay, Occupied
<1>2. CASE ~ReceiveStage
  <2>1. /\ UNCHANGED <<stageTask, stageQueue, submitted>>
        /\ pc' = pc
        /\ stageChannel' = stageChannel \/ stageChannel' = <<>>
        /\ stageReady' \subseteq stageReady
    BY <1>2, NobodyWoken
       DEF CallTakePrimary, CallTake, ReceivePrimary, Receive, TakePrimary, RetireHand, Retire,
           CallTakeStage, TakeStage, StagedReturn, Return, StagedCancel, Cancel, StagedJoin, Join,
           stagedVars, vars, workers, staged, stageWork, stageAnswers, StagedIInv
  <2>2. Answering' \subseteq Answering /\ Queued' = Queued
    <3>1. CASE stageChannel' = stageChannel
      BY <2>1, <3>1 DEF Answering, Queued
    <3>2. CASE stageChannel' = <<>>
      BY <2>1, <3>2 DEF Answering, Queued
    <3> QED BY <2>1, <3>1, <3>2
  <2> QED BY <2>1, <2>2 DEF InPlay, Occupied
<1> QED BY <1>1, <1>2

------------------------------------------------------------------------------
(* The chain. *)

LEMMA SameStream ==
    ASSUME input' = input
    PROVE  /\ Count' = Count /\ Starts' = Starts
           /\ \A b : StartOf(b)' = StartOf(b)
           /\ \A segment, b, c : Stretch(segment, b, c)' <=> Stretch(segment, b, c)
BY DEF Count, Starts, StartOf, Stretch

LEMMA SameUsable ==
    ASSUME input' = input
    PROVE  Usable(0, InitialStop)' <=> Usable(0, InitialStop)
BY DEF Usable, Inflatable, Ends, TooBig, BlockAt, StartOf, TooFar, Segment, InitialStop, Count

\* n blocks are written, the next ones, and they can be decoded.
Wrote(n) ==
    /\ n \in 1..Count
    /\ \A b \in 1..n : Len(written) + b \in 1..Count
                       /\ \A f \in input.far : Len(written) + b < f
    /\ written' = written \o [b \in 1..n |-> Len(written) + b]

\* Writing the stretch that comes next.
LEMMA WriteStretch ==
    ASSUME GzipTypes, Decoded, input' = input, NEW segment,
           NEW b \in 1..(Count + 1), NEW c \in 1..(Count + 1), Stretch(segment, b, c),
           b = Len(written) + 1, ~TooFar(segment),
           written' = written \o segment.blocks
    PROVE  /\ written' \in Seq(Nat)
           /\ Len(written') + 1 = c
           /\ Decoded'
           /\ \E n \in 1..Count : Wrote(n)
<1> DEFINE n == c - b
<1>1. /\ Count \in Nat /\ input.far \subseteq 1..Count
  BY InputFacts
<1>2. written \in Seq(Nat) /\ Len(written) \in Nat
  <2>1. written \in Seq(Nat)
    BY DEF GzipTypes
  <2> QED BY <2>1
<1>3. /\ n \in 1..Count /\ n \in Nat
      /\ segment.blocks = [i \in 1..n |-> b + i - 1]
      /\ segment.blocks \in Seq(Nat)
  BY <1>1 DEF Stretch, Segments
<1>4. segment.blocks = [i \in 1..n |-> Len(written) + i]
  <2>1. \A i \in 1..n : b + i - 1 = Len(written) + i
    BY <1>2
  <2> QED BY <1>3, <2>1
<1>5. \A i \in 1..n : segment.blocks[i] = Len(written) + i /\ segment.blocks[i] \notin input.far
  BY <1>4 DEF TooFar
<1>6. /\ written' \in Seq(Nat)
      /\ Len(segment.blocks) = n
      /\ Len(written') = Len(written) + n
  BY <1>2, <1>3
<1>7. Len(written') + 1 = c /\ Len(written') <= Count
  BY <1>1, <1>2, <1>6
<1>8. ASSUME NEW f \in input.far PROVE ~(f <= Len(written'))
  <2>1. f \in 1..Count /\ ~(f <= Len(written))
    BY <1>1 DEF Decoded
  <2>2. ASSUME f <= Len(written') PROVE FALSE
    <3>1. f - Len(written) \in 1..n
      BY <1>1, <1>2, <1>3, <1>6, <2>1, <2>2
    <3>2. segment.blocks[f - Len(written)] = f
      <4>1. segment.blocks[f - Len(written)] = Len(written) + (f - Len(written))
        BY <1>5, <3>1
      <4>2. f \in Nat
        BY <2>1
      <4> QED BY <1>2, <4>1, <4>2
    <3> QED BY <1>5, <3>1, <3>2
  <2> QED BY <2>2
<1>9. Decoded'
  BY <1>7, <1>8 DEF Decoded, Count
<1>10. Wrote(n)
  <2>1. ASSUME NEW i \in 1..n
        PROVE  Len(written) + i \in 1..Count /\ \A f \in input.far : Len(written) + i < f
    <3>1. Len(written) + i <= Len(written') /\ Len(written') \in Nat
      BY <1>2, <1>3, <1>6
    <3>2. \A f \in input.far : f \in Nat /\ ~(f <= Len(written'))
      BY <1>1, <1>8
    <3> QED BY <1>1, <1>2, <1>7, <3>1, <3>2
  <2> QED BY <1>3, <1>4, <2>1 DEF Wrote
<1> QED BY <1>3, <1>6, <1>7, <1>9, <1>10

\* The place where a stretch ends is the end of the stream exactly if it is final.
LEMMA StretchEnd ==
    ASSUME GzipTypes, NEW segment, NEW b \in 1..(Count + 1), NEW c \in 1..(Count + 1),
           Stretch(segment, b, c)
    PROVE  /\ segment.end \in Starts
           /\ segment.final <=> segment.end = StartOf(Count + 1) /\ input.final
<1>1. Count + 1 \in 1..(Count + 1)
  BY InputFacts
<1>2. StartOf(c) = StartOf(Count + 1) <=> c = Count + 1
  BY <1>1, StartFacts
<1> QED BY <1>2 DEF Stretch, Starts

\* Steps that leave the chain and the tasks alone.
LEMMA ChainUntouched ==
    ASSUME GzipIInv, InPlay' \subseteq InPlay,
           UNCHANGED <<submitted, input, at, window, final, key, tasks, nextResolve, written>>,
           \/ stage' = stage
           \/ stage = "loop" /\ stage' = "refused"
           \/ stage = "serial" /\ stage' = "over",
           outcome' \in {"none", "ok", "data error", "too big", "aborted", "panicked"}
    PROVE  GzipTypes' /\ TaskBound' /\ (Parallel => Chained)' /\ Decoded'
<1>1. GzipTypes'
  BY DEF GzipIInv, Rest, GzipTypes
<1>2. TaskBound'
  BY DEF GzipIInv, Rest, TaskBound, Outstanding
<1>3. /\ Count' = Count /\ Starts' = Starts
      /\ \A b : StartOf(b)' = StartOf(b)
      /\ \A segment, b, c : Stretch(segment, b, c)' <=> Stretch(segment, b, c)
      /\ \A r : Chain(r)' = Chain(r)
  BY SameStream DEF Chain
<1>4. Decoded'
  BY <1>3 DEF GzipIInv, Rest, Decoded
<1>5. Parallel' => Parallel
  BY DEF Parallel
<1>6. Chained => Chained'
  BY <1>3 DEF Chained
<1> QED BY <1>1, <1>2, <1>4, <1>5, <1>6 DEF GzipIInv, Rest

------------------------------------------------------------------------------
(* The serial decoder. *)

LEMMA SerialBlockStep ==
    ASSUME GzipIInv, SerialBlock
    PROVE  Rest' /\ Wrote(1)
<1> DEFINE b == Len(written) + 1
<1>1. /\ stage = "serial" /\ b <= Count /\ \A f \in input.far : b < f
      /\ written' = Append(written, b)
      /\ UNCHANGED <<stagedVars, input, stage, at, window, final, key, tasks, nextResolve, outcome>>
  BY DEF SerialBlock
<1>2. /\ UNCHANGED <<phase, front, submitted, hand, awaited>>
      /\ InPlay' \subseteq InPlay
  BY <1>1, PlayedByCoordinator
     DEF GzipIInv, stagedVars, vars, coordinator, staged
<1>3. written \in Seq(Nat)
  BY DEF GzipIInv, Rest, GzipTypes
<1>4. /\ Count \in Nat /\ input.far \subseteq 1..Count
  BY InputFacts DEF GzipIInv, Rest
<1>5. written' \in Seq(Nat) /\ Len(written') = b /\ b \in Nat /\ Len(written) \in Nat
  BY <1>1, <1>3
<1>6. GzipTypes'
  BY <1>1, <1>5 DEF GzipIInv, Rest, GzipTypes
<1>7. Control'
  BY <1>1, <1>2 DEF GzipIInv, Rest, Control
<1>8. TaskBound'
  BY <1>1, <1>2 DEF GzipIInv, Rest, TaskBound, Outstanding
<1>9. Decoded'
  <2>1. \A f \in input.far : f \in Nat /\ ~(f <= b)
    BY <1>1, <1>4, <1>5
  <2> QED BY <1>1, <1>5, <2>1 DEF Decoded, Count
<1>10. Truthful'
  BY <1>1 DEF GzipIInv, Rest, Control, Truthful
<1>11. Wrote(1)
  <2>1. 1 \in 1..Count /\ b \in 1..Count
    BY <1>1, <1>4, <1>5
  <2>2. written' = written \o [i \in 1..1 |-> Len(written) + i]
    BY <1>1, <1>3, <1>5
  <2> QED BY <1>1, <2>1, <2>2 DEF Wrote
<1> QED BY <1>1, <1>6, <1>7, <1>8, <1>9, <1>10, <1>11 DEF Rest, Parallel

LEMMA SerialEndStep ==
    ASSUME GzipIInv, SerialOk \/ SerialRefuses \/ SerialAborted
    PROVE  Rest'
<1>1. /\ stage = "serial" /\ stage' = "over"
      /\ UNCHANGED <<stagedVars, input, at, window, final, key, tasks, nextResolve, written>>
      /\ \/ outcome' = "ok" /\ input.final /\ Len(written) = Count
         \/ outcome' = "data error"
            /\ Len(written) + 1 \in input.far \cup (IF input.final THEN {} ELSE {Count + 1})
         \/ outcome' = "aborted"
  BY DEF SerialOk, SerialRefuses, SerialAborted, SerialEnd
<1>2. /\ UNCHANGED <<phase, front, submitted, hand, awaited>>
      /\ InPlay' \subseteq InPlay
  BY <1>1, PlayedByCoordinator DEF GzipIInv, stagedVars, vars, coordinator, staged
<1>3. GzipTypes' /\ TaskBound' /\ (Parallel => Chained)' /\ Decoded'
  BY <1>1, <1>2, ChainUntouched
<1>4. Control'
  BY <1>1, <1>2 DEF GzipIInv, Rest, Control
<1>5. Truthful'
  <2>1. CASE outcome' = "ok"
    <3>1. Count \in Nat /\ input.far \subseteq 1..Count
      BY InputFacts DEF GzipIInv, Rest
    <3>2. input.far = {}
      BY <1>1, <2>1, <3>1 DEF GzipIInv, Rest, Decoded
    <3> QED BY <1>1, <2>1, <3>2 DEF Truthful, Count
  <2>2. CASE outcome' = "data error"
    BY <1>1, <2>2 DEF Truthful
  <2>3. CASE outcome' = "aborted"
    BY <2>3 DEF Truthful
  <2> QED BY <1>1, <2>1, <2>2, <2>3
<1> QED BY <1>3, <1>4, <1>5 DEF Rest

------------------------------------------------------------------------------
(* The parallel decoder: steps that leave the chain alone. *)

\* A worker, and the coordinator while it receives.
LEMMA InBackground ==
    ASSUME GzipIInv,
           \/ \E w \in Workers : GzipWorker(w)
           \/ ReceivePrimary /\ UNCHANGED gzip
           \/ ReceiveStage /\ UNCHANGED gzip
           \/ UNCHANGED gzipVars
    PROVE  Rest'
<1>1. UNCHANGED gzip
  BY DEF GzipWorker, gzipVars
<1>2. UNCHANGED <<phase, front, submitted, hand, awaited>> /\ InPlay' \subseteq InPlay
  <2>1. CASE \E w \in Workers : GzipWorker(w)
    <3>1. PICK w \in Workers : StagedWorker(w)
      BY <2>1 DEF GzipWorker
    <3>2. UNCHANGED <<coordinator, submitted, hand, awaited>>
      BY <3>1
         DEF StagedWorker, ReceiveTask, NoTask, TryNextReady, TryNextPending, TryNextCancelled,
             EndTask, AnswerTask, Complete, Panic, Send, SendFails, staged
    <3> QED BY <3>1, <3>2, PlayedByWorkers DEF coordinator, GzipIInv
  <2>2. CASE ReceivePrimary \/ ReceiveStage \/ UNCHANGED stagedVars
    BY <2>2, PlayedByCoordinator
       DEF GzipIInv, ReceivePrimary, Receive, ReceiveStage, stagedVars, vars, coordinator, staged
  <2> QED BY <2>1, <2>2 DEF gzipVars
<1>3. GzipTypes' /\ TaskBound' /\ (Parallel => Chained)' /\ Decoded'
  BY <1>1, <1>2, ChainUntouched DEF gzip, GzipIInv, Rest, GzipTypes
<1>4. Control'
  <2>1. Usable(0, InitialStop)' <=> Usable(0, InitialStop)
    BY <1>1, SameUsable DEF gzip
  <2> QED BY <1>1, <1>2, <2>1 DEF gzip, GzipIInv, Rest, Control, Outstanding
<1>5. Truthful'
  BY <1>1 DEF gzip, GzipIInv, Rest, Truthful, Count
<1> QED BY <1>3, <1>4, <1>5 DEF Rest

\* The coordinator asks for a job or a task, takes a job, or rejects its guess.
LEMMA CoordinatorAsks ==
    ASSUME GzipIInv, AskPrimary \/ (TakePrimary /\ UNCHANGED gzip) \/ AskStage \/ Reject
    PROVE  Rest'
<1>1. /\ UNCHANGED <<input, at, window, final, key, tasks, nextResolve, written, outcome>>
      /\ \/ /\ stage' = stage /\ stage = "loop" /\ outcome = "none" /\ ~final
            /\ phase' = "taking" /\ front' = key /\ awaited = 0 /\ hand = 0
            /\ UNCHANGED <<awaited, hand>>
         \/ /\ stage' = stage /\ phase = "taking" /\ phase' = "working" /\ hand' = front
            /\ UNCHANGED awaited
         \/ /\ stage' = stage /\ phase = "working" /\ outcome = "none"
            /\ stage \in {"full", "refused", "loop"}
            /\ awaited' = nextResolve + 1 /\ hand = 0
            /\ UNCHANGED <<phase, front, hand>>
         \/ /\ stage = "loop" /\ outcome = "none" /\ stage' = "refused" /\ phase = "working"
            /\ hand # 0 /\ hand' = 0
            /\ UNCHANGED <<awaited, phase, front>>
  <2>1. CASE AskPrimary
    BY <2>1 DEF AskPrimary, Following, Idle, CallTakePrimary, CallTake, gzip, staged
  <2>2. CASE TakePrimary /\ UNCHANGED gzip
    BY <2>2 DEF TakePrimary, gzip
  <2>3. CASE AskStage
    BY <2>3 DEF AskStage, Following, Idle, CallTakeStage, gzip, vars, coordinator
  <2>4. CASE Reject
    BY <2>4 DEF Reject, RetireHand, Idle, coordinator
  <2> QED BY <2>1, <2>2, <2>3, <2>4
<1>2. InPlay' \subseteq InPlay /\ submitted' = submitted
  BY PlayedByCoordinator DEF AskPrimary, AskStage, CallTakeStage, Reject, GzipIInv
<1>3. \/ stage' = stage
      \/ stage = "loop" /\ stage' = "refused"
  BY <1>1
<1>4. outcome' \in {"none", "ok", "data error", "too big", "aborted", "panicked"}
  BY <1>1 DEF GzipIInv, Rest, GzipTypes
<1>5. GzipTypes' /\ TaskBound' /\ (Parallel => Chained)' /\ Decoded'
  BY <1>1, <1>2, <1>3, <1>4, ChainUntouched
<1>6. Control'
  <2>1. Usable(0, InitialStop)' <=> Usable(0, InitialStop)
    BY <1>1, SameUsable
  <2>2. hand \in 0..N
    BY DEF GzipIInv, StagedIInv, StagedTypes
  <2>3. hand # 0 => hand <= N
    BY <2>2, PipelineAssumption
  <2> QED BY <1>1, <2>1, <2>3 DEF GzipIInv, Rest, Control, Outstanding
<1>7. Truthful'
  BY <1>1 DEF GzipIInv, Rest, Truthful, Count
<1> QED BY <1>5, <1>6, <1>7 DEF Rest

\* A stretch that the coordinator cannot use is not one of a whole stream.
LEMMA NotUsable ==
    ASSUME GzipTypes, Chained, ~final, NEW stop,
           ~Usable(at, stop), ~TooBig(at, stop)
    PROVE  ~(input.final /\ input.far = {})
<1> SUFFICES ASSUME input.final, input.far = {} PROVE FALSE
  OBVIOUS
<1>1. PICK b \in 1..(Count + 1) : at = StartOf(b)
  BY DEF Chained, Starts
<1>2. Count \in Nat /\ Count > 0
  BY InputFacts
<1>3. b # Count + 1
  BY <1>1 DEF Chained
<1>4. BlockAt(at) = b
  BY <1>1, StartFacts
<1>5. Count \in Ends(at, stop)
  BY <1>2, <1>3, <1>4 DEF Ends
<1> QED BY <1>5 DEF Usable, Inflatable, TooFar

\* The coordinator's call ends.
LEMMA CallEnds ==
    ASSUME GzipIInv, Parallel,
           AcceptRefused \/ StageFails \/ FallbackRefused \/ WriteAborted \/ Finish
    PROVE  Rest'
<1>1. /\ UNCHANGED <<input, stage, at, window, final, key, tasks, nextResolve, written>>
      /\ UNCHANGED <<phase, front, hand>>
      /\ awaited' = 0
      /\ phase = "working"
      /\ outcome' # "none"
      /\ \/ outcome' = "data error" /\ input.far # {}
         \/ outcome' = "aborted"
         \/ /\ Following("refused") /\ ~Usable(at, StopOf(key))
            /\ outcome' = IF TooBig(at, StopOf(key)) THEN "too big" ELSE "data error"
         \/ outcome' = "ok" /\ final /\ Outstanding = 0
  <2>1. CASE AcceptRefused
    BY <2>1 DEF AcceptRefused, GiveUp, TooFar, Idle, stagedVars, vars, coordinator, staged
  <2>2. CASE StageFails
    <3>1. /\ awaited # 0 /\ awaited' = 0
          /\ UNCHANGED <<phase, front, hand>>
      BY <2>2 DEF StageFails, TakeStage, vars, coordinator
    <3> QED BY <2>2, <3>1 DEF StageFails, GiveUp, TooFar, GzipIInv, Rest, Control
  <2>3. CASE FallbackRefused
    BY <2>3 DEF FallbackRefused, GiveUp, Following, Idle, stagedVars, vars, coordinator, staged
  <2>4. CASE WriteAborted
    BY <2>4 DEF WriteAborted, GiveUp, Following, Idle, stagedVars, vars, coordinator, staged
  <2>5. CASE Finish
    BY <2>5 DEF Finish, GiveUp, Following, Idle, stagedVars, vars, coordinator, staged
  <2> QED BY <2>1, <2>2, <2>3, <2>4, <2>5
<1>2. InPlay' \subseteq InPlay /\ submitted' = submitted
  BY PlayedByCoordinator
     DEF AcceptRefused, StageFails, FallbackRefused, WriteAborted, Finish, GzipIInv
<1>3. outcome' \in {"none", "ok", "data error", "too big", "aborted", "panicked"}
  BY <1>1
<1>4. GzipTypes' /\ TaskBound' /\ (Parallel => Chained)' /\ Decoded'
  BY <1>1, <1>2, <1>3, ChainUntouched
<1>5. Control'
  <2>1. Usable(0, InitialStop)' <=> Usable(0, InitialStop)
    BY <1>1, SameUsable
  <2>2. stage # "serial"
    BY DEF Parallel
  <2> QED BY <1>1, <2>1, <2>2 DEF GzipIInv, Rest, Control, Outstanding
<1>6. Truthful'
  <2>1. GzipTypes /\ Chained /\ Decoded
    BY DEF GzipIInv, Rest
  <2>2. /\ Count \in Nat /\ Count' = Count
        /\ input.big \subseteq 1..Count /\ input.far \subseteq 1..Count
    BY <1>1, <2>1, InputFacts DEF Count
  <2>3. CASE outcome' = "aborted" \/ (outcome' = "data error" /\ input.far # {})
    BY <1>1, <2>3 DEF Truthful
  <2>4. CASE /\ Following("refused") /\ ~Usable(at, StopOf(key))
             /\ outcome' = IF TooBig(at, StopOf(key)) THEN "too big" ELSE "data error"
    <3>1. ~final
      BY <2>4 DEF Following, GzipIInv, Rest, Control
    <3>2. TooBig(at, StopOf(key)) => input.big # {}
      BY DEF TooBig
    <3>3. ~TooBig(at, StopOf(key)) => ~(input.final /\ input.far = {})
      BY <2>1, <2>4, <3>1, NotUsable
    <3> QED BY <1>1, <2>4, <3>2, <3>3 DEF Truthful
  <2>5. CASE outcome' = "ok" /\ final /\ Outstanding = 0
    <3>1. /\ tasks \in Seq([segment : Segments, predecessor : Nat])
          /\ nextResolve \in 0..Len(tasks)
          /\ Len(written) \in Nat /\ Len(written) <= Count
      <4>1. written \in Seq(Nat)
        BY <2>1 DEF GzipTypes
      <4>2. Len(written) \in Nat
        BY <4>1
      <4> QED BY <2>1, <4>2 DEF GzipTypes, Decoded
    <3>2. nextResolve = Len(tasks) /\ Len(tasks) \in Nat
      BY <2>5, <3>1 DEF Outstanding
    <3>3. Chain(nextResolve + 1) = at
      BY <3>2 DEF Chain
    <3>4. StartOf(Len(written) + 1) = StartOf(Count + 1) /\ input.final
      BY <2>1, <2>5, <3>3 DEF Chained
    <3>5. Len(written) + 1 \in 1..(Count + 1) /\ Count + 1 \in 1..(Count + 1)
      BY <2>2, <3>1
    <3>6. Len(written) = Count
      <4>1. Len(written) + 1 = Count + 1
        BY <2>1, <3>4, <3>5, StartFacts
      <4> QED BY <2>2, <3>1, <4>1
    <3>7. input.far = {}
      BY <2>1, <2>2, <3>6 DEF Decoded
    <3>8. input'.final /\ input'.far = {} /\ Len(written') = Count' /\ outcome' = "ok"
      BY <1>1, <2>2, <2>5, <3>4, <3>6, <3>7
    <3> QED BY <3>8 DEF Truthful
  <2>6. \/ outcome' = "aborted" \/ (outcome' = "data error" /\ input.far # {})
        \/ /\ Following("refused") /\ ~Usable(at, StopOf(key))
           /\ outcome' = IF TooBig(at, StopOf(key)) THEN "too big" ELSE "data error"
        \/ outcome' = "ok" /\ final /\ Outstanding = 0
    BY <1>1
  <2> QED BY <2>3, <2>4, <2>5, <2>6
<1> QED BY <1>4, <1>5, <1>6 DEF Rest

\* run_staged_ordered returns with the outcome.
LEMMA CallReturns ==
    ASSUME GzipIInv, Parallel,
           ReturnOutcome \/ (StagedCancel /\ UNCHANGED gzip) \/ JoinOutcome
    PROVE  Rest'
<1>1. /\ UNCHANGED <<input, stage, at, window, final, key, tasks, nextResolve, written>>
      /\ outcome' \in {outcome, "panicked"}
      /\ hand' \in {hand, 0} /\ awaited' = awaited
      /\ \/ awaited = 0 /\ outcome # "none" /\ phase' = "dropped" /\ hand' = 0
         \/ phase = "dropped" /\ phase' = "cancelled"
         \/ phase = "cancelled" /\ phase' = "joined"
  BY DEF ReturnOutcome, StagedReturn, Return, StagedCancel, Cancel, JoinOutcome, StagedJoin, Join,
         gzip, staged
<1>2. InPlay' \subseteq InPlay /\ submitted' = submitted
  BY PlayedByCoordinator DEF ReturnOutcome, JoinOutcome, GzipIInv
<1>3. outcome' \in {"none", "ok", "data error", "too big", "aborted", "panicked"}
  BY <1>1 DEF GzipIInv, Rest, GzipTypes
<1>4. GzipTypes' /\ TaskBound' /\ (Parallel => Chained)' /\ Decoded'
  BY <1>1, <1>2, <1>3, ChainUntouched
<1>5. Control'
  <2>1. Usable(0, InitialStop)' <=> Usable(0, InitialStop)
    BY <1>1, SameUsable
  <2> QED BY <1>1, <2>1 DEF GzipIInv, Rest, Control, Outstanding, Parallel
<1>6. Truthful'
  BY <1>1 DEF GzipIInv, Rest, Truthful, Count
<1> QED BY <1>4, <1>5, <1>6 DEF Rest

------------------------------------------------------------------------------
(* The parallel decoder: steps that move the chain. *)

\* The coordinator writes a segment of its own.
LEMMA OwnSegment ==
    ASSUME GzipIInv, Parallel, InitialSegment \/ Fallback
    PROVE  Rest' /\ \E n \in 1..Count : Wrote(n)
<1>1. PICK stop :
         /\ phase = "working" /\ awaited = 0 /\ hand = 0 /\ outcome = "none"
         /\ Outstanding = 0 /\ stage # "full"
         /\ Usable(at, stop)
         /\ written' = written \o Resolved(Segment(at, stop), window)
         /\ at' = Segment(at, stop).end /\ window' = Segment(at, stop).end
         /\ final' = Segment(at, stop).final
         /\ key' = key \/ (key <= N /\ key' = key + 1)
         /\ stage' = "loop"
         /\ UNCHANGED <<stagedVars, input, tasks, nextResolve, outcome>>
  <2>1. CASE InitialSegment
    <3>1. /\ Following("start") /\ stage' = "loop"
          /\ written' = written \o Resolved(Segment(0, InitialStop), window)
          /\ Continue(Segment(0, InitialStop))
          /\ UNCHANGED <<stagedVars, input, key, tasks, nextResolve, outcome>>
      BY <2>1 DEF InitialSegment
    <3>2. Usable(0, InitialStop) /\ at = 0 /\ Outstanding = 0
      BY <3>1 DEF Following, GzipIInv, Rest, Control
    <3> QED BY <3>1, <3>2 DEF Following, Idle, Continue
  <2>2. CASE Fallback
    <3>1. key <= N
      BY <2>2 DEF Fallback, Following, GzipIInv, Rest, Control
    <3> QED BY <2>2, <3>1 DEF Fallback, Following, Idle, Continue
  <2> QED BY <2>1, <2>2
<1> DEFINE segment == Segment(at, stop)
<1>2. GzipTypes /\ Chained /\ Decoded /\ TaskBound /\ Control /\ Truthful
  BY DEF GzipIInv, Rest
<1>3. PICK b \in 1..(Count + 1) : at = StartOf(b)
  BY <1>2 DEF Chained, Starts
<1>4. PICK c \in 1..(Count + 1) : Stretch(segment, b, c)
  BY <1>1, <1>2, <1>3, SegmentIsStretch DEF Usable, Inflatable
<1>5. ~TooFar(segment)
  BY <1>1 DEF Usable
<1> HIDE DEF segment
<1>6. Resolved(segment, window) = segment.blocks
  BY <1>2, <1>3, <1>4 DEF Resolved, Stretch, GzipTypes
<1>7. /\ nextResolve = Len(tasks) /\ Len(tasks) \in Nat
      /\ Len(written) \in Nat /\ Count \in Nat
  <2>1. /\ tasks \in Seq([segment : Segments, predecessor : Nat]) /\ written \in Seq(Nat)
        /\ nextResolve \in 0..Len(tasks)
    BY <1>2 DEF GzipTypes
  <2>2. Len(tasks) \in Nat /\ Len(written) \in Nat /\ Count \in Nat
    BY <1>2, <2>1, InputFacts
  <2> QED BY <1>1, <2>1, <2>2 DEF Outstanding
<1>8. b = Len(written) + 1
  <2>1. Chain(nextResolve + 1) = at
    BY <1>7 DEF Chain
  <2>2. StartOf(Len(written) + 1) = StartOf(b) /\ Len(written) + 1 \in 1..(Count + 1)
    BY <1>2, <1>3, <1>7, <2>1 DEF Chained, Decoded
  <2> QED BY <1>2, <2>2, StartFacts
<1>9. /\ written' \in Seq(Nat) /\ Len(written') + 1 = c
      /\ Decoded' /\ \E n \in 1..Count : Wrote(n)
  BY <1>1, <1>2, <1>4, <1>5, <1>6, <1>8, WriteStretch DEF segment
<1>10. /\ UNCHANGED <<phase, front, submitted, hand, awaited>>
       /\ InPlay' \subseteq InPlay
  BY <1>1, PlayedByCoordinator DEF GzipIInv, stagedVars, vars, coordinator, staged
<1>11. /\ at' = segment.end /\ window' = segment.end /\ final' = segment.final
  BY <1>1 DEF segment
<1>12. GzipTypes'
  <2>1. /\ at' \in Nat /\ window' = at' /\ final' \in BOOLEAN
    BY <1>4, <1>11 DEF Stretch, Segments
  <2>2. key' \in 1..(N + 1)
    BY <1>1, <1>2, PipelineAssumption DEF GzipTypes
  <2> QED BY <1>1, <1>2, <1>9, <2>1, <2>2 DEF GzipTypes
<1>13. Control'
  BY <1>1, <1>10 DEF Control
<1>14. TaskBound'
  BY <1>1, <1>2, <1>10 DEF TaskBound, Outstanding
<1>15. Chained'
  <2>1. /\ Count' = Count /\ Starts' = Starts
        /\ \A d : StartOf(d)' = StartOf(d)
    BY <1>1, SameStream
  <2>2. /\ segment.end \in Starts
        /\ segment.final <=> segment.end = StartOf(Count + 1) /\ input.final
    BY <1>2, <1>4, StretchEnd
  <2>3. Chain(nextResolve + 1)' = StartOf(Len(written) + 1)'
    <3>1. Chain(nextResolve + 1)' = segment.end
      BY <1>1, <1>7, <1>11 DEF Chain
    <3> QED BY <1>4, <1>9, <2>1, <3>1 DEF Stretch
  <2>4. (nextResolve' + 1)..Len(tasks') = {}
    BY <1>1, <1>7
  <2>5. at' \in Starts' /\ (final' <=> at' = StartOf(Count + 1)' /\ input'.final)
    BY <1>1, <1>11, <2>1, <2>2
  <2> QED BY <2>3, <2>4, <2>5 DEF Chained
<1>16. Truthful'
  BY <1>1 DEF Truthful
<1> QED BY <1>9, <1>12, <1>13, <1>14, <1>15, <1>16 DEF Rest

\* The guess in the coordinator's hand continues the chain and becomes a task.
LEMMA GuessAccepted ==
    ASSUME GzipIInv, Parallel, Accept
    PROVE  Rest'
<1> DEFINE segment == Guess(hand)
           task == [segment |-> segment, predecessor |-> window]
<1>1. /\ stage = "loop" /\ outcome = "none" /\ hand # 0 /\ Fits(hand) /\ Submit
      /\ tasks' = Append(tasks, task)
      /\ at' = segment.end /\ window' = segment.end /\ final' = segment.final
      /\ key' = key + 1
      /\ stage' = IF Outstanding + 1 >= Threads THEN "full" ELSE "loop"
      /\ UNCHANGED <<input, nextResolve, written, outcome>>
  BY DEF Accept, Continue
<1>2. /\ hand' = 0 /\ phase = "working" /\ awaited = 0
      /\ UNCHANGED <<phase, front, awaited>>
  BY <1>1 DEF Submit, Idle, vars, coordinator
<1>3. GzipTypes /\ Chained /\ Decoded /\ TaskBound /\ Control /\ Truthful
  BY DEF GzipIInv, Rest
<1>4. hand \in Jobs /\ hand = key
  BY <1>1, <1>3, PipelineAssumption DEF GzipIInv, StagedIInv, StagedTypes, Jobs, Control
<1>5. PICK b \in 1..(Count + 1) : at = StartOf(b)
  BY <1>3 DEF Chained, Starts
<1>6. PICK c \in 1..(Count + 1) : Stretch(segment, b, c)
  BY <1>1, <1>3, <1>4, <1>5, FittingGuess
<1>7. /\ segment \in Segments /\ segment.start = at /\ window = at
      /\ task \in [segment : Segments, predecessor : Nat]
      /\ task.segment = segment /\ task.predecessor = at
  BY <1>3, <1>5, <1>6 DEF Stretch, GzipTypes
<1> HIDE DEF segment, task
<1>8. /\ tasks \in Seq([segment : Segments, predecessor : Nat])
      /\ Len(tasks) \in Nat /\ nextResolve \in Nat /\ nextResolve <= Len(tasks)
  <2>1. /\ tasks \in Seq([segment : Segments, predecessor : Nat])
        /\ nextResolve \in 0..Len(tasks)
    BY <1>3 DEF GzipTypes
  <2>2. Len(tasks) \in Nat
    BY <2>1
  <2> QED BY <2>1, <2>2
<1>9. /\ tasks' \in Seq([segment : Segments, predecessor : Nat])
      /\ Len(tasks') = Len(tasks) + 1
      /\ tasks'[Len(tasks) + 1] = task
      /\ \A r \in 1..Len(tasks) : tasks'[r] = tasks[r]
  BY <1>1, <1>7, <1>8
<1>10. GzipTypes'
  <2>1. /\ at' \in Nat /\ window' = at' /\ final' \in BOOLEAN
    BY <1>1, <1>7 DEF Segments
  <2>2. key' \in 1..(N + 1)
    BY <1>1, <1>4, PipelineAssumption DEF Jobs
  <2>3. nextResolve' \in 0..Len(tasks') /\ stage' \in {"full", "loop"}
    BY <1>1, <1>8, <1>9
  <2> QED BY <1>1, <1>3, <1>9, <2>1, <2>2, <2>3 DEF GzipTypes
<1>11. Control'
  BY <1>1, <1>2 DEF Control
<1>12. TaskBound'
  <2>1. /\ InPlay' \subseteq InPlay \cup {Len(submitted')}
        /\ Len(submitted') = Len(submitted) + 1
    BY <1>1, PlayedBySubmit DEF GzipIInv
  <2>2. Len(tasks') = Len(submitted')
    BY <1>3, <1>9, <2>1 DEF TaskBound
  <2>3. \A r \in InPlay' : nextResolve' < r
    BY <1>1, <1>3, <1>8, <1>9, <2>1, <2>2 DEF TaskBound
  <2>4. Threads \in Nat
    BY GzipAssumption, FS_CardinalityType DEF Threads
  <2>5. Outstanding < Threads /\ Outstanding' = Outstanding + 1 /\ Outstanding \in Nat
    BY <1>1, <1>3, <1>8, <1>9 DEF TaskBound, Outstanding
  <2>6. /\ Outstanding' <= Threads
        /\ stage' # "full" => Outstanding' < Threads
    BY <1>1, <2>4, <2>5
  <2> QED BY <2>2, <2>3, <2>6 DEF TaskBound, Threads
<1>13. Chained'
  <2>1. /\ Count' = Count /\ Starts' = Starts
        /\ \A d : StartOf(d)' = StartOf(d)
        /\ \A s, d, e : Stretch(s, d, e)' <=> Stretch(s, d, e)
    BY <1>1, SameStream
  <2>2. /\ segment.end \in Starts
        /\ segment.final <=> segment.end = StartOf(Count + 1) /\ input.final
    BY <1>3, <1>6, StretchEnd
  <2>3. at' \in Starts' /\ (final' <=> at' = StartOf(Count + 1)' /\ input'.final)
    BY <1>1, <2>1, <2>2
  <2>4. \A r \in 1..(Len(tasks) + 1) : Chain(r)' = Chain(r)
    <3>1. ASSUME NEW r \in 1..(Len(tasks) + 1) PROVE Chain(r)' = Chain(r)
      <4>1. CASE r \in 1..Len(tasks)
        BY <1>8, <1>9, <4>1 DEF Chain
      <4>2. CASE r = Len(tasks) + 1
        BY <1>7, <1>8, <1>9, <4>2 DEF Chain
      <4> QED BY <1>8, <4>1, <4>2
    <3> QED BY <3>1
  <2>5. Chain(nextResolve + 1)' = StartOf(Len(written) + 1)'
    <3>1. nextResolve + 1 \in 1..(Len(tasks) + 1)
      BY <1>8
    <3>2. Chain(nextResolve + 1)' = Chain(nextResolve + 1)
      BY <1>1, <2>4, <3>1
    <3> QED BY <1>1, <1>3, <2>1, <3>2 DEF Chained
  <2>6. ASSUME NEW r \in (nextResolve' + 1)..Len(tasks')
        PROVE  /\ \E d, e \in 1..(Count + 1) : Stretch(tasks'[r].segment, d, e)
               /\ tasks'[r].segment.end = Chain(r + 1)'
               /\ tasks'[r].predecessor = tasks'[r].segment.start
    <3>1. CASE r = Len(tasks) + 1
      <4>1. tasks'[r] = task
        BY <1>9, <3>1
      <4>2. Chain(r + 1)' = segment.end
        BY <1>1, <1>8, <1>9, <3>1 DEF Chain
      <4> QED BY <1>6, <1>7, <2>1, <4>1, <4>2
    <3>2. CASE r # Len(tasks) + 1
      <4>1. /\ r \in (nextResolve + 1)..Len(tasks) /\ r \in 1..Len(tasks)
            /\ r + 1 \in 1..(Len(tasks) + 1)
        BY <1>1, <1>8, <1>9, <3>2
      <4>2. tasks'[r] = tasks[r] /\ Chain(r + 1)' = Chain(r + 1)
        BY <1>9, <2>4, <4>1
      <4>3. /\ \E d, e \in 1..(Count + 1) : Stretch(tasks[r].segment, d, e)
            /\ tasks[r].segment.end = Chain(r + 1)
            /\ tasks[r].predecessor = tasks[r].segment.start
        BY <1>3, <4>1 DEF Chained
      <4> QED BY <2>1, <4>2, <4>3
    <3> QED BY <3>1, <3>2
  <2>7. ASSUME NEW r \in (nextResolve' + 1)..Len(tasks')
        PROVE  (\E d, e \in 1..(Count + 1) : Stretch(tasks[r].segment, d, e))'
    <3>1. PICK d \in 1..(Count + 1), e \in 1..(Count + 1) : Stretch(tasks'[r].segment, d, e)
      BY <2>6
    <3>2. Stretch(tasks[r].segment, d, e)'
      BY <1>1, <2>1, <3>1 DEF Stretch
    <3> QED BY <2>1, <3>2
  <2> QED BY <2>3, <2>5, <2>6, <2>7 DEF Chained
<1>14. Decoded' /\ Truthful'
  BY <1>1, <1>3 DEF Decoded, Truthful, Count
<1> QED BY <1>10, <1>11, <1>12, <1>13, <1>14 DEF Rest

\* The oldest uncommitted segment is completed and written.
LEMMA SegmentCommitted ==
    ASSUME GzipIInv, Parallel, CommitStage
    PROVE  Rest' /\ \E n \in 1..Count : Wrote(n)
<1> DEFINE next1 == nextResolve + 1
           task == tasks[next1]
           segment == task.segment
<1>1. GzipTypes /\ Chained /\ Decoded /\ TaskBound /\ Control /\ Truthful
  BY DEF GzipIInv, Rest
<1>2. /\ TakeStage /\ awaited # 0 /\ awaited' = 0 /\ awaited = next1
      /\ phase = "working" /\ outcome = "none"
      /\ ~TooFar(segment)
      /\ written' = written \o Resolved(segment, task.predecessor)
      /\ nextResolve' = next1
      /\ stage' = IF stage = "full" THEN "loop" ELSE stage
      /\ UNCHANGED <<input, at, window, final, key, tasks, outcome>>
      /\ UNCHANGED <<phase, front, submitted, hand>>
  BY <1>1 DEF CommitStage, TakeStage, Control, vars, coordinator
<1>3. /\ InPlay' \subseteq InPlay \ {next1} /\ InPlay \subseteq Nat
      /\ next1 \in 1..Len(tasks)
      /\ Len(tasks) \in Nat /\ nextResolve \in Nat /\ Len(written) \in Nat /\ Count \in Nat
  <2>1. /\ stageQueue \in Seq(Tasks) /\ stageChannel \in Seq(Tasks) /\ stageReady \subseteq Tasks
        /\ \A w \in Workers : Occupied(w) => stageTask[w] \in Tasks
        /\ submitted \in Seq(Jobs) /\ awaited \in 0..Len(submitted)
    BY DEF GzipIInv, StagedIInv, StagedTypes, TaskPlaces
  <2>2. InPlay \subseteq Nat
    <3>1. Queued \subseteq Tasks /\ Answering \subseteq Tasks
      BY <2>1 DEF Queued, Answering
    <3>2. InPlay \subseteq Tasks
      BY <2>1, <3>1 DEF InPlay
    <3>3. Tasks \subseteq Nat
      BY DEF Tasks
    <3> QED BY <3>2, <3>3
  <2>3. InPlay' \subseteq InPlay \ {next1}
    BY <1>2, PlayedByTakeStage DEF GzipIInv
  <2>4. Len(tasks) = Len(submitted) /\ Len(submitted) \in Nat
    BY <1>1, <2>1 DEF TaskBound
  <2>5. nextResolve \in Nat /\ next1 \in 1..Len(tasks)
    BY <1>1, <1>2, <2>1, <2>4 DEF GzipTypes
  <2>6. Len(written) \in Nat /\ Count \in Nat
    <3>1. written \in Seq(Nat)
      BY <1>1 DEF GzipTypes
    <3> QED BY <1>1, <3>1, InputFacts
  <2> QED BY <2>2, <2>3, <2>4, <2>5, <2>6
<1>4. stage # "start"
  BY <1>1, <1>3 DEF Control, Outstanding
<1>5. /\ \E b, c \in 1..(Count + 1) : Stretch(segment, b, c)
      /\ segment.end = Chain(nextResolve + 2)
      /\ task.predecessor = segment.start
      /\ segment.start = StartOf(Len(written) + 1)
  <2>1. next1 \in (nextResolve + 1)..Len(tasks)
    BY <1>3
  <2>2. /\ \E b, c \in 1..(Count + 1) : Stretch(segment, b, c)
        /\ segment.end = Chain(next1 + 1)
        /\ task.predecessor = segment.start
    BY <1>1, <2>1 DEF Chained
  <2>3. Chain(next1) = segment.start
    BY <1>3 DEF Chain
  <2>4. next1 + 1 = nextResolve + 2
    BY <1>3
  <2> QED BY <1>1, <2>2, <2>3, <2>4 DEF Chained
<1> HIDE DEF next1, task, segment
<1>6. PICK b \in 1..(Count + 1), c \in 1..(Count + 1) : Stretch(segment, b, c)
  BY <1>5
<1>7. b = Len(written) + 1
  <2>1. StartOf(Len(written) + 1) = StartOf(b) /\ Len(written) + 1 \in 1..(Count + 1)
    BY <1>1, <1>3, <1>5, <1>6 DEF Stretch, Decoded
  <2> QED BY <1>1, <2>1, StartFacts
<1>8. /\ written' \in Seq(Nat) /\ Len(written') + 1 = c
      /\ Decoded' /\ \E n \in 1..Count : Wrote(n)
  <2>1. written' = written \o segment.blocks
    BY <1>2, <1>5 DEF Resolved
  <2> QED BY <1>1, <1>2, <1>6, <1>7, <2>1, WriteStretch
<1>9. GzipTypes'
  <2>1. nextResolve' \in 0..Len(tasks')
    BY <1>2, <1>3
  <2> QED BY <1>1, <1>2, <1>8, <2>1 DEF GzipTypes
<1>10. Control'
  BY <1>1, <1>2, <1>4 DEF Control, Parallel
<1>11. TaskBound'
  <2>1. \A r \in InPlay' : nextResolve' < r
    <3>1. ASSUME NEW r \in InPlay' PROVE nextResolve' < r
      <4>1. r \in Nat /\ nextResolve < r /\ r # next1
        BY <1>1, <1>3, <3>1 DEF TaskBound
      <4> QED BY <1>2, <1>3, <4>1 DEF next1
    <3> QED BY <3>1
  <2>2. Threads \in Nat
    BY GzipAssumption, FS_CardinalityType DEF Threads
  <2>3. Outstanding \in Nat /\ Outstanding' = Outstanding - 1 /\ Outstanding <= Threads
    BY <1>1, <1>2, <1>3 DEF TaskBound, Outstanding, next1
  <2>4. Outstanding' < Threads /\ Outstanding' <= Threads
    BY <2>2, <2>3
  <2> QED BY <1>1, <1>2, <2>1, <2>4 DEF TaskBound, Threads
<1>12. Chained'
  <2>1. /\ Count' = Count /\ Starts' = Starts
        /\ \A d : StartOf(d)' = StartOf(d)
        /\ \A s, d, e : Stretch(s, d, e)' <=> Stretch(s, d, e)
        /\ \A r : Chain(r)' = Chain(r)
    BY <1>2, SameStream DEF Chain
  <2>2. Chain(nextResolve + 1)' = StartOf(Len(written) + 1)'
    <3>1. nextResolve' + 1 = nextResolve + 2
      BY <1>2, <1>3 DEF next1
    <3>2. Chain(nextResolve + 1)' = Chain(nextResolve + 2)
      BY <1>2, <3>1 DEF Chain
    <3> QED BY <1>5, <1>6, <1>8, <2>1, <3>2 DEF Stretch
  <2>3. \A r \in (nextResolve' + 1)..Len(tasks') :
            r \in (nextResolve + 1)..Len(tasks) /\ tasks'[r] = tasks[r]
    BY <1>2, <1>3 DEF next1
  <2> QED BY <1>1, <1>2, <2>1, <2>2, <2>3 DEF Chained
<1>13. Truthful'
  BY <1>2 DEF Truthful
<1> QED BY <1>8, <1>9, <1>10, <1>11, <1>12, <1>13 DEF Rest

------------------------------------------------------------------------------
(* The parallel decoder: every step keeps the invariant. *)

LEMMA GzipInitLemma == GzipInit => GzipIInv
<1> SUFFICES ASSUME GzipInit PROVE GzipIInv
  OBVIOUS
<1>1. StagedIInv /\ awaited = 0 /\ hand = 0 /\ phase = "working"
  BY StagedInitLemma DEF GzipInit, StagedInit, Init
<1>2. /\ input \in Inputs /\ at = 0 /\ window = 0 /\ final = FALSE /\ key = 1
      /\ tasks = <<>> /\ nextResolve = 0 /\ written = <<>> /\ outcome = "none"
      /\ (stage = "start" /\ Usable(0, InitialStop)) \/ stage = "serial"
      /\ submitted = <<>>
  BY DEF GzipInit, StagedInit
<1>3. GzipTypes
  <2>1. key \in 1..(N + 1) /\ nextResolve \in 0..Len(tasks)
    BY <1>2, PipelineAssumption
  <2>2. tasks \in Seq([segment : Segments, predecessor : Nat]) /\ written \in Seq(Nat)
    BY <1>2
  <2> QED BY <1>2, <2>1, <2>2 DEF GzipTypes
<1>4. Control
  BY <1>1, <1>2 DEF Control, Outstanding
<1>5. TaskBound
  <2>1. InPlay = {}
    BY DEF GzipInit, StagedInit, Init, InPlay, Queued, Answering, Occupied
  <2>2. Threads \in Nat /\ Threads # 0
    BY GzipAssumption, PipelineAssumption, FS_CardinalityType, FS_EmptySet DEF Threads
  <2> QED BY <1>2, <2>1, <2>2 DEF TaskBound, Outstanding
<1>6. Count \in Nat /\ (input.final => Count > 0) /\ input.far \subseteq 1..Count
  BY <1>3, InputFacts
<1>7. Chained
  <2>1. 1 \in 1..(Count + 1) /\ Count + 1 \in 1..(Count + 1) /\ StartOf(1) = 0
    BY <1>6 DEF StartOf
  <2>2. input.final => StartOf(Count + 1) # 0
    BY <1>3, <1>6, <2>1, StartFacts
  <2>3. at \in Starts
    BY <1>2, <2>1 DEF Starts
  <2>4. Chain(nextResolve + 1) = StartOf(Len(written) + 1)
    BY <1>2, <2>1 DEF Chain
  <2> QED BY <1>2, <2>2, <2>3, <2>4 DEF Chained
<1>8. Decoded /\ Truthful
  BY <1>2, <1>6 DEF Decoded, Truthful
<1>9. NoPanic
  BY DEF GzipInit, StagedInit, Init, NoPanic
<1> QED BY <1>1, <1>2, <1>3, <1>4, <1>5, <1>7, <1>8, <1>9 DEF GzipIInv, Rest

\* The coordinator of the code is one that StagedPipeline allows.
LEMMA GzipIsStaged ==
    ASSUME GzipIInv, [GzipNext]_gzipVars
    PROVE  [StagedNext]_stagedVars
<1>1. CASE \E w \in Workers : GzipWorker(w)
  BY <1>1 DEF GzipWorker, StagedNext
<1>2. CASE AskPrimary
  <2>1. CallTakePrimary(key) /\ key \in 1..(N + 1)
    BY <1>2 DEF AskPrimary, GzipIInv, Rest, GzipTypes
  <2> QED BY <2>1 DEF StagedNext, StagedCoordinator
<1>3. CASE AskStage
  <2>1. \E r \in Tasks : CallTakeStage(r)
    BY <1>3 DEF AskStage, CallTakeStage
  <2> QED BY <2>1 DEF StagedNext, StagedCoordinator
<1>4. CASE \/ ReceivePrimary \/ TakePrimary \/ Reject \/ Accept \/ ReceiveStage \/ CommitStage
           \/ StageFails \/ ReturnOutcome \/ StagedCancel \/ JoinOutcome
  BY <1>4
     DEF Reject, Accept, CommitStage, StageFails, ReturnOutcome, JoinOutcome, StagedNext,
         StagedCoordinator
<1>5. CASE UNCHANGED stagedVars
  BY <1>5
<1>6. \/ (\E w \in Workers : GzipWorker(w)) \/ AskPrimary \/ AskStage
      \/ ReceivePrimary \/ TakePrimary \/ Reject \/ Accept \/ ReceiveStage \/ CommitStage
      \/ StageFails \/ ReturnOutcome \/ StagedCancel \/ JoinOutcome
      \/ UNCHANGED stagedVars
  BY DEF GzipNext, Serial, SerialBlock, SerialOk, SerialRefuses, SerialAborted, SerialEnd,
         GzipCoordinator, InitialSegment, Fallback, AcceptRefused, FallbackRefused, WriteAborted,
         Finish, gzipVars
<1> QED BY <1>1, <1>2, <1>3, <1>4, <1>5, <1>6

\* If no job panics, no worker does.
LEMMA NobodyPanics ==
    ASSUME StagedIInv, NoPanic, Panicking = {}, [StagedNext]_stagedVars
    PROVE  NoPanic'
<1>1. CASE \E w \in Workers : StagedWorker(w)
  <2>1. PICK w \in Workers : StagedWorker(w)
    BY <1>1
  <2>2. \E state \in {"admitting", "probing", "executing", "sending", "staging", "answering",
                      "returned"} : pc' = [pc EXCEPT ![w] = state]
    BY <2>1, NobodyWoken
       DEF StagedWorker, ReceiveTask, NoTask, TryNextReady, TryNextPending, TryNextCancelled,
           EndTask, AnswerTask, Complete, Panic, Send, SendFails, StagedIInv
  <2>3. DOMAIN pc = Workers
    BY DEF StagedIInv, StagedTypes
  <2> QED BY <2>2, <2>3 DEF NoPanic
<1>2. CASE StagedCoordinator \/ UNCHANGED stagedVars
  <2>1. pc' = pc
    BY <1>2, NobodyWoken
       DEF StagedCoordinator, CallTakePrimary, CallTake, ReceivePrimary, Receive, TakePrimary,
           RetireHand, Retire, Submit, CallTakeStage, ReceiveStage, TakeStage, StagedReturn,
           Return, StagedCancel, Cancel, StagedJoin, Join, stagedVars, vars, workers, StagedIInv
  <2> QED BY <2>1 DEF NoPanic
<1> QED BY <1>1, <1>2 DEF StagedNext

\* Nothing but the end of the call answers "panicked".
LEMMA PanicAnswer ==
    ASSUME GzipIInv, [GzipNext]_gzipVars, Panicking = {}
    PROVE  outcome' # "panicked"
<1>1. NoPanic /\ outcome # "panicked"
  BY DEF GzipIInv
<1>2. CASE JoinOutcome
  BY <1>1, <1>2 DEF JoinOutcome, NoPanic
<1>3. CASE ~JoinOutcome
  BY <1>1, <1>3
     DEF GzipNext, Serial, SerialBlock, SerialOk, SerialRefuses, SerialAborted, SerialEnd,
         GzipCoordinator, InitialSegment, AskPrimary, Reject, Accept, AcceptRefused, AskStage,
         CommitStage, StageFails, Fallback, FallbackRefused, WriteAborted, Finish, ReturnOutcome,
         GiveUp, GzipWorker, gzip, gzipVars
<1> QED BY <1>2, <1>3

LEMMA GzipNextStep ==
    ASSUME GzipIInv, [GzipNext]_gzipVars
    PROVE  GzipIInv'
<1>1. StagedIInv'
  BY GzipIsStaged, StagedNextStep DEF GzipIInv
<1>2. Rest'
  <2>1. CASE SerialBlock
    BY <2>1, SerialBlockStep
  <2>2. CASE SerialOk \/ SerialRefuses \/ SerialAborted
    BY <2>2, SerialEndStep
  <2>3. CASE \/ \E w \in Workers : GzipWorker(w)
             \/ ReceivePrimary /\ UNCHANGED gzip
             \/ ReceiveStage /\ UNCHANGED gzip
             \/ UNCHANGED gzipVars
    BY <2>3, InBackground
  <2>4. CASE AskPrimary \/ (TakePrimary /\ UNCHANGED gzip) \/ AskStage \/ Reject
    BY <2>4, CoordinatorAsks
  <2>5. CASE Parallel
             /\ (AcceptRefused \/ StageFails \/ FallbackRefused \/ WriteAborted \/ Finish)
    BY <2>5, CallEnds
  <2>6. CASE Parallel
             /\ (ReturnOutcome \/ (StagedCancel /\ UNCHANGED gzip) \/ JoinOutcome)
    BY <2>6, CallReturns
  <2>7. CASE Parallel /\ (InitialSegment \/ Fallback)
    BY <2>7, OwnSegment
  <2>8. CASE Parallel /\ Accept
    BY <2>8, GuessAccepted
  <2>9. CASE Parallel /\ CommitStage
    BY <2>9, SegmentCommitted
  <2> QED BY <2>1, <2>2, <2>3, <2>4, <2>5, <2>6, <2>7, <2>8, <2>9
             DEF GzipNext, Serial, GzipCoordinator
<1>3. Panicking = {} => NoPanic' /\ outcome' # "panicked"
  BY GzipIsStaged, NobodyPanics, PanicAnswer DEF GzipIInv
<1> QED BY <1>1, <1>2, <1>3 DEF GzipIInv

\* The decoder keeps its chain of segments whole.
THEOREM GzipInvariant == GzipSpec => []GzipIInv
<1>1. GzipInit => GzipIInv
  BY GzipInitLemma
<1>2. GzipIInv /\ [GzipNext]_gzipVars => GzipIInv'
  BY GzipNextStep
<1> QED BY <1>1, <1>2, PTL DEF GzipSpec

\* The decoder is a client of run_staged_ordered, and all that is proved of
\* any client holds of it.
THEOREM GzipUsesStaged == GzipSpec => StagedSpec
<1>1. GzipInit => StagedInit
  BY DEF GzipInit
<1>2. GzipIInv /\ [GzipNext]_gzipVars => [StagedNext]_stagedVars
  BY GzipIsStaged
<1> QED BY <1>1, <1>2, GzipInvariant, PTL DEF GzipSpec, StagedSpec

\* So the budget is exact and every lease is owed once while it decodes.
THEOREM GzipAccounts == GzipSpec => [](StagedAccounting /\ OwedOnce)
BY GzipUsesStaged, StagedAccounts, StagedOwedOnce, PTL

LEMMA BoundHolds == GzipIInv => CompletedBounded
<1> SUFFICES ASSUME GzipIInv PROVE CompletedBounded
  OBVIOUS
<1> DEFINE Completed == Answering \cup stageReady
                            \cup {stageTask[w] : w \in {v \in Workers : pc[v] = "answering"}}
<1>1. /\ Len(submitted) \in Nat /\ nextResolve \in Nat
      /\ Len(tasks) = Len(submitted) /\ Outstanding <= Threads
      /\ Threads \in Nat
  <2>1. submitted \in Seq(Jobs)
    BY DEF GzipIInv, StagedIInv, StagedTypes
  <2>2. nextResolve \in 0..Len(tasks) /\ Len(tasks) = Len(submitted) /\ Outstanding <= Threads
    BY DEF GzipIInv, Rest, GzipTypes, TaskBound
  <2>3. Len(submitted) \in Nat
    BY <2>1
  <2> QED BY <2>2, <2>3, GzipAssumption, FS_CardinalityType DEF Threads
<1>2. Completed \subseteq (nextResolve + 1)..Len(submitted)
  <2>1. stageChannel \in Seq(Tasks) /\ stageReady \subseteq Tasks
    BY DEF GzipIInv, StagedIInv, StagedTypes
  <2>2. Answering \subseteq Tasks
    BY <2>1 DEF Answering
  <2>3. \A w \in Workers : pc[w] = "answering" => stageTask[w] \in Tasks
    BY DEF GzipIInv, StagedIInv, TaskPlaces, Occupied
  <2>4. Completed \subseteq Tasks
    BY <2>1, <2>2, <2>3
  <2>5. Completed \subseteq InPlay
    BY DEF InPlay, Occupied
  <2>6. \A r \in Completed : r \in 1..Len(submitted) /\ nextResolve < r
    BY <2>4, <2>5 DEF GzipIInv, Rest, TaskBound, Tasks
  <2> QED BY <1>1, <2>6
<1> DEFINE low == nextResolve + 1
           high == Len(submitted)
<1>3. IsFiniteSet(low..high) /\ Cardinality(low..high) <= Threads
  <2>1. low \in Int /\ high \in Int
    BY <1>1
  <2> HIDE DEF low, high
  <2>2. /\ IsFiniteSet(low..high)
        /\ Cardinality(low..high) = IF low > high THEN 0 ELSE high - low + 1
    BY <2>1, FS_Interval
  <2> QED BY <1>1, <2>2 DEF Outstanding, low, high
<1>4. /\ Cardinality(Completed) <= Cardinality(low..high)
      /\ Cardinality(Completed) \in Nat
      /\ Cardinality(low..high) \in Nat
  BY <1>2, <1>3, FS_Subset, FS_CardinalityType
<1> HIDE DEF Completed
<1>5. Cardinality(Completed) <= Threads
  BY <1>1, <1>3, <1>4
<1> QED BY <1>5 DEF Completed, CompletedBounded

\* There are never more completed segments than threads, although their bytes
\* are charged to nobody.
THEOREM GzipBounded == GzipSpec => []CompletedBounded
BY GzipInvariant, BoundHolds, PTL

------------------------------------------------------------------------------
(* The parallel decoder implements the serial one. *)

Answer == IF Ended THEN outcome ELSE "pending"

\* Blocks that are written before the call has ended are a step of Inflation.
LEMMA WritingRefines ==
    ASSUME input' = input, Answer = "pending", Answer' = "pending",
           \E n \in 1..Count : Wrote(n)
    PROVE  Serially!Next
<1>1. PICK n \in 1..Count : Wrote(n)
  OBVIOUS
<1>2. Serially!Write(n)
  BY <1>1 DEF Serially!Write, Serially!Decodes, Wrote, Count, Answer
<1> QED BY <1>1, <1>2 DEF Serially!Next, Count

\* So is an end of the call that tells the truth.
LEMMA EndRefines ==
    ASSUME UNCHANGED <<input, written>>, Answer = "pending", Answer' = outcome', Truthful',
           outcome' \in {"ok", "data error", "too big", "aborted"}
    PROVE  Serially!Next
<1>1. CASE outcome' = "ok"
  <2>1. Serially!Finish
    BY <1>1 DEF Truthful, Serially!Finish, Serially!Whole, Answer, Count
  <2> QED BY <2>1 DEF Serially!Next
<1>2. CASE outcome' = "data error"
  <2>1. Serially!Refuse
    BY <1>2 DEF Truthful, Serially!Refuse, Serially!Whole, Answer
  <2> QED BY <2>1 DEF Serially!Next
<1>3. CASE outcome' = "too big"
  <2>1. Serially!Overflow
    BY <1>3 DEF Truthful, Serially!Overflow, Answer
  <2> QED BY <2>1 DEF Serially!Next
<1>4. CASE outcome' = "aborted"
  <2>1. Serially!Abort
    BY <1>4 DEF Serially!Abort, Answer
  <2> QED BY <2>1 DEF Serially!Next
<1> QED BY <1>1, <1>2, <1>3, <1>4

LEMMA GzipRefinesInit == GzipInit => Serially!Init
BY DEF GzipInit, StagedInit, Init, Serially!Init, Ended

LEMMA GzipRefinesNext ==
    ASSUME GzipIInv, GzipIInv', [GzipNext]_gzipVars, Panicking = {}
    PROVE  [Serially!Next]_(Serially!vars)
<1>1. CASE SerialBlock
  <2>1. Answer = "pending" /\ Answer' = "pending" /\ input' = input
    BY <1>1
       DEF SerialBlock, GzipIInv, Rest, Control, Answer, Ended, stagedVars, vars, coordinator
  <2>2. 1 \in 1..Count /\ Wrote(1)
    BY <1>1, SerialBlockStep DEF Wrote
  <2> QED BY <2>1, <2>2, WritingRefines
<1>2. CASE SerialOk \/ SerialRefuses \/ SerialAborted
  <2>1. /\ Answer = "pending" /\ Answer' = outcome' /\ UNCHANGED <<input, written>>
        /\ outcome' \in {"ok", "data error", "aborted"}
    BY <1>2
       DEF SerialOk, SerialRefuses, SerialAborted, SerialEnd, GzipIInv, Rest, Control, Answer, Ended
  <2> QED BY <2>1, EndRefines DEF GzipIInv, Rest
<1>3. CASE Parallel /\ (InitialSegment \/ Fallback \/ CommitStage)
  <2>1. /\ phase = "working" /\ phase' = "working" /\ stage' # "over" /\ input' = input
    BY <1>3
       DEF InitialSegment, Fallback, Following, Idle, CommitStage, TakeStage, Parallel, GzipIInv,
           Rest, Control, stagedVars, vars, coordinator
  <2>2. Answer = "pending" /\ Answer' = "pending"
    BY <1>3, <2>1 DEF Answer, Ended, Parallel
  <2>3. \E n \in 1..Count : Wrote(n)
    BY <1>3, OwnSegment, SegmentCommitted
  <2> QED BY <2>1, <2>2, <2>3, WritingRefines
<1>4. CASE Parallel /\ JoinOutcome
  <2>1. /\ phase = "cancelled" /\ phase' = "joined" /\ UNCHANGED <<input, written, stage>>
        /\ outcome' \in {outcome, "panicked"} /\ outcome # "none"
    BY <1>4 DEF JoinOutcome, StagedJoin, Join, GzipIInv, Rest, Control
  <2>2. outcome' = outcome /\ outcome' \in {"ok", "data error", "too big", "aborted"}
    BY <2>1 DEF GzipIInv, Rest, GzipTypes
  <2>3. Answer = "pending" /\ Answer' = outcome'
    BY <1>4, <2>1 DEF Answer, Ended, Parallel
  <2> QED BY <2>1, <2>2, <2>3, EndRefines DEF GzipIInv, Rest
<1>5. CASE Parallel /\ (AcceptRefused \/ StageFails \/ FallbackRefused \/ WriteAborted \/ Finish)
  <2>1. /\ phase = "working" /\ phase' = "working" /\ UNCHANGED <<input, written, stage>>
    BY <1>5
       DEF AcceptRefused, StageFails, FallbackRefused, WriteAborted, Finish, GiveUp, Following,
           Idle, TakeStage, GzipIInv, Rest, Control, stagedVars, vars, coordinator
  <2>2. Answer = "pending" /\ Answer' = "pending"
    BY <1>5, <2>1 DEF Answer, Ended, Parallel
  <2> QED BY <2>1, <2>2 DEF Serially!vars, Answer
<1>6. CASE Parallel /\ (AskPrimary \/ (TakePrimary /\ UNCHANGED gzip) \/ AskStage \/ Reject
                         \/ Accept \/ ReturnOutcome \/ (StagedCancel /\ UNCHANGED gzip))
  <2>1. /\ phase # "joined" /\ phase' # "joined" /\ UNCHANGED <<input, written>>
        /\ stage' \in {stage, "refused", "full", "loop"}
    BY <1>6
       DEF AskPrimary, CallTakePrimary, CallTake, TakePrimary, AskStage, CallTakeStage, Reject,
           RetireHand, Accept, Submit, Idle, ReturnOutcome, StagedReturn, Return, StagedCancel,
           Cancel, gzip, vars, coordinator
  <2>2. Answer = "pending" /\ Answer' = "pending"
    BY <1>6, <2>1 DEF Answer, Ended, Parallel
  <2> QED BY <2>1, <2>2 DEF Serially!vars, Answer
<1>7. CASE \/ \E w \in Workers : GzipWorker(w)
           \/ ReceivePrimary /\ UNCHANGED gzip
           \/ ReceiveStage /\ UNCHANGED gzip
           \/ UNCHANGED gzipVars
  <2>1. UNCHANGED gzip /\ phase' = phase
    <3>1. CASE \E w \in Workers : GzipWorker(w)
      <4>1. PICK w \in Workers : GzipWorker(w)
        BY <3>1
      <4>2. UNCHANGED coordinator /\ UNCHANGED gzip
        BY <4>1
           DEF GzipWorker, StagedWorker, ReceiveTask, NoTask, TryNextReady, TryNextPending,
               TryNextCancelled, EndTask, AnswerTask, Complete, Panic, Send, SendFails
      <4> QED BY <4>2 DEF coordinator
    <3>2. CASE \/ ReceivePrimary /\ UNCHANGED gzip
               \/ ReceiveStage /\ UNCHANGED gzip
               \/ UNCHANGED gzipVars
      BY <3>2 DEF ReceivePrimary, Receive, ReceiveStage, gzipVars, stagedVars, vars, coordinator
    <3> QED BY <1>7, <3>1, <3>2
  <2> QED BY <2>1 DEF gzip, Serially!vars, Ended
<1> QED BY <1>1, <1>2, <1>3, <1>4, <1>5, <1>6, <1>7 DEF GzipNext, Serial, GzipCoordinator

\* Where jobs do not panic, nobody can tell the parallel decoder from the
\* serial one: it writes the same blocks in the same order and answers the
\* same of the stream.
THEOREM GzipInflates ==
    ASSUME Panicking = {}
    PROVE  GzipSpec => InflatesLikeSerial
<1>1. GzipInit => Serially!Init
  BY GzipRefinesInit
<1>2. GzipIInv /\ GzipIInv' /\ [GzipNext]_gzipVars => [Serially!Next]_(Serially!vars)
  BY GzipRefinesNext
<1> QED BY <1>1, <1>2, GzipInvariant, PTL DEF GzipSpec, Serially!Spec, InflatesLikeSerial
==============================================================================
