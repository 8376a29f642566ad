------------------------ MODULE StreamingOrderedProofs -----------------------
(***************************************************************************)
(* For any number of threads, any memory limit, any reservations and any   *)
(* owner: the counters of StreamingOrdered are exact and within their      *)
(* limits, and the result of every pending job is delivered exactly once.  *)
(* For any client of the LZ4 frame encoder over it: nothing it was given   *)
(* is lost without an error.                                               *)
(***************************************************************************)
EXTENDS Lz4Encoder, DataLemmas

\* take_next is never entered without a pending job, nor after the drop.
Asking == taking => HasPending /\ ~cancelled

SIInv ==
    /\ StreamTypeOK
    /\ StreamAccounting
    /\ StreamWithinLimits
    /\ ResultsComing
    /\ Asking

Elements(q) == {q[i] : i \in 1..Len(q)}

LEMMA AppendElements ==
    ASSUME NEW S, NEW q \in Seq(S), NEW k \in S
    PROVE  /\ Append(q, k) \in Seq(S)
           /\ Elements(Append(q, k)) = Elements(q) \cup {k}
           /\ Len(Append(q, k)) = Len(q) + 1
           /\ Append(q, k)[Len(q) + 1] = k
           /\ \A i \in 1..Len(q) : Append(q, k)[i] = q[i]
BY DEF Elements

LEMMA TailElements ==
    ASSUME NEW S, NEW q \in Seq(S), q # <<>>
    PROVE  /\ Tail(q) \in Seq(S)
           /\ Len(Tail(q)) = Len(q) - 1
           /\ Len(q) \in Nat \ {0}
           /\ Head(q) = q[1]
           /\ \A i \in 1..Len(Tail(q)) : Tail(q)[i] = q[i + 1]
           /\ Elements(Tail(q)) \cup {Head(q)} = Elements(q)
<1>1. /\ Tail(q) \in Seq(S)
      /\ Len(q) \in Nat \ {0}
      /\ Len(Tail(q)) = Len(q) - 1
      /\ Head(q) = q[1]
      /\ \A i \in 1..Len(Tail(q)) : Tail(q)[i] = q[i + 1]
  OBVIOUS
<1>2. ASSUME NEW x \in Elements(q)
      PROVE  x \in Elements(Tail(q)) \cup {Head(q)}
  <2>1. PICK i \in 1..Len(q) : x = q[i]
    BY DEF Elements
  <2>2. CASE i = 1
    BY <1>1, <2>1, <2>2
  <2>3. CASE i # 1
    <3>1. i - 1 \in 1..Len(Tail(q)) /\ (i - 1) + 1 = i
      BY <1>1, <2>1, <2>3
    <3>2. Tail(q)[i - 1] = x
      BY <1>1, <2>1, <3>1
    <3> QED BY <3>1, <3>2 DEF Elements
  <2> QED BY <2>2, <2>3
<1>3. ASSUME NEW x \in Elements(Tail(q)) \cup {Head(q)}
      PROVE  x \in Elements(q)
  <2>1. CASE x = Head(q)
    BY <1>1, <2>1 DEF Elements
  <2>2. CASE x \in Elements(Tail(q))
    <3>1. PICK i \in 1..Len(Tail(q)) : x = Tail(q)[i]
      BY <2>2 DEF Elements
    <3>2. i + 1 \in 1..Len(q) /\ x = q[i + 1]
      BY <1>1, <3>1
    <3> QED BY <3>2 DEF Elements
  <2> QED BY <2>1, <2>2
<1> QED BY <1>1, <1>2, <1>3

LEMMA LeaseMap ==
    ASSUME StreamTypeOK
    PROVE  IsChargeMap(lease)
<1>1. IsFiniteSet(1..nextSubmit)
  BY FS_Interval DEF StreamTypeOK
<1>2. IsFiniteSet(DOMAIN lease)
  BY <1>1, FS_Subset DEF StreamTypeOK, Submitted
<1> QED BY <1>2 DEF StreamTypeOK, IsChargeMap

\* The set of spawned jobs is bounded by the set of charged ones.
LEMMA SpawnedBound ==
    ASSUME StreamTypeOK, queued \cup running \subseteq DOMAIN lease
    PROVE  Cardinality(queued \cup running) <= Cardinality(DOMAIN lease)
BY LeaseMap, FS_Subset DEF IsChargeMap

LEMMA StreamInitLemma == StreamInit => SIInv
<1> SUFFICES ASSUME StreamInit PROVE SIInv
  OBVIOUS
<1>1. DOMAIN lease = {}
  BY DEF StreamInit
<1>2. Total(lease) = 0 /\ Cardinality(DOMAIN lease) = 0
  BY <1>1, TotalEmpty, FS_EmptySet
<1>3. StreamTypeOK
  <2>1. channel \in Seq(Submitted)
    BY DEF StreamInit
  <2>2. {queued, running, ready, panicked} \subseteq SUBSET Submitted
    BY DEF StreamInit
  <2>3. nextTake \in 0..nextSubmit /\ nextSubmit \in Nat
    BY DEF StreamInit
  <2> QED BY <1>1, <2>1, <2>2, <2>3 DEF StreamInit, StreamTypeOK
<1>4. StreamAccounting
  BY <1>1, <1>2 DEF StreamInit, StreamAccounting, Submitted
<1>5. StreamWithinLimits
  <2>1. queued \cup running = {}
    BY DEF StreamInit
  <2> QED BY <2>1, FS_EmptySet, StreamingAssumption DEF StreamInit, StreamWithinLimits
<1>6. ResultsComing
  BY <1>1 DEF StreamInit, ResultsComing, Arriving
<1>7. Asking
  BY DEF StreamInit, Asking
<1> QED BY <1>3, <1>4, <1>5, <1>6, <1>7 DEF SIInv

------------------------------------------------------------------------------
(* The owner's steps. *)

USE DEF SIInv

LEMMA SubmitKeeps ==
    ASSUME SIInv, NEW r \in Reservations, Submit(r)
    PROVE  SIInv'
<1> DEFINE key == nextSubmit + 1
<1>0. /\ r \in Nat /\ key \in Nat
      /\ \A k \in DOMAIN lease : k \in 1..nextSubmit
  BY StreamingAssumption DEF StreamTypeOK, Submitted
<1>1. /\ r \in Nat /\ key \in Nat /\ key \notin DOMAIN lease
      /\ nextSubmit' = key
      /\ UNCHANGED <<nextTake, cancelled, running, channel, ready, panicked, taking>>
      /\ queued' = queued \cup {key}
      /\ lease' = Charged(lease, key, r)
      /\ reserved' = reserved + r /\ active' = active + 1
      /\ ~taking /\ CanSubmit(r)
  <2>1. key \notin DOMAIN lease
    BY <1>0 DEF StreamTypeOK
  <2> QED BY <1>0, <2>1 DEF Submit, Open
<1>2. /\ \A x : x \in DOMAIN lease' <=> x \in DOMAIN lease \/ x = key
      /\ lease'[key] = r
      /\ \A x \in DOMAIN lease : lease'[x] = lease[x]
      /\ Total(lease') = Total(lease) + r
      /\ Total(lease) \in Nat
  <2>1. /\ Total(lease') = Total(lease) + r
        /\ Total(lease) \in Nat
    BY <1>1, LeaseMap, TotalCharged
  <2> QED BY <1>1, <2>1 DEF Charged
<1>3. DOMAIN lease' = DOMAIN lease \cup {key}
  BY <1>2
<1>4. Cardinality(DOMAIN lease') = Cardinality(DOMAIN lease) + 1
  BY <1>1, <1>3, LeaseMap, FS_AddElement DEF IsChargeMap
<1>5. Submitted' = Submitted \cup {key}
  BY <1>1 DEF Submitted, StreamTypeOK
<1>6. StreamTypeOK'
  <2>1. channel' \in Seq(Submitted')
    <3>1. Submitted \subseteq Submitted'
      BY <1>5
    <3> QED BY <1>1, <3>1 DEF StreamTypeOK
  <2>2. /\ nextSubmit' \in Nat /\ nextTake' \in 0..nextSubmit'
        /\ reserved' \in Nat /\ active' \in Nat
        /\ cancelled' \in BOOLEAN /\ taking' \in BOOLEAN
    BY <1>1 DEF StreamTypeOK
  <2>3. /\ DOMAIN lease' \subseteq Submitted'
        /\ \A k \in DOMAIN lease' : lease'[k] \in Nat
    BY <1>1, <1>2, <1>5 DEF StreamTypeOK
  <2>4. ({queued, running, ready, panicked} \subseteq SUBSET Submitted)'
    <3>1. /\ queued \subseteq Submitted /\ running \subseteq Submitted
          /\ ready \subseteq Submitted /\ panicked \subseteq Submitted
      BY DEF StreamTypeOK
    <3>2. /\ queued' \subseteq Submitted' /\ running' \subseteq Submitted'
          /\ ready' \subseteq Submitted' /\ panicked' \subseteq Submitted'
      BY ONLY <1>1, <1>5, <3>1
    <3> QED BY ONLY <3>2
  <2> QED BY <2>1, <2>2, <2>3, <2>4 DEF StreamTypeOK
<1>7. StreamAccounting'
  <2>1. \A k \in Submitted : k \in DOMAIN lease <=> nextTake < k
    BY DEF StreamAccounting
  <2>2. nextTake < key
    BY <1>0 DEF StreamTypeOK
  <2>3. \A k \in Submitted : k # key
    BY <1>0 DEF Submitted, StreamTypeOK
  <2>4. \A k \in Submitted' : k \in DOMAIN lease' <=> nextTake' < k
    BY <1>1, <1>3, <1>5, <2>1, <2>2, <2>3
  <2> QED BY <1>1, <1>2, <1>4, <2>4 DEF StreamAccounting
<1>8. ResultsComing'
  <2>1. Arriving' = Arriving /\ key \notin Arriving
    BY <1>1 DEF Arriving, ResultsComing
  <2> QED BY <1>1, <1>3, <2>1 DEF ResultsComing
<1>9. StreamWithinLimits'
  <2>1. reserved' <= MemoryLimit /\ active' <= Threads
    BY <1>1, StreamingAssumption
       DEF CanSubmit, Left, StreamWithinLimits, StreamTypeOK
  <2>2. Cardinality(queued' \cup running') <= Cardinality(DOMAIN lease')
    <3>1. queued' \cup running' \subseteq DOMAIN lease'
      BY <1>8 DEF ResultsComing
    <3>2. IsFiniteSet(DOMAIN lease')
      BY <1>1, <1>3, LeaseMap, FS_AddElement DEF IsChargeMap
    <3> QED BY <3>1, <3>2, FS_Subset
  <2>3. Cardinality(queued' \cup running') \in Nat
    <3>1. IsFiniteSet(queued' \cup running')
      <4>1. IsFiniteSet(DOMAIN lease')
        BY <1>1, <1>3, LeaseMap, FS_AddElement DEF IsChargeMap
      <4> QED BY <1>8, <4>1, FS_Subset DEF ResultsComing
    <3> QED BY <3>1, FS_CardinalityType
  <2> QED BY <1>7, <2>1, <2>2, <2>3, StreamingAssumption, <1>6
      DEF StreamWithinLimits, StreamAccounting, StreamTypeOK
<1>10. Asking'
  BY <1>1 DEF Asking
<1> QED BY <1>6, <1>7, <1>8, <1>9, <1>10

LEMMA CallTakeNextKeeps == ASSUME SIInv, CallTakeNext PROVE SIInv'
BY DEF CallTakeNext, Open, counters, pool, HasPending, StreamTypeOK, Submitted,
       StreamAccounting, StreamWithinLimits, ResultsComing, Arriving, Asking

LEMMA ReceiveKeeps == ASSUME SIInv, Receive PROVE SIInv'
<1>1. /\ taking /\ wanted \notin ready /\ channel # <<>>
      /\ ready' = ready \cup {Head(channel)}
      /\ channel' = Tail(channel)
      /\ UNCHANGED <<nextSubmit, nextTake, reserved, active, lease, cancelled,
                     queued, running, panicked, taking>>
  BY DEF Receive, counters, pool
<1>2. channel \in Seq(Submitted)
  BY DEF StreamTypeOK
<1>3. /\ channel' \in Seq(Submitted)
      /\ Len(channel') = Len(channel) - 1
      /\ Len(channel) \in Nat \ {0}
      /\ Head(channel) = channel[1]
      /\ \A i \in 1..Len(channel') : channel'[i] = channel[i + 1]
      /\ Arriving' \cup {Head(channel)} = Arriving
  <2>1. Arriving = Elements(channel) /\ Arriving' = Elements(channel')
    BY DEF Arriving, Elements
  <2> QED BY <1>1, <1>2, <2>1, TailElements
<1>4. Head(channel) \in Submitted
  BY <1>1, <1>2
<1>5. StreamTypeOK'
  BY <1>1, <1>3, <1>4 DEF StreamTypeOK, Submitted
<1>6. StreamAccounting' /\ StreamWithinLimits' /\ Asking'
  BY <1>1 DEF StreamAccounting, StreamWithinLimits, Asking, HasPending, Submitted
<1>7. \A i \in 1..Len(channel') : channel'[i] # Head(channel)
  BY <1>3 DEF ResultsComing
<1>8. ResultsComing'
  <2>1. Head(channel) \notin Arriving'
    BY <1>7 DEF Arriving
  <2>2. \A i, j \in 1..Len(channel') : channel'[i] = channel'[j] => i = j
    <3>1. SUFFICES ASSUME NEW i \in 1..Len(channel'), NEW j \in 1..Len(channel'),
                          channel'[i] = channel'[j]
                   PROVE  i = j
      OBVIOUS
    <3>2. channel[i + 1] = channel[j + 1] /\ i + 1 \in 1..Len(channel)
          /\ j + 1 \in 1..Len(channel)
      BY <1>3, <3>1
    <3> QED BY <3>2 DEF ResultsComing
  <2> QED BY <1>1, <1>3, <2>1, <2>2 DEF ResultsComing
<1> QED BY <1>5, <1>6, <1>8

LEMMA TakeNextKeeps == ASSUME SIInv, TakeNext PROVE SIInv'
<1>1. /\ taking /\ wanted \in ready
      /\ ready' = ready \ {wanted}
      /\ nextTake' = wanted /\ active' = active - 1
      /\ reserved' = reserved - lease[wanted]
      /\ lease' = Uncharged(lease, wanted)
      /\ taking' = FALSE
      /\ UNCHANGED <<nextSubmit, cancelled, queued, running, channel, panicked>>
  BY DEF TakeNext, pool
<1>2. wanted \in DOMAIN lease /\ wanted \in Submitted
  BY <1>1 DEF ResultsComing, StreamTypeOK
<1>3. /\ Total(lease) = Total(lease') + lease[wanted]
      /\ Total(lease') \in Nat /\ lease[wanted] \in Nat
      /\ DOMAIN lease' = DOMAIN lease \ {wanted}
      /\ \A x \in DOMAIN lease' : lease'[x] = lease[x]
  BY <1>1, <1>2, LeaseMap, TotalUncharged DEF Uncharged, IsChargeMap
<1>4. /\ IsFiniteSet(DOMAIN lease) /\ IsFiniteSet(DOMAIN lease')
      /\ Cardinality(DOMAIN lease') = Cardinality(DOMAIN lease) - 1
      /\ Cardinality(DOMAIN lease') \in Nat
      /\ Cardinality(DOMAIN lease) \in Nat
  BY <1>2, <1>3, LeaseMap, FS_RemoveElement, FS_CardinalityType DEF IsChargeMap
<1>5. reserved' = Total(lease') /\ active' = Cardinality(DOMAIN lease')
  BY <1>1, <1>3, <1>4 DEF StreamAccounting, StreamTypeOK
<1>6. StreamTypeOK'
  <2>1. nextTake' \in 0..nextSubmit'
    BY <1>1, <1>2 DEF StreamTypeOK, Submitted, wanted
  <2> QED BY <1>1, <1>3, <1>4, <1>5, <2>1 DEF StreamTypeOK, Submitted
<1>7. StreamAccounting'
  <2>1. \A k \in Submitted' : k \in DOMAIN lease' <=> nextTake' < k
    BY <1>1, <1>3 DEF StreamAccounting, StreamTypeOK, Submitted, wanted
  <2> QED BY <1>5, <2>1 DEF StreamAccounting
<1>8. StreamWithinLimits'
  <2>1. reserved' <= MemoryLimit /\ active' <= Threads
    BY <1>1, <1>3, StreamingAssumption, <1>6
       DEF StreamWithinLimits, StreamTypeOK
  <2> QED BY <1>1, <2>1 DEF StreamWithinLimits
<1>9. ResultsComing'
  <2>1. Arriving' = Arriving
    BY <1>1 DEF Arriving
  <2> QED BY <1>1, <1>3, <2>1 DEF ResultsComing
<1>10. Asking'
  BY <1>1 DEF Asking
<1> QED BY <1>6, <1>7, <1>8, <1>9, <1>10

LEMMA DropKeeps == ASSUME SIInv, Drop PROVE SIInv'
<1>1. /\ ~taking /\ cancelled' = TRUE /\ channel' = <<>> /\ ready' = {}
      /\ UNCHANGED <<nextSubmit, nextTake, reserved, active, lease, queued, running,
                     panicked, taking>>
  BY DEF Drop, Open, counters, pool
<1>2. channel' \in Seq(Submitted) /\ Len(channel') = 0
  BY <1>1
<1>3. Arriving' = {}
  BY <1>2 DEF Arriving
<1>4. StreamTypeOK'
  BY <1>1, <1>2 DEF StreamTypeOK, Submitted
<1>5. ResultsComing'
  BY <1>1, <1>2, <1>3 DEF ResultsComing
<1> QED BY <1>1, <1>4, <1>5
        DEF StreamAccounting, StreamWithinLimits, Asking, Submitted

------------------------------------------------------------------------------
(* The jobs' steps. *)

LEMMA StartKeeps == ASSUME SIInv, NEW k \in Submitted, Start(k) PROVE SIInv'
<1>1. /\ k \in queued
      /\ queued' = queued \ {k} /\ running' = running \cup {k}
      /\ UNCHANGED <<nextSubmit, nextTake, reserved, active, lease, cancelled, channel,
                     ready, panicked, taking>>
  BY DEF Start, counters
<1>2. queued' \cup running' = queued \cup running
  BY <1>1
<1>3. Arriving' = Arriving
  BY <1>1 DEF Arriving
<1>4. StreamTypeOK'
  BY <1>1 DEF StreamTypeOK, Submitted
<1>5. ResultsComing'
  BY <1>1, <1>2, <1>3 DEF ResultsComing
<1>6. StreamWithinLimits'
  BY <1>1, <1>2 DEF StreamWithinLimits
<1> QED BY <1>1, <1>4, <1>5, <1>6 DEF StreamAccounting, Asking, HasPending, Submitted

\* Fewer spawned jobs are still within the limit.
LEMMA FewerSpawned ==
    ASSUME SIInv, queued' \cup running' \subseteq queued \cup running
    PROVE  Cardinality(queued' \cup running') <= Threads
<1>1. queued \cup running \subseteq DOMAIN lease
  BY DEF ResultsComing
<1>2. IsFiniteSet(queued \cup running)
  BY <1>1, LeaseMap, FS_Subset DEF IsChargeMap
<1>3. /\ Cardinality(queued' \cup running') <= Cardinality(queued \cup running)
      /\ Cardinality(queued' \cup running') \in Nat
      /\ Cardinality(queued \cup running) \in Nat
  BY <1>2, FS_Subset, FS_CardinalityType
<1> QED BY <1>3, StreamingAssumption DEF StreamWithinLimits

LEMMA SkipKeeps == ASSUME SIInv, NEW k \in Submitted, Skip(k) PROVE SIInv'
<1>1. /\ k \in queued /\ cancelled
      /\ queued' = queued \ {k}
      /\ UNCHANGED <<nextSubmit, nextTake, reserved, active, lease, cancelled, running,
                     channel, ready, panicked, taking>>
  BY DEF Skip, counters
<1>2. Arriving' = Arriving
  BY <1>1 DEF Arriving
<1>3. StreamTypeOK'
  BY <1>1 DEF StreamTypeOK, Submitted
<1>4. ResultsComing'
  BY <1>1, <1>2 DEF ResultsComing
<1>5. StreamWithinLimits'
  BY <1>1, FewerSpawned DEF StreamWithinLimits
<1> QED BY <1>1, <1>3, <1>4, <1>5 DEF StreamAccounting, Asking, HasPending, Submitted

LEMMA EndKeeps ==
    ASSUME SIInv, NEW k \in Submitted, End(k) \/ EndPanicking(k)
    PROVE  SIInv'
<1>1. /\ k \in running
      /\ running' = running \ {k}
      /\ Deliver(k)
      /\ panicked' \in {panicked, panicked \cup {k}}
      /\ UNCHANGED <<nextSubmit, nextTake, reserved, active, lease, cancelled, queued,
                     ready, taking>>
  BY DEF End, EndPanicking, counters
<1>2. channel \in Seq(Submitted)
  BY DEF StreamTypeOK
<1>3. StreamWithinLimits'
  BY <1>1, FewerSpawned DEF StreamWithinLimits
<1>4. StreamAccounting' /\ Asking'
  BY <1>1 DEF StreamAccounting, Asking, HasPending, Submitted
<1>5. CASE cancelled
  <2>1. channel' = channel /\ Arriving' = Arriving
    BY <1>1, <1>5 DEF Deliver, Arriving
  <2>2. StreamTypeOK'
    BY <1>1, <2>1 DEF StreamTypeOK, Submitted
  <2>3. ResultsComing'
    BY <1>1, <1>5, <2>1 DEF ResultsComing
  <2> QED BY <1>3, <1>4, <2>2, <2>3
<1>6. CASE ~cancelled
  <2>1. channel' = Append(channel, k)
    BY <1>1, <1>6 DEF Deliver
  <2>2. /\ channel' \in Seq(Submitted)
        /\ Arriving' = Arriving \cup {k}
        /\ Len(channel') = Len(channel) + 1
        /\ channel'[Len(channel) + 1] = k
        /\ \A i \in 1..Len(channel) : channel'[i] = channel[i]
        /\ Len(channel) \in Nat
    BY <1>2, <2>1, AppendElements DEF Arriving, Elements
  <2>3. StreamTypeOK'
    BY <1>1, <2>2 DEF StreamTypeOK, Submitted
  <2>4. k \notin Arriving
    BY <1>1 DEF ResultsComing
  <2>5. \A i, j \in 1..Len(channel') : channel'[i] = channel'[j] => i = j
    <3>1. \A i \in 1..Len(channel) : channel[i] # k
      BY <2>4 DEF Arriving
    <3> QED BY <2>2, <3>1 DEF ResultsComing
  <2>6. ResultsComing'
    BY <1>1, <1>6, <2>2, <2>4, <2>5 DEF ResultsComing
  <2> QED BY <1>3, <1>4, <2>3, <2>6
<1> QED BY <1>5, <1>6

LEMMA StreamStutter == ASSUME SIInv, UNCHANGED stream PROVE SIInv'
BY DEF stream, counters, pool, StreamTypeOK, Submitted, StreamAccounting,
       StreamWithinLimits, ResultsComing, Arriving, Asking, HasPending

LEMMA StreamStep == SIInv /\ [StreamNext]_stream => SIInv'
<1> SUFFICES ASSUME SIInv, [StreamNext]_stream PROVE SIInv'
  OBVIOUS
<1>1. ASSUME NEW k \in Submitted, Job(k)
      PROVE  SIInv'
  BY <1>1, StartKeeps, SkipKeeps, EndKeeps DEF Job
<1>2. CASE Owner
  BY <1>2, SubmitKeeps, CallTakeNextKeeps, ReceiveKeeps, TakeNextKeeps, DropKeeps
     DEF Owner
<1> QED BY <1>1, <1>2, StreamStutter DEF StreamNext

------------------------------------------------------------------------------

\* The inductive invariant holds whatever the owner of the pipeline does.
THEOREM StreamInvariant == StreamSpec => []SIInv
BY StreamInitLemma, StreamStep, PTL DEF StreamSpec

\* next_submit, next_take, reserved and active always describe the pending
\* jobs exactly: take_next's subtractions cannot go below zero.
THEOREM StreamCountersExact == StreamSpec => []StreamAccounting
<1>1. SIInv => StreamAccounting
  OBVIOUS
<1> QED BY <1>1, StreamInvariant, PTL

\* Neither limit is ever exceeded, and every spawned job has a thread.
THEOREM StreamBounded == StreamSpec => []StreamWithinLimits
<1>1. SIInv => StreamWithinLimits
  OBVIOUS
<1> QED BY <1>1, StreamInvariant, PTL

\* No result is lost or delivered twice, with or without panics.
THEOREM StreamDelivers == StreamSpec => []ResultsComing
<1>1. SIInv => ResultsComing
  OBVIOUS
<1> QED BY <1>1, StreamInvariant, PTL

------------------------------------------------------------------------------
(* StreamingOrdered implements JobQueue. *)

LEMMA StreamInitIsQueue == StreamInit => Queue!QueueInit
BY DEF StreamInit, Queue!QueueInit

LEMMA SameCardinality == \A S : Queue!Cardinality(S) = Cardinality(S)
BY DEF Queue!Cardinality, Cardinality

LEMMA SubmitIsQueue ==
    ASSUME SIInv, NEW r \in Reservations, Submit(r)
    PROVE  Queue!Submit(r)
<1>1. /\ ~cancelled /\ nextSubmit' = nextSubmit + 1
      /\ lease' = Charged(lease, nextSubmit + 1, r)
      /\ UNCHANGED <<nextTake, cancelled>>
      /\ active < Threads /\ r <= Left(MemoryLimit, reserved)
  BY DEF Submit, Open, CanSubmit
<1>2. active = Cardinality(DOMAIN lease) /\ reserved = Total(lease)
  BY DEF SIInv, StreamAccounting
<1>3. reserved + r <= MemoryLimit
  <2>1. reserved \in Nat /\ reserved <= MemoryLimit /\ MemoryLimit \in Nat /\ r \in Nat
    BY StreamingAssumption DEF SIInv, StreamTypeOK, StreamWithinLimits
  <2> QED BY <1>1, <2>1 DEF Left
<1>4. Queue!CanSubmit(r)
  <2>1. Total(lease) + r <= MemoryLimit
    BY <1>2, <1>3
  <2>2. Queue!Total(lease) = Total(lease)
    BY SameCardinality DEF Queue!Total, Queue!Bytes, Queue!BytesOf, Total, Bytes, BytesOf
  <2>3. Cardinality(DOMAIN lease) < Threads
    BY <1>1, <1>2
  <2> QED BY <2>1, <2>2, <2>3, SameCardinality DEF Queue!CanSubmit
<1> QED BY <1>1, <1>4 DEF Queue!Submit, Queue!Charged, Charged

LEMMA TakeNextIsQueue == ASSUME SIInv, TakeNext PROVE Queue!Take
<1>1. taking /\ nextTake' = nextTake + 1 /\ lease' = Uncharged(lease, nextTake + 1)
      /\ UNCHANGED <<nextSubmit, cancelled>>
  BY DEF TakeNext, wanted
<1>2. nextTake < nextSubmit /\ ~cancelled
  BY <1>1 DEF SIInv, Asking, HasPending
<1> QED BY <1>1, <1>2 DEF Queue!Take, Queue!HasPending, Queue!Uncharged, Uncharged

LEMMA DropIsQueue == ASSUME Drop PROVE Queue!Close
BY DEF Drop, Open, counters, Queue!Close

LEMMA OthersAreQueueStutter ==
    ASSUME CallTakeNext \/ Receive \/ (\E k \in Submitted : Job(k)) \/ UNCHANGED stream
    PROVE  UNCHANGED Queue!queue
BY DEF CallTakeNext, Receive, Job, Start, Skip, End, EndPanicking, stream, counters,
       Queue!queue

\* Jobs are taken back one by one in the order of submission, whatever order
\* they end in, and never more are outstanding than threads and memory allow:
\* StreamingOrdered is the queue that the encoders count on.
THEOREM StreamIsQueue == StreamSpec => IsQueue
<1>1. StreamInit => Queue!QueueInit
  BY StreamInitIsQueue
<1>2. SIInv /\ [StreamNext]_stream => [Queue!QueueNext]_(Queue!queue)
  <2> SUFFICES ASSUME SIInv, [StreamNext]_stream
               PROVE  Queue!QueueNext \/ UNCHANGED Queue!queue
    OBVIOUS
  <2>1. CASE Owner
    BY <2>1, SubmitIsQueue, TakeNextIsQueue, DropIsQueue, OthersAreQueueStutter
       DEF Owner, Queue!QueueNext
  <2>2. CASE ~Owner
    BY <2>2, OthersAreQueueStutter DEF StreamNext
  <2> QED BY <2>1, <2>2
<1> QED BY <1>1, <1>2, StreamInvariant, PTL DEF StreamSpec, IsQueue, Queue!QueueSpec

------------------------------------------------------------------------------
(* The LZ4 frame encoder owns a StreamingOrdered.                          *)

\* The n bytes of the input that follow the first a.
Stretch(a, n) == [i \in 1..n |-> a + i]

EncoderTypeOK ==
    /\ hashed \in Nat
    /\ todo \in Nat
    /\ todo + Len(buffer) <= hashed
    /\ Len(buffer) <= BlockSize
    /\ buffer \in Seq(Nat)
    /\ blocks \in Seq(Seq(Nat))
    /\ Len(blocks) = nextSubmit
    /\ output \in Seq(Nat)
    /\ reported \in BOOLEAN

\* Where the encoder is, in which call, and what that says of the buffer.
EncoderControl ==
    /\ stage \in {"idle", "filling", "submitting", "draining", "closing", "gone"}
    /\ call \in {"none", "write", "flush", "finish"}
    /\ stage = "filling" => call = "write"
    /\ stage = "submitting" => call # "none"
    /\ stage = "draining" => call \in {"flush", "finish"} /\ buffer = <<>>
    /\ taking => stage = "draining" \/ (stage = "submitting" /\ buffer # <<>>)
    /\ todo > 0 => call = "write" /\ stage \in {"filling", "submitting"}

\* The first byte of block k, less one; after the last block comes the buffer.
Begin(k) == IF k <= Len(blocks) THEN blocks[k][1] - 1 ELSE hashed - todo - Len(buffer)

\* What is written, what is pending and what is buffered are stretches of the
\* input, each where the one before ends.
InSequence ==
    /\ output = Stretch(0, Len(output))
    /\ Begin(nextTake + 1) = Len(output)
    /\ \A k \in (nextTake + 1)..nextSubmit :
          /\ Len(blocks[k]) > 0
          /\ blocks[k] = Stretch(Begin(k), Len(blocks[k]))
          /\ Begin(k + 1) = Begin(k) + Len(blocks[k])
    /\ buffer = Stretch(hashed - todo - Len(buffer), Len(buffer))

\* flush and finish leave nothing behind.
NothingKept ==
    call \in {"flush", "finish"} /\ stage \in {"idle", "closing", "gone"} =>
        buffer = <<>> /\ nextTake = nextSubmit

EIInv ==
    /\ SIInv
    /\ EncoderTypeOK
    /\ EncoderControl
    /\ ~reported => InSequence /\ NothingKept

LEMMA StretchFacts ==
    ASSUME NEW a \in Nat, NEW n \in Nat
    PROVE  /\ Stretch(a, n) \in Seq(Nat)
           /\ Len(Stretch(a, n)) = n
           /\ \A i \in 1..n : Stretch(a, n)[i] = a + i
BY DEF Stretch

LEMMA SameBytes ==
    ASSUME NEW p \in Seq(Nat), NEW q \in Seq(Nat), Len(p) = Len(q),
           \A i \in 1..Len(p) : p[i] = q[i]
    PROVE  p = q
<1>1. p = [i \in 1..Len(p) |-> p[i]] /\ q = [i \in 1..Len(q) |-> q[i]]
  OBVIOUS
<1> QED BY <1>1

LEMMA JoinedBytes ==
    ASSUME NEW p \in Seq(Nat), NEW q \in Seq(Nat)
    PROVE  p \o q \in Seq(Nat) /\ Len(p \o q) = Len(p) + Len(q)
OBVIOUS

LEMMA StretchJoined ==
    ASSUME NEW a \in Nat, NEW m \in Nat, NEW n \in Nat
    PROVE  Stretch(a, m) \o Stretch(a + m, n) = Stretch(a, m + n)
<1> DEFINE s == Stretch(a, m)
           t == Stretch(a + m, n)
<1>1. /\ s \in Seq(Nat) /\ Len(s) = m /\ \A i \in 1..m : s[i] = a + i
      /\ t \in Seq(Nat) /\ Len(t) = n /\ \A i \in 1..n : t[i] = a + m + i
  BY StretchFacts, a + m \in Nat
<1> HIDE DEF s, t
<1>2. s \o t \in Seq(Nat) /\ Len(s \o t) = m + n
  BY <1>1
<1>3. \A i \in 1..(m + n) : (s \o t)[i] = a + i
  <2>1. SUFFICES ASSUME NEW i \in 1..(m + n) PROVE (s \o t)[i] = a + i
    OBVIOUS
  <2>2. CASE i <= m
    BY <1>1, <2>2
  <2>3. CASE i > m
    <3>1. i - m \in 1..n /\ (s \o t)[i] = t[i - m] /\ a + m + (i - m) = a + i
      BY <1>1, <2>3
    <3>2. \A j \in 1..n : t[j] = a + m + j
      BY <1>1
    <3>3. t[i - m] = a + m + (i - m)
      BY <3>1, <3>2
    <3> QED BY <3>1, <3>3
  <2>4. i <= m \/ i > m
    OBVIOUS
  <2> QED BY <2>2, <2>3, <2>4, Zenon
<1>4. /\ Stretch(a, m + n) \in Seq(Nat) /\ Len(Stretch(a, m + n)) = m + n
      /\ \A i \in 1..(m + n) : Stretch(a, m + n)[i] = a + i
  BY StretchFacts, m + n \in Nat
<1>5. s \o t = Stretch(a, m + n)
  BY <1>2, <1>3, <1>4, SameBytes
<1> QED BY <1>5 DEF s, t

LEMMA EmptyStretch == ASSUME NEW a \in Nat PROVE Stretch(a, 0) = <<>>
BY DEF Stretch

\* Whatever the encoder does, StreamingOrdered makes one of its own steps or
\* none.
LEMMA EncoderStepIsStream == [EncoderNext]_encoder => [StreamNext]_stream
<1> SUFFICES ASSUME [EncoderNext]_encoder PROVE [StreamNext]_stream
  OBVIOUS
<1>1. CASE UNCHANGED encoder
  BY <1>1 DEF encoder
<1>2. CASE Client
  BY <1>2 DEF Client, CallWrite, CallFlush, DropEncoder, StreamNext, Owner
<1>3. CASE SubmitBuffer
  BY <1>3, EncoderAssumption DEF SubmitBuffer, StreamNext, Owner
<1>4. CASE Fill \/ WriteDone \/ NothingBuffered \/ Drained \/ EndFails
  BY <1>4 DEF Fill, WriteDone, NothingBuffered, Drained, EndFails
<1>5. CASE CommitNext \/ ReceiveResult \/ WriteBlock \/ LoseBlock \/ Consume
  BY <1>5 DEF CommitNext, ReceiveResult, WriteBlock, LoseBlock, Consume, StreamNext, Owner
<1>6. ASSUME NEW k \in Submitted, SpawnedJob(k)
      PROVE  StreamNext
  BY <1>6 DEF SpawnedJob, StreamNext
<1> QED BY <1>1, <1>2, <1>3, <1>4, <1>5, <1>6 DEF EncoderNext, Inside

LEMMA EncoderStarts == EncoderInit => EIInv
<1> SUFFICES ASSUME EncoderInit PROVE EIInv
  OBVIOUS
<1>1. SIInv
  BY StreamInitLemma DEF EncoderInit
<1>2. /\ nextSubmit = 0 /\ nextTake = 0 /\ taking = FALSE
      /\ hashed = 0 /\ todo = 0 /\ buffer = <<>> /\ blocks = <<>> /\ output = <<>>
      /\ call = "none" /\ stage = "idle" /\ reported = FALSE
  BY DEF EncoderInit, StreamInit
<1>3. /\ Len(buffer) = 0 /\ buffer \in Seq(Nat)
      /\ Len(output) = 0 /\ output \in Seq(Nat)
      /\ Len(blocks) = 0 /\ blocks \in Seq(Seq(Nat))
  BY <1>2
<1>4. EncoderTypeOK
  <2>1. hashed = 0 /\ todo = 0
    BY <1>2
  <2>2. todo + Len(buffer) <= hashed /\ Len(buffer) <= BlockSize
    BY <1>3, <2>1, EncoderAssumption
  <2>3. reported \in BOOLEAN /\ Len(blocks) = nextSubmit
    BY <1>2
  <2> QED BY <1>3, <2>1, <2>2, <2>3 DEF EncoderTypeOK
<1>5. EncoderControl
  BY <1>2 DEF EncoderControl
<1>6. InSequence
  <2>1. Stretch(0, 0) = <<>>
    BY EmptyStretch
  <2>2. Begin(1) = 0
    <3>1. hashed = 0 /\ todo = 0
      BY <1>2
    <3> QED BY <1>3, <3>1 DEF Begin
  <2> QED BY <1>2, <1>3, <2>1, <2>2 DEF InSequence
<1>7. NothingKept
  BY <1>2 DEF NothingKept
<1> QED BY <1>1, <1>4, <1>5, <1>6, <1>7 DEF EIInv

\* A step that moves none of the bytes leaves them in sequence.
LEMMA BytesStay ==
    ASSUME InSequence, UNCHANGED <<nextTake, nextSubmit, blocks, output>>,
           UNCHANGED buffer, hashed' - todo' = hashed - todo
    PROVE  InSequence'
<1>1. \A k : Begin(k)' = Begin(k)
  BY DEF Begin
<1> QED BY <1>1 DEF InSequence

------------------------------------------------------------------------------
(* The steps of the encoder. *)

LEMMA CallWriteKeeps ==
    ASSUME EIInv, NEW n \in 0..MaxWrite, CallWrite(n)
    PROVE  EncoderTypeOK' /\ EncoderControl' /\ (~reported' => InSequence' /\ NothingKept')
<1>1. /\ stage = "idle" /\ hashed' = hashed + n /\ todo' = n
      /\ call' = "write" /\ stage' = "filling"
      /\ UNCHANGED <<nextTake, nextSubmit, taking, buffer, blocks, output, reported>>
  BY DEF CallWrite, stream, counters
<1>2. n \in Nat
  BY EncoderAssumption
<1>3. todo = 0 /\ ~taking
  BY <1>1 DEF EIInv, EncoderTypeOK, EncoderControl
<1>4. EncoderTypeOK'
  BY <1>1, <1>2, <1>3 DEF EIInv, EncoderTypeOK
<1>5. EncoderControl'
  BY <1>1, <1>3 DEF EncoderControl
<1>6. ~reported' => InSequence'
  <2>1. hashed' - todo' = hashed - todo
    BY <1>1, <1>2, <1>3 DEF EIInv, EncoderTypeOK
  <2> QED BY <1>1, <2>1, BytesStay DEF EIInv
<1>7. NothingKept'
  BY <1>1 DEF NothingKept
<1> QED BY <1>4, <1>5, <1>6, <1>7

\* Steps that only move the encoder on in its call.
LEMMA MovesOnKeeps ==
    ASSUME EIInv,
           (\E name \in {"flush", "finish"} : CallFlush(name)) \/ DropEncoder
             \/ WriteDone \/ NothingBuffered \/ Drained \/ EndFails \/ Consume
    PROVE  EncoderTypeOK' /\ EncoderControl' /\ (~reported' => InSequence' /\ NothingKept')
<1>1. UNCHANGED <<nextTake, nextSubmit, taking, hashed, todo, buffer, blocks, output>>
  BY DEF CallFlush, DropEncoder, WriteDone, NothingBuffered, Drained, EndFails, Consume,
         Drop, stream, counters, frame
<1>2. reported' \in {reported, TRUE}
  BY DEF CallFlush, DropEncoder, WriteDone, NothingBuffered, Drained, EndFails, Consume,
         ReturnOk, ReturnError
<1>3. EncoderTypeOK'
  BY <1>1, <1>2 DEF EIInv, EncoderTypeOK
<1>4. ~reported' => ~reported /\ InSequence'
  BY <1>1, <1>2, BytesStay DEF EIInv
<1> SUFFICES EncoderControl' /\ (~reported' => NothingKept')
  BY <1>3, <1>4
<1>5. todo \in Nat /\ nextTake \in 0..nextSubmit /\ nextSubmit \in Nat /\ EncoderControl
      /\ (~reported => NothingKept)
      /\ (taking => HasPending)
  BY DEF EIInv, EncoderTypeOK, StreamTypeOK, Asking
<1>6. ASSUME NEW name \in {"flush", "finish"}, CallFlush(name)
      PROVE  EncoderControl' /\ NothingKept'
  BY <1>1, <1>5, <1>6 DEF CallFlush, EncoderControl, NothingKept
<1>7. CASE DropEncoder
  BY <1>1, <1>4, <1>5, <1>7 DEF DropEncoder, EncoderControl, NothingKept
<1>8. CASE WriteDone
  BY <1>1, <1>5, <1>8 DEF WriteDone, ReturnOk, EncoderControl, NothingKept
<1>9. CASE NothingBuffered
  BY <1>1, <1>5, <1>9 DEF NothingBuffered, AfterSubmit, EncoderControl, NothingKept
<1>10. CASE Drained
  <2>1. /\ stage = "draining" /\ ~HasPending
        /\ call' = call /\ stage' = IF call = "flush" THEN "idle" ELSE "closing"
    BY <1>10 DEF Drained, ReturnOk
  <2>2. nextTake = nextSubmit /\ ~taking
    BY <1>5, <2>1 DEF HasPending
  <2> QED BY <1>1, <1>5, <2>1, <2>2 DEF EncoderControl, NothingKept
<1>11. CASE EndFails
  <2>1. /\ stage = "draining" /\ ~HasPending /\ reported'
        /\ call' = call /\ stage' = IF call = "finish" THEN "closing" ELSE "idle"
    BY <1>11 DEF EndFails, ReturnError
  <2>2. ~taking
    BY <1>5, <2>1
  <2> QED BY <1>1, <1>5, <2>1, <2>2 DEF EncoderControl
<1>12. CASE Consume
  BY <1>1, <1>4, <1>5, <1>12 DEF Consume, EncoderControl, NothingKept
<1> QED BY <1>6, <1>7, <1>8, <1>9, <1>10, <1>11, <1>12

LEMMA FillKeeps ==
    ASSUME EIInv, Fill
    PROVE  EncoderTypeOK' /\ EncoderControl' /\ (~reported' => InSequence' /\ NothingKept')
<1> DEFINE used == Len(buffer)
           take == IF todo < BlockSize - used THEN todo ELSE BlockSize - used
           from == hashed - todo
<1>1. /\ stage = "filling" /\ todo > 0
      /\ buffer' = buffer \o Stretch(from, take)
      /\ todo' = todo - take
      /\ stage' = IF used + take = BlockSize THEN "submitting" ELSE "filling"
      /\ UNCHANGED <<nextTake, nextSubmit, taking, hashed, blocks, output, call, reported>>
  BY DEF Fill, Stretch, stream, counters
<1>2. /\ used \in Nat /\ take \in Nat /\ from \in Nat /\ hashed \in Nat /\ todo \in Nat
      /\ take <= todo /\ used + take <= BlockSize /\ used <= from
      /\ buffer \in Seq(Nat)
  BY EncoderAssumption DEF EIInv, EncoderTypeOK
<1> HIDE DEF take, from, used
<1>8. Len(buffer) = used
  BY DEF used
<1>3. /\ Stretch(from, take) \in Seq(Nat) /\ Len(Stretch(from, take)) = take
      /\ buffer' \in Seq(Nat) /\ Len(buffer') = used + take
  <2>1. PICK a \in Nat, n \in Nat : a = from /\ n = take
    BY <1>2
  <2>2. Stretch(a, n) \in Seq(Nat) /\ Len(Stretch(a, n)) = n
    BY StretchFacts
  <2>3. buffer' = buffer \o Stretch(a, n) /\ Len(buffer) = used /\ buffer \in Seq(Nat)
    BY <1>1, <1>2, <1>8, <2>1
  <2>4. buffer \o Stretch(a, n) \in Seq(Nat) /\ Len(buffer \o Stretch(a, n)) = used + n
    BY <2>2, <2>3, JoinedBytes
  <2>5. Stretch(from, take) = Stretch(a, n)
    BY <2>1
  <2> QED BY <2>1, <2>2, <2>3, <2>4, <2>5
<1>4. EncoderTypeOK'
  <2>1. /\ todo' \in Nat /\ todo' + Len(buffer') <= hashed'
        /\ Len(buffer') <= BlockSize
    <3>1. todo' = todo - take /\ hashed' = hashed /\ Len(buffer') = used + take
      BY <1>1, <1>3
    <3>2. todo + used <= hashed
      BY <1>8 DEF EIInv, EncoderTypeOK
    <3> QED BY <1>2, <3>1, <3>2
  <2> QED BY <1>1, <1>3, <2>1 DEF EIInv, EncoderTypeOK
<1>5. EncoderControl'
  <2>1. call = "write" /\ ~taking
    BY <1>1 DEF EIInv, EncoderControl
  <2> QED BY <1>1, <2>1 DEF EncoderControl
<1>6. NothingKept'
  BY <1>1 DEF NothingKept
<1>7. ASSUME ~reported'
      PROVE  InSequence'
  <2>1. InSequence
    BY <1>1, <1>7 DEF EIInv
  <2>2. hashed' - todo' - Len(buffer') = from - used /\ hashed - todo - Len(buffer) = from - used
    <3>1. from = hashed - todo /\ Len(buffer) = used
      BY DEF from, used
    <3>2. hashed' = hashed /\ todo' = todo - take /\ Len(buffer') = used + take
      BY <1>1, <1>3
    <3> QED BY <1>2, <3>1, <3>2
  <2>3. \A k : Begin(k)' = Begin(k)
    BY <1>1, <2>2 DEF Begin
  <2>4. buffer' = Stretch(from - used, Len(buffer'))
    <3>1. buffer = Stretch(from - used, used)
      BY <2>1, <2>2 DEF InSequence, used
    <3>2. from - used \in Nat /\ (from - used) + used = from
      BY <1>2
    <3>3. Stretch(from - used, used) \o Stretch((from - used) + used, take)
             = Stretch(from - used, used + take)
      BY <1>2, <3>2, StretchJoined
    <3> QED BY <1>1, <1>3, <3>1, <3>2, <3>3
  <2> QED BY <1>1, <2>1, <2>2, <2>3, <2>4 DEF InSequence
<1> QED BY <1>4, <1>5, <1>6, <1>7

LEMMA SubmitBufferKeeps ==
    ASSUME EIInv, SubmitBuffer
    PROVE  EncoderTypeOK' /\ EncoderControl' /\ (~reported' => InSequence' /\ NothingKept')
<1>0. PICK key \in Nat, taken \in Nat : key = nextSubmit + 1 /\ taken = nextTake
  BY DEF EIInv, StreamTypeOK
<1>1. /\ stage = "submitting" /\ buffer # <<>> /\ ~taking
      /\ nextSubmit' = key
      /\ blocks' = Append(blocks, buffer) /\ buffer' = <<>>
      /\ stage' = IF call = "write" THEN "filling" ELSE "draining"
      /\ UNCHANGED <<nextTake, taking, hashed, todo, output, call, reported>>
  BY <1>0 DEF SubmitBuffer, Submit, Open, AfterSubmit
<1>2. /\ hashed \in Nat /\ todo \in Nat /\ todo + Len(buffer) <= hashed
      /\ buffer \in Seq(Nat) /\ Len(buffer) \in Nat \ {0}
      /\ blocks \in Seq(Seq(Nat)) /\ Len(blocks) = nextSubmit
      /\ nextSubmit \in Nat /\ taken \in 0..nextSubmit
      /\ key = nextSubmit + 1 /\ nextTake = taken /\ nextTake' = taken
  BY <1>0, <1>1 DEF EIInv, EncoderTypeOK, StreamTypeOK
<1>3. /\ blocks' \in Seq(Seq(Nat)) /\ Len(blocks') = key /\ blocks'[key] = buffer
      /\ \A k \in 1..nextSubmit : blocks'[k] = blocks[k]
      /\ Len(buffer') = 0 /\ buffer' \in Seq(Nat)
  BY <1>1, <1>2
<1>4. EncoderTypeOK'
  BY <1>1, <1>2, <1>3, EncoderAssumption DEF EIInv, EncoderTypeOK
<1>5. EncoderControl'
  BY <1>1 DEF EIInv, EncoderControl
<1>6. NothingKept'
  BY <1>1 DEF NothingKept
<1>7. ASSUME ~reported'
      PROVE  InSequence'
  <2>0. PICK from \in Nat : from = hashed - todo - Len(buffer)
    <3>1. PICK n \in Nat : n = Len(buffer) /\ todo + n <= hashed
      BY <1>2
    <3>2. hashed - todo - n \in Nat
      BY <1>2, <3>1
    <3> QED BY <3>1, <3>2
  <2>1. InSequence
    BY <1>1, <1>7 DEF EIInv
  <2>2. from \in Nat /\ buffer = Stretch(from, Len(buffer)) /\ buffer[1] = from + 1
    <3>1. from \in Nat /\ buffer = Stretch(from, Len(buffer))
      BY <2>0, <2>1 DEF InSequence
    <3>2. Stretch(from, Len(buffer))[1] = from + 1
      BY <1>2, <3>1 DEF Stretch
    <3> QED BY <3>1, <3>2
  <2>3. Begin(key) = from /\ Begin(key)' = from /\ Begin(key + 1)' = from + Len(buffer)
    <3>1. Begin(key) = from
      BY <1>2, <2>0 DEF Begin
    <3>2. Begin(key)' = from
      <4>1. Begin(key)' = blocks'[key][1] - 1
        BY <1>3 DEF Begin
      <4> QED BY <1>3, <2>0, <2>2, <4>1
    <3>3. Begin(key + 1)' = hashed - todo
      BY <1>1, <1>2, <1>3 DEF Begin
    <3>4. hashed - todo = from + Len(buffer)
      BY <1>2, <2>0
    <3> QED BY <3>1, <3>2, <3>3, <3>4
  <2>4. \A k \in 1..key : Begin(k)' = Begin(k)
    <3>1. SUFFICES ASSUME NEW k \in 1..key PROVE Begin(k)' = Begin(k)
      OBVIOUS
    <3>2. CASE k = key
      BY <2>3, <3>2
    <3>3. CASE k # key
      <4>1. k \in 1..nextSubmit
        BY <1>2, <3>3
      <4> QED BY <1>2, <1>3, <4>1 DEF Begin
    <3> QED BY <3>2, <3>3
  <2>5. ASSUME NEW k \in (taken + 1)..key
        PROVE  /\ Len(blocks'[k]) > 0
               /\ blocks'[k] = Stretch(Begin(k)', Len(blocks'[k]))
               /\ Begin(k + 1)' = Begin(k)' + Len(blocks'[k])
    <3>1. CASE k = key
      BY <1>2, <1>3, <2>2, <2>3, <3>1
    <3>2. CASE k # key
      <4>1. k \in (nextTake + 1)..nextSubmit /\ k \in 1..key /\ k + 1 \in 1..key
        BY <1>1, <1>2, <3>2
      <4>2. blocks'[k] = blocks[k] /\ Begin(k)' = Begin(k) /\ Begin(k + 1)' = Begin(k + 1)
        BY <1>2, <1>3, <2>4, <4>1
      <4> QED BY <2>1, <4>1, <4>2 DEF InSequence
    <3> QED BY <3>1, <3>2
  <2>6. Begin(taken + 1)' = Len(output')
    <3>1. taken + 1 \in 1..key
      BY <1>2
    <3>2. Begin(taken + 1) = Len(output)
      BY <1>2, <2>1 DEF InSequence
    <3> QED BY <1>1, <2>4, <3>1, <3>2
  <2>7. buffer' = Stretch(hashed' - todo' - Len(buffer'), Len(buffer'))
    BY <1>1, <1>2, <1>3, EmptyStretch
  <2>8. output' = Stretch(0, Len(output'))
    BY <1>1, <2>1 DEF InSequence
  <2> QED BY <1>1, <1>2, <2>5, <2>6, <2>7, <2>8 DEF InSequence
<1> QED BY <1>4, <1>5, <1>6, <1>7

LEMMA ReceivingKeeps ==
    ASSUME EIInv, CommitNext \/ ReceiveResult
    PROVE  EncoderTypeOK' /\ EncoderControl' /\ (~reported' => InSequence' /\ NothingKept')
<1>1. UNCHANGED <<nextTake, nextSubmit, hashed, todo, buffer, blocks, output, call, stage,
                  reported>>
  BY DEF CommitNext, CallTakeNext, ReceiveResult, Receive, counters, frame, control
<1>2. taking' => taking \/ MustCommit
  BY DEF CommitNext, ReceiveResult, Receive
<1>3. EncoderTypeOK'
  BY <1>1 DEF EIInv, EncoderTypeOK
<1>4. EncoderControl'
  BY <1>1, <1>2 DEF EIInv, EncoderControl, MustCommit
<1>5. ~reported' => InSequence' /\ NothingKept'
  BY <1>1, BytesStay DEF EIInv, NothingKept
<1> QED BY <1>3, <1>4, <1>5

\* take_next answers the block that follows what is written.
LEMMA WriteBlockKeeps ==
    ASSUME EIInv, WriteBlock
    PROVE  EncoderTypeOK' /\ EncoderControl' /\ (~reported' => InSequence' /\ NothingKept')
<1>1. /\ taking /\ wanted \in ready /\ taking' = FALSE
      /\ nextTake' = wanted
      /\ output' = output \o blocks[wanted]
      /\ UNCHANGED <<nextSubmit, hashed, todo, buffer, blocks, call, stage, reported>>
  BY DEF WriteBlock, TakeNext, control
<1>2. /\ nextSubmit \in Nat /\ nextTake \in 0..nextSubmit /\ nextTake < nextSubmit
      /\ wanted = nextTake + 1 /\ wanted \in 1..nextSubmit
      /\ blocks \in Seq(Seq(Nat)) /\ Len(blocks) = nextSubmit
      /\ output \in Seq(Nat)
  BY <1>1 DEF EIInv, EncoderTypeOK, StreamTypeOK, Asking, HasPending, wanted
<1>3. blocks[wanted] \in Seq(Nat)
  BY <1>2
<1>4. output' \in Seq(Nat) /\ Len(output') = Len(output) + Len(blocks[wanted])
  BY <1>1, <1>2, <1>3
<1>5. EncoderTypeOK'
  BY <1>1, <1>4 DEF EIInv, EncoderTypeOK
<1>6. EncoderControl'
  BY <1>1 DEF EIInv, EncoderControl
<1>7. NothingKept'
  <2>1. stage \in {"draining", "submitting"}
    BY <1>1 DEF EIInv, EncoderControl
  <2> QED BY <1>1, <2>1 DEF NothingKept
<1>8. ASSUME ~reported'
      PROVE  InSequence'
  <2>1. InSequence
    BY <1>1, <1>8 DEF EIInv
  <2>2. \A k : Begin(k)' = Begin(k)
    BY <1>1 DEF Begin
  <2>3. /\ Begin(wanted) = Len(output)
        /\ blocks[wanted] = Stretch(Begin(wanted), Len(blocks[wanted]))
        /\ Begin(wanted + 1) = Begin(wanted) + Len(blocks[wanted])
        /\ output = Stretch(0, Len(output))
    BY <1>2, <2>1 DEF InSequence
  <2>4. output' = Stretch(0, Len(output'))
    <3>1. Len(output) \in Nat /\ Len(blocks[wanted]) \in Nat /\ 0 + Len(output) = Len(output)
      BY <1>2, <1>3
    <3>2. Stretch(0, Len(output)) \o Stretch(0 + Len(output), Len(blocks[wanted]))
             = Stretch(0, Len(output) + Len(blocks[wanted]))
      BY <3>1, StretchJoined
    <3> QED BY <1>1, <1>4, <2>3, <3>1, <3>2
  <2>5. Begin(nextTake' + 1) = Len(output')
    BY <1>1, <1>4, <2>3
  <2>6. \A k \in (nextTake' + 1)..nextSubmit : k \in (nextTake + 1)..nextSubmit
    BY <1>1, <1>2
  <2> QED BY <1>1, <2>1, <2>2, <2>4, <2>5, <2>6 DEF InSequence
<1> QED BY <1>5, <1>6, <1>7, <1>8

LEMMA LoseBlockKeeps ==
    ASSUME EIInv, LoseBlock
    PROVE  EncoderTypeOK' /\ EncoderControl' /\ (~reported' => InSequence' /\ NothingKept')
<1>1. /\ taking /\ taking' = FALSE /\ reported' /\ reported' = TRUE /\ todo' = 0
      /\ stage' = IF call = "finish" THEN "closing" ELSE "idle"
      /\ UNCHANGED <<nextSubmit, hashed, buffer, blocks, output, call>>
  BY DEF LoseBlock, TakeNext, ReturnError
<1>2. EncoderTypeOK'
  BY <1>1 DEF EIInv, EncoderTypeOK
<1>3. EncoderControl'
  BY <1>1 DEF EIInv, EncoderControl
<1> QED BY <1>1, <1>2, <1>3

LEMMA JobKeeps ==
    ASSUME EIInv, (\E k \in Submitted : SpawnedJob(k)) \/ UNCHANGED encoder
    PROVE  EncoderTypeOK' /\ EncoderControl' /\ (~reported' => InSequence' /\ NothingKept')
<1>1. UNCHANGED <<nextTake, nextSubmit, taking, hashed, todo, buffer, blocks, output, call,
                  stage, reported>>
  BY DEF SpawnedJob, Job, Start, Skip, End, EndPanicking, encoder, stream, counters, frame,
         control
<1>2. EncoderTypeOK' /\ EncoderControl'
  BY <1>1 DEF EIInv, EncoderTypeOK, EncoderControl
<1>3. ~reported' => InSequence' /\ NothingKept'
  BY <1>1, BytesStay DEF EIInv, NothingKept
<1> QED BY <1>2, <1>3

LEMMA EncoderStep == EIInv /\ [EncoderNext]_encoder => EIInv'
<1> SUFFICES ASSUME EIInv, [EncoderNext]_encoder PROVE EIInv'
  OBVIOUS
<1>1. SIInv'
  BY EncoderStepIsStream, StreamStep DEF EIInv
<1>2. EncoderTypeOK' /\ EncoderControl' /\ (~reported' => InSequence' /\ NothingKept')
  <2>1. CASE Client
    BY <2>1, CallWriteKeeps, MovesOnKeeps DEF Client
  <2>2. CASE Inside
    BY <2>2, FillKeeps, MovesOnKeeps, SubmitBufferKeeps, ReceivingKeeps, WriteBlockKeeps,
       LoseBlockKeeps DEF Inside
  <2>3. CASE (\E k \in Submitted : SpawnedJob(k)) \/ UNCHANGED encoder
    BY <2>3, JobKeeps
  <2> QED BY <2>1, <2>2, <2>3 DEF EncoderNext
<1> QED BY <1>1, <1>2 DEF EIInv

\* The inductive invariant of the encoder, for any client, any block size, and
\* any job that panics or output that refuses.
THEOREM EncoderInvariant == EncoderSpec => []EIInv
BY EncoderStarts, EncoderStep, PTL DEF EncoderSpec

\* The encoder is an owner as StreamingOrdered expects one: it submits only
\* with room, asks only for a pending result and drops only outside a call.
THEOREM EncoderUsesStream == EncoderSpec => StreamSpec
<1>1. EncoderInit => StreamInit
  BY DEF EncoderInit
<1> QED BY <1>1, EncoderStepIsStream, PTL DEF EncoderSpec, StreamSpec

\* So the counters are exact, every result comes once, and the blocks come
\* back in the order of submission, also when they end in any other order.
THEOREM EncoderIsServed == EncoderSpec => [](StreamAccounting /\ ResultsComing) /\ IsQueue
<1>1. SIInv => StreamAccounting /\ ResultsComing
  OBVIOUS
<1> QED BY <1>1, EncoderUsesStream, StreamInvariant, StreamIsQueue, PTL

\* While no call has answered an error, what is written decodes to what was
\* given, from its start and without a gap; and flush or finish answer Ok only
\* when all of it is written.
THEOREM EncoderLosesNothing == EncoderSpec => []NoSilentLoss
<1>1. EIInv => NoSilentLoss
  <2> SUFFICES ASSUME EIInv, ~reported
               PROVE  /\ output = Bytes1(Len(output))
                      /\ (/\ call \in {"flush", "finish"}
                          /\ stage \in {"idle", "closing", "gone"}) => output = Bytes1(hashed)
    BY DEF NoSilentLoss
  <2>1. InSequence /\ NothingKept /\ EncoderTypeOK /\ EncoderControl
        /\ nextSubmit \in Nat
    BY DEF EIInv, StreamTypeOK
  <2>2. \A n \in Nat : Stretch(0, n) = Bytes1(n)
    <3>1. SUFFICES ASSUME NEW n \in Nat PROVE Stretch(0, n) = Bytes1(n)
      OBVIOUS
    <3>2. \A i \in 1..n : 0 + i = i
      OBVIOUS
    <3> QED BY <3>2 DEF Stretch, Bytes1
  <2>3. output = Bytes1(Len(output))
    BY <2>1, <2>2 DEF InSequence, EncoderTypeOK
  <2>4. ASSUME call \in {"flush", "finish"}, stage \in {"idle", "closing", "gone"}
        PROVE  output = Bytes1(hashed)
    <3>1. buffer = <<>> /\ nextTake = nextSubmit /\ todo = 0
      BY <2>1, <2>4 DEF NothingKept, EncoderControl, EncoderTypeOK
    <3>2. Begin(nextTake + 1) = hashed
      BY <2>1, <3>1 DEF Begin, EncoderTypeOK
    <3> QED BY <2>1, <2>3, <3>2 DEF InSequence
  <2> QED BY <2>3, <2>4
<1> QED BY <1>1, EncoderInvariant, PTL
==============================================================================
