------------------------ MODULE OrderedPipelineProofs ------------------------
(***************************************************************************)
(* For any number of jobs and workers, any budget and any coordinator: the *)
(* byte and job counters of the pipeline are exact, the budget is never    *)
(* exceeded, no wakeup is lost, and every unretired job is in exactly one  *)
(* place.                                                                  *)
(***************************************************************************)
EXTENDS OrderedPipeline, DataLemmas

\* What the properties need to be inductive: an executing job still holds its
\* whole reservation (so that complete cannot saturate), and only admitted
\* jobs hold anything (so that admission charges a job for the first time).
Leases ==
    /\ \A w \in Workers : pc[w] = "executing" => lease[job[w]] = Reservation[job[w]]
    /\ \A k \in DOMAIN lease : k <= next

IInv ==
    /\ TypeOK
    /\ Accounting
    /\ WithinLimits
    /\ NoLostWakeup
    /\ OnePlace
    /\ Leases

------------------------------------------------------------------------------
(* The budget. *)

\* The types of the counters and of what they count, wherever the workers are.
BudgetTypes ==
    /\ reserved \in Nat
    /\ active \in Nat
    /\ DOMAIN lease \subseteq Jobs
    /\ \A k \in DOMAIN lease : lease[k] \in Nat

LEMMA BudgetTyped == TypeOK => BudgetTypes
BY DEF TypeOK, BudgetTypes

LEMMA LeaseIsChargeMap ==
    ASSUME BudgetTypes
    PROVE  IsChargeMap(lease)
<1>1. IsFiniteSet(1..N)
  BY PipelineAssumption, FS_Interval
<1>2. IsFiniteSet(DOMAIN lease)
  BY <1>1, FS_Subset DEF BudgetTypes, Jobs
<1> QED BY <1>2 DEF BudgetTypes, IsChargeMap

\* Giving back what a job holds never saturates and keeps the counters exact.
LEMMA RetireLemma ==
    ASSUME BudgetTypes, Accounting, NEW k \in DOMAIN lease, Retire(k)
    PROVE  /\ Accounting'
           /\ reserved' \in Nat /\ reserved' <= reserved
           /\ active' \in Nat /\ active' <= active
           /\ DOMAIN lease' = DOMAIN lease \ {k}
           /\ \A x \in DOMAIN lease' : lease'[x] = lease[x]
<1>1. IsChargeMap(lease)
  BY LeaseIsChargeMap
<1>2. /\ Total(lease) = Total(lease') + lease[k]
      /\ Total(lease') \in Nat
      /\ lease[k] \in Nat
  BY <1>1, TotalUncharged DEF Retire, IsChargeMap
<1>3. /\ DOMAIN lease' = DOMAIN lease \ {k}
      /\ \A x \in DOMAIN lease' : lease'[x] = lease[x]
  BY DEF Retire, Uncharged
<1>4. /\ Cardinality(DOMAIN lease') = Cardinality(DOMAIN lease) - 1
      /\ Cardinality(DOMAIN lease') \in Nat
      /\ Cardinality(DOMAIN lease) \in Nat
  <2>1. IsFiniteSet(DOMAIN lease) /\ IsFiniteSet(DOMAIN lease')
    BY <1>1, <1>3, FS_RemoveElement DEF IsChargeMap
  <2>2. /\ Cardinality(DOMAIN lease') \in Nat
        /\ Cardinality(DOMAIN lease) \in Nat
    BY <2>1, FS_CardinalityType
  <2>3. Cardinality(DOMAIN lease \ {k}) = Cardinality(DOMAIN lease) - 1
    BY <2>1, FS_RemoveElement
  <2> QED BY <1>3, <2>2, <2>3
<1>5. reserved' = Total(lease') /\ reserved' \in Nat /\ reserved' <= reserved
  BY <1>2 DEF Retire, Monus, Accounting, BudgetTypes
<1>6. active' = Cardinality(DOMAIN lease') /\ active' \in Nat /\ active' <= active
  BY <1>4 DEF Retire, Monus, Accounting, BudgetTypes
<1> QED BY <1>3, <1>5, <1>6 DEF Accounting

\* Charging a job that holds nothing adds its amount and one job.
LEMMA AdmitLemma ==
    ASSUME BudgetTypes, Accounting, NEW k, k \notin DOMAIN lease, NEW amount \in Nat,
           lease' = Charged(lease, k, amount),
           reserved' = reserved + amount,
           active' = active + 1
    PROVE  /\ Accounting'
           /\ DOMAIN lease' = DOMAIN lease \cup {k}
           /\ lease'[k] = amount
           /\ \A x \in DOMAIN lease : lease'[x] = lease[x]
<1>1. IsChargeMap(lease)
  BY LeaseIsChargeMap
<1>2. /\ DOMAIN lease' = DOMAIN lease \cup {k}
      /\ lease'[k] = amount
      /\ \A x \in DOMAIN lease : lease'[x] = lease[x]
      /\ Total(lease') = Total(lease) + amount
  <2>1. Total(lease') = Total(lease) + amount
    BY <1>1, TotalCharged
  <2> QED BY <2>1 DEF Charged
<1>3. Cardinality(DOMAIN lease') = Cardinality(DOMAIN lease) + 1
  BY <1>1, <1>2, FS_AddElement DEF IsChargeMap
<1> QED BY <1>2, <1>3 DEF Accounting

\* Recharging a job moves the byte counter by the difference and leaves the
\* job counter alone.
LEMMA RechargeLemma ==
    ASSUME BudgetTypes, Accounting, NEW k \in DOMAIN lease, NEW amount \in Nat,
           lease' = Charged(lease, k, amount),
           reserved' = Monus(reserved, lease[k]) + amount,
           active' = active
    PROVE  /\ Accounting'
           /\ reserved' = reserved - lease[k] + amount
           /\ lease[k] <= reserved
           /\ DOMAIN lease' = DOMAIN lease
           /\ lease'[k] = amount
           /\ \A x \in DOMAIN lease \ {k} : lease'[x] = lease[x]
<1>1. IsChargeMap(lease)
  BY LeaseIsChargeMap
<1>2. /\ DOMAIN lease' = DOMAIN lease
      /\ lease'[k] = amount
      /\ \A x \in DOMAIN lease \ {k} : lease'[x] = lease[x]
      /\ Total(lease') = (Total(lease) - lease[k]) + amount
      /\ Total(lease) \in Nat
      /\ lease[k] \in Nat
      /\ lease[k] <= Total(lease)
  BY <1>1, TotalRecharged
<1>3. reserved' = reserved - lease[k] + amount /\ lease[k] <= reserved
  BY <1>2 DEF Monus, Accounting
<1> QED BY <1>2, <1>3 DEF Accounting

------------------------------------------------------------------------------
(* The channel. *)

LEMMA AppendLemma ==
    ASSUME NEW k \in Jobs, channel \in Seq(Jobs), channel' = Append(channel, k)
    PROVE  /\ channel' \in Seq(Jobs)
           /\ InChannel' = InChannel \cup {k}
           /\ Len(channel') = Len(channel) + 1
           /\ channel'[Len(channel) + 1] = k
           /\ \A i \in 1..Len(channel) : channel'[i] = channel[i]
BY DEF InChannel

LEMMA TailLemma ==
    ASSUME channel \in Seq(Jobs), channel # <<>>, channel' = Tail(channel)
    PROVE  /\ channel' \in Seq(Jobs)
           /\ Len(channel') = Len(channel) - 1
           /\ Len(channel) \in Nat \ {0}
           /\ Head(channel) = channel[1]
           /\ \A i \in 1..Len(channel') : channel'[i] = channel[i + 1]
           /\ InChannel' \cup {Head(channel)} = InChannel
<1>1. /\ channel' \in Seq(Jobs)
      /\ Len(channel) \in Nat \ {0}
      /\ Len(channel') = Len(channel) - 1
      /\ Head(channel) = channel[1]
      /\ \A i \in 1..Len(channel') : channel'[i] = channel[i + 1]
  OBVIOUS
<1>2. ASSUME NEW x \in InChannel
      PROVE  x \in InChannel' \cup {Head(channel)}
  <2>1. PICK i \in 1..Len(channel) : x = channel[i]
    BY DEF InChannel
  <2>2. CASE i = 1
    BY <1>1, <2>1, <2>2
  <2>3. CASE i # 1
    <3>1. i - 1 \in 1..Len(channel') /\ (i - 1) + 1 = i
      BY <1>1, <2>1, <2>3
    <3>2. channel'[i - 1] = x
      BY <1>1, <2>1, <3>1
    <3> QED BY <3>1, <3>2 DEF InChannel
  <2> QED BY <2>2, <2>3
<1>3. ASSUME NEW x \in InChannel' \cup {Head(channel)}
      PROVE  x \in InChannel
  <2>1. CASE x = Head(channel)
    BY <1>1, <2>1 DEF InChannel
  <2>2. CASE x \in InChannel'
    <3>1. PICK i \in 1..Len(channel') : x = channel'[i]
      BY <2>2 DEF InChannel
    <3>2. i + 1 \in 1..Len(channel) /\ x = channel[i + 1]
      BY <1>1, <3>1
    <3> QED BY <3>2 DEF InChannel
  <2> QED BY <2>1, <2>2
<1> QED BY <1>1, <1>2, <1>3

------------------------------------------------------------------------------
(* The workers. *)

LEMMA InitLemma == Init => IInv
<1> SUFFICES ASSUME Init PROVE IInv
  OBVIOUS
<1>1. DOMAIN lease = {} /\ InChannel = {} /\ Len(channel) = 0
  BY DEF Init, InChannel
<1>2. TypeOK
  <2>1. channel \in Seq(Jobs) /\ lease \in [{} -> {0}]
    BY DEF Init
  <2>2. next \in 0..N /\ front \in 1..(N + 1) /\ job \in [Workers -> 0..N]
    BY PipelineAssumption DEF Init
  <2> QED BY <1>1, <2>1, <2>2 DEF Init, TypeOK
<1>3. Accounting
  BY <1>1, TotalEmpty, FS_EmptySet DEF Init, Accounting
<1>4. WithinLimits /\ NoLostWakeup /\ OnePlace /\ Leases
  BY <1>1, PipelineAssumption
     DEF Init, WithinLimits, NoLostWakeup, OnePlace, Leases, Holding
<1> QED BY <1>2, <1>3, <1>4 DEF IInv

LEMMA StopsAndSleeps ==
    ASSUME IInv, NEW w \in Workers, NoMoreJobs(w) \/ Wait(w) \/ Panic(w)
    PROVE  IInv'
<1> USE DEF IInv
<1>1. /\ budget' = budget /\ job' = job /\ lease' = lease
      /\ channel' = channel /\ ready' = ready /\ coordinator' = coordinator
      /\ \E state \in {"returned", "waiting", "panicked"} :
            pc' = [pc EXCEPT ![w] = state]
  BY DEF NoMoreJobs, Wait, Panic
<1>2. TypeOK'
  BY <1>1 DEF TypeOK, budget, coordinator
<1>3. Accounting' /\ WithinLimits' /\ InChannel' = InChannel
  BY <1>1 DEF Accounting, WithinLimits, budget, InChannel
<1>4. NoLostWakeup'
  BY <1>1 DEF NoMoreJobs, Wait, Panic, NoLostWakeup, Admissible, Monus, budget, TypeOK
<1>5. \A v \in Workers : Holding(v)' => Holding(v)
  BY DEF NoMoreJobs, Wait, Panic, Holding, TypeOK
<1>6. OnePlace'
  BY <1>1, <1>3, <1>5 DEF OnePlace
<1>7. Leases'
  BY <1>1 DEF Leases, budget, TypeOK
<1> QED BY <1>2, <1>3, <1>4, <1>6, <1>7

LEMMA AdmitStep ==
    ASSUME IInv, NEW w \in Workers, Admit(w)
    PROVE  IInv'
<1> USE DEF IInv
<1> DEFINE k == next + 1
<1>1. /\ k \in Jobs /\ k \notin DOMAIN lease
      /\ Reservation[k] \in Nat /\ Reservation[k] <= Limit - reserved
      /\ active < MaxActive
  BY PipelineAssumption
     DEF Admit, Admissible, Monus, TypeOK, Jobs, Leases, WithinLimits
<1>2. /\ next' = k
      /\ reserved' = reserved + Reservation[k]
      /\ active' = active + 1
      /\ lease' = Charged(lease, k, Reservation[k])
      /\ job' = [job EXCEPT ![w] = k]
      /\ pc' = [pc EXCEPT ![w] = "executing"]
      /\ UNCHANGED <<cancelled, channel, ready, phase, front>>
  BY DEF Admit, coordinator
<1> HIDE DEF k
<1>3. /\ Accounting'
      /\ DOMAIN lease' = DOMAIN lease \cup {k}
      /\ lease'[k] = Reservation[k]
      /\ \A x \in DOMAIN lease : lease'[x] = lease[x]
  BY <1>1, <1>2, AdmitLemma, BudgetTyped
<1>4. TypeOK'
  BY <1>1, <1>2, <1>3 DEF TypeOK, Jobs
<1>5. WithinLimits'
  BY <1>1, <1>2, PipelineAssumption DEF WithinLimits, TypeOK
<1>6. NoLostWakeup'
  <2>1. \A v \in Workers : pc[v] # "waiting"
    BY DEF NoLostWakeup, Admit
  <2> QED BY <1>2, <2>1 DEF NoLostWakeup, TypeOK
<1>7. OnePlace'
  <2>1. /\ \A v \in Workers \ {w} : job'[v] = job[v] /\ (Holding(v)' <=> Holding(v))
        /\ job'[w] = k
        /\ InChannel' = InChannel
    BY <1>2 DEF Holding, TypeOK, InChannel
  <2> QED BY <1>1, <1>2, <1>3, <2>1 DEF OnePlace
<1>8. Leases'
  <2>1. ASSUME NEW v \in Workers, pc'[v] = "executing"
        PROVE  lease'[job'[v]] = Reservation[job'[v]]
    <3>1. CASE v = w
      BY <1>2, <1>3, <3>1 DEF TypeOK
    <3>2. CASE v # w
      <4>1. pc[v] = "executing" /\ job'[v] = job[v]
        BY <1>2, <2>1, <3>2 DEF TypeOK
      <4>2. job[v] \in DOMAIN lease
        BY <4>1 DEF OnePlace, Holding
      <4> QED BY <1>3, <4>1, <4>2 DEF Leases
    <3> QED BY <3>1, <3>2
  <2>2. \A x \in DOMAIN lease' : x <= next'
    BY <1>2, <1>3, k \in Nat DEF Leases, TypeOK, Jobs, k
  <2> QED BY <2>1, <2>2 DEF Leases
<1> QED BY <1>3, <1>4, <1>5, <1>6, <1>7, <1>8

\* After notify_all nobody sleeps, and nobody else moved.
LEMMA WokenLemma ==
    ASSUME TypeOK
    PROVE  /\ Woken \in [Workers -> {"admitting", "waiting", "executing",
                                     "sending", "returned", "panicked"}]
           /\ \A v \in Workers : Woken[v] # "waiting"
           /\ \A v \in Workers :
                 \A s \in {"executing", "sending", "panicked"} :
                    Woken[v] = s <=> pc[v] = s
BY DEF Woken, TypeOK

LEMMA CompleteStep ==
    ASSUME IInv, NEW w \in Workers, Complete(w)
    PROVE  IInv'
<1> USE DEF IInv
<1> DEFINE k == job[w]
<1>1. /\ pc[w] = "executing"
      /\ k \in DOMAIN lease
      /\ k \in Jobs
      /\ lease[k] = Reservation[k]
      /\ Reservation[k] \in Nat
  BY PipelineAssumption DEF Complete, OnePlace, Holding, Leases, TypeOK
<1>2. PICK size \in Sizes :
         /\ reserved' = Monus(reserved, Reservation[k]) + AtMost(size, Reservation[k])
         /\ lease' = Charged(lease, k, AtMost(size, Reservation[k]))
  BY DEF Complete
<1> DEFINE amount == AtMost(size, Reservation[k])
<1>3. amount \in Nat /\ amount <= Reservation[k]
  BY <1>1, PipelineAssumption DEF AtMost
<1>4. /\ pc' = [Woken EXCEPT ![w] = "sending"]
      /\ UNCHANGED <<next, active, cancelled, job, channel, ready, phase, front>>
  BY DEF Complete, coordinator
<1> HIDE DEF k, amount
<1>5. /\ reserved' = Monus(reserved, lease[k]) + amount
      /\ lease' = Charged(lease, k, amount)
  BY <1>1, <1>2 DEF amount
<1>6. /\ Accounting'
      /\ reserved' = reserved - lease[k] + amount
      /\ lease[k] <= reserved
      /\ DOMAIN lease' = DOMAIN lease
      /\ lease'[k] = amount
      /\ \A x \in DOMAIN lease \ {k} : lease'[x] = lease[x]
  BY <1>1, <1>3, <1>4, <1>5, RechargeLemma, BudgetTyped
<1>7. /\ pc' \in [Workers -> {"admitting", "waiting", "executing", "sending",
                              "returned", "panicked"}]
      /\ \A v \in Workers : pc'[v] # "waiting"
      /\ \A v \in Workers \ {w} : Holding(v)' <=> Holding(v)
      /\ \A v \in Workers : pc'[v] = "executing" => v # w /\ pc[v] = "executing"
      /\ Holding(w)
  <2>1. /\ Woken \in [Workers -> {"admitting", "waiting", "executing", "sending",
                                  "returned", "panicked"}]
        /\ \A v \in Workers : Woken[v] # "waiting"
        /\ \A v \in Workers :
              \A s \in {"executing", "sending", "panicked"} :
                 Woken[v] = s <=> pc[v] = s
    BY WokenLemma
  <2>2. /\ pc' \in [Workers -> {"admitting", "waiting", "executing", "sending",
                                "returned", "panicked"}]
        /\ pc'[w] = "sending"
        /\ \A v \in Workers \ {w} : pc'[v] = Woken[v]
    BY <1>4, <2>1
  <2>3. \A v \in Workers \ {w} : Holding(v)' <=> Holding(v)
    BY <2>1, <2>2 DEF Holding
  <2>4. \A v \in Workers : pc'[v] = "executing" => v # w /\ pc[v] = "executing"
    BY <2>1, <2>2
  <2> QED BY <1>1, <2>1, <2>2, <2>3, <2>4 DEF Holding
<1>8. TypeOK'
  <2>1. reserved' \in Nat
    BY <1>1, <1>3, <1>6 DEF TypeOK
  <2>2. DOMAIN lease' \subseteq Jobs /\ \A x \in DOMAIN lease' : lease'[x] \in Nat
    BY <1>3, <1>6 DEF TypeOK
  <2> QED BY <1>4, <1>7, <2>1, <2>2 DEF TypeOK
<1>9. WithinLimits'
  BY <1>1, <1>3, <1>4, <1>6, PipelineAssumption DEF WithinLimits, TypeOK
<1>10. NoLostWakeup'
  BY <1>7 DEF NoLostWakeup
<1>11. OnePlace'
  <2>1. InChannel' = InChannel
    BY <1>4 DEF InChannel
  <2>2. \A v \in Workers : Holding(v)' => Holding(v)
    BY <1>7
  <2> QED BY <1>4, <1>6, <2>1, <2>2 DEF OnePlace
<1>12. Leases'
  <2>1. ASSUME NEW v \in Workers, pc'[v] = "executing"
        PROVE  lease'[job'[v]] = Reservation[job'[v]]
    <3>1. v # w /\ pc[v] = "executing" /\ Holding(v) /\ job'[v] = job[v]
      BY <1>4, <1>7, <2>1 DEF Holding
    <3>2. job[v] \in DOMAIN lease \ {k}
      BY <1>7, <3>1 DEF OnePlace, k
    <3> QED BY <1>6, <3>1, <3>2 DEF Leases
  <2>2. \A x \in DOMAIN lease' : x <= next'
    BY <1>4, <1>6 DEF Leases
  <2> QED BY <2>1, <2>2 DEF Leases
<1> QED BY <1>6, <1>8, <1>9, <1>10, <1>11, <1>12

LEMMA SendStep ==
    ASSUME IInv, NEW w \in Workers, Send(w)
    PROVE  IInv'
<1> USE DEF IInv
<1> DEFINE k == job[w]
<1>1. /\ pc[w] = "sending" /\ Holding(w)
      /\ k \in DOMAIN lease /\ k \in Jobs
      /\ k \notin InChannel \cup ready
  BY DEF Send, OnePlace, Holding, TypeOK
<1>2. /\ channel' = Append(channel, k)
      /\ job' = [job EXCEPT ![w] = 0]
      /\ pc' = [pc EXCEPT ![w] = "admitting"]
      /\ UNCHANGED <<next, reserved, active, cancelled, lease, ready, phase, front>>
  BY DEF Send, budget, coordinator
<1> HIDE DEF k
<1>3. /\ channel' \in Seq(Jobs)
      /\ InChannel' = InChannel \cup {k}
      /\ Len(channel') = Len(channel) + 1
      /\ channel'[Len(channel) + 1] = k
      /\ \A i \in 1..Len(channel) : channel'[i] = channel[i]
  BY <1>1, <1>2, AppendLemma DEF TypeOK
<1>4. /\ \A v \in Workers : Holding(v)' => Holding(v) /\ v # w
      /\ \A v \in Workers \ {w} : job'[v] = job[v] /\ pc'[v] = pc[v]
      /\ pc'[w] = "admitting"
  BY <1>2 DEF Holding, TypeOK
<1>5. TypeOK'
  BY <1>2, <1>3, PipelineAssumption DEF TypeOK
<1>6. Accounting' /\ WithinLimits'
  BY <1>2 DEF Accounting, WithinLimits
<1>7. NoLostWakeup'
  <2>1. (\E v \in Workers : pc'[v] = "waiting") => \E v \in Workers : pc[v] = "waiting"
    BY <1>4
  <2> QED BY <1>2, <2>1 DEF NoLostWakeup, Admissible
<1>8. OnePlace'
  <2>1. \A v \in Workers : Holding(v)' => job'[v] # k /\ job'[v] = job[v]
    BY <1>1, <1>4 DEF OnePlace, k
  <2>2. \A v \in Workers : Holding(v)' => job'[v] \in DOMAIN lease'
    BY <1>2, <1>4 DEF OnePlace
  <2>3. \A u, v \in Workers : Holding(u)' /\ Holding(v)' /\ job'[u] = job'[v] => u = v
    BY <1>4 DEF OnePlace
  <2>4. \A v \in Workers : Holding(v)' => job'[v] \notin InChannel' \cup ready'
    BY <1>2, <1>3, <1>4, <2>1 DEF OnePlace
  <2>5. ASSUME NEW i \in 1..Len(channel'), NEW j \in 1..Len(channel'),
               channel'[i] = channel'[j]
        PROVE  i = j
    <3>1. Len(channel) \in Nat
      BY DEF TypeOK
    <3>2. \A n \in 1..Len(channel) : channel'[n] # k
      BY <1>1, <1>3 DEF InChannel
    <3>3. \A n \in 1..Len(channel') : n \in 1..Len(channel) \/ n = Len(channel) + 1
      BY <1>3, <3>1
    <3> QED BY <1>3, <2>5, <3>2, <3>3 DEF OnePlace
  <2>6. InChannel' \cap ready' = {} /\ InChannel' \cup ready' \subseteq DOMAIN lease'
    BY <1>1, <1>2, <1>3 DEF OnePlace
  <2> QED BY <2>2, <2>3, <2>4, <2>5, <2>6 DEF OnePlace
<1>9. Leases'
  BY <1>2, <1>4 DEF Leases
<1> QED BY <1>5, <1>6, <1>7, <1>8, <1>9

\* A job is retired and every sleeping worker woken; whoever held the job lets
\* go of it.  The retirements of workers and coordinator have this in common.
LEMMA RetireStep ==
    ASSUME IInv, NEW k \in DOMAIN lease, Retire(k), next' = next,
           TypeOK => TypeOK', OnePlace',
           \A v \in Workers : pc'[v] # "waiting",
           \A v \in Workers : pc'[v] = "executing" =>
               pc[v] = "executing" /\ job'[v] = job[v] /\ job[v] # k
    PROVE  IInv'
<1>1. /\ Accounting'
      /\ reserved' \in Nat /\ reserved' <= reserved
      /\ active' \in Nat /\ active' <= active
      /\ DOMAIN lease' = DOMAIN lease \ {k}
      /\ \A x \in DOMAIN lease' : lease'[x] = lease[x]
  BY RetireLemma, BudgetTyped DEF IInv
<1>2. TypeOK' /\ NoLostWakeup'
  BY DEF IInv, NoLostWakeup
<1>3. WithinLimits'
  BY <1>1, PipelineAssumption DEF WithinLimits, IInv, TypeOK
<1>4. Leases'
  <2>1. ASSUME NEW v \in Workers, pc'[v] = "executing"
        PROVE  lease'[job'[v]] = Reservation[job'[v]]
    <3>1. pc[v] = "executing" /\ job'[v] = job[v] /\ job[v] # k
      BY <2>1
    <3>2. job[v] \in DOMAIN lease
      BY <3>1 DEF IInv, OnePlace, Holding
    <3> QED BY <1>1, <3>1, <3>2 DEF IInv, Leases
  <2> QED BY <1>1, <2>1 DEF IInv, Leases
<1> QED BY <1>1, <1>2, <1>3, <1>4 DEF IInv

\* What a retirement does to the types of the budget.
LEMMA RetireTypes ==
    ASSUME IInv, NEW k \in DOMAIN lease, Retire(k)
    PROVE  /\ reserved' \in Nat /\ active' \in Nat
           /\ DOMAIN lease' = DOMAIN lease \ {k}
           /\ DOMAIN lease' \subseteq Jobs
           /\ \A x \in DOMAIN lease' : lease'[x] \in Nat
BY RetireLemma, BudgetTyped DEF IInv, TypeOK

LEMMA SendFailsStep ==
    ASSUME IInv, NEW w \in Workers, SendFails(w)
    PROVE  IInv'
<1> DEFINE k == job[w]
<1>1. /\ Holding(w)
      /\ k \in DOMAIN lease
      /\ k \notin InChannel \cup ready
      /\ Retire(k)
  BY DEF SendFails, IInv, OnePlace, Holding
<1>2. /\ job' = [job EXCEPT ![w] = 0]
      /\ pc' = [Woken EXCEPT ![w] = "returned"]
      /\ UNCHANGED <<next, cancelled, channel, ready, phase, front>>
  BY DEF SendFails, coordinator
<1> HIDE DEF k
<1>3. /\ reserved' \in Nat /\ active' \in Nat
      /\ DOMAIN lease' = DOMAIN lease \ {k}
      /\ DOMAIN lease' \subseteq Jobs
      /\ \A x \in DOMAIN lease' : lease'[x] \in Nat
  BY <1>1, RetireTypes
<1>4. /\ pc' \in [Workers -> {"admitting", "waiting", "executing", "sending",
                              "returned", "panicked"}]
      /\ \A v \in Workers : pc'[v] # "waiting"
      /\ \A v \in Workers : Holding(v)' => v # w /\ Holding(v) /\ job'[v] = job[v]
      /\ \A v \in Workers : pc'[v] = "executing" => pc[v] = "executing"
  <2>1. /\ Woken \in [Workers -> {"admitting", "waiting", "executing", "sending",
                                  "returned", "panicked"}]
        /\ \A v \in Workers : Woken[v] # "waiting"
        /\ \A v \in Workers :
              \A s \in {"executing", "sending", "panicked"} :
                 Woken[v] = s <=> pc[v] = s
    BY WokenLemma DEF IInv
  <2>2. /\ pc' \in [Workers -> {"admitting", "waiting", "executing", "sending",
                                "returned", "panicked"}]
        /\ pc'[w] = "returned"
        /\ \A v \in Workers \ {w} : pc'[v] = Woken[v] /\ job'[v] = job[v]
    BY <1>2, <2>1 DEF IInv, TypeOK
  <2> QED BY <2>1, <2>2 DEF Holding
<1>5. TypeOK'
  BY <1>2, <1>3, <1>4, PipelineAssumption DEF IInv, TypeOK
<1>6. \A v \in Workers : Holding(v)' => job'[v] # k
  BY <1>1, <1>4 DEF IInv, OnePlace, k
<1>7. OnePlace'
  <2>1. InChannel' = InChannel
    BY <1>2 DEF InChannel
  <2> QED BY <1>1, <1>2, <1>3, <1>4, <1>6, <2>1 DEF IInv, OnePlace
<1>8. \A v \in Workers : pc'[v] = "executing" =>
          pc[v] = "executing" /\ job'[v] = job[v] /\ job[v] # k
  BY <1>4, <1>6 DEF Holding
<1> QED BY <1>1, <1>2, <1>4, <1>5, <1>7, <1>8, RetireStep

------------------------------------------------------------------------------
(* The coordinator. *)

\* Asking, moving on and leaving change neither the budget nor the results.
LEMMA AskingStep ==
    ASSUME IInv,
           \/ \E k \in Jobs : CallTake(k)
           \/ \E k \in 1..(N + 1) : CallDiscard(k)
           \/ DiscardDone \/ Join
    PROVE  IInv'
<1>1. /\ budget' = budget /\ workers' = workers /\ lease' = lease
      /\ channel' = channel /\ ready' = ready
      /\ phase' \in {"taking", "discarding", "working", "joined"}
      /\ front' \in 1..(N + 1)
  BY PipelineAssumption
     DEF CallTake, CallDiscard, DiscardDone, Join, Jobs, IInv, TypeOK
<1>2. InChannel' = InChannel /\ \A v \in Workers : Holding(v)' <=> Holding(v)
  BY <1>1 DEF InChannel, Holding, workers
<1>3. TypeOK'
  BY <1>1 DEF IInv, TypeOK, budget, workers
<1>4. Accounting' /\ WithinLimits' /\ NoLostWakeup' /\ Leases'
  BY <1>1 DEF IInv, Accounting, WithinLimits, NoLostWakeup, Leases, Admissible,
              budget, workers
<1>5. OnePlace'
  BY <1>1, <1>2 DEF IInv, OnePlace, workers
<1> QED BY <1>3, <1>4, <1>5 DEF IInv

LEMMA ReceiveStep ==
    ASSUME IInv, Receive
    PROVE  IInv'
<1> DEFINE k == Head(channel)
<1>1. /\ channel # <<>> /\ channel' = Tail(channel)
      /\ ready' = ready \cup {k}
      /\ UNCHANGED <<next, reserved, active, cancelled, pc, job, lease, phase, front>>
  BY DEF Receive, budget, workers, coordinator
<1>2. /\ channel' \in Seq(Jobs)
      /\ Len(channel') = Len(channel) - 1
      /\ Len(channel) \in Nat \ {0}
      /\ k = channel[1]
      /\ \A i \in 1..Len(channel') : channel'[i] = channel[i + 1]
      /\ InChannel' \cup {k} = InChannel
  BY <1>1, TailLemma DEF IInv, TypeOK
<1> HIDE DEF k
<1>3. k \in InChannel /\ k \in DOMAIN lease /\ k \in Jobs
  BY <1>2 DEF IInv, OnePlace, TypeOK
<1>4. TypeOK'
  BY <1>1, <1>2, <1>3 DEF IInv, TypeOK
<1>5. Accounting' /\ WithinLimits' /\ NoLostWakeup' /\ Leases'
  BY <1>1 DEF IInv, Accounting, WithinLimits, NoLostWakeup, Leases, Admissible
<1>6. OnePlace'
  <2>1. \A v \in Workers : Holding(v)' <=> Holding(v)
    BY <1>1 DEF Holding
  <2>2. ASSUME NEW i \in 1..Len(channel'), NEW j \in 1..Len(channel'),
               channel'[i] = channel'[j]
        PROVE  i = j
    <3>1. i + 1 \in 1..Len(channel) /\ j + 1 \in 1..Len(channel)
      BY <1>2
    <3>2. channel[i + 1] = channel[j + 1]
      BY <1>2, <2>2
    <3>3. i + 1 = j + 1
      BY <3>1, <3>2 DEF IInv, OnePlace
    <3> QED BY <1>2, <3>3
  <2>3. k \notin InChannel'
    <3>1. ASSUME NEW i \in 1..Len(channel')
          PROVE  channel'[i] # k
      <4>1. i + 1 \in 1..Len(channel) /\ 1 \in 1..Len(channel) /\ i + 1 # 1
        BY <1>2
      <4>2. channel[i + 1] # channel[1]
        BY <4>1 DEF IInv, OnePlace
      <4> QED BY <1>2, <4>2
    <3> QED BY <3>1 DEF InChannel
  <2>4. InChannel' \cup ready' = InChannel \cup ready
    BY <1>1, <1>2
  <2>5. InChannel' \cap ready' = {}
    BY <1>1, <1>2, <2>3 DEF IInv, OnePlace
  <2>6. \A v \in Workers : Holding(v)' =>
            job'[v] \in DOMAIN lease' /\ job'[v] \notin InChannel' \cup ready'
    BY <1>1, <2>1, <2>4 DEF IInv, OnePlace
  <2>7. \A u, v \in Workers : Holding(u)' /\ Holding(v)' /\ job'[u] = job'[v] => u = v
    BY <1>1, <2>1 DEF IInv, OnePlace
  <2>8. InChannel' \cup ready' \subseteq DOMAIN lease'
    BY <1>1, <2>4 DEF IInv, OnePlace
  <2> QED BY <2>2, <2>5, <2>6, <2>7, <2>8 DEF OnePlace
<1> QED BY <1>4, <1>5, <1>6 DEF IInv

\* take and discard_before retire one received result.
LEMMA RetireReadyStep ==
    ASSUME IInv, NEW k \in ready, Retire(k),
           ready' = ready \ {k}, pc' = Woken,
           UNCHANGED <<next, cancelled, job, channel>>,
           phase' \in {"working", "discarding"}, front' \in 1..(N + 1)
    PROVE  IInv'
<1>1. k \in DOMAIN lease
  BY DEF IInv, OnePlace
<1>2. /\ reserved' \in Nat /\ active' \in Nat
      /\ DOMAIN lease' = DOMAIN lease \ {k}
      /\ DOMAIN lease' \subseteq Jobs
      /\ \A x \in DOMAIN lease' : lease'[x] \in Nat
  BY <1>1, RetireTypes
<1>3. /\ pc' \in [Workers -> {"admitting", "waiting", "executing", "sending",
                              "returned", "panicked"}]
      /\ \A v \in Workers : pc'[v] # "waiting"
      /\ \A v \in Workers :
            \A s \in {"executing", "sending", "panicked"} : pc'[v] = s <=> pc[v] = s
  BY WokenLemma DEF IInv
<1>4. \A v \in Workers : Holding(v)' <=> Holding(v)
  BY <1>3 DEF Holding
<1>5. \A v \in Workers : Holding(v) => job[v] # k
  BY DEF IInv, OnePlace
<1>6. TypeOK'
  BY <1>2, <1>3 DEF IInv, TypeOK
<1>7. InChannel' = InChannel
  BY DEF InChannel
<1>8. OnePlace'
  BY <1>2, <1>4, <1>5, <1>7 DEF IInv, OnePlace
<1>9. \A v \in Workers : pc'[v] = "executing" =>
          pc[v] = "executing" /\ job'[v] = job[v] /\ job[v] # k
  BY <1>3, <1>5 DEF Holding
<1> QED BY <1>1, <1>3, <1>6, <1>8, <1>9, RetireStep

LEMMA TakeStep == ASSUME IInv, Take PROVE IInv'
<1>1. /\ front \in ready /\ Retire(front)
      /\ ready' = ready \ {front} /\ pc' = Woken
      /\ UNCHANGED <<next, cancelled, job, channel>>
      /\ phase' = "working" /\ front' = front + 1
  BY DEF Take
<1>2. front + 1 \in 1..(N + 1)
  BY <1>1, PipelineAssumption DEF IInv, TypeOK, Jobs
<1> QED BY <1>1, <1>2, RetireReadyStep

LEMMA DiscardStaleStep ==
    ASSUME IInv, NEW k \in Jobs, DiscardStale(k)
    PROVE  IInv'
<1>1. /\ k \in ready /\ Retire(k)
      /\ ready' = ready \ {k} /\ pc' = Woken
      /\ UNCHANGED <<next, cancelled, job, channel>>
      /\ phase' = "discarding" /\ front' = front
  BY DEF DiscardStale, coordinator
<1> QED BY <1>1, RetireReadyStep DEF IInv, TypeOK

LEMMA ReturnStep == ASSUME IInv, Return PROVE IInv'
<1>1. /\ UNCHANGED <<next, reserved, active, cancelled, pc, job, lease, front>>
      /\ channel' = <<>> /\ ready' = {} /\ phase' = "dropped"
  BY DEF Return, budget, workers
<1>2. channel' \in Seq(Jobs) /\ InChannel' = {} /\ Len(channel') = 0
  BY <1>1 DEF InChannel
<1>3. TypeOK'
  BY <1>1, <1>2 DEF IInv, TypeOK
<1>4. Accounting' /\ WithinLimits' /\ NoLostWakeup' /\ Leases'
  BY <1>1 DEF IInv, Accounting, WithinLimits, NoLostWakeup, Leases, Admissible
<1>5. OnePlace'
  BY <1>1, <1>2 DEF IInv, OnePlace, Holding
<1> QED BY <1>3, <1>4, <1>5 DEF IInv

LEMMA CancelStep == ASSUME IInv, Cancel PROVE IInv'
<1>1. /\ UNCHANGED <<next, reserved, active, job, lease, channel, ready, front>>
      /\ cancelled' = TRUE /\ pc' = Woken /\ phase' = "cancelled"
  BY DEF Cancel
<1>2. /\ pc' \in [Workers -> {"admitting", "waiting", "executing", "sending",
                              "returned", "panicked"}]
      /\ \A v \in Workers : pc'[v] # "waiting"
      /\ \A v \in Workers :
            \A s \in {"executing", "sending", "panicked"} : pc'[v] = s <=> pc[v] = s
  BY <1>1, WokenLemma DEF IInv
<1>3. TypeOK'
  BY <1>1, <1>2 DEF IInv, TypeOK
<1>4. Accounting' /\ WithinLimits' /\ NoLostWakeup' /\ Leases'
  BY <1>1, <1>2 DEF IInv, Accounting, WithinLimits, NoLostWakeup, Leases
<1>5. InChannel' = InChannel /\ \A v \in Workers : Holding(v)' <=> Holding(v)
  BY <1>1, <1>2 DEF InChannel, Holding
<1>6. OnePlace'
  BY <1>1, <1>5 DEF IInv, OnePlace
<1> QED BY <1>3, <1>4, <1>6 DEF IInv

LEMMA StutterStep == ASSUME IInv, UNCHANGED vars PROVE IInv'
BY DEF vars, budget, workers, coordinator, IInv, TypeOK, Accounting, WithinLimits,
       NoLostWakeup, OnePlace, Leases, Admissible, Holding, InChannel

------------------------------------------------------------------------------

\* Every step of a worker or of any coordinator keeps the invariant.
LEMMA NextStep == IInv /\ [Next]_vars => IInv'
<1> SUFFICES ASSUME IInv, [Next]_vars PROVE IInv'
  OBVIOUS
<1>1. ASSUME NEW w \in Workers, Worker(w)
      PROVE  IInv'
  <2>1. CASE NoMoreJobs(w) \/ Wait(w) \/ Panic(w)
    BY <2>1, StopsAndSleeps
  <2>2. CASE Admit(w)
    BY <2>2, AdmitStep
  <2>3. CASE Complete(w)
    BY <2>3, CompleteStep
  <2>4. CASE Send(w)
    BY <2>4, SendStep
  <2>5. CASE SendFails(w)
    BY <2>5, SendFailsStep
  <2> QED BY <1>1, <2>1, <2>2, <2>3, <2>4, <2>5 DEF Worker
<1>2. CASE Coordinator
  <2>1. CASE \/ \E k \in Jobs : CallTake(k)
             \/ \E k \in 1..(N + 1) : CallDiscard(k)
             \/ DiscardDone \/ Join
    BY <2>1, AskingStep
  <2>2. CASE Receive
    BY <2>2, ReceiveStep
  <2>3. CASE Take
    BY <2>3, TakeStep
  <2>4. CASE \E k \in Jobs : DiscardStale(k)
    BY <2>4, DiscardStaleStep
  <2>5. CASE Return
    BY <2>5, ReturnStep
  <2>6. CASE Cancel
    BY <2>6, CancelStep
  <2> QED BY <1>2, <2>1, <2>2, <2>3, <2>4, <2>5, <2>6 DEF Coordinator
<1>3. CASE UNCHANGED vars
  BY <1>3, StutterStep
<1> QED BY <1>1, <1>2, <1>3 DEF Next

------------------------------------------------------------------------------
(* Where the unretired jobs are, while the coordinator runs. *)

\* Every admitted job that the coordinator may still ask for is unretired.
Pending == \A k \in Jobs : front <= k /\ k <= next => k \in DOMAIN lease

\* Every unretired job is somewhere: no result is dropped on its way.
Placed ==
    \A k \in DOMAIN lease :
        \/ k \in InChannel \cup ready
        \/ \E w \in Workers : Holding(w) /\ job[w] = k

\* A worker that has gone home saw the last job admitted.
Exhausted == \A w \in Workers : pc[w] = "returned" => next >= N

Flow ==
    /\ phase = "taking" => front <= N
    /\ \A w \in Workers : pc[w] = "panicked" => job[w] \in Panicking
    /\ ReceiverAlive => /\ ~cancelled
                        /\ Pending
                        /\ Placed
                        /\ Exhausted

USE DEF Flow

LEMMA FlowInit == Init => Flow
BY PipelineAssumption DEF Init, Pending, Placed, Exhausted, Jobs, ReceiverAlive

LEMMA NoMoreJobsFlows ==
    ASSUME IInv, IInv', Flow, NEW w \in Workers, NoMoreJobs(w)
    PROVE  Flow'
BY DEF IInv, TypeOK, NoMoreJobs, Pending, Placed, Exhausted, Holding, ReceiverAlive,
       InChannel, budget, coordinator

LEMMA WaitFlows ==
    ASSUME IInv, IInv', Flow, NEW w \in Workers, Wait(w)
    PROVE  Flow'
<1>1. /\ pc' = [pc EXCEPT ![w] = "waiting"]
      /\ pc[w] = "admitting"
      /\ UNCHANGED <<next, cancelled, job, lease, channel, ready, phase, front>>
  BY DEF Wait, budget, coordinator
<1>2. \A v \in Workers : Holding(v)' <=> Holding(v)
  BY <1>1 DEF Holding, IInv, TypeOK
<1>3. Pending => Pending'
  BY <1>1 DEF Pending
<1>4. Placed => Placed'
  BY <1>1, <1>2 DEF Placed, InChannel
<1>5. Exhausted => Exhausted'
  BY <1>1 DEF Exhausted, IInv, TypeOK
<1>6. (\A v \in Workers : pc[v] = "panicked" => job[v] \in Panicking)'
  BY <1>1 DEF IInv, TypeOK
<1> QED BY <1>1, <1>3, <1>4, <1>5, <1>6 DEF ReceiverAlive

LEMMA PanicFlows ==
    ASSUME IInv, IInv', Flow, NEW w \in Workers, Panic(w)
    PROVE  Flow'
<1>1. /\ pc' = [pc EXCEPT ![w] = "panicked"]
      /\ pc[w] = "executing" /\ job[w] \in Panicking
      /\ UNCHANGED <<next, cancelled, job, lease, channel, ready, phase, front>>
  BY DEF Panic, budget, coordinator
<1>2. \A v \in Workers : Holding(v)' <=> Holding(v)
  BY <1>1 DEF Holding, IInv, TypeOK
<1>3. Pending => Pending'
  BY <1>1 DEF Pending
<1>4. Placed => Placed'
  BY <1>1, <1>2 DEF Placed, InChannel
<1>5. Exhausted => Exhausted'
  BY <1>1 DEF Exhausted, IInv, TypeOK
<1> QED BY <1>1, <1>3, <1>4, <1>5 DEF ReceiverAlive, IInv, TypeOK

LEMMA AdmitFlows ==
    ASSUME IInv, IInv', Flow, NEW w \in Workers, Admit(w)
    PROVE  Flow'
<1>1. \A k : k \in DOMAIN lease' <=> k \in DOMAIN lease \/ k = next + 1
  BY DEF Admit, Charged
<1>2. /\ pc' = [pc EXCEPT ![w] = "executing"]
      /\ job' = [job EXCEPT ![w] = next + 1]
      /\ next' = next + 1
      /\ pc[w] = "admitting"
      /\ UNCHANGED <<cancelled, channel, ready, phase, front>>
  BY DEF Admit, coordinator
<1>3. Pending => Pending'
  BY <1>1, <1>2 DEF Pending, Jobs, IInv, TypeOK
<1>4. Placed => Placed'
  <2>1. /\ Holding(w)' /\ job'[w] = next + 1 /\ ~Holding(w)
        /\ \A v \in Workers \ {w} : (Holding(v)' <=> Holding(v)) /\ job'[v] = job[v]
    BY <1>2 DEF Holding, IInv, TypeOK
  <2>2. InChannel' = InChannel
    BY <1>2 DEF InChannel
  <2> QED BY <1>1, <1>2, <2>1, <2>2 DEF Placed
<1>5. Exhausted => Exhausted'
  BY <1>2, PipelineAssumption DEF Exhausted, IInv, TypeOK
<1>6. (\A v \in Workers : pc[v] = "panicked" => job[v] \in Panicking)'
  BY <1>2 DEF IInv, TypeOK
<1> QED BY <1>2, <1>3, <1>4, <1>5, <1>6 DEF ReceiverAlive

LEMMA CompleteFlows ==
    ASSUME IInv, IInv', Flow, NEW w \in Workers, Complete(w)
    PROVE  Flow'
<1>1. job[w] \in DOMAIN lease
  BY DEF Complete, IInv, OnePlace, Holding
<1>2. DOMAIN lease' = DOMAIN lease
  BY <1>1 DEF Complete, Charged
<1>3. /\ pc' \in [Workers -> {"admitting", "waiting", "executing", "sending",
                              "returned", "panicked"}]
      /\ pc'[w] = "sending" /\ pc[w] = "executing"
      /\ \A v \in Workers \ {w} :
            pc'[v] = IF pc[v] = "waiting" THEN "admitting" ELSE pc[v]
      /\ UNCHANGED <<next, active, cancelled, job, channel, ready, phase, front>>
  BY DEF Complete, Woken, IInv, TypeOK, coordinator
<1>4. Pending => Pending'
  BY <1>2, <1>3 DEF Pending
<1>5. Placed => Placed'
  BY <1>2, <1>3 DEF Placed, InChannel, Holding
<1>6. Exhausted => Exhausted'
  BY <1>3 DEF Exhausted
<1> QED BY <1>3, <1>4, <1>5, <1>6 DEF ReceiverAlive

LEMMA SendFlows ==
    ASSUME IInv, IInv', Flow, NEW w \in Workers, Send(w)
    PROVE  Flow'
<1>1. /\ pc' = [pc EXCEPT ![w] = "admitting"] /\ pc[w] = "sending"
      /\ job' = [job EXCEPT ![w] = 0]
      /\ channel' = Append(channel, job[w])
      /\ UNCHANGED <<next, cancelled, lease, ready, phase, front>>
      /\ ReceiverAlive
  BY DEF Send, coordinator, budget
<1>2. Pending' /\ Exhausted'
  BY <1>1 DEF Pending, Exhausted, IInv, TypeOK
<1>3. job[w] \in Jobs
  BY <1>1 DEF IInv, TypeOK, OnePlace, Holding
<1>4. InChannel' = InChannel \cup {job[w]}
  BY <1>1, <1>3, AppendLemma DEF IInv, TypeOK, InChannel
<1>5. Placed'
  BY <1>1, <1>4 DEF Placed, Holding, IInv, TypeOK
<1> QED BY <1>1, <1>2, <1>5 DEF ReceiverAlive, IInv, TypeOK

LEMMA SendFailsFlows ==
    ASSUME IInv, IInv', Flow, NEW w \in Workers, SendFails(w)
    PROVE  Flow'
BY DEF SendFails, coordinator, ReceiverAlive, Woken, IInv, TypeOK

LEMMA ReceiveFlows ==
    ASSUME IInv, IInv', Flow, Receive
    PROVE  Flow'
<1>1. /\ ready' = ready \cup {Head(channel)}
      /\ channel' = Tail(channel) /\ channel # <<>>
      /\ UNCHANGED <<next, cancelled, pc, job, lease, phase, front>>
  BY DEF Receive, coordinator, budget, workers
<1>2. InChannel = InChannel' \cup {Head(channel)}
  BY <1>1, TailLemma DEF IInv, TypeOK, InChannel
<1>3. Placed => Placed'
  BY <1>1, <1>2 DEF Placed, Holding
<1> QED BY <1>1, <1>3 DEF Pending, Exhausted, ReceiverAlive

LEMMA TakeFlows ==
    ASSUME IInv, IInv', Flow, Take
    PROVE  Flow'
<1>1. /\ ready' = ready \ {front} /\ front \in ready
      /\ front' = front + 1
      /\ phase = "taking" /\ phase' = "working"
      /\ UNCHANGED <<next, cancelled, job, channel>>
      /\ pc' = Woken
  BY DEF Take
<1>2. \A k : k \in DOMAIN lease' <=> k \in DOMAIN lease /\ k # front
  BY DEF Take, Retire, Uncharged
<1>3. front \in DOMAIN lease /\ front \in Jobs
  BY <1>1 DEF IInv, OnePlace, TypeOK
<1>4. Pending'
  BY <1>1, <1>2, <1>3 DEF Pending, Jobs, IInv, TypeOK, ReceiverAlive
<1>5. \A w \in Workers :
        /\ Holding(w)' <=> Holding(w)
        /\ pc'[w] = "returned" <=> pc[w] = "returned"
        /\ pc'[w] = "panicked" <=> pc[w] = "panicked"
  BY <1>1 DEF Woken, Holding, IInv, TypeOK
<1>6. Placed'
  BY <1>1, <1>2, <1>5 DEF Placed, InChannel, ReceiverAlive
<1>7. Exhausted'
  BY <1>1, <1>5 DEF Exhausted, ReceiverAlive
<1> QED BY <1>1, <1>4, <1>5, <1>6, <1>7 DEF ReceiverAlive

LEMMA EndFlows ==
    ASSUME IInv, IInv', Flow, Return \/ Cancel \/ Join
    PROVE  Flow'
<1>1. ~ReceiverAlive' /\ phase' # "taking"
  BY DEF Return, Cancel, Join, ReceiverAlive
<1>2. \A w \in Workers : pc'[w] = "panicked" <=> pc[w] = "panicked"
  BY DEF Return, Cancel, Join, Woken, workers, IInv, TypeOK
<1>3. UNCHANGED job
  BY DEF Return, Cancel, Join, workers
<1> QED BY <1>1, <1>2, <1>3 DEF ReceiverAlive

LEMMA AskingFlows ==
    ASSUME IInv, IInv', Flow,
           \/ \E k \in Jobs : CallTake(k)
           \/ \E k \in 1..(N + 1) : CallDiscard(k)
           \/ DiscardDone
    PROVE  Flow'
<1>1. /\ UNCHANGED <<next, cancelled, pc, job, lease, channel, ready>>
      /\ ReceiverAlive
      /\ front <= front'
      /\ phase' = "taking" => front' <= N
  <2>1. ASSUME NEW k \in Jobs, CallTake(k)
        PROVE  /\ UNCHANGED <<next, cancelled, pc, job, lease, channel, ready>>
               /\ ReceiverAlive
               /\ front <= front'
               /\ phase' = "taking" => front' <= N
    <3>1. k <= N
      BY PipelineAssumption DEF Jobs
    <3> QED BY <2>1, <3>1 DEF CallTake, budget, workers, ReceiverAlive
  <2>2. CASE \E k \in 1..(N + 1) : CallDiscard(k)
    BY <2>2 DEF CallDiscard, budget, workers, ReceiverAlive
  <2>3. CASE DiscardDone
    BY <2>3, PipelineAssumption DEF DiscardDone, budget, workers, ReceiverAlive, IInv, TypeOK
  <2> QED BY <2>1, <2>2, <2>3
<1>2. Pending'
  <2>1. \A k \in Jobs : k \in Nat
    BY PipelineAssumption DEF Jobs
  <2>2. front \in Nat /\ front' \in Nat
    BY PipelineAssumption DEF IInv, TypeOK
  <2> QED BY <1>1, <2>1, <2>2 DEF Pending
<1>3. Placed' /\ Exhausted'
  BY <1>1 DEF Placed, Exhausted, InChannel, Holding
<1> QED BY <1>1, <1>2, <1>3

LEMMA DiscardStaleFlows ==
    ASSUME IInv, IInv', Flow, NEW x \in Jobs, DiscardStale(x)
    PROVE  Flow'
<1>1. /\ ready' = ready \ {x} /\ x < front
      /\ phase = "discarding"
      /\ UNCHANGED <<next, cancelled, job, channel, phase, front>>
      /\ pc' = Woken
  BY DEF DiscardStale, coordinator
<1>2. \A k : k \in DOMAIN lease' <=> k \in DOMAIN lease /\ k # x
  BY DEF DiscardStale, Retire, Uncharged
<1>3. \A w \in Workers :
        /\ Holding(w)' <=> Holding(w)
        /\ pc'[w] = "returned" <=> pc[w] = "returned"
        /\ pc'[w] = "panicked" <=> pc[w] = "panicked"
  BY <1>1 DEF Woken, Holding, IInv, TypeOK
<1>4. Pending'
  <2>1. x \in Nat
    BY PipelineAssumption DEF Jobs
  <2> QED BY <1>1, <1>2, <2>1 DEF Pending, Jobs, IInv, TypeOK, ReceiverAlive
<1>5. Placed'
  BY <1>1, <1>2, <1>3 DEF Placed, InChannel, ReceiverAlive
<1>6. Exhausted'
  BY <1>1, <1>3 DEF Exhausted, ReceiverAlive
<1> QED BY <1>1, <1>3, <1>4, <1>5, <1>6 DEF ReceiverAlive

LEMMA FlowStep == IInv /\ IInv' /\ Flow /\ [Next]_vars => Flow'
<1> SUFFICES ASSUME IInv, IInv', Flow, [Next]_vars PROVE Flow'
  OBVIOUS
<1>1. ASSUME NEW w \in Workers, Worker(w)
      PROVE  Flow'
  BY <1>1, NoMoreJobsFlows, WaitFlows, PanicFlows, AdmitFlows, CompleteFlows,
     SendFlows, SendFailsFlows DEF Worker
<1>2. CASE Coordinator
  BY <1>2, AskingFlows, ReceiveFlows, TakeFlows, DiscardStaleFlows, EndFlows
     DEF Coordinator
<1>3. CASE UNCHANGED vars
  BY <1>3 DEF vars, budget, workers, coordinator, Pending, Placed, Exhausted,
              Holding, ReceiverAlive, InChannel
<1> QED BY <1>1, <1>2, <1>3 DEF Next

\* The invariant together with the flow of results.
LEMMA PipelineFlow == Spec => [](IInv /\ Flow)
<1>1. Init => IInv /\ Flow
  BY InitLemma, FlowInit
<1>2. IInv /\ Flow /\ [Next]_vars => (IInv /\ Flow)'
  BY NextStep, FlowStep
<1> QED BY <1>1, <1>2, PTL DEF Spec

------------------------------------------------------------------------------
(* The theorems. *)

\* The inductive invariant holds in every behaviour of run_ordered.
THEOREM PipelineInvariant == Spec => []IInv
BY InitLemma, NextStep, PTL DEF Spec

\* State keeps its types, whatever the coordinator does.
THEOREM PipelineTypes == Spec => []TypeOK
<1>1. IInv => TypeOK
  BY DEF IInv
<1> QED BY <1>1, PipelineInvariant, PTL

\* The byte and job counters are exactly what the unretired jobs hold, so no
\* saturating operation of Budget hides a mistake.
THEOREM ExactAccounting == Spec => []Accounting
<1>1. IInv => Accounting
  BY DEF IInv
<1> QED BY <1>1, PipelineInvariant, PTL

\* The memory limit and the job limit of the call are never exceeded.
THEOREM BudgetNeverExceeded == Spec => []WithinLimits
<1>1. IInv => WithinLimits
  BY DEF IInv
<1> QED BY <1>1, PipelineInvariant, PTL

\* A sleeping worker has nothing it could do, and a change that gives it
\* something to do wakes it.
THEOREM WakeupsNotLost == Spec => []NoLostWakeup
<1>1. IInv => NoLostWakeup
  BY DEF IInv
<1> QED BY <1>1, PipelineInvariant, PTL

\* Every unretired job has one holder and every result is delivered once.
THEOREM ResultsUnique == Spec => []OnePlace
<1>1. IInv => OnePlace
  BY DEF IInv
<1> QED BY <1>1, PipelineInvariant, PTL
==============================================================================
