--------------------------- MODULE OrderedPipeline ---------------------------
(***************************************************************************)
(* run_ordered of src/pipeline.rs: worker threads take jobs strictly in    *)
(* order, but only while a byte budget and a job budget admit the next     *)
(* one; each sends its result to the coordinator over an unbounded         *)
(* channel; the coordinator asks for results by key and gives their bytes  *)
(* back.                                                                   *)
(*                                                                         *)
(* Jobs are numbered 1..N in the order of the `jobs` slice.  Every caller  *)
(* gives them strictly increasing keys, so the number stands for the key.  *)
(*                                                                         *)
(* This module leaves the coordinator open: it may ask for any job at or   *)
(* beyond the position it has reached, skip jobs, reject results that have *)
(* arrived for skipped jobs (discard_before), and return at any time.      *)
(* InOrderBatch and Bzip2Assembly are the coordinators of the code, and    *)
(* every step of theirs is a step of this module.                          *)
(*                                                                         *)
(* One action is one critical section of the budget's mutex, one channel   *)
(* operation, or the end of one job.  A wakeup that no notify_all caused   *)
(* is left out: it leads back to the same test under the same lock, and    *)
(* leaving it out means that no property can depend on one.                *)
(***************************************************************************)
EXTENDS Naturals, Sequences, FiniteSets, Charges

CONSTANTS
    N,            \* number of jobs
    Workers,      \* the threads of the pool that run the broadcast closure
    Limit,        \* PipelineLimits::memory
    MaxActive,    \* PipelineLimits::active
    Reservation,  \* Job::reservation of every job
    Sizes,        \* what retained_size may answer
    Panicking     \* the jobs whose execution panics

Jobs == 1..N

\* What every caller guarantees, and what run_ordered checks before it starts
\* a worker: no job reserves more than the whole budget.
ASSUME PipelineAssumption ==
    /\ N \in Nat
    /\ Workers # {}
    /\ Limit \in Nat
    /\ MaxActive \in Nat \ {0}
    /\ Reservation \in [Jobs -> Nat]
    /\ \A k \in Jobs : Reservation[k] <= Limit
    /\ Sizes \subseteq Nat
    /\ Panicking \subseteq Jobs

VARIABLES
    next,       \* State::next: how many jobs have been admitted
    reserved,   \* State::reserved
    active,     \* State::active
    cancelled,  \* State::cancelled
    pc,         \* where every worker is
    job,        \* the job a worker holds, 0 when it holds none
    lease,      \* charge map: the bytes every unretired job must give back
    channel,    \* results sent and not yet received, oldest first
    ready,      \* OrderedResults::ready: received and not yet asked for
    phase,      \* where the coordinator is
    front       \* the lowest job the coordinator may still ask for

budget == <<next, reserved, active, cancelled>>
workers == <<pc, job>>
coordinator == <<phase, front>>
vars == <<budget, workers, lease, channel, ready, coordinator>>

InChannel == {channel[i] : i \in 1..Len(channel)}

TypeOK ==
    /\ next \in 0..N
    /\ reserved \in Nat
    /\ active \in Nat
    /\ cancelled \in BOOLEAN
    /\ pc \in [Workers -> {"admitting", "waiting", "executing", "sending",
                           "returned", "panicked"}]
    /\ job \in [Workers -> 0..N]
    /\ DOMAIN lease \subseteq Jobs
    /\ \A k \in DOMAIN lease : lease[k] \in Nat
    /\ channel \in Seq(Jobs)
    /\ ready \subseteq Jobs
    /\ phase \in {"working", "taking", "discarding", "dropped", "cancelled",
                  "joined"}
    /\ front \in 1..(N + 1)

Init ==
    /\ next = 0
    /\ reserved = 0
    /\ active = 0
    /\ cancelled = FALSE
    /\ pc = [w \in Workers |-> "admitting"]
    /\ job = [w \in Workers |-> 0]
    /\ lease = [k \in {} |-> 0]
    /\ channel = <<>>
    /\ ready = {}
    /\ phase = "working"
    /\ front = 1

------------------------------------------------------------------------------
(* The budget. *)

Monus(a, b) == IF a < b THEN 0 ELSE a - b
\* Mutant of AtMost: the .min(job.reservation) of execute_job is dropped.
Unclamped(a, b) == a
AtMost(a, b) == IF a < b THEN a ELSE b

\* usize::saturating_sub keeps the difference from going below zero.
Admissible(k) ==
    /\ active < MaxActive
    /\ Reservation[k] <= Monus(Limit, reserved)

\* Mutant of Woken: notify_one.
WokenOne ==
    IF \E w \in Workers : pc[w] = "waiting"
    THEN [pc EXCEPT ![CHOOSE w \in Workers : pc[w] = "waiting"] = "admitting"]
    ELSE pc

\* Condvar::notify_all sends every waiting worker back to its test.
Woken == [w \in Workers |-> IF pc[w] = "waiting" THEN "admitting" ELSE pc[w]]

\* Mutant of Retire: it gives back the reservation, not what was retained.
RetireReservation(k) ==
    /\ reserved' = Monus(reserved, Reservation[k])
    /\ active' = Monus(active, 1)
    /\ lease' = Uncharged(lease, k)

\* Mutant of Retire: the job keeps its place among the active ones.
RetireBytesOnly(k) ==
    /\ reserved' = Monus(reserved, lease[k])
    /\ active' = active
    /\ lease' = Uncharged(lease, k)

Retire(k) ==
    /\ reserved' = Monus(reserved, lease[k])
    /\ active' = Monus(active, 1)
    /\ lease' = Uncharged(lease, k)

------------------------------------------------------------------------------
(* A worker. *)

\* Budget::next answers None, which ends the worker's loop.
NoMoreJobs(w) ==
    /\ pc[w] = "admitting"
    /\ cancelled \/ next >= N
    /\ pc' = [pc EXCEPT ![w] = "returned"]
    /\ UNCHANGED <<budget, job, lease, channel, ready, coordinator>>

\* Budget::next hands out the next job and charges its reservation.
Admit(w) ==
    /\ pc[w] = "admitting"
    /\ ~cancelled
    /\ next < N
    /\ Admissible(next + 1)
    /\ next' = next + 1
    /\ reserved' = reserved + Reservation[next + 1]
    /\ active' = active + 1
    /\ lease' = Charged(lease, next + 1, Reservation[next + 1])
    /\ job' = [job EXCEPT ![w] = next + 1]
    /\ pc' = [pc EXCEPT ![w] = "executing"]
    /\ UNCHANGED <<cancelled, channel, ready, coordinator>>

\* Budget::next blocks on the condition variable.
Wait(w) ==
    /\ pc[w] = "admitting"
    /\ ~cancelled
    /\ next < N
    /\ ~Admissible(next + 1)
    /\ pc' = [pc EXCEPT ![w] = "waiting"]
    /\ UNCHANGED <<budget, job, lease, channel, ready, coordinator>>

\* The job is done; Budget::complete shrinks its charge to what it retains.
Complete(w) ==
    LET k == job[w] IN
    /\ pc[w] = "executing"
    /\ k \notin Panicking
    /\ \E size \in Sizes :
          LET retained == AtMost(size, Reservation[k]) IN
          /\ reserved' = Monus(reserved, Reservation[k]) + retained
          /\ lease' = Charged(lease, k, retained)
    /\ pc' = [Woken EXCEPT ![w] = "sending"]
    /\ UNCHANGED <<next, active, cancelled, job, channel, ready, coordinator>>

\* The job panics.  The unwinding leaves the worker's closure, and the charge
\* of the job is never given back.
Panic(w) ==
    /\ pc[w] = "executing"
    /\ job[w] \in Panicking
    /\ pc' = [pc EXCEPT ![w] = "panicked"]
    /\ UNCHANGED <<budget, job, lease, channel, ready, coordinator>>

\* The coordinator's receiver exists until consume has returned.
ReceiverAlive == phase \in {"working", "taking", "discarding"}

Send(w) ==
    /\ pc[w] = "sending"
    /\ ReceiverAlive
    /\ channel' = Append(channel, job[w])
    /\ job' = [job EXCEPT ![w] = 0]
    /\ pc' = [pc EXCEPT ![w] = "admitting"]
    /\ UNCHANGED <<budget, lease, ready, coordinator>>

\* The send fails: the worker gives the bytes back itself and stops.
SendFails(w) ==
    /\ pc[w] = "sending"
    /\ ~ReceiverAlive
    /\ Retire(job[w])
    /\ job' = [job EXCEPT ![w] = 0]
    /\ pc' = [Woken EXCEPT ![w] = "returned"]
    /\ UNCHANGED <<next, cancelled, channel, ready, coordinator>>

Worker(w) ==
    \/ NoMoreJobs(w)
    \/ Admit(w)
    \/ Wait(w)
    \/ Complete(w)
    \/ Panic(w)
    \/ Send(w)
    \/ SendFails(w)

------------------------------------------------------------------------------
(* The coordinator. *)

\* OrderedResults::take(k) is called.
CallTake(k) ==
    /\ phase = "working"
    /\ front <= k
    /\ phase' = "taking"
    /\ front' = k
    /\ UNCHANGED <<budget, workers, lease, channel, ready>>

\* ... receives results until the one asked for is there.  The senders live
\* as long as the call of run_ordered, so recv never reports a disconnection.
Receive ==
    /\ phase = "taking"
    /\ front \notin ready
    /\ channel # <<>>
    /\ ready' = ready \cup {Head(channel)}
    /\ channel' = Tail(channel)
    /\ UNCHANGED <<budget, workers, lease, coordinator>>

\* Mutant of Take: it copies the result out and leaves it in `ready`.
TakeCopy ==
    /\ phase = "taking"
    /\ front \in ready
    /\ Retire(front)
    /\ pc' = Woken
    /\ front' = front + 1
    /\ phase' = "working"
    /\ UNCHANGED <<next, cancelled, job, channel, ready>>

\* ... and hands it over, giving its bytes back.
Take ==
    /\ phase = "taking"
    /\ front \in ready
    /\ ready' = ready \ {front}
    /\ Retire(front)
    /\ pc' = Woken
    /\ front' = front + 1
    /\ phase' = "working"
    /\ UNCHANGED <<next, cancelled, job, channel>>

\* OrderedResults::discard_before(k) is called.
CallDiscard(k) ==
    /\ phase = "working"
    /\ front <= k
    /\ phase' = "discarding"
    /\ front' = k
    /\ UNCHANGED <<budget, workers, lease, channel, ready>>

\* Mutant of DiscardStale: the results are dropped and nothing is given back.
DiscardKeepsBytes(k) ==
    /\ phase = "discarding"
    /\ k \in ready
    /\ k < front
    /\ ready' = ready \ {k}
    /\ UNCHANGED <<budget, workers, lease, channel, coordinator>>

\* ... gives back, one lock at a time, what the skipped results retain.
DiscardStale(k) ==
    /\ phase = "discarding"
    /\ k \in ready
    /\ k < front
    /\ ready' = ready \ {k}
    /\ Retire(k)
    /\ pc' = Woken
    /\ UNCHANGED <<next, cancelled, job, channel, coordinator>>

DiscardDone ==
    /\ phase = "discarding"
    /\ \A k \in ready : k >= front
    /\ phase' = "working"
    /\ UNCHANGED <<budget, workers, lease, channel, ready, front>>

\* consume returns, and the receiver with everything received is dropped.
Return ==
    /\ phase = "working"
    /\ phase' = "dropped"
    /\ channel' = <<>>
    /\ ready' = {}
    /\ UNCHANGED <<budget, workers, lease, front>>

\* Mutant of Cancel: it sets the flag and does not notify.
CancelSilently ==
    /\ phase = "dropped"
    /\ cancelled' = TRUE
    /\ phase' = "cancelled"
    /\ UNCHANGED <<next, reserved, active, workers, lease, channel, ready, front>>

\* Budget::cancel
Cancel ==
    /\ phase = "dropped"
    /\ cancelled' = TRUE
    /\ pc' = Woken
    /\ phase' = "cancelled"
    /\ UNCHANGED <<next, reserved, active, job, lease, channel, ready, front>>

\* The join of the broadcasting thread, which waits for every worker.
Join ==
    /\ phase = "cancelled"
    /\ \A w \in Workers : pc[w] \in {"returned", "panicked"}
    /\ phase' = "joined"
    /\ UNCHANGED <<budget, workers, lease, channel, ready, front>>

Coordinator ==
    \/ \E k \in Jobs : CallTake(k)
    \/ Receive
    \/ Take
    \/ \E k \in 1..(N + 1) : CallDiscard(k)
    \/ \E k \in Jobs : DiscardStale(k)
    \/ DiscardDone
    \/ Return
    \/ Cancel
    \/ Join

Next ==
    \/ \E w \in Workers : Worker(w)
    \/ Coordinator

Spec == Init /\ [][Next]_vars

(* The operating system runs every worker, and the coordinator returns from *)
(* consume through cancel and join without waiting for anything else.       *)
Fairness ==
    /\ \A w \in Workers : WF_vars(Worker(w))
    /\ WF_vars(Cancel)
    /\ WF_vars(Join)

FairSpec == Spec /\ Fairness

------------------------------------------------------------------------------
(* Properties. *)

Holding(w) == pc[w] \in {"executing", "sending", "panicked"}

\* State::reserved is exactly what the unretired jobs have to give back and
\* State::active exactly how many they are: none of the saturating operations
\* of Budget ever saturates, whatever the order in which results arrive, are
\* asked for, skipped or thrown away.
Accounting ==
    /\ reserved = Total(lease)
    /\ active = Cardinality(DOMAIN lease)

\* The budget holds at every instant, although complete, retire and next are
\* separate critical sections of different threads.
WithinLimits ==
    /\ reserved <= Limit
    /\ active <= MaxActive

\* No wakeup is lost: while a worker sleeps, the pipeline has another job, is
\* not cancelled, and the head of the queue really does not fit.
NoLostWakeup ==
    (\E w \in Workers : pc[w] = "waiting") =>
        /\ ~cancelled
        /\ next < N
        /\ ~Admissible(next + 1)

\* Every unretired job is in exactly one place while the coordinator lives:
\* with one worker, once in the channel, or in `ready`.  So no job runs twice,
\* no result is delivered twice, and take and discard_before never give the
\* bytes of one job back a second time.
OnePlace ==
    /\ \A w \in Workers : Holding(w) => job[w] \in DOMAIN lease
    /\ \A v, w \in Workers :
          Holding(v) /\ Holding(w) /\ job[v] = job[w] => v = w
    /\ \A w \in Workers : Holding(w) => job[w] \notin InChannel \cup ready
    /\ \A i, j \in 1..Len(channel) : channel[i] = channel[j] => i = j
    /\ InChannel \cap ready = {}
    /\ InChannel \cup ready \subseteq DOMAIN lease

\* Once consume has returned, run_ordered returns: cancel wakes every sleeping
\* worker, a worker that finishes late finds the channel closed, and the join
\* ends, also when jobs have panicked.
ReturnJoins == (phase = "dropped") ~> (phase = "joined")
==============================================================================
