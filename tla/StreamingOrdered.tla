-------------------------- MODULE StreamingOrdered ---------------------------
(***************************************************************************)
(* StreamingOrdered of src/pipeline.rs: the long-lived pool behind the     *)
(* three encoders.  Its owner submits jobs while bytes arrive and takes    *)
(* their results back in the order of submission.  All counters belong to  *)
(* the owner; only the channel and the flag `cancelled` are shared with    *)
(* the threads of the pool.                                                *)
(*                                                                         *)
(* Jobs are numbered from 1 in the order of submission (the code counts    *)
(* from 0): nextSubmit and nextTake say how many have been submitted and   *)
(* taken.  The module leaves the owner open; Lz4Encoder is one.            *)
(*                                                                         *)
(* The pool has as many threads as jobs may be outstanding, so a spawned   *)
(* job always has a thread: the model needs no set of threads.             *)
(***************************************************************************)
EXTENDS Naturals, Sequences, FiniteSets, Charges

CONSTANTS
    Threads,      \* max_active, which is also the size of the pool
    MemoryLimit,  \* memory_limit
    Reservations  \* the reservations the owner asks for

ASSUME StreamingAssumption ==
    /\ Threads \in Nat \ {0}
    /\ MemoryLimit \in Nat
    /\ Reservations \subseteq Nat

VARIABLES
    nextSubmit,  \* next_submit
    nextTake,    \* next_take
    reserved,
    active,
    cancelled,   \* the flag that drop sets and every job reads as it starts
    lease,       \* charge map: the reservation of every job not yet taken
    queued,      \* spawned jobs that have not looked at `cancelled` yet
    running,     \* jobs inside catch_unwind
    channel,     \* results sent and not yet received, oldest first
    ready,       \* results received and not yet taken
    panicked,    \* jobs whose result is the payload of a panic
    taking       \* the owner is inside take_next

counters == <<nextSubmit, nextTake, reserved, active, lease>>
pool == <<queued, running>>
stream == <<counters, cancelled, pool, channel, ready, panicked, taking>>

Submitted == 1..nextSubmit
Arriving == {channel[i] : i \in 1..Len(channel)}
wanted == nextTake + 1

StreamTypeOK ==
    /\ nextSubmit \in Nat
    /\ nextTake \in 0..nextSubmit
    /\ reserved \in Nat
    /\ active \in Nat
    /\ cancelled \in BOOLEAN
    /\ taking \in BOOLEAN
    /\ DOMAIN lease \subseteq Submitted
    /\ \A k \in DOMAIN lease : lease[k] \in Nat
    /\ channel \in Seq(Submitted)
    /\ {queued, running, ready, panicked} \subseteq SUBSET Submitted

StreamInit ==
    /\ nextSubmit = 0
    /\ nextTake = 0
    /\ reserved = 0
    /\ active = 0
    /\ cancelled = FALSE
    /\ lease = [k \in {} |-> 0]
    /\ queued = {}
    /\ running = {}
    /\ channel = <<>>
    /\ ready = {}
    /\ panicked = {}
    /\ taking = FALSE

------------------------------------------------------------------------------
(* The owner. *)

Open == ~taking /\ ~cancelled

Left(limit, used) == IF limit < used THEN 0 ELSE limit - used

CanSubmit(r) ==
    /\ active < Threads
    /\ r <= Left(MemoryLimit, reserved)

HasPending == nextTake < nextSubmit

\* submit: the two errors it can answer are what its callers test first.
Submit(r) ==
    /\ Open
    /\ CanSubmit(r)
    /\ nextSubmit' = nextSubmit + 1
    /\ active' = active + 1
    /\ reserved' = reserved + r
    /\ lease' = Charged(lease, nextSubmit + 1, r)
    /\ queued' = queued \cup {nextSubmit + 1}
    /\ UNCHANGED <<nextTake, cancelled, running, channel, ready, panicked, taking>>

\* take_next is called with a job pending ...
CallTakeNext ==
    /\ Open
    /\ HasPending
    /\ taking' = TRUE
    /\ UNCHANGED <<counters, cancelled, pool, channel, ready, panicked>>

\* ... receives until the next result is there ...
Receive ==
    /\ taking
    /\ wanted \notin ready
    /\ channel # <<>>
    /\ ready' = ready \cup {Head(channel)}
    /\ channel' = Tail(channel)
    /\ UNCHANGED <<counters, cancelled, pool, panicked, taking>>

\* Mutant of TakeNext: the reservation is kept.
TakeNextKeepsBytes ==
    /\ taking
    /\ wanted \in ready
    /\ ready' = ready \ {wanted}
    /\ nextTake' = wanted
    /\ active' = active - 1
    /\ lease' = Uncharged(lease, wanted)
    /\ taking' = FALSE
    /\ UNCHANGED <<nextSubmit, reserved, cancelled, pool, channel, panicked>>

\* Mutant of TakeNext: the first result received is answered, whosever it is.
TakeNextArrived ==
    /\ taking
    /\ wanted \in ready
    /\ \E k \in ready :
          /\ ready' = ready \ {k}
          /\ nextTake' = wanted
          /\ active' = active - 1
          /\ reserved' = reserved - lease[k]
          /\ lease' = Uncharged(lease, k)
    /\ taking' = FALSE
    /\ UNCHANGED <<nextSubmit, cancelled, pool, channel, panicked>>

\* ... and answers it: the value, or an error if the job panicked.
TakeNext ==
    /\ taking
    /\ wanted \in ready
    /\ ready' = ready \ {wanted}
    /\ nextTake' = wanted
    /\ active' = active - 1
    /\ reserved' = reserved - lease[wanted]
    /\ lease' = Uncharged(lease, wanted)
    /\ taking' = FALSE
    /\ UNCHANGED <<nextSubmit, cancelled, pool, channel, panicked>>

\* Drop sets the flag and then drops the receiver with everything in it.
Drop ==
    /\ Open
    /\ cancelled' = TRUE
    /\ channel' = <<>>
    /\ ready' = {}
    /\ UNCHANGED <<counters, pool, panicked, taking>>

------------------------------------------------------------------------------
(* A spawned job. *)

\* The thread that runs job k finds the flag unset.
Start(k) ==
    /\ k \in queued
    /\ ~cancelled
    /\ queued' = queued \ {k}
    /\ running' = running \cup {k}
    /\ UNCHANGED <<counters, cancelled, channel, ready, panicked, taking>>

\* It finds the flag set: the job is never run and nothing is sent.
Skip(k) ==
    /\ k \in queued
    /\ cancelled
    /\ queued' = queued \ {k}
    /\ UNCHANGED <<counters, cancelled, running, channel, ready, panicked, taking>>

\* Mutant of Deliver: a send that waits for the owner to receive.
DeliverToOwner(k) == ~cancelled /\ channel' = Append(channel, k)

\* The result is sent, or lost when the owner is gone.
Deliver(k) == channel' = IF cancelled THEN channel ELSE Append(channel, k)

\* Mutant of EndPanicking: the unwinding takes the thread with it.
EndSilently(k) ==
    /\ k \in running
    /\ running' = running \ {k}
    /\ panicked' = panicked \cup {k}
    /\ UNCHANGED <<counters, cancelled, queued, channel, ready, taking>>

End(k) ==
    /\ k \in running
    /\ running' = running \ {k}
    /\ Deliver(k)
    /\ UNCHANGED <<counters, cancelled, queued, ready, panicked, taking>>

\* catch_unwind turns a panic into a result like any other.
EndPanicking(k) ==
    /\ k \in running
    /\ running' = running \ {k}
    /\ panicked' = panicked \cup {k}
    /\ Deliver(k)
    /\ UNCHANGED <<counters, cancelled, queued, ready, taking>>

Job(k) ==
    \/ Start(k)
    \/ Skip(k)
    \/ End(k)
    \/ EndPanicking(k)

Owner ==
    \/ \E r \in Reservations : Submit(r)
    \/ CallTakeNext
    \/ Receive
    \/ TakeNext
    \/ Drop

StreamNext ==
    \/ Owner
    \/ \E k \in Submitted : Job(k)

StreamSpec == StreamInit /\ [][StreamNext]_stream

------------------------------------------------------------------------------
(* Properties. *)

\* The counters are what the jobs between next_take and next_submit hold, so
\* the plain subtractions of take_next never go below zero.
StreamAccounting ==
    /\ reserved = Total(lease)
    /\ active = Cardinality(DOMAIN lease)
    /\ \A k \in Submitted : k \in DOMAIN lease <=> nextTake < k

\* The budget holds, and no job is spawned without a thread to run it.
StreamWithinLimits ==
    /\ reserved <= MemoryLimit
    /\ active <= Threads
    /\ Cardinality(queued \cup running) <= Threads

\* The result of every pending job is on its way and will be delivered once,
\* whether jobs succeed, fail or panic, and in whatever order they end: while
\* the pipeline lives, take_next never waits for nothing.
ResultsComing ==
    /\ queued \cup running \cup Arriving \cup ready \subseteq DOMAIN lease
    /\ queued \cap running = {}
    /\ (queued \cup running) \cap (Arriving \cup ready) = {}
    /\ Arriving \cap ready = {}
    /\ \A i, j \in 1..Len(channel) : channel[i] = channel[j] => i = j
    /\ ~cancelled =>
          \A k \in DOMAIN lease : k \in queued \cup running \cup Arriving \cup ready

\* What the encoders are promised: jobs come back one by one in the order of
\* submission, and no more are outstanding than there are threads and memory.
Queue == INSTANCE JobQueue WITH closed <- cancelled
IsQueue == Queue!QueueSpec
==============================================================================
