------------------------------- MODULE JobQueue -------------------------------
(***************************************************************************)
(* What StreamingOrdered of src/pipeline.rs promises to the encoders: jobs *)
(* are taken back one by one in the order in which they were submitted,    *)
(* and as many are outstanding as there are threads and memory for.  How   *)
(* the jobs run, and in which order they end, cannot be seen.              *)
(*                                                                         *)
(* StreamingOrdered implements it (the property IsQueue of Lz4Encoder).    *)
(***************************************************************************)
EXTENDS Naturals, FiniteSets, Charges

CONSTANTS Threads, MemoryLimit, Reservations

VARIABLES
    nextSubmit,  \* how many jobs have been submitted,
    nextTake,    \* and taken
    lease,       \* charge map: the reservation of every job not yet taken
    closed       \* the pipeline is dropped

queue == <<nextSubmit, nextTake, lease, closed>>

QueueInit ==
    /\ nextSubmit = 0
    /\ nextTake = 0
    /\ lease = [k \in {} |-> 0]
    /\ closed = FALSE

CanSubmit(r) ==
    /\ Cardinality(DOMAIN lease) < Threads
    /\ Total(lease) + r <= MemoryLimit

HasPending == nextTake < nextSubmit

Submit(r) ==
    /\ ~closed
    /\ CanSubmit(r)
    /\ nextSubmit' = nextSubmit + 1
    /\ lease' = Charged(lease, nextSubmit + 1, r)
    /\ UNCHANGED <<nextTake, closed>>

\* The answer is what the job has returned, or that it has panicked.
Take ==
    /\ ~closed
    /\ HasPending
    /\ nextTake' = nextTake + 1
    /\ lease' = Uncharged(lease, nextTake + 1)
    /\ UNCHANGED <<nextSubmit, closed>>

Close ==
    /\ ~closed
    /\ closed' = TRUE
    /\ UNCHANGED <<nextSubmit, nextTake, lease>>

QueueNext ==
    \/ \E r \in Reservations : Submit(r)
    \/ Take
    \/ Close

QueueSpec == QueueInit /\ [][QueueNext]_queue
==============================================================================
