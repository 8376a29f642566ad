--------------------------- MODULE StagedPipeline ----------------------------
(***************************************************************************)
(* run_staged_ordered of src/pipeline.rs: run_ordered with a second stage. *)
(* The coordinator may turn the result of a job into a stage task, which   *)
(* takes over what the job has to give back; the workers execute stage     *)
(* tasks before they look for another job.  They never sleep on the        *)
(* condition variable for longer than a millisecond, so a worker that      *)
(* finds nothing to do simply looks again.                                 *)
(*                                                                         *)
(* Budget, jobs and results are those of OrderedPipeline.  There, a worker *)
(* that is "admitting" asks the budget; here, it polls the stage queue     *)
(* first, and asks the budget when it is "probing".  "waiting" never       *)
(* occurs.                                                                 *)
(*                                                                         *)
(* Stage tasks are numbered from 1 in the order in which they are          *)
(* submitted.  The coordinator is left open, as in OrderedPipeline, except *)
(* that it holds at most one lease at a time; GzipDecode is the one of the *)
(* code.  What it holds and what the stages answer is dropped with the     *)
(* receivers in one step when it returns: no worker looks at two of them.  *)
(***************************************************************************)
EXTENDS OrderedPipeline

VARIABLES
    submitted,     \* the job that every stage task was made from
    stageQueue,    \* tasks that no worker has received yet, oldest first
    stageTask,     \* the task a worker holds, 0 when it holds none
    stageChannel,  \* answers sent and not yet received, oldest first
    stageReady,    \* StagedResults::stage_ready
    hand,          \* the job whose lease the coordinator holds, 0 when none
    awaited        \* the task that take_stage waits for, 0 outside of it

stageWork == <<stageQueue, stageTask>>
stageAnswers == <<stageChannel, stageReady>>
staged == <<submitted, stageWork, stageAnswers, hand, awaited>>
stagedVars == <<vars, staged>>

Tasks == 1..Len(submitted)
Queued == {stageQueue[i] : i \in 1..Len(stageQueue)}
Answering == {stageChannel[i] : i \in 1..Len(stageChannel)}

StagedInit ==
    /\ Init
    /\ submitted = <<>>
    /\ stageQueue = <<>>
    /\ stageTask = [w \in Workers |-> 0]
    /\ stageChannel = <<>>
    /\ stageReady = {}
    /\ hand = 0
    /\ awaited = 0

------------------------------------------------------------------------------
(* A worker. *)

\* try_recv answers a stage task.
ReceiveTask(w) ==
    /\ pc[w] = "admitting"
    /\ stageQueue # <<>>
    /\ stageTask' = [stageTask EXCEPT ![w] = Head(stageQueue)]
    /\ stageQueue' = Tail(stageQueue)
    /\ pc' = [pc EXCEPT ![w] = "staging"]
    /\ UNCHANGED <<budget, job, lease, channel, ready, coordinator>>
    /\ UNCHANGED <<submitted, stageAnswers, hand, awaited>>

\* The queue is empty, and closed when the coordinator has returned.
NoTask(w) ==
    /\ pc[w] = "admitting"
    /\ stageQueue = <<>>
    /\ pc' = [pc EXCEPT ![w] = IF ReceiverAlive THEN "probing" ELSE "returned"]
    /\ UNCHANGED <<budget, job, lease, channel, ready, coordinator, staged>>

\* try_next answers Ready: the worker has a job.
TryNextReady(w) ==
    /\ pc[w] = "probing"
    /\ ~cancelled
    /\ next < N
    /\ Admissible(next + 1)
    /\ next' = next + 1
    /\ reserved' = reserved + Reservation[next + 1]
    /\ active' = active + 1
    /\ lease' = Charged(lease, next + 1, Reservation[next + 1])
    /\ job' = [job EXCEPT ![w] = next + 1]
    /\ pc' = [pc EXCEPT ![w] = "executing"]
    /\ UNCHANGED <<cancelled, channel, ready, coordinator, staged>>

\* Mutant of TryNextPending: a worker goes home when all jobs are handed out.
PendingReturns(w) ==
    /\ pc[w] = "probing"
    /\ ~cancelled
    /\ next < N => ~Admissible(next + 1)
    /\ pc' = [pc EXCEPT ![w] = IF next >= N THEN "returned" ELSE "admitting"]
    /\ UNCHANGED <<budget, job, lease, channel, ready, coordinator, staged>>

\* try_next answers Pending: all jobs are handed out, or the next does not fit.
TryNextPending(w) ==
    /\ pc[w] = "probing"
    /\ ~cancelled
    /\ next < N => ~Admissible(next + 1)
    /\ pc' = [pc EXCEPT ![w] = "admitting"]
    /\ UNCHANGED <<budget, job, lease, channel, ready, coordinator, staged>>

\* try_next answers Cancelled.
TryNextCancelled(w) ==
    /\ pc[w] = "probing"
    /\ cancelled
    /\ pc' = [pc EXCEPT ![w] = "returned"]
    /\ UNCHANGED <<budget, job, lease, channel, ready, coordinator, staged>>

\* Mutant of EndTask: the lease is forgotten.
EndTaskKeepsBytes(w) ==
    /\ pc[w] = "staging"
    /\ lease' = Uncharged(lease, submitted[stageTask[w]])
    /\ pc' = [pc EXCEPT ![w] = "answering"]
    /\ UNCHANGED <<budget, job, channel, ready, coordinator, staged>>

\* The task is done.  Its bytes are given back before its answer is sent.
EndTask(w) ==
    /\ pc[w] = "staging"
    /\ Retire(submitted[stageTask[w]])
    /\ pc' = [pc EXCEPT ![w] = "answering"]
    /\ UNCHANGED <<next, cancelled, job, channel, ready, coordinator, staged>>

\* The answer is sent, and the worker ends if nobody is there to receive it.
AnswerTask(w) ==
    /\ pc[w] = "answering"
    /\ stageTask' = [stageTask EXCEPT ![w] = 0]
    /\ IF ReceiverAlive
       THEN /\ stageChannel' = Append(stageChannel, stageTask[w])
            /\ pc' = [pc EXCEPT ![w] = "admitting"]
       ELSE /\ pc' = [pc EXCEPT ![w] = "returned"]
            /\ UNCHANGED stageChannel
    /\ UNCHANGED <<budget, job, lease, channel, ready, coordinator>>
    /\ UNCHANGED <<submitted, stageQueue, stageReady, hand, awaited>>

StagedWorker(w) ==
    \/ ReceiveTask(w)
    \/ NoTask(w)
    \/ TryNextReady(w)
    \/ TryNextPending(w)
    \/ TryNextCancelled(w)
    \/ EndTask(w)
    \/ AnswerTask(w)
    \/ (Complete(w) \/ Panic(w) \/ Send(w) \/ SendFails(w)) /\ UNCHANGED staged

------------------------------------------------------------------------------
(* The coordinator. *)

Idle == phase = "working" /\ awaited = 0

\* take_primary(k) is called ...
CallTakePrimary(k) ==
    /\ awaited = 0
    /\ hand = 0
    /\ CallTake(k)
    /\ UNCHANGED staged

ReceivePrimary == Receive /\ UNCHANGED staged

\* ... and hands the result over, with the lease.
TakePrimary ==
    /\ phase = "taking"
    /\ front \in ready
    /\ ready' = ready \ {front}
    /\ hand' = front
    /\ front' = front + 1
    /\ phase' = "working"
    /\ UNCHANGED <<budget, workers, lease, channel>>
    /\ UNCHANGED <<submitted, stageWork, stageAnswers, awaited>>

\* StagedResults::retire
RetireHand ==
    /\ Idle
    /\ hand # 0
    /\ Retire(hand)
    /\ hand' = 0
    /\ UNCHANGED <<next, cancelled, workers, channel, ready, coordinator>>
    /\ UNCHANGED <<submitted, stageWork, stageAnswers, awaited>>

\* Mutant of Submit: the lease is copied, not moved, into the task.
SubmitCopy ==
    /\ Idle
    /\ hand # 0
    /\ submitted' = Append(submitted, hand)
    /\ stageQueue' = Append(stageQueue, Len(submitted) + 1)
    /\ UNCHANGED <<vars, stageTask, stageAnswers, hand, awaited>>

\* submit.  The queue's receiver lives as long as the call: it never fails.
Submit ==
    /\ Idle
    /\ hand # 0
    /\ submitted' = Append(submitted, hand)
    /\ stageQueue' = Append(stageQueue, Len(submitted) + 1)
    /\ hand' = 0
    /\ UNCHANGED <<vars, stageTask, stageAnswers, awaited>>

\* take_stage(r) is called ...
CallTakeStage(r) ==
    /\ Idle
    /\ r \in Tasks
    /\ awaited' = r
    /\ UNCHANGED <<vars, submitted, stageWork, stageAnswers, hand>>

\* ... receives until the answer asked for is there ...
ReceiveStage ==
    /\ awaited # 0
    /\ awaited \notin stageReady
    /\ stageChannel # <<>>
    /\ stageReady' = stageReady \cup {Head(stageChannel)}
    /\ stageChannel' = Tail(stageChannel)
    /\ UNCHANGED <<vars, submitted, stageWork, hand, awaited>>

\* ... and hands it over.
TakeStage ==
    /\ awaited # 0
    /\ awaited \in stageReady
    /\ stageReady' = stageReady \ {awaited}
    /\ awaited' = 0
    /\ UNCHANGED <<vars, submitted, stageWork, stageChannel, hand>>

\* consume returns; a lease that it still holds is dropped, not retired.
StagedReturn ==
    /\ awaited = 0
    /\ Return
    /\ hand' = 0
    /\ stageChannel' = <<>>
    /\ stageReady' = {}
    /\ UNCHANGED <<submitted, stageWork, awaited>>

StagedCancel == Cancel /\ UNCHANGED staged
StagedJoin == Join /\ UNCHANGED staged

StagedCoordinator ==
    \/ \E k \in 1..(N + 1) : CallTakePrimary(k)
    \/ ReceivePrimary
    \/ TakePrimary
    \/ RetireHand
    \/ Submit
    \/ \E r \in Tasks : CallTakeStage(r)
    \/ ReceiveStage
    \/ TakeStage
    \/ StagedReturn
    \/ StagedCancel
    \/ StagedJoin

StagedNext ==
    \/ \E w \in Workers : StagedWorker(w)
    \/ StagedCoordinator

StagedSpec == StagedInit /\ [][StagedNext]_stagedVars

------------------------------------------------------------------------------
(* Properties. *)

\* The counters are what unretired jobs hold and the limits are kept, although
\* what a job has to give back travels from a worker to the coordinator, into a
\* task, and to another worker.
StagedAccounting ==
    /\ reserved = Total(lease)
    /\ active = Cardinality(DOMAIN lease)
    /\ reserved <= Limit
    /\ active <= MaxActive

\* The jobs whose bytes a task still has to give back.
OwedByTasks ==
    {submitted[r] : r \in Queued \cup {stageTask[w] : w \in {v \in Workers : pc[v] = "staging"}}}

\* While the coordinator lives, every unretired job is owed by exactly one
\* holder: the worker that executes it, the channel, `ready`, the coordinator's
\* hand, a queued task or the worker that executes the task.  No lease is
\* given back twice, and none is forgotten.
OwedOnce ==
    LET byWorkers == {job[w] : w \in {v \in Workers : Holding(v)}}
        inHand == {hand} \ {0}
        holders == <<byWorkers, InChannel, ready, inHand, OwedByTasks>>
    IN  ReceiverAlive =>
            /\ DOMAIN lease = UNION {holders[i] : i \in 1..5}
            /\ \A i, j \in 1..5 : i # j => holders[i] \cap holders[j] = {}
            /\ \A r, s \in Tasks : submitted[r] = submitted[s] => r = s
==============================================================================
