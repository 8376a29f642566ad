---------------------------- MODULE InOrderBatch -----------------------------
(***************************************************************************)
(* run_ordered with the coordinator of the LZ4 decoder (decode_independent *)
(* of src/lz4.rs) and of the ZIP writer (create_to_writer of src/zip.rs).  *)
(* Both ask for every key in order, commit what arrives, and return the    *)
(* first error:                                                            *)
(*                                                                         *)
(*     for key in 0..jobs.len() { commit(results.take(key)??)?; }          *)
(*                                                                         *)
(* The workers and the budget are those of OrderedPipeline.                *)
(***************************************************************************)
EXTENDS OrderedPipeline

VARIABLES
    failing,   \* the jobs whose execution answers an error
    committed, \* the jobs committed to the output, oldest first
    reply      \* what consume answers, "none" while it runs

batch == <<failing, committed, reply>>
batchVars == <<vars, batch>>

BatchTypeOK ==
    /\ failing \subseteq Jobs
    /\ committed \in Seq(Jobs)
    /\ reply \in {"none", "ok", "job error", "commit error", "panicked"}

BatchInit ==
    /\ Init
    /\ failing \in SUBSET Jobs
    /\ committed = <<>>
    /\ reply = "none"

\* The next iteration of the loop.
AskNext ==
    /\ reply = "none"
    /\ front <= N
    /\ CallTake(front)
    /\ UNCHANGED batch

\* take answers Ok(value), and the value is committed.
CommitTaken ==
    /\ Take
    /\ front \notin failing
    /\ committed' = Append(committed, front)
    /\ UNCHANGED <<failing, reply>>

\* take answers Ok(value), and committing it fails.
CommitTakenFails ==
    /\ Take
    /\ front \notin failing
    /\ reply' = "commit error"
    /\ UNCHANGED <<failing, committed>>

\* Mutant of TakeError: an error of a job is skipped, not returned.
TakeErrorSkipped ==
    /\ Take
    /\ front \in failing
    /\ UNCHANGED batch

\* take answers the error of the job itself.
TakeError ==
    /\ Take
    /\ front \in failing
    /\ reply' = "job error"
    /\ UNCHANGED <<failing, committed>>

\* consume returns: at the end of the loop, or with the error it met.
ReturnAnswer ==
    /\ Return
    /\ reply # "none" \/ front = N + 1
    /\ reply' = IF reply = "none" THEN "ok" ELSE reply
    /\ UNCHANGED <<failing, committed>>

\* The join replaces the answer of consume if a worker panicked.
JoinAnswer ==
    /\ Join
    /\ reply' = IF \E w \in Workers : pc[w] = "panicked"
                  THEN "panicked" ELSE reply
    /\ UNCHANGED <<failing, committed>>

BatchCoordinator ==
    \/ AskNext
    \/ Receive /\ UNCHANGED batch
    \/ CommitTaken
    \/ CommitTakenFails
    \/ TakeError
    \/ ReturnAnswer
    \/ Cancel /\ UNCHANGED batch
    \/ JoinAnswer

BatchNext ==
    \/ \E w \in Workers : Worker(w) /\ UNCHANGED batch
    \/ BatchCoordinator

BatchSpec == BatchInit /\ [][BatchNext]_batchVars

(* Every thread runs.  The output takes or refuses what it is given: a      *)
(* consumer that never reads is outside this module (see OutputPipe).       *)
BatchFairness ==
    /\ \A w \in Workers : WF_batchVars(Worker(w) /\ UNCHANGED batch)
    /\ WF_batchVars(BatchCoordinator)

FairBatchSpec == BatchSpec /\ BatchFairness

------------------------------------------------------------------------------
(* Properties. *)

\* While the coordinator waits for a result that has not been sent, a worker
\* is at work: the budget cannot fill up with results that only the
\* coordinator can give back, because it asks for the oldest first.  The one
\* exception is a job that panicked, whose result never comes.
NeverStalls ==
    (/\ phase = "taking"
     /\ front \notin ready
     /\ channel = <<>>
     /\ front \notin Panicking)
        => \E w \in Workers : pc[w] \in {"admitting", "executing", "sending"}

\* The call writes what the sequential loop writes and answers what it
\* answers, although jobs finish in any order and an error in a late job may
\* be known before an earlier job is committed.
Serial == INSTANCE SerialBatch
    WITH answer <- IF phase = "joined" THEN reply ELSE "pending"

AnswersLikeSerial == Serial!Spec

\* The call ends.
Answered == <>(phase = "joined")

\* The join at the end of run_ordered has a message for a worker that
\* panicked, "parallel decoder worker panicked": a panic ends the call.
PanicReported == (\E w \in Workers : pc[w] = "panicked") ~> (phase = "joined")
==============================================================================
