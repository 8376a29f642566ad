----------------------------- MODULE SerialBatch -----------------------------
(***************************************************************************)
(* What a caller of run_ordered promises: the answer of the sequential     *)
(* loop it replaces.  src/lz4.rs and src/zip.rs both hold that loop beside *)
(* the parallel one and choose between them by the number of threads and   *)
(* by the amount of work, so the choice must not be visible:               *)
(*                                                                         *)
(*     for job in jobs { commit(execute(job)?)?; }                         *)
(***************************************************************************)
EXTENDS Naturals, Sequences

CONSTANT N

VARIABLES
    failing,   \* the jobs whose execution answers an error
    committed, \* the jobs committed to the output, oldest first
    answer     \* "pending" until the loop ends, then how it ended

vars == <<failing, committed, answer>>

Init ==
    /\ failing \in SUBSET (1..N)
    /\ committed = <<>>
    /\ answer = "pending"

current == Len(committed) + 1

Running == answer = "pending" /\ current <= N

Commit ==
    /\ Running
    /\ current \notin failing
    /\ committed' = Append(committed, current)
    /\ UNCHANGED <<failing, answer>>

\* execute(job)? leaves the loop.
JobFails ==
    /\ Running
    /\ current \in failing
    /\ answer' = "job error"
    /\ UNCHANGED <<failing, committed>>

\* commit(...)? leaves the loop: the output refuses, or what was decoded does
\* not pass the checks of the frame.
CommitFails ==
    /\ Running
    /\ current \notin failing
    /\ answer' = "commit error"
    /\ UNCHANGED <<failing, committed>>

Finish ==
    /\ answer = "pending"
    /\ current = N + 1
    /\ answer' = "ok"
    /\ UNCHANGED <<failing, committed>>

Next ==
    \/ Commit
    \/ JobFails
    \/ CommitFails
    \/ Finish

Spec == Init /\ [][Next]_vars
==============================================================================
