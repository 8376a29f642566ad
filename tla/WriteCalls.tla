------------------------------ MODULE WriteCalls ------------------------------
(***************************************************************************)
(* What the bzip2 and the DEFLATE encoder have in common: a client of      *)
(* std::io::Write that writes pieces of any length, flushes, goes on after *)
(* an error if it likes, and finishes or drops the encoder; and the jobs   *)
(* and results that pass through StreamingOrdered, here as JobQueue.       *)
(*                                                                         *)
(* A job keeps the plaintext it was made of, which also stands for its     *)
(* checksum: combining checksums is joining plaintexts.                    *)
(***************************************************************************)
EXTENDS JobQueue, SequencesExt

CONSTANTS
    Reservation,  \* reservation(..), the same for every job
    MaxInput,     \* bound: bytes the client writes
    MaxWrite      \* bound: bytes of one call of write

ASSUME WriteAssumption ==
    /\ Reservation \in Reservations
    /\ Reservation <= MemoryLimit
    /\ {MaxInput, MaxWrite} \subseteq Nat

VARIABLES
    given,     \* the bytes of all calls of write
    todo,      \* those of the current call that are not consumed yet
    call,      \* the client's call, the current one or the last one
    stage,     \* where the encoder is in it
    result,    \* how the last call ended
    reported,  \* a call has answered an error
    jobs,      \* the jobs submitted
    written,   \* the jobs whose results were written, in that order
    combined,  \* combined_crc or crc
    inputLen   \* input_len

caller == <<given, call, result, reported>>
sums == <<written, combined, inputLen>>
client == <<caller, todo, stage, jobs, sums>>

CallsInit ==
    /\ QueueInit
    /\ given = <<>>
    /\ todo = <<>>
    /\ call = "none"
    /\ stage = "idle"
    /\ result = "none"
    /\ reported = FALSE
    /\ jobs = <<>>
    /\ written = <<>>
    /\ combined = <<>>
    /\ inputLen = 0

CallWrite(piece) ==
    /\ stage = "idle"
    /\ given' = given \o piece
    /\ todo' = piece
    /\ call' = "write"
    /\ stage' = "writing"
    /\ UNCHANGED <<queue, result, reported, jobs, sums>>

\* flush, or finish
CallEnd(name) ==
    /\ stage = "idle"
    /\ call' = name
    /\ stage' = "ending"
    /\ UNCHANGED <<queue, given, todo, result, reported, jobs, sums>>

\* finish consumes the encoder, however it ends.
Leave(answer) ==
    /\ result' = answer
    /\ IF call = "finish" THEN Close /\ stage' = "gone"
       ELSE UNCHANGED queue /\ stage' = "idle"
    /\ UNCHANGED <<given, call>>

ReturnOk == Leave("ok") /\ UNCHANGED <<todo, reported, jobs, sums>>

\* The output refuses what the call writes or flushes behind the results.
ReturnError ==
    /\ Leave("error")
    /\ reported' = TRUE
    /\ UNCHANGED <<todo, jobs, sums>>

DropEncoder ==
    /\ stage = "idle"
    /\ Close
    /\ stage' = "gone"
    /\ UNCHANGED <<caller, todo, jobs, sums>>

SubmitJob(job) ==
    /\ Submit(Reservation)
    /\ jobs' = Append(jobs, job)

------------------------------------------------------------------------------
(* commit_next *)

\* The next result is taken, written and accounted for.
CommitNext ==
    LET job == jobs[nextTake + 1]
    IN
    /\ Take
    /\ written' = Append(written, job)
    /\ combined' = combined \o job.plain
    /\ inputLen' = inputLen + Len(job.plain)
    /\ UNCHANGED <<caller, todo, stage, jobs>>

\* The job has panicked, or the output refuses its result: `?` leaves the
\* call.  The result is gone, and so is the rest of the current write.
LoseNext ==
    /\ Take
    /\ todo' = <<>>
    /\ result' = "error"
    /\ reported' = TRUE
    /\ stage' = IF call = "finish" THEN "closing" ELSE "idle"
    /\ UNCHANGED <<given, call, jobs, sums>>

\* The encoder that finish has consumed is dropped.
Consumed ==
    /\ stage = "closing"
    /\ Close
    /\ stage' = "gone"
    /\ UNCHANGED <<caller, todo, jobs, sums>>

------------------------------------------------------------------------------
(* Properties. *)

Finished == call = "finish" /\ stage = "gone" /\ result = "ok"
Plaintext(js) == FoldLeft(LAMBDA bytes, job : bytes \o job.plain, <<>>, js)
==============================================================================
