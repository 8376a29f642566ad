------------------------------ MODULE GzipDecode -----------------------------
(***************************************************************************)
(* The parallel decoder of one DEFLATE stream in src/gzip.rs: jobs guess   *)
(* block boundaries behind the points of a grid and inflate from there     *)
(* with an unknown history; the coordinator follows the chain of segments, *)
(* accepts a guess that continues it exactly, inflates the segment itself  *)
(* where the guess is wrong, and hands accepted segments with the history  *)
(* they lacked to the second stage, which completes them.                  *)
(*                                                                         *)
(* Places in the stream are numbers from 0; inputs are those of Inflation, *)
(* and input.decoys are places where a job would find a dynamic header     *)
(* that is none, and could inflate from.  A history (`predecessor`, 32 KiB *)
(* of output) is the place up to which it describes the output.            *)
(*                                                                         *)
(* The members of a gzip file, their headers and trailers are outside.     *)
(***************************************************************************)
EXTENDS StagedPipeline

CONSTANTS
    Grid,    \* PARALLEL_GRID
    End,     \* end_byte: behind the last place of the data
    Inputs   \* the inputs considered, see Inflation

Threads == Cardinality(Workers)

\* Every grid point inside the data has a job, which has room for what it
\* retains: nothing for an error, something for a segment.
ASSUME GzipAssumption ==
    /\ IsFiniteSet(Workers)
    /\ Grid \in Nat \ {0}
    /\ End \in Nat
    /\ N * Grid < End /\ End <= (N + 1) * Grid
    /\ 0 \in Sizes /\ \A k \in Jobs : \E size \in Sizes : AtMost(size, Reservation[k]) > 0
    /\ \A input \in Inputs :
          LET count == Len(input.ends) IN
          /\ input.ends \in Seq(1..End)
          /\ \A b, c \in 1..count : b < c => input.ends[b] < input.ends[c]
          /\ {input.dynamic, input.big, input.far} \subseteq SUBSET (1..count)
          /\ input.decoys \subseteq 1..End
          /\ \A b \in 1..count : input.ends[b] \notin input.decoys
          /\ input.final => count > 0

VARIABLES
    input,
    stage,         \* "start", "loop", "refused", "full", or "serial", "over"
    at,            \* next_start
    window,        \* predecessor
    final,         \* final_block
    key,           \* the job to ask for next
    tasks,         \* the segment and the history of every stage task
    nextResolve,   \* how many stage tasks have been taken
    written,       \* the blocks written to the output, oldest first
    outcome        \* what the call answers, "none" while it runs

gzip == <<input, stage, at, window, final, key, tasks, nextResolve, written, outcome>>
gzipVars == <<stagedVars, gzip>>

------------------------------------------------------------------------------
(* What decode_segment and run_gzip_job answer. *)

Count == Len(input.ends)
StartOf(b) == IF b = 1 THEN 0 ELSE input.ends[b - 1]
BlockAt(place) == CHOOSE b \in 1..(Count + 1) : StartOf(b) = place
Least(S) == CHOOSE a \in S : \A b \in S : a <= b
Nearer(a, b) == IF a < b THEN a ELSE b

\* A segment ends with the final block, or with the first dynamic block that
\* reaches the place `stop`.
Ends(place, stop) ==
    {b \in BlockAt(place)..Count :
        \/ b \in input.dynamic /\ input.ends[b] >= stop
        \/ b = Count /\ input.final}

\* The output limit is met before the segment, or what can be read, ends.
TooBig(place, stop) ==
    \E b \in input.big :
        /\ BlockAt(place) <= b
        /\ Ends(place, stop) # {} => b <= Least(Ends(place, stop))

Inflatable(place, stop) == Ends(place, stop) # {} /\ ~TooBig(place, stop)

Segment(place, stop) ==
    LET first == BlockAt(place)
        last == Least(Ends(place, stop))
    IN  [start |-> place,
         end |-> input.ends[last],
         blocks |-> [i \in 1..(last - first + 1) |-> first + i - 1],
         final |-> last = Count /\ input.final]

StopOf(k) == Nearer((k + 1) * Grid, End)

\* Where the search of job k finds a dynamic block, but the final one, or a
\* decoy, that inflates.
Guesses(k) ==
    {place \in (k * Grid)..(Nearer((k + 2) * Grid, End) - 1) :
        \/ place \in input.decoys
        \/ \E b \in input.dynamic :
              /\ place = StartOf(b)
              /\ ~(b = Count /\ input.final)
              /\ Inflatable(place, StopOf(k))}

\* The segment of job k.  A decoy inflates to something, here a block 0.
Guess(k) ==
    LET place == Least(Guesses(k)) IN
    IF place \in input.decoys
    THEN [start |-> place, end |-> StopOf(k), blocks |-> <<0>>, final |-> FALSE]
    ELSE Segment(place, StopOf(k))

Fits(k) == Guesses(k) # {} /\ Guess(k).start = at

\* resolve_segment: the blocks of a segment, completed with a history.
Resolved(segment, history) ==
    IF history = segment.start THEN segment.blocks
    ELSE [i \in DOMAIN segment.blocks |-> 0]

\* resolve_symbols answers an error.
TooFar(segment) == \E i \in DOMAIN segment.blocks : segment.blocks[i] \in input.far

\* A segment that can be inflated and completed.
Usable(place, stop) == Inflatable(place, stop) /\ ~TooFar(Segment(place, stop))

------------------------------------------------------------------------------

InitialStop == Nearer(Grid, End)

\* The first segment knows its history, which is empty.  If it does not
\* inflate, the serial decoder starts over.
GzipInit ==
    /\ StagedInit
    /\ input \in Inputs
    /\ stage = IF Usable(0, InitialStop) THEN "start" ELSE "serial"
    /\ at = 0
    /\ window = 0
    /\ final = FALSE
    /\ key = 1
    /\ tasks = <<>>
    /\ nextResolve = 0
    /\ written = <<>>
    /\ outcome = "none"

------------------------------------------------------------------------------
(* The serial decoder. *)

\* A block before any that refers too far back.
SerialBlock ==
    LET b == Len(written) + 1 IN
    /\ stage = "serial"
    /\ b <= Count
    /\ \A f \in input.far : b < f
    /\ written' = Append(written, b)
    /\ UNCHANGED <<stagedVars, input, stage, at, window, final, key, tasks>>
    /\ UNCHANGED <<nextResolve, outcome>>

SerialEnd(answer) ==
    /\ stage = "serial"
    /\ stage' = "over"
    /\ outcome' = answer
    /\ UNCHANGED <<stagedVars, input, at, window, final, key, tasks, nextResolve, written>>

SerialOk == input.final /\ Len(written) = Count /\ SerialEnd("ok")

\* The next block is not there, cannot be read, or refers too far back.
SerialRefuses ==
    /\ Len(written) + 1 \in input.far \cup (IF input.final THEN {} ELSE {Count + 1})
    /\ SerialEnd("data error")

SerialAborted == SerialEnd("aborted")

Serial == SerialBlock \/ SerialOk \/ SerialRefuses \/ SerialAborted

------------------------------------------------------------------------------
(* The coordinator. *)

Outstanding == Len(tasks) - nextResolve

Following(place) == stage = place /\ outcome = "none" /\ Idle /\ hand = 0

\* The chain goes on behind a segment, whose end becomes the history of the
\* next one (successor_window).
Continue(segment) ==
    /\ at' = segment.end
    /\ window' = segment.end
    /\ final' = segment.final

GiveUp(error) ==
    /\ outcome' = error
    /\ UNCHANGED <<input, stage, at, window, final, key, tasks, nextResolve, written>>

\* A segment the coordinator has inflated itself is completed and written.
InitialSegment ==
    LET segment == Segment(0, InitialStop) IN
    /\ Following("start")
    /\ written' = written \o Resolved(segment, window)
    /\ Continue(segment)
    /\ stage' = "loop"
    /\ UNCHANGED <<stagedVars, input, key, tasks, nextResolve, outcome>>

AskPrimary ==
    /\ Following("loop")
    /\ ~final
    /\ CallTakePrimary(key)
    /\ UNCHANGED gzip

\* The guess does not continue the chain.
Reject ==
    /\ stage = "loop" /\ outcome = "none"
    /\ hand # 0 /\ ~Fits(hand)
    /\ RetireHand
    /\ stage' = "refused"
    /\ UNCHANGED <<input, at, window, final, key, tasks, nextResolve, written, outcome>>

\* Mutant of Accept: the coordinator never waits for the second stage.
AcceptAll ==
    /\ stage = "loop" /\ outcome = "none"
    /\ hand # 0 /\ Fits(hand)
    /\ Submit
    /\ tasks' = Append(tasks, [segment |-> Guess(hand), predecessor |-> window])
    /\ Continue(Guess(hand))
    /\ key' = key + 1
    /\ stage' = "loop"
    /\ UNCHANGED <<input, nextResolve, written, outcome>>

\* It does, and what the next one needs of it as history can be completed.
Accept ==
    /\ stage = "loop" /\ outcome = "none"
    /\ hand # 0 /\ Fits(hand)
    /\ Submit
    /\ tasks' = Append(tasks, [segment |-> Guess(hand), predecessor |-> window])
    /\ Continue(Guess(hand))
    /\ key' = key + 1
    /\ stage' = IF Outstanding + 1 >= Threads THEN "full" ELSE "loop"
    /\ UNCHANGED <<input, nextResolve, written, outcome>>

\* It does, but that cannot be completed.  The lease is lost.
AcceptRefused ==
    /\ stage = "loop" /\ outcome = "none"
    /\ hand # 0 /\ Fits(hand) /\ Idle
    /\ TooFar(Guess(hand))
    /\ GiveUp("data error")
    /\ UNCHANGED stagedVars

\* Completed segments are taken when there are as many as threads, when the
\* coordinator is about to write a segment of its own, and at the end.
AskStage ==
    /\ Following("full") \/ Following("refused") \/ (Following("loop") /\ final)
    /\ Outstanding > 0
    /\ CallTakeStage(nextResolve + 1)
    /\ UNCHANGED gzip

CommitStage ==
    LET task == tasks[awaited] IN
    /\ TakeStage
    /\ ~TooFar(task.segment)
    /\ written' = written \o Resolved(task.segment, task.predecessor)
    /\ nextResolve' = nextResolve + 1
    /\ stage' = IF stage = "full" THEN "loop" ELSE stage
    /\ UNCHANGED <<input, at, window, final, key, tasks, outcome>>

\* The stage answers an error, or the output refuses the segment.
StageFails ==
    /\ TakeStage
    /\ GiveUp(IF TooFar(tasks[awaited].segment) THEN "data error" ELSE "aborted")

\* Mutant of Fallback: completed segments before it are not waited for.
FallbackAtOnce ==
    LET segment == Segment(at, StopOf(key)) IN
    /\ Following("refused")
    /\ Usable(at, StopOf(key))
    /\ written' = written \o Resolved(segment, window)
    /\ Continue(segment)
    /\ key' = key + 1
    /\ stage' = "loop"
    /\ UNCHANGED <<stagedVars, input, tasks, nextResolve, outcome>>

\* The coordinator inflates the segment that no job has guessed.
Fallback ==
    LET segment == Segment(at, StopOf(key)) IN
    /\ Following("refused")
    /\ Outstanding = 0
    /\ Usable(at, StopOf(key))
    /\ written' = written \o Resolved(segment, window)
    /\ Continue(segment)
    /\ key' = key + 1
    /\ stage' = "loop"
    /\ UNCHANGED <<stagedVars, input, tasks, nextResolve, outcome>>

FallbackRefused ==
    /\ Following("refused")
    /\ Outstanding = 0
    /\ ~Usable(at, StopOf(key))
    /\ GiveUp(IF TooBig(at, StopOf(key)) THEN "too big" ELSE "data error")
    /\ UNCHANGED stagedVars

\* The output refuses a segment of the coordinator's own.
WriteAborted ==
    /\ Following("start") \/ (Following("refused") /\ Outstanding = 0)
    /\ GiveUp("aborted")
    /\ UNCHANGED stagedVars

Finish ==
    /\ Following("loop")
    /\ final
    /\ Outstanding = 0
    /\ GiveUp("ok")
    /\ UNCHANGED stagedVars

\* The end of run_staged_ordered.
ReturnOutcome ==
    /\ outcome # "none"
    /\ StagedReturn
    /\ UNCHANGED gzip

JoinOutcome ==
    /\ StagedJoin
    /\ outcome' = IF \E w \in Workers : pc[w] = "panicked" THEN "panicked" ELSE outcome
    /\ UNCHANGED <<input, stage, at, window, final, key, tasks, nextResolve, written>>

\* A job whose guesses all fail answers an error, which retains nothing; a
\* segment retains the list of its blocks, at least.
GzipWorker(w) ==
    /\ StagedWorker(w)
    /\ (pc[w] = "executing" /\ pc'[w] = "sending")
          => (lease'[job[w]] = 0 <=> Guesses(job[w]) = {})
    /\ UNCHANGED gzip

GzipCoordinator ==
    \/ InitialSegment
    \/ AskPrimary
    \/ ReceivePrimary /\ UNCHANGED gzip
    \/ TakePrimary /\ UNCHANGED gzip
    \/ Reject
    \/ Accept
    \/ AcceptRefused
    \/ AskStage
    \/ ReceiveStage /\ UNCHANGED gzip
    \/ CommitStage
    \/ StageFails
    \/ Fallback
    \/ FallbackRefused
    \/ WriteAborted
    \/ Finish
    \/ ReturnOutcome
    \/ StagedCancel /\ UNCHANGED gzip
    \/ JoinOutcome

Parallel == stage \notin {"serial", "over"}

GzipNext ==
    \/ Serial
    \/ Parallel /\ GzipCoordinator
    \/ Parallel /\ \E w \in Workers : GzipWorker(w)

GzipSpec == GzipInit /\ [][GzipNext]_gzipVars

(* Every thread runs; the output takes or refuses what it is given. *)
GzipFairness ==
    /\ WF_gzipVars(Serial)
    /\ WF_gzipVars(Parallel /\ GzipCoordinator)
    /\ \A w \in Workers : WF_gzipVars(Parallel /\ GzipWorker(w))

FairGzipSpec == GzipSpec /\ GzipFairness

------------------------------------------------------------------------------
(* Properties. *)

Ended == phase = "joined" \/ stage = "over"

\* The parallel decoder writes the blocks of the stream and nothing else, each
\* once, in order and with the history it refers to, and answers Ok exactly
\* for a whole stream that has been written to its end: whatever the jobs have
\* guessed and whenever the stages end.
Serially == INSTANCE Inflation
    WITH answer <- IF Ended THEN outcome ELSE "pending"

InflatesLikeSerial == Serially!Spec

\* The bytes of a completed segment are charged to nobody: the reservation is
\* given back before the answer is taken.  The coordinator bounds their number
\* by the number of threads.
CompletedBounded ==
    Cardinality(Answering \cup stageReady
                    \cup {stageTask[w] : w \in {v \in Workers : pc[v] = "answering"}})
        <= Threads

\* The data ends exactly behind a dynamic block that is not the final one.
CutBehindBlock ==
    ~input.final /\ Count \in input.dynamic /\ input.ends[Count] = End

\* The call ends, although workers poll and never sleep for good, as long as
\* the data is not cut exactly behind a block.
WholeAnswered == ~CutBehindBlock => <>Ended

\* "for end in 0..valid.len() { assert!(decompress(&valid[..end]).is_err()); }":
\* a stream that is cut anywhere is answered.
TruncationAnswered == <>Ended
==============================================================================
