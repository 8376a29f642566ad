---------------------------- MODULE DeflateEncoder ----------------------------
(***************************************************************************)
(* The DEFLATE encoder of src/deflate_encode.rs and the gzip encoder of    *)
(* src/gzip.rs around it.  The buffer holds the end of what was submitted  *)
(* before, prefix_len bytes of it, and the segment that is filling up: a   *)
(* job may refer to the whole prefix, so the prefix must be what the       *)
(* decoder's window holds when it comes to that job.                       *)
(*                                                                         *)
(* SerialJobs is compress_bytes_serial, which the ZIP writer uses.         *)
(***************************************************************************)
EXTENDS WriteCalls

CONSTANTS
    Window,      \* WINDOW_SIZE
    SegmentSize  \* segment_size, or TARGET_SEGMENT_SIZE

\* segment_size goes down to twice the window.
ASSUME DeflateAssumption ==
    Window \in Nat \ {0} /\ SegmentSize \in Nat /\ SegmentSize > Window

VARIABLES
    buffer,
    prefixLen

deflate == <<buffer, prefixLen>>

DeflateInit == buffer = <<>> /\ prefixLen = 0

\* The last n bytes, or all.
LastOf(n, bytes) ==
    IF Len(bytes) <= n THEN bytes ELSE SubSeq(bytes, Len(bytes) - n + 1, Len(bytes))

Used == Len(buffer) - prefixLen

\* write: one turn of its loop fills the buffer as far as it goes.
FillBuffer ==
    LET take == IF Len(todo) < SegmentSize - Used THEN Len(todo) ELSE SegmentSize - Used
    IN
    /\ stage = "writing"
    /\ todo # <<>>
    /\ buffer' = buffer \o SubSeq(todo, 1, take)
    /\ todo' = SubSeq(todo, take + 1, Len(todo))
    /\ stage' = IF Used + take = SegmentSize THEN "submitting" ELSE "writing"
    /\ UNCHANGED <<queue, caller, jobs, sums, prefixLen>>

FillEnds ==
    /\ stage = "writing"
    /\ todo = <<>>
    /\ ReturnOk
    /\ UNCHANGED deflate

\* flush and finish both call flush_segments.
FlushSegments ==
    /\ stage = "ending"
    /\ stage' = "submitting"
    /\ UNCHANGED <<queue, caller, todo, jobs, sums, deflate>>

AfterSubmit == IF call = "write" THEN "writing" ELSE "draining"

NothingBuffered ==
    /\ stage = "submitting"
    /\ Used = 0
    /\ stage' = AfterSubmit
    /\ UNCHANGED <<queue, caller, todo, jobs, sums, deflate>>

\* Mutant of SubmitBuffer: the next prefix is taken from this segment only.
SubmitBufferForgets ==
    LET plain == SubSeq(buffer, prefixLen + 1, Len(buffer))
        next == LastOf(Window, plain)
    IN
    /\ stage = "submitting"
    /\ Used > 0
    /\ SubmitJob([dict |-> SubSeq(buffer, 1, prefixLen), plain |-> plain])
    /\ buffer' = next
    /\ prefixLen' = Len(next)
    /\ stage' = AfterSubmit
    /\ UNCHANGED <<caller, todo, sums>>

SubmitBuffer ==
    LET next == LastOf(Window, buffer)
    IN
    /\ stage = "submitting"
    /\ Used > 0
    /\ SubmitJob([dict |-> SubSeq(buffer, 1, prefixLen),
                  plain |-> SubSeq(buffer, prefixLen + 1, Len(buffer))])
    /\ buffer' = next
    /\ prefixLen' = Len(next)
    /\ stage' = AfterSubmit
    /\ UNCHANGED <<caller, todo, sums>>

CommitsSegment ==
    \/ stage = "submitting" /\ Used > 0 /\ ~CanSubmit(Reservation)
    \/ stage = "draining" /\ HasPending

\* After an error a full buffer stays full: the next write submits it first.
CommitSegment ==
    /\ CommitsSegment
    /\ CommitNext \/ LoseNext
    /\ UNCHANGED deflate

\* The output is flushed, by finish behind the last block and the trailer.
SegmentsEnd ==
    /\ stage = "draining"
    /\ ~HasPending
    /\ ReturnOk \/ ReturnError
    /\ UNCHANGED deflate

DeflateStep ==
    \/ FillBuffer
    \/ FillEnds
    \/ FlushSegments
    \/ NothingBuffered
    \/ SubmitBuffer
    \/ CommitSegment
    \/ SegmentsEnd

------------------------------------------------------------------------------
(* compress_bytes_serial *)

Chunks(bytes) ==
    [k \in 1..((Len(bytes) + SegmentSize - 1) \div SegmentSize) |->
        SubSeq(bytes, (k - 1) * SegmentSize + 1,
               IF k * SegmentSize < Len(bytes) THEN k * SegmentSize ELSE Len(bytes))]

\* `previous` behind a chunk: its end, or the end of what it is appended to.
Previous(previous, chunk) ==
    IF Len(chunk) >= Window THEN LastOf(Window, chunk) ELSE LastOf(Window, previous \o chunk)

SerialJobs(bytes) ==
    FoldLeft(LAMBDA done, chunk :
                 [jobs |-> Append(done.jobs, [dict |-> done.previous, plain |-> chunk]),
                  previous |-> Previous(done.previous, chunk)],
             [jobs |-> <<>>, previous |-> <<>>], Chunks(bytes)).jobs
==============================================================================
