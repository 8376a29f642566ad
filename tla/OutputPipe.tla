------------------------------ MODULE OutputPipe ------------------------------
(***************************************************************************)
(* A decoder that runs on a thread of its own and writes what it decodes   *)
(* to the pipe of src/output.rs: a rendezvous channel, sync_channel(0), on *)
(* which a send lasts until the chunk has been received or the receiver is *)
(* gone.  The consumer of the pipe is left open; Reader is one.            *)
(*                                                                         *)
(* What is decoded, and how that ends, is a stream of DecodedStream.       *)
(* Decoders are called through one function (decode_stream_to_sink of      *)
(* src/stream.rs); they end at the first write that fails.  No decoder     *)
(* writes a chunk that starts behind its end.                              *)
(*                                                                         *)
(* `cancelled` is the flag that the reading end sets when it is dropped,   *)
(* and stands for the end of the receiver as well, which follows at once:  *)
(* a decoder waits for the second and asks for the first elsewhere.        *)
(***************************************************************************)
EXTENDS Naturals, Sequences

CONSTANT Streams

ASSUME StreamsAssumption ==
    \A s \in Streams :
        /\ s.ends \in Seq(Nat)
        /\ \A i, j \in 1..Len(s.ends) : i < j => s.ends[i] <= s.ends[j]
        /\ s.outcome \in {"ok", "bad", "panic"}

VARIABLES
    stream,
    sent,       \* how many chunks the decoder has written
    decoder,    \* "decoding", "sending", then "finished", "closed" when the
                \* pipe's writing end is dropped, "ended" with its thread
    decoded,    \* how decoding has ended, "none" before
    cancelled,  \* the reading end is dropped
    chunk       \* PipeReader: the bytes of its chunk behind `offset`

pipe == <<stream, sent, decoder, decoded, cancelled, chunk>>

\* How many bytes have been written, and the chunk that comes next.
Behind == IF sent = 0 THEN 0 ELSE stream.ends[sent]
Stretch(from, to) == [i \in 1..(to - from) |-> from + i]
Upcoming == Stretch(Behind, stream.ends[sent + 1])

WriterAlive == decoder \in {"decoding", "sending", "finished"}

PipeTypeOK ==
    /\ stream \in Streams
    /\ sent \in 0..Len(stream.ends)
    /\ decoder \in {"decoding", "sending", "finished", "closed", "ended"}
    /\ decoded \in {"none", "ok", "bad", "panic", "broken pipe"}
    /\ (decoded = "none") <=> decoder \in {"decoding", "sending"}
    /\ cancelled \in BOOLEAN
    /\ chunk \in Seq(Nat)

PipeInit ==
    /\ stream \in Streams
    /\ sent = 0
    /\ decoder = "decoding"
    /\ decoded = "none"
    /\ cancelled = FALSE
    /\ chunk = <<>>

------------------------------------------------------------------------------
(* The decoder. *)

\* The decoder writes a chunk.  One without bytes is not sent.
Write ==
    /\ decoder = "decoding"
    /\ sent < Len(stream.ends)
    /\ IF Upcoming = <<>>
       THEN sent' = sent + 1 /\ UNCHANGED decoder
       ELSE decoder' = "sending" /\ UNCHANGED sent
    /\ UNCHANGED <<stream, decoded, cancelled, chunk>>

\* Decoding ends, with what it answers or with a panic.
StopDecoding(how) ==
    /\ decoded' = how
    /\ decoder' = "finished"
    /\ UNCHANGED <<stream, sent, cancelled, chunk>>

EndOfStream ==
    /\ decoder = "decoding"
    /\ sent = Len(stream.ends)
    /\ StopDecoding(stream.outcome)

\* Nobody receives the chunk any more.
SendFails == decoder = "sending" /\ cancelled /\ StopDecoding("broken pipe")

\* Decoders that ask is_cancelled from time to time end by themselves.
SeesCancelled == decoder = "decoding" /\ cancelled /\ StopDecoding("broken pipe")

\* The writing end is dropped, by the thread or as it unwinds.
DropOutput ==
    /\ decoder = "finished"
    /\ decoder' = "closed"
    /\ UNCHANGED <<stream, sent, decoded, cancelled, chunk>>

Decoding == Write \/ EndOfStream \/ SendFails \/ SeesCancelled \/ DropOutput

------------------------------------------------------------------------------
(* The consumer. *)

\* What a read takes from a chunk, and what it leaves.
Taken(bytes, room) == SubSeq(bytes, 1, IF Len(bytes) < room THEN Len(bytes) ELSE room)
Left(bytes, room) == SubSeq(bytes, room + 1, Len(bytes))

\* PipeReader::read from what is left of its chunk ...
ReadChunk(room) ==
    /\ chunk # <<>>
    /\ chunk' = Left(chunk, room)
    /\ UNCHANGED <<stream, sent, decoder, decoded, cancelled>>

\* ... or, when nothing is left, from the one that the decoder is sending.
ReceiveChunk(room) ==
    /\ decoder = "sending"
    /\ chunk' = Left(Upcoming, room)
    /\ sent' = sent + 1
    /\ decoder' = "decoding"
    /\ UNCHANGED <<stream, decoded, cancelled>>

\* The reading end is dropped, with what is left of its chunk.
DropPipe ==
    /\ cancelled' = TRUE
    /\ chunk' = <<>>
    /\ UNCHANGED <<stream, sent, decoder, decoded>>
==============================================================================
