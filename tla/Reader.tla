-------------------------------- MODULE Reader --------------------------------
(***************************************************************************)
(* fbz::Reader of src/reader.rs: std::io::Read over a decoder behind an    *)
(* output pipe.  How decoding ended travels on a channel of its own, which *)
(* is read when the pipe has ended; a thread that ends without a message   *)
(* has panicked.  The reader joins the thread before it answers the end    *)
(* or an error, and when it is dropped.                                    *)
(*                                                                         *)
(* The client reads with any buffers and drops the reader at any time but  *)
(* during a call.  A read with an empty buffer, and one after the end or   *)
(* an error, answer at once and change nothing.                            *)
(***************************************************************************)
EXTENDS OutputPipe

CONSTANT Buffers  \* the sizes of the client's buffers

ASSUME BuffersAssumption == Buffers \subseteq Nat \ {0}

VARIABLES
    result,     \* the channel for the terminal status, with room for one
    call,       \* where the client's call is, "none" outside, "dropped" at the end
    verdict,    \* the status that finish or disconnected were called with
    status,     \* the reader's State: "open", "eof" or the error stored
    delivered   \* the bytes that reads have answered

readerVars == <<pipe, result, call, verdict, status, delivered>>

ReaderTypeOK ==
    /\ PipeTypeOK
    /\ result \in {<<>>} \cup {<<how>> : how \in {"ok", "bad", "broken pipe"}}
    /\ call \in {"none", "receiving", "awaiting", "joining", "dropping", "dropped"}
    /\ verdict \in {"none", "ok", "bad", "panic", "broken pipe"}
    /\ status \in {"open", "eof", "bad", "panic"}
    /\ delivered \in Seq(Nat)

ReaderInit ==
    /\ PipeInit
    /\ result = <<>>
    /\ call = "none"
    /\ verdict = "none"
    /\ status = "open"
    /\ delivered = <<>>

------------------------------------------------------------------------------
(* The thread. *)

\* The status is sent, if there is one, and the sender is gone.
Report ==
    /\ decoder = "closed"
    /\ decoder' = "ended"
    /\ result' = IF decoded = "panic" \/ cancelled THEN result ELSE Append(result, decoded)
    /\ UNCHANGED <<stream, sent, decoded, cancelled, chunk, call, verdict, status, delivered>>

Thread == (Decoding /\ UNCHANGED <<result, call, verdict, status, delivered>>) \/ Report

------------------------------------------------------------------------------
(* The calls of the client. *)

\* read answers from the chunk at hand ...
ReadAtHand ==
    /\ call = "none"
    /\ status = "open"
    /\ \E room \in Buffers :
          ReadChunk(room) /\ delivered' = delivered \o Taken(chunk, room)
    /\ UNCHANGED <<result, call, verdict, status>>

\* ... or has to receive one.
CallRead ==
    /\ call = "none"
    /\ status = "open"
    /\ chunk = <<>>
    /\ call' = "receiving"
    /\ UNCHANGED <<pipe, result, verdict, status, delivered>>

Receive ==
    /\ call = "receiving"
    /\ \E room \in Buffers :
          ReceiveChunk(room) /\ delivered' = delivered \o Taken(Upcoming, room)
    /\ call' = "none"
    /\ UNCHANGED <<result, verdict, status>>

\* The pipe has ended; what remains to be known is how.
PipeEnds ==
    /\ call = "receiving"
    /\ ~WriterAlive
    /\ call' = "awaiting"
    /\ UNCHANGED <<pipe, result, verdict, status, delivered>>

\* The beginning of finish and of disconnected.
Close(how) ==
    /\ DropPipe
    /\ result' = <<>>
    /\ verdict' = how
    /\ call' = "joining"
    /\ UNCHANGED <<status, delivered>>

TakeStatus == call = "awaiting" /\ result # <<>> /\ Close(Head(result))

\* Mutant of Disconnected: a missing status counts as success.
DisconnectedEof == call = "awaiting" /\ result = <<>> /\ decoder = "ended" /\ Close("ok")

Disconnected == call = "awaiting" /\ result = <<>> /\ decoder = "ended" /\ Close("panic")

\* The thread has been joined, and the answer is stored.
Finish ==
    /\ call = "joining"
    /\ decoder = "ended"
    /\ status' = IF verdict = "ok" THEN "eof" ELSE verdict
    /\ call' = "none"
    /\ UNCHANGED <<pipe, result, verdict, delivered>>

\* Mutant of CallDrop: the thread is joined before the pipe is dropped.
JoinFirst ==
    /\ call = "none"
    /\ call' = "dropping"
    /\ UNCHANGED <<pipe, result, verdict, status, delivered>>

\* The reader is dropped: first the pipe ...
CallDrop ==
    /\ call = "none"
    /\ DropPipe
    /\ result' = <<>>
    /\ call' = "dropping"
    /\ UNCHANGED <<verdict, status, delivered>>

\* ... then the thread is joined.
JoinDropped ==
    /\ call = "dropping"
    /\ decoder = "ended"
    /\ call' = "dropped"
    /\ UNCHANGED <<pipe, result, verdict, status, delivered>>

Client == ReadAtHand \/ CallRead \/ CallDrop

InCall == Receive \/ PipeEnds \/ TakeStatus \/ Disconnected \/ Finish \/ JoinDropped

ReaderNext == Thread \/ Client \/ InCall

ReaderSpec == ReaderInit /\ [][ReaderNext]_readerVars

\* The thread runs, and so does the code inside a call.  No client is fair.
FairReaderSpec == ReaderSpec /\ WF_readerVars(Thread) /\ WF_readerVars(InCall)

------------------------------------------------------------------------------
(* Properties. *)

\* "Only successful EOF establishes that the complete stream was valid"
\* (README.md:298): reads deliver the bytes of the stream in order, the end is
\* answered when all of them have been delivered and decoding has succeeded,
\* an error behind all bytes that precede it, and either one for good.
Promised == INSTANCE DecodedStream

ReadsTheStream == Promised!Spec

\* Every read is answered and every drop ends, with the thread: also while
\* the decoder waits in a send, and after it has panicked.
CallsReturn ==
    call \in {"receiving", "awaiting", "joining", "dropping"} ~> call \in {"none", "dropped"}
==============================================================================
