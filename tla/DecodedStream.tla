---------------------------- MODULE DecodedStream -----------------------------
(***************************************************************************)
(* What a reader of compressed data is promised (README.md:298): the bytes *)
(* that decoding yields, each once and in order, and behind the last of    *)
(* them, for good, either the end of the file, which says that decoding    *)
(* succeeded, or how it failed.                                            *)
(*                                                                         *)
(* The bytes of a stream are numbered from 1.  Decoding writes them in     *)
(* chunks, of which chunk i ends with byte stream.ends[i]; a chunk may be  *)
(* empty.  stream.outcome is how decoding ends.                            *)
(***************************************************************************)
EXTENDS Naturals, Sequences

CONSTANT Streams

VARIABLES
    stream,
    delivered,  \* the bytes that calls of read have answered
    status      \* "open", "eof", or how decoding failed

vars == <<stream, delivered, status>>

Size == IF stream.ends = <<>> THEN 0 ELSE stream.ends[Len(stream.ends)]

FirstBytes(n) == [i \in 1..n |-> i]

Init ==
    /\ stream \in Streams
    /\ delivered = <<>>
    /\ status = "open"

Deliver(n) ==
    /\ status = "open"
    /\ Len(delivered) + n <= Size
    /\ delivered' = FirstBytes(Len(delivered) + n)
    /\ UNCHANGED <<stream, status>>

End ==
    /\ status = "open"
    /\ delivered = FirstBytes(Size)
    /\ status' = IF stream.outcome = "ok" THEN "eof" ELSE stream.outcome
    /\ UNCHANGED <<stream, delivered>>

Next == (\E n \in 1..Size : Deliver(n)) \/ End

Spec == Init /\ [][Next]_vars
==============================================================================
