------------------------------ MODULE Inflation ------------------------------
(***************************************************************************)
(* What decoding a DEFLATE stream means: decode its blocks one after       *)
(* another, each with the output of those before it as history, until the  *)
(* final one, and write what they hold.  This is what the serial decoder   *)
(* of src/gzip.rs does (decode_deflate), and the parallel one must not be  *)
(* told apart from it.                                                     *)
(*                                                                         *)
(* An input is what decoding can tell of it.  Its blocks, as far as the    *)
(* bits can be read, are 1, 2, ..., Len(input.ends), and block b ends at   *)
(* input.ends[b].  input.final says that the last of them is final;        *)
(* otherwise the stream is cut or damaged behind it.  A block in input.far *)
(* refers to bytes before the beginning of the stream.  input.dynamic,     *)
(* input.big and input.decoys matter to the parallel decoder alone.        *)
(***************************************************************************)
EXTENDS Naturals, Sequences

CONSTANT Inputs

VARIABLES
    input,
    written,  \* the blocks written to the output, oldest first
    answer    \* "pending" until the call ends, then how it ended

vars == <<input, written, answer>>

\* A block decodes if neither it nor a block before it refers too far back.
Decodes(b) == b \in 1..Len(input.ends) /\ \A f \in input.far : b < f

Whole == input.final /\ input.far = {}

Init ==
    /\ input \in Inputs
    /\ written = <<>>
    /\ answer = "pending"

\* Blocks are written in order; how many at a time is nobody's concern.
Write(n) ==
    /\ answer = "pending"
    /\ \A b \in 1..n : Decodes(Len(written) + b)
    /\ written' = written \o [b \in 1..n |-> Len(written) + b]
    /\ UNCHANGED <<input, answer>>

\* The stream is bad.  What the output has by then is a part of what precedes
\* the damage: output is buffered, so that no decoder promises all of it.
Refuse ==
    /\ answer = "pending"
    /\ ~Whole
    /\ answer' = "data error"
    /\ UNCHANGED <<input, written>>

\* The output refuses what it is given.
Abort ==
    /\ answer = "pending"
    /\ answer' = "aborted"
    /\ UNCHANGED <<input, written>>

\* The parallel decoder gives up on a stretch that inflates too much.
Overflow ==
    /\ answer = "pending"
    /\ input.big # {}
    /\ answer' = "too big"
    /\ UNCHANGED <<input, written>>

Finish ==
    /\ answer = "pending"
    /\ Whole
    /\ Len(written) = Len(input.ends)
    /\ answer' = "ok"
    /\ UNCHANGED <<input, written>>

Next ==
    \/ \E n \in 1..Len(input.ends) : Write(n)
    \/ Refuse
    \/ Abort
    \/ Overflow
    \/ Finish

Spec == Init /\ [][Next]_vars
==============================================================================
