------------------------------- MODULE History --------------------------------
(***************************************************************************)
(* extend_match of src/history.rs, which the DEFLATE and the LZ4 decoder   *)
(* share: a match repeats what stands `distance` back, also beyond where   *)
(* the output ended.                                                       *)
(***************************************************************************)
EXTENDS Integers, SequencesExt

AtMostOf(a, b) == IF a < b THEN a ELSE b

\* extend_from_within
Within(output, from, count) == output \o SubSeq(output, from + 1, from + count)

\* The last branch: what has been copied is copied again, twice as much each
\* turn, until `length` is reached; further turns copy nothing.
Doubled(output, distance, length) ==
    LET unit == SubSeq(output, Len(output) - distance + 1, Len(output))
        copied[turn \in 0..length] ==
            IF turn = 0 THEN unit
            ELSE LET before == copied[turn - 1]
                     count == AtMostOf(Len(before), length - Len(before))
                 IN  before \o SubSeq(before, 1, count)
    IN  output \o copied[length]

ExtendMatch(output, distance, length) ==
    LET original == Len(output) IN
    IF distance >= length THEN Within(output, original - distance, length)
    ELSE IF distance = 1
    THEN output \o [i \in 1..length |-> output[original]]
    ELSE IF length <= 2 * distance
    THEN Within(Within(output, original - distance, distance), original, length - distance)
    ELSE Doubled(output, distance, length)

\* What a match means: byte after byte, each `distance` behind its place.
Repeated(output, distance, length) ==
    LET all[i \in 0..length] ==
            IF i = 0 THEN output
            ELSE Append(all[i - 1], all[i - 1][Len(output) + i - distance])
    IN  all[length]
==============================================================================
