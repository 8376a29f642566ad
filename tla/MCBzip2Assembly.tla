---------------------------- MODULE MCBzip2Assembly ----------------------------
(* Four candidate blocks and two stream ends: 1 2 3 (4) 5 (6).  The inputs   *)
(* are the chains through them that begin at 1: any other candidate may be   *)
(* false, the streams may be one or two, and the chain may break anywhere.   *)
(* Only markers on the chain lead anywhere, since nobody asks where a false  *)
(* one leads; candidate 2 or 5, or neither, does not decode.                 *)
EXTENDS Bzip2Assembly

MCBlocks == {1, 2, 3, 5}
MCReservation == [k \in 1..N |-> 2]

\* The chain through the markers `path`, which ends well or breaks.
LeadsAlong(path, well) ==
    [m \in 0..6 |->
        IF m # 0 /\ m \notin path THEN 0
        ELSE IF \E n \in path : n > m
             THEN CHOOSE n \in path : n > m /\ \A o \in path : o > m => n <= o
             ELSE IF well THEN 7 ELSE 0]

\* Only behind the marker of a stream's end can the input be over.
EndsWell(path) == \E m \in path \ MCBlocks : \A n \in path : n <= m

Paths == {{1} \cup others : others \in SUBSET (2..6)}

MCInputs ==
    {[leads |-> LeadsAlong(path, FALSE), bad |-> bad] :
        path \in Paths, bad \in {{}, {2}, {5}}}
    \cup
    {[leads |-> LeadsAlong(path, TRUE), bad |-> bad] :
        path \in {p \in Paths : EndsWell(p)}, bad \in {{}, {2}, {5}}}
==============================================================================
