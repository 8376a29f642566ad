----------------------------- MODULE MCGzipDecode -----------------------------
(* A grid of two places, three grid points inside the data.  The layouts   *)
(* have boundaries at, before and behind the grid points, segments of one  *)
(* and of several blocks, blocks that cover a whole search window, and a   *)
(* stream that ends before the data, as where another member follows; each *)
(* comes whole or cut, and with one peculiarity at a time: a block that is *)
(* not dynamic, a decoy, a block too big, or one that refers too far back. *)
EXTENDS GzipDecode

MCReservation == [k \in 1..N |-> 2]

Layouts == {<<2, 4, 6, 7>>, <<1, 3, 4, 6, 7>>, <<2, 5, 7>>, <<3, 7>>, <<2, 4>>}

Plain(ends, isFinal) ==
    [ends |-> ends, final |-> isFinal, dynamic |-> DOMAIN ends,
     decoys |-> {}, big |-> {}, far |-> {}]

Plains == {Plain(ends, isFinal) : ends \in Layouts, isFinal \in BOOLEAN}

MCInputs ==
    Plains
    \cup UNION {{[p EXCEPT !.dynamic = @ \ {b}] : b \in DOMAIN p.ends} : p \in Plains}
    \cup UNION {{[p EXCEPT !.decoys = {d}] : d \in {3, 4, 5} \ {p.ends[b] : b \in DOMAIN p.ends}}
                    : p \in Plains}
    \cup {[p EXCEPT !.big = {2}] : p \in Plains}
    \cup {[p EXCEPT !.far = {Len(p.ends)}] : p \in Plains}
==============================================================================
