--------------------------- MODULE MCInOrderBatch ----------------------------
(* Four jobs: the third takes the whole budget, and the second reserves     *)
(* nothing, as a stored LZ4 block does.                                     *)
EXTENDS InOrderBatch

MCReservation == <<2, 0, 3, 1>>
==============================================================================
