-------------------------- MODULE MCOrderedPipeline --------------------------
(* Four jobs of unequal reservations against a budget that admits some of   *)
(* them together and never all: the head of the queue blocks while smaller  *)
(* jobs behind it would fit.  One job panics.                               *)
EXTENDS OrderedPipeline

MCReservation == <<2, 1, 3, 1>>
==============================================================================
