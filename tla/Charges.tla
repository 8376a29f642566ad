------------------------------- MODULE Charges -------------------------------
(***************************************************************************)
(* Byte accounting shared by the scheduler models.                         *)
(*                                                                         *)
(* A charge map gives, for every job that currently holds part of a byte   *)
(* budget, the number of bytes it holds.  The code never stores such a     *)
(* map: it keeps one running counter (State::reserved, or the `reserved`   *)
(* field of StreamingOrdered) and lets every job carry the amount it has   *)
(* to give back.  The models keep the amounts in one map, so that the      *)
(* counter can be compared with what it stands for.                        *)
(*                                                                         *)
(* Total(c) is the sum of the amounts.  It is written as the cardinality   *)
(* of the set of charged bytes, one pair <<job, byte>> each, because the   *)
(* library proves what the union of two disjoint finite sets counts, while *)
(* a recursive sum would need an induction for every step of a proof.      *)
(***************************************************************************)
EXTENDS Naturals, FiniteSets

\* The charged bytes of job k: one pair per byte.
BytesOf(k, amount) == {k} \X (1..amount)

\* Every charged byte of the map c.
Bytes(c) == UNION {BytesOf(k, c[k]) : k \in DOMAIN c}

Total(c) == Cardinality(Bytes(c))

\* c with job k charged `amount` bytes, whether or not it was charged before.
Charged(c, k, amount) ==
    [x \in DOMAIN c \cup {k} |-> IF x = k THEN amount ELSE c[x]]

\* c after job k gave everything back.
Uncharged(c, k) == [x \in DOMAIN c \ {k} |-> c[x]]
==============================================================================
