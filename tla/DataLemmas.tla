------------------------------ MODULE DataLemmas ------------------------------
(***************************************************************************)
(* Lemmas about data that the proofs of several components rest on: the    *)
(* least number of a set and induction along an interval; what Total does  *)
(* when a job is charged, recharged or uncharged; that a fold along a      *)
(* sequence is the last value of a run, one step for each element; that a  *)
(* recursive function on the naturals exists; that joining sequences is    *)
(* associative; and division with a rest.                                  *)
(***************************************************************************)
EXTENDS Charges, Integers, SequencesExt, FiniteSetTheorems, SequenceTheorems,
        WellFoundedInduction, TLAPS

------------------------------------------------------------------------------
(* Numbers. *)

\* A set of numbers has a least one.
LEMMA LeastNat ==
    ASSUME NEW S, S \subseteq Nat, S # {}
    PROVE  \E a \in S : \A b \in S : a <= b
<1> DEFINE Less == {p \in Nat \X Nat : p[1] < p[2]}
<1>1. IsWellFoundedOn(Less, Nat)
  BY NatLessThanWellFounded DEF OpToRel
<1> HIDE DEF Less
<1>2. PICK a \in S : \A b \in S : <<b, a>> \notin Less
  BY <1>1, WFMin
<1>3. \A b \in S : a <= b
  <2> SUFFICES ASSUME NEW b \in S, b < a PROVE FALSE
    OBVIOUS
  <2>1. <<b, a>> \in Less
    BY DEF Less
  <2> QED BY <1>2, <2>1
<1> QED BY <1>3

\* Induction up to N, over a set.
LEMMA Climb ==
    ASSUME NEW N \in Nat, NEW S, 0 \in S,
           \A n \in 1..N : n - 1 \in S => n \in S
    PROVE  \A n \in 0..N : n \in S
<1> DEFINE Bad == (0..N) \ S
<1> SUFFICES ASSUME Bad # {} PROVE FALSE
  OBVIOUS
<1>1. PICK n \in Bad : \A m \in Bad : n <= m
  <2>1. Bad \subseteq Nat
    OBVIOUS
  <2> HIDE DEF Bad
  <2> QED BY <2>1, LeastNat
<1>2. n \in 1..N /\ n - 1 \notin Bad
  BY <1>1
<1> QED BY <1>1, <1>2

------------------------------------------------------------------------------
(* Sequences. *)

Associates(s, t, u) == (s \o t) \o u = s \o (t \o u)

\* ConcatAssociative, in a form the provers instantiate.
LEMMA JoinsAssociate ==
    ASSUME NEW S, NEW s \in Seq(S), NEW t \in Seq(S), NEW u \in Seq(S)
    PROVE  Associates(s, t, u)
BY ConcatAssociative DEF Associates

------------------------------------------------------------------------------
(* Charge maps: the accounting of the schedulers. *)

\* A charge map: finitely many jobs, each holding a natural number of bytes.
IsChargeMap(c) ==
    /\ IsFiniteSet(DOMAIN c)
    /\ \A k \in DOMAIN c : c[k] \in Nat

\* The bytes of one job are as many as the amount says.
LEMMA BytesOfCount ==
    ASSUME NEW k, NEW amount \in Nat
    PROVE  /\ IsFiniteSet(BytesOf(k, amount))
           /\ Cardinality(BytesOf(k, amount)) = amount
<1>1. IsFiniteSet({k}) /\ Cardinality({k}) = 1
  BY FS_Singleton
<1>2. IsFiniteSet(1..amount) /\ Cardinality(1..amount) = amount
  <2>1. /\ IsFiniteSet(1..amount)
        /\ Cardinality(1..amount) = IF 1 > amount THEN 0 ELSE amount - 1 + 1
    BY FS_Interval
  <2> QED BY <2>1
<1>3. /\ IsFiniteSet({k} \X (1..amount))
      /\ Cardinality({k} \X (1..amount)) = 1 * amount
  <2>1. /\ IsFiniteSet({k} \X (1..amount))
        /\ Cardinality({k} \X (1..amount)) = Cardinality({k}) * Cardinality(1..amount)
    <3>1. IsFiniteSet({k}) /\ IsFiniteSet(1..amount)
      BY <1>1, <1>2
    <3> QED BY ONLY <3>1, FS_Product
  <2>2. Cardinality({k}) * Cardinality(1..amount) = 1 * amount
    BY ONLY <1>1, <1>2
  <2> QED BY ONLY <2>1, <2>2
<1>4. 1 * amount = amount
  OBVIOUS
<1> QED BY <1>3, <1>4 DEF BytesOf

\* The bytes of different jobs are different, so the bytes of a map split into
\* those of one job and those of the others.
LEMMA BytesSplit ==
    ASSUME NEW c, NEW k \in DOMAIN c
    PROVE  /\ Bytes(c) = Bytes(Uncharged(c, k)) \cup BytesOf(k, c[k])
           /\ Bytes(Uncharged(c, k)) \cap BytesOf(k, c[k]) = {}
BY DEF Bytes, BytesOf, Uncharged

LEMMA BytesFinite ==
    ASSUME NEW c, IsChargeMap(c)
    PROVE  IsFiniteSet(Bytes(c))
<1> DEFINE F == [k \in DOMAIN c |-> BytesOf(k, c[k])]
           S == {BytesOf(k, c[k]) : k \in DOMAIN c}
<1>1. F \in Surjection(DOMAIN c, S)
  BY DEF Surjection
<1>2. IsFiniteSet(S)
  BY <1>1, FS_Surjection DEF IsChargeMap
<1>3. \A T \in S : IsFiniteSet(T)
  BY BytesOfCount DEF IsChargeMap
<1> QED BY <1>2, <1>3, FS_UNION DEF Bytes

LEMMA TotalType ==
    ASSUME NEW c, IsChargeMap(c)
    PROVE  Total(c) \in Nat
BY BytesFinite, FS_CardinalityType DEF Total

\* Nobody holds anything: the total is zero.
LEMMA TotalEmpty ==
    ASSUME NEW c, DOMAIN c = {}
    PROVE  Total(c) = 0
<1>1. Bytes(c) = {}
  BY DEF Bytes
<1> QED BY <1>1, FS_EmptySet DEF Total

LEMMA UnchargedType ==
    ASSUME NEW c, IsChargeMap(c), NEW k
    PROVE  /\ IsChargeMap(Uncharged(c, k))
           /\ DOMAIN Uncharged(c, k) = DOMAIN c \ {k}
<1>1. IsFiniteSet(DOMAIN c \ {k})
  BY FS_RemoveElement DEF IsChargeMap
<1> QED BY <1>1 DEF IsChargeMap, Uncharged

\* A job that gives everything back lowers the total by what it held, and it
\* never held more than the total.
LEMMA TotalUncharged ==
    ASSUME NEW c, IsChargeMap(c), NEW k \in DOMAIN c
    PROVE  /\ Total(c) = Total(Uncharged(c, k)) + c[k]
           /\ Total(Uncharged(c, k)) \in Nat
           /\ Total(c) \in Nat
           /\ c[k] <= Total(c)
<1> DEFINE U == Bytes(Uncharged(c, k))
           B == BytesOf(k, c[k])
<1>1. IsFiniteSet(U) /\ Cardinality(U) \in Nat
  BY UnchargedType, BytesFinite, FS_CardinalityType
<1>2. c[k] \in Nat /\ IsFiniteSet(B) /\ Cardinality(B) = c[k]
  BY BytesOfCount DEF IsChargeMap
<1>3. Cardinality(U \cup B) = Cardinality(U) + Cardinality(B) - Cardinality(U \cap B)
  BY <1>1, <1>2, FS_Union
<1>4. U \cap B = {} /\ Bytes(c) = U \cup B
  BY BytesSplit
<1>5. Cardinality(U \cap B) = 0
  BY <1>4, FS_EmptySet
<1> HIDE DEF U, B
<1>6. Cardinality(Bytes(c)) = Cardinality(U) + c[k]
  BY <1>1, <1>2, <1>3, <1>4, <1>5
<1> QED BY <1>1, <1>2, <1>6 DEF Total, U

\* Charging a job that holds nothing adds its amount to the total.
LEMMA TotalCharged ==
    ASSUME NEW c, IsChargeMap(c), NEW k, k \notin DOMAIN c, NEW amount \in Nat,
           NEW d, d = Charged(c, k, amount)
    PROVE  /\ IsChargeMap(d)
           /\ \A x : x \in DOMAIN d <=> x \in DOMAIN c \/ x = k
           /\ d[k] = amount
           /\ \A x \in DOMAIN c : d[x] = c[x]
           /\ Total(d) = Total(c) + amount
           /\ Total(c) \in Nat
<1>1. IsFiniteSet(DOMAIN c \cup {k})
  BY FS_AddElement DEF IsChargeMap
<1>2. /\ DOMAIN d = DOMAIN c \cup {k}
      /\ d[k] = amount
      /\ \A x \in DOMAIN d : d[x] \in Nat
      /\ \A x \in DOMAIN c : d[x] = c[x]
  BY DEF Charged, IsChargeMap
<1>3. IsChargeMap(d)
  BY <1>1, <1>2 DEF IsChargeMap
<1>4. Total(d) = Total(Uncharged(d, k)) + amount /\ Total(Uncharged(d, k)) \in Nat
  BY <1>2, <1>3, TotalUncharged
<1>5. Bytes(Uncharged(d, k)) = Bytes(c)
  <2>1. /\ DOMAIN Uncharged(d, k) = DOMAIN c
        /\ \A x \in DOMAIN c : Uncharged(d, k)[x] = c[x]
    BY <1>2 DEF Uncharged
  <2> QED BY <2>1 DEF Bytes
<1> QED BY <1>2, <1>3, <1>4, <1>5 DEF Total

\* Recharging a job moves the total by the difference.
LEMMA TotalRecharged ==
    ASSUME NEW c, IsChargeMap(c), NEW k \in DOMAIN c, NEW amount \in Nat,
           NEW d, d = Charged(c, k, amount)
    PROVE  /\ IsChargeMap(d)
           /\ DOMAIN d = DOMAIN c
           /\ d[k] = amount
           /\ \A x \in DOMAIN c \ {k} : d[x] = c[x]
           /\ Total(d) = (Total(c) - c[k]) + amount
           /\ Total(c) \in Nat
           /\ c[k] \in Nat
           /\ c[k] <= Total(c)
<1>1. /\ DOMAIN d = DOMAIN c
      /\ d[k] = amount
      /\ \A x \in DOMAIN c \ {k} : d[x] = c[x]
  BY DEF Charged
<1>2. IsChargeMap(d)
  BY <1>1 DEF IsChargeMap
<1>3. Total(d) = Total(Uncharged(d, k)) + amount /\ Total(Uncharged(d, k)) \in Nat
  BY <1>1, <1>2, TotalUncharged
<1>4. Uncharged(d, k) = Uncharged(c, k)
  BY DEF Charged, Uncharged
<1>5. /\ Total(c) = Total(Uncharged(c, k)) + c[k]
      /\ c[k] \in Nat
      /\ c[k] <= Total(c)
      /\ Total(c) \in Nat
  BY TotalUncharged DEF IsChargeMap
<1> QED BY <1>1, <1>2, <1>3, <1>4, <1>5

------------------------------------------------------------------------------
(* Folds along sequences. *)

\* What the definition of a fold recurses on: the subsets of a finite set, each
\* with a last element, and a step that goes from the value without it to the
\* value with it.
Lasts(last, D) == \A s \in SUBSET D : s # {} => last[s] \in s
Steps(step, A, D) == \A a \in A : \A x \in D : step[<<a, x>>] \in A
Table(t, D, A, base, last, step) ==
    /\ t \in [SUBSET D -> A]
    /\ t[{}] = base
    /\ \A s \in SUBSET D : s # {} => t[s] = step[<<t[s \ {last[s]}], last[s]>>]

\* Over the subsets of a finite set such a recursion has a solution.
LEMMA TableExists ==
    ASSUME NEW D, IsFiniteSet(D), NEW A, NEW base \in A,
           NEW last, Lasts(last, D), NEW step, Steps(step, A, D)
    PROVE  \E t : Table(t, D, A, base, last, step)
<1> USE DEF Lasts, Steps
<1> DEFINE size == [s \in SUBSET D |-> Cardinality(s)]
           rest == [s \in SUBSET D |-> s \ {last[s]}]
           Good(k) ==
        \E t \in [SUBSET D -> A] :
            /\ t[{}] = base
            /\ \A s \in SUBSET D :
                  s # {} /\ size[s] <= k => t[s] = step[<<t[rest[s]], last[s]>>]
<1>1. ASSUME NEW s \in SUBSET D
      PROVE  /\ size[s] \in Nat /\ size[s] <= Cardinality(D)
             /\ size[s] <= 0 => s = {}
             /\ s # {} => rest[s] \in SUBSET D /\ size[rest[s]] = size[s] - 1 /\ last[s] \in D
             /\ rest[s] = s \ {last[s]}
  <2>1. IsFiniteSet(s) /\ Cardinality(s) \in Nat /\ Cardinality(s) <= Cardinality(D)
    BY FS_Subset, FS_CardinalityType
  <2>2. Cardinality(s) = 0 => s = {}
    BY <2>1, FS_EmptySet
  <2>3. ASSUME s # {}
        PROVE  Cardinality(s \ {last[s]}) = Cardinality(s) - 1
    BY <2>1, <2>3, FS_RemoveElement
  <2>4. s \ {last[s]} \in SUBSET D
    OBVIOUS
  <2> QED BY <2>1, <2>2, <2>3, <2>4
<1>2. size[{}] = 0 /\ {} \in SUBSET D
  BY FS_EmptySet
<1> HIDE DEF size, rest
<1>3. Good(0)
  <2>1. \A s \in SUBSET D : ~(s # {} /\ size[s] <= 0)
    BY <1>1
  <2>2. [s \in SUBSET D |-> base] \in [SUBSET D -> A]
    OBVIOUS
  <2>3. [s \in SUBSET D |-> base][{}] = base
    BY <1>2
  <2> QED BY <2>1, <2>2, <2>3
<1>4. ASSUME NEW k \in Nat, Good(k)
      PROVE  Good(k + 1)
  <2>1. PICK t \in [SUBSET D -> A] :
            /\ t[{}] = base
            /\ \A s \in SUBSET D :
                  s # {} /\ size[s] <= k => t[s] = step[<<t[rest[s]], last[s]>>]
    BY <1>4
  <2> DEFINE u == [s \in SUBSET D |-> IF size[s] <= k THEN t[s]
                                      ELSE step[<<t[rest[s]], last[s]>>]]
  <2>2. ASSUME NEW s \in SUBSET D
        PROVE  /\ u[s] \in A
               /\ size[s] <= k => u[s] = t[s]
               /\ s # {} => u[s] = step[<<t[rest[s]], last[s]>>]
    <3>1. u[s] = IF size[s] <= k THEN t[s] ELSE step[<<t[rest[s]], last[s]>>]
      OBVIOUS
    <3>2. s # {} => step[<<t[rest[s]], last[s]>>] \in A
      BY <1>1
    <3>3. s = {} => size[s] = 0
      BY <1>2, Zenon
    <3>4. s = {} => t[s] = base
      BY <2>1, Zenon
    <3> HIDE DEF u
    <3> QED BY <1>1, <2>1, <3>1, <3>2, <3>3, <3>4
  <2>3. u \in [SUBSET D -> A]
    BY <2>2
  <2> HIDE DEF u
  <2>4. u[{}] = base
    <3>1. size[{}] <= k
      BY <1>2
    <3>2. u[{}] = t[{}]
      BY <1>2, <2>2, <3>1, Zenon
    <3> QED BY <2>1, <3>2
  <2>5. ASSUME NEW s \in SUBSET D, s # {}, size[s] <= k + 1
        PROVE  u[s] = step[<<u[rest[s]], last[s]>>]
    <3>1. rest[s] \in SUBSET D /\ size[rest[s]] <= k
      BY <1>1, <2>5
    <3>2. u[rest[s]] = t[rest[s]]
      BY <2>2, <3>1
    <3> QED BY <2>2, <2>5, <3>2
  <2> QED BY <2>3, <2>4, <2>5
<1> HIDE DEF Good
<1>5. ASSUME NEW n \in Nat
      PROVE  Good(n)
  <2> DEFINE S == {k \in Nat : Good(k)}
  <2>1. 0 \in S
    BY <1>3
  <2>2. ASSUME NEW k \in 1..n, k - 1 \in S
        PROVE  k \in S
    BY <1>4, <2>2
  <2>3. \A k \in 0..n : k \in S
    <3> HIDE DEF S
    <3> QED BY <2>1, <2>2, Climb
  <2> QED BY <2>3
<1>6. Good(Cardinality(D))
  BY <1>5, FS_CardinalityType
<1>7. PICK t \in [SUBSET D -> A] :
          /\ t[{}] = base
          /\ \A s \in SUBSET D :
                s # {} /\ size[s] <= Cardinality(D) => t[s] = step[<<t[rest[s]], last[s]>>]
  BY <1>6 DEF Good
<1>8. \A s \in SUBSET D : s # {} => t[s] = step[<<t[s \ {last[s]}], last[s]>>]
  <2> TAKE s \in SUBSET D
  <2>1. s # {} => t[s] = step[<<t[rest[s]], last[s]>>]
    BY <1>1, <1>7
  <2>2. rest[s] = s \ {last[s]}
    BY <1>1
  <2> QED BY <2>1, <2>2, Zenon
<1>9. Table(t, D, A, base, last, step)
  <2>1. t \in [SUBSET D -> A] /\ t[{}] = base
    BY <1>7
  <2> QED BY <1>8, <2>1, Zenon DEF Table
<1> QED BY <1>9

\* A subset of an interval has a greatest element.
LEMMA MaxIn ==
    ASSUME NEW n \in Nat, NEW s \in SUBSET (1..n), s # {}
    PROVE  Max(s) \in s
<1> DEFINE below == {n - x : x \in s}
<1>1. below \subseteq Nat /\ below # {}
  <2>1. PICK x \in s : TRUE
    OBVIOUS
  <2>2. n - x \in below
    BY <2>1
  <2>3. \A y \in s : n - y \in Nat
    OBVIOUS
  <2> QED BY <2>2, <2>3
<1>2. PICK a \in below : \A b \in below : a <= b
  BY <1>1, LeastNat
<1>3. PICK x \in s : a = n - x
  BY <1>2
<1>4. \A y \in s : x >= y
  <2> TAKE y \in s
  <2>1. n - y \in below
    OBVIOUS
  <2>2. a <= n - y
    BY <1>2, <2>1
  <2> QED BY <1>3, <2>2
<1> QED BY <1>4 DEF Max

\* A fold adds one element after the other: `run` are its values.
IsRun(run, base, step, seq) ==
    /\ run[0] = base
    /\ \A n \in 1..Len(seq) : run[n] = step[<<run[n - 1], seq[n]>>]

\* The runs over a sequence and over its extension agree as far as both go.
Extended(more, seq, x) ==
    /\ Len(seq) \in Nat /\ Len(more) = Len(seq) + 1
    /\ \A n \in 1..Len(seq) : more[n] = seq[n]
    /\ more[Len(seq) + 1] = x
LongerRun(q, more, step, r, seq, x) == q[Len(more)] = step[<<r[Len(seq)], x>>]

\* One more element is one more step.
LEMMA RunsAgree ==
    ASSUME NEW seq, NEW more, NEW x, NEW base, NEW step, NEW r, NEW q,
           Extended(more, seq, x), IsRun(r, base, step, seq), IsRun(q, base, step, more)
    PROVE  LongerRun(q, more, step, r, seq, x)
<1> DEFINE N == Len(seq)
<1> HIDE DEF N
<1>2. /\ N \in Nat
      /\ \A n \in 1..N : more[n] = seq[n]
      /\ more[N + 1] = x
      /\ r[0] = base /\ q[0] = base
      /\ \A n \in 1..N : r[n] = step[<<r[n - 1], seq[n]>>]
      /\ \A n \in 1..(N + 1) : q[n] = step[<<q[n - 1], more[n]>>]
      /\ N + 1 = Len(more)
  BY DEF N, IsRun, Extended
<1>3. \A n \in 0..N : r[n] = q[n]
  <2> DEFINE Same == {n \in 0..N : r[n] = q[n]}
  <2>1. 0 \in Same
    BY <1>2
  <2>2. ASSUME NEW n \in 1..N, n - 1 \in Same
        PROVE  n \in Same
    <3>1. n \in 0..N /\ n \in 1..(N + 1) /\ r[n - 1] = q[n - 1]
      BY <1>2, <2>2
    <3>2. r[n] = step[<<r[n - 1], more[n]>>] /\ q[n] = step[<<q[n - 1], more[n]>>]
      BY <1>2, <3>1
    <3> QED BY <3>1, <3>2
  <2>3. \A n \in 0..N : n \in Same
    <3> HIDE DEF Same
    <3> QED BY <1>2, <2>1, <2>2, Climb
  <2> QED BY <2>3
<1>4. q[N + 1] = step[<<q[N], more[N + 1]>>]
  <2>1. N + 1 \in 1..(N + 1) /\ N + 1 - 1 = N
    BY <1>2
  <2> QED BY <1>2, <2>1
<1> QED BY <1>2, <1>3, <1>4 DEF N, LongerRun

\* What the definition of a fold chooses from: its recursion over the subsets
\* of the sequence's domain.
IsFold(t, seq, A, base, step) ==
    /\ t \in [SUBSET (DOMAIN seq) -> A]
    /\ t[{}] = base
    /\ \A s \in SUBSET (DOMAIN seq) :
          s # {} => /\ Max(s) \in DOMAIN seq
                    /\ t[s] = step[<<t[s \ {Max(s)}], seq[Max(s)]>>]

\* A step that stays in A gives the recursion of a fold a solution.
LEMMA FoldExists ==
    ASSUME NEW X, NEW seq \in Seq(X), NEW A, NEW base \in A,
           NEW step, Steps(step, A, X)
    PROVE  \E t : IsFold(t, seq, A, base, step)
<1>1. DOMAIN seq = 1..Len(seq) /\ Len(seq) \in Nat /\ IsFiniteSet(1..Len(seq))
  BY FS_Interval
<1> DEFINE D == DOMAIN seq
           last == [s \in SUBSET D |-> Max(s)]
           at == [p \in A \X D |-> step[<<p[1], seq[p[2]]>>]]
<1>2. \A s \in SUBSET D : s # {} => Max(s) \in s
  BY <1>1, MaxIn
<1>3. Lasts(last, D)
  BY <1>2 DEF Lasts
<1>4. ASSUME NEW a \in A, NEW x \in D
      PROVE  at[<<a, x>>] = step[<<a, seq[x]>>] /\ at[<<a, x>>] \in A
  <2>1. seq[x] \in X
    OBVIOUS
  <2>2. <<a, x>> \in A \X D /\ <<a, x>>[1] = a /\ <<a, x>>[2] = x
    OBVIOUS
  <2>3. at[<<a, x>>] = step[<<a, seq[x]>>]
    BY <2>2
  <2> QED BY <2>1, <2>3 DEF Steps
<1>5. \A s \in SUBSET D : last[s] = Max(s)
  OBVIOUS
<1>6. PICK t : Table(t, D, A, base, last, at)
  <2>1. IsFiniteSet(D)
    BY <1>1
  <2>2. Steps(at, A, D)
    BY <1>4 DEF Steps
  <2> HIDE DEF D, last, at
  <2> QED BY <1>3, <2>1, <2>2, TableExists
<1> USE DEF Table
<1> HIDE DEF last, at
<1>7. ASSUME NEW s \in SUBSET D, s # {}
      PROVE  Max(s) \in D /\ t[s] = step[<<t[s \ {Max(s)}], seq[Max(s)]>>]
  <2>2. t[s] = at[<<t[s \ {Max(s)}], Max(s)>>]
    BY <1>5, <1>6, <1>7, Zenon
  <2>3. s \ {Max(s)} \in SUBSET D
    OBVIOUS
  <2>4. t[s \ {Max(s)}] \in A
    BY <1>6, <2>3
  <2>5. Max(s) \in D
    BY <1>2, <1>7
  <2> QED BY <1>4, <2>2, <2>4, <2>5, Zenon
<1>8. IsFold(t, seq, A, base, step)
  BY <1>6, <1>7, Zenon DEF IsFold
<1> QED BY <1>8

\* The recursion goes down an interval from its end.
LEMMA IntervalEnds ==
    ASSUME NEW n \in Nat \ {0}
    PROVE  /\ Max(1..n) = n
           /\ (1..n) \ {n} = 1..(n - 1)
           /\ 1..n # {}
<1>1. n \in 1..n /\ \A y \in 1..n : n >= y
  OBVIOUS
<1>2. \A x \in 1..n : (\A y \in 1..n : x >= y) => x = n
  OBVIOUS
<1>3. Max(1..n) \in 1..n /\ \A y \in 1..n : Max(1..n) >= y
  BY <1>1 DEF Max
<1> QED BY <1>1, <1>2, <1>3

\* The values of that recursion on the intervals from 1 are the run.
RunOf(t, seq) == [n \in 0..Len(seq) |-> t[1..n]]

\* They are the steps of a run, in A.
LEMMA FoldRuns ==
    ASSUME NEW X, NEW seq \in Seq(X), NEW A, NEW base, NEW step, NEW t,
           IsFold(t, seq, A, base, step)
    PROVE  /\ IsRun(RunOf(t, seq), base, step, seq)
           /\ \A n \in 0..Len(seq) : RunOf(t, seq)[n] = t[1..n] /\ t[1..n] \in A
<1>1. DOMAIN seq = 1..Len(seq) /\ Len(seq) \in Nat
  OBVIOUS
<1> DEFINE run == RunOf(t, seq)
<1>2. \A n \in 0..Len(seq) : 1..n \in SUBSET (DOMAIN seq) /\ run[n] = t[1..n]
  BY <1>1 DEF RunOf
<1> USE DEF IsFold
<1>4. run[0] = base
  <2>1. 1..0 = {} /\ 0 \in 0..Len(seq)
    BY <1>1
  <2>2. run[0] = t[1..0]
    BY <1>2, <2>1
  <2> QED BY <2>1, <2>2, Zenon
<1>5. ASSUME NEW n \in 1..Len(seq)
      PROVE  run[n] = step[<<run[n - 1], seq[n]>>]
  <2>1. n \in Nat \ {0} /\ n \in 0..Len(seq) /\ n - 1 \in 0..Len(seq)
    BY <1>1
  <2>2. Max(1..n) = n /\ (1..n) \ {n} = 1..(n - 1) /\ 1..n # {}
    BY <2>1, IntervalEnds
  <2>3. t[1..n] = step[<<t[1..(n - 1)], seq[n]>>]
    BY <1>2, <2>1, <2>2, Zenon
  <2> QED BY <1>2, <2>1, <2>3
<1>6. \A n \in 0..Len(seq) : t[1..n] \in A
  BY <1>2
<1> HIDE DEF run
<1>7. IsRun(run, base, step, seq)
  BY <1>4, <1>5 DEF IsRun
<1> QED BY <1>2, <1>6, <1>7 DEF run

------------------------------------------------------------------------------
(* Recursive functions on the naturals. *)

\* The function that a first value and a step define.
Steadily(step, A) == \A n \in Nat : \A a \in A : step[<<n, a>>] \in A
Computes(f, A, base, step) ==
    /\ f \in [Nat -> A]
    /\ f[0] = base
    /\ \A n \in Nat : f[n + 1] = step[<<n, f[n]>>]

\* Its values up to a number.
FirstValues(t, n, A, base, step) ==
    /\ t \in [0..n -> A]
    /\ t[0] = base
    /\ \A k \in 0..(n - 1) : t[k + 1] = step[<<k, t[k]>>]

\* They exist up to any number.
LEMMA FirstValuesExist ==
    ASSUME NEW A, NEW base \in A, NEW step, Steadily(step, A), NEW n \in Nat
    PROVE  \E t : FirstValues(t, n, A, base, step)
<1> DEFINE Good == {k \in Nat : \E t : FirstValues(t, k, A, base, step)}
<1>1. 0 \in Good
  <2> DEFINE t == [k \in 0..0 |-> base]
  <2>1. FirstValues(t, 0, A, base, step)
    BY DEF FirstValues
  <2> QED BY <2>1
<1>2. ASSUME NEW k \in 1..n, k - 1 \in Good
      PROVE  k \in Good
  <2>1. PICK t : FirstValues(t, k - 1, A, base, step)
    BY <1>2
  <2> DEFINE u == [j \in 0..k |-> IF j = k THEN step[<<k - 1, t[k - 1]>>] ELSE t[j]]
  <2>2. t[k - 1] \in A /\ k - 1 \in Nat
    BY <2>1 DEF FirstValues
  <2>3. step[<<k - 1, t[k - 1]>>] \in A
    BY <2>2 DEF Steadily
  <2>4. u \in [0..k -> A]
    <3>1. t \in [0..(k - 1) -> A]
      BY <2>1 DEF FirstValues
    <3>2. ASSUME NEW j \in 0..k
          PROVE  (IF j = k THEN step[<<k - 1, t[k - 1]>>] ELSE t[j]) \in A
      BY <2>3, <3>1
    <3> QED BY <3>2
  <2>5. u[0] = base
    BY <2>1 DEF FirstValues
  <2>6. ASSUME NEW j \in 0..(k - 1) PROVE u[j + 1] = step[<<j, u[j]>>]
    <3>1. CASE j = k - 1
      <4>1. j + 1 = k /\ k \in 0..k /\ j \in 0..k /\ j # k
        BY <3>1
      <4>2. u[k] = step[<<k - 1, t[k - 1]>>] /\ u[j] = t[k - 1]
        BY <3>1, <4>1
      <4> HIDE DEF u
      <4> QED BY <3>1, <4>1, <4>2
    <3>2. CASE j # k - 1
      <4>1. j \in 0..((k - 1) - 1) /\ j # k /\ j + 1 # k /\ j \in 0..k /\ j + 1 \in 0..k
        BY <3>2
      <4>2. t[j + 1] = step[<<j, t[j]>>]
        BY <2>1, <4>1 DEF FirstValues
      <4> QED BY <4>1, <4>2
    <3> QED BY <3>1, <3>2
  <2>7. FirstValues(u, k, A, base, step)
    BY <2>4, <2>5, <2>6 DEF FirstValues
  <2> QED BY <2>7
<1> HIDE DEF Good
<1>3. n \in Good
  BY <1>1, <1>2, Climb
<1> QED BY <1>3 DEF Good

\* The beginnings agree where both go.
LEMMA FirstValuesAgree ==
    ASSUME NEW A, NEW base, NEW step, NEW n \in Nat, NEW m \in Nat, n <= m,
           NEW t, FirstValues(t, n, A, base, step),
           NEW u, FirstValues(u, m, A, base, step)
    PROVE  \A k \in 0..n : t[k] = u[k]
<1> DEFINE Good == {k \in Nat : t[k] = u[k]}
<1>1. 0 \in Good
  BY DEF FirstValues
<1>2. ASSUME NEW k \in 1..n, k - 1 \in Good
      PROVE  k \in Good
  <2>1. k - 1 \in 0..(n - 1) /\ k - 1 \in 0..(m - 1) /\ (k - 1) + 1 = k
    OBVIOUS
  <2>2. t[k - 1] = u[k - 1]
    BY <1>2
  <2>3. t[k] = step[<<k - 1, t[k - 1]>>]
    BY <2>1 DEF FirstValues
  <2>4. u[k] = step[<<k - 1, u[k - 1]>>]
    BY <2>1 DEF FirstValues
  <2> QED BY <2>2, <2>3, <2>4
<1> HIDE DEF Good
<1>3. \A k \in 0..n : k \in Good
  BY <1>1, <1>2, Climb
<1> QED BY <1>3 DEF Good

\* The function exists: it takes each value from the beginning that long.
LEMMA NatRecursion ==
    ASSUME NEW A, NEW base \in A, NEW step, Steadily(step, A)
    PROVE  \E f : Computes(f, A, base, step)
<1> DEFINE T(n) == CHOOSE t : FirstValues(t, n, A, base, step)
           f == [n \in Nat |-> T(n)[n]]
<1>1. ASSUME NEW n \in Nat PROVE FirstValues(T(n), n, A, base, step)
  BY FirstValuesExist
<1>2. f \in [Nat -> A]
  <2>1. ASSUME NEW n \in Nat PROVE T(n)[n] \in A
    <3>1. FirstValues(T(n), n, A, base, step)
      BY <1>1
    <3> HIDE DEF T
    <3>2. T(n) \in [0..n -> A] /\ n \in 0..n
      BY <3>1 DEF FirstValues
    <3> QED BY <3>2
  <2> HIDE DEF T
  <2> QED BY <2>1
<1>3. f[0] = base
  <2>1. f[0] = T(0)[0]
    OBVIOUS
  <2>2. T(0)[0] = base
    BY <1>1 DEF FirstValues
  <2> QED BY <2>1, <2>2
<1>4. ASSUME NEW n \in Nat PROVE f[n + 1] = step[<<n, f[n]>>]
  <2>1. n + 1 \in Nat /\ n \in 0..((n + 1) - 1) /\ n <= n + 1 /\ n \in 0..n
    OBVIOUS
  <2>2. FirstValues(T(n + 1), n + 1, A, base, step) /\ FirstValues(T(n), n, A, base, step)
    BY <1>1, <2>1
  <2>3. f[n + 1] = T(n + 1)[n + 1] /\ f[n] = T(n)[n]
    BY <2>1
  <2> HIDE DEF T, f
  <2>4. T(n + 1)[n + 1] = step[<<n, T(n + 1)[n]>>]
    BY <2>1, <2>2 DEF FirstValues
  <2>5. T(n)[n] = T(n + 1)[n]
    BY <2>1, <2>2, FirstValuesAgree
  <2> QED BY <2>3, <2>4, <2>5
<1>5. Computes(f, A, base, step)
  BY <1>2, <1>3, <1>4 DEF Computes
<1> QED BY <1>5

\* What holds of the first value and is kept from each to the next.
LEMMA AllValues ==
    ASSUME NEW A, NEW f, f[0] \in A, \A n \in Nat : f[n] \in A => f[n + 1] \in A
    PROVE  \A n \in Nat : f[n] \in A
<1> SUFFICES ASSUME NEW n \in Nat PROVE f[n] \in A
  OBVIOUS
<1> DEFINE Good == {k \in Nat : f[k] \in A}
<1>1. 0 \in Good
  OBVIOUS
<1>2. ASSUME NEW k \in 1..n, k - 1 \in Good PROVE k \in Good
  <2>1. k - 1 \in Nat /\ (k - 1) + 1 = k /\ k \in Nat
    OBVIOUS
  <2>2. f[k - 1] \in A
    BY <1>2
  <2>3. f[(k - 1) + 1] \in A
    BY <2>1, <2>2
  <2> QED BY <2>1, <2>3
<1> HIDE DEF Good
<1>3. n \in Good
  BY <1>1, <1>2, Climb
<1> QED BY <1>3 DEF Good

\* A function of the form of a recursive definition.
RunsFrom(f, A, base, step) ==
    /\ f \in [Nat -> A]
    /\ f[0] = base
    /\ \A n \in Nat : n # 0 => f[n] = step[<<n - 1, f[n - 1]>>]

LEMMA RecursionExists ==
    ASSUME NEW A, NEW base \in A, NEW step, Steadily(step, A)
    PROVE  \E f : RunsFrom(f, A, base, step)
<1>1. PICK f : Computes(f, A, base, step)
  BY NatRecursion
<1>2. f \in [Nat -> A] /\ f[0] = base
  BY <1>1 DEF Computes
<1>3. ASSUME NEW n \in Nat, n # 0 PROVE f[n] = step[<<n - 1, f[n - 1]>>]
  <2>1. n - 1 \in Nat /\ (n - 1) + 1 = n
    BY <1>3
  <2>2. f[(n - 1) + 1] = step[<<n - 1, f[n - 1]>>]
    BY <1>1, <2>1 DEF Computes
  <2> QED BY <2>1, <2>2
<1>4. RunsFrom(f, A, base, step)
  BY <1>2, <1>3 DEF RunsFrom
<1> QED BY <1>4

------------------------------------------------------------------------------
(* Division. *)

\* What a division gives and leaves.
LEMMA Division ==
    ASSUME NEW x \in Nat, NEW m \in Nat \ {0}
    PROVE  /\ x \div m \in Nat /\ x % m \in Nat /\ x % m < m
           /\ x = (x \div m) * m + (x % m)
OBVIOUS

\* Quotient and remainder are told by what they are of.
LEMMA DivisionIs ==
    ASSUME NEW q \in Nat, NEW m \in Nat \ {0}, NEW r \in Nat, r < m
    PROVE  (q * m + r) \div m = q /\ (q * m + r) % m = r
OBVIOUS

\* Shifting twice is shifting once by as many bits.
LEMMA DivTwice ==
    ASSUME NEW x \in Nat, NEW a \in Nat \ {0}, NEW b \in Nat \ {0}
    PROVE  (x \div a) \div b = x \div (a * b)
<1> DEFINE q == x \div a
           r == x % a
           p == q \div b
           s == q % b
<1>1. q \in Nat /\ r \in Nat /\ r < a /\ x = q * a + r
  BY Division
<1>2. p \in Nat /\ s \in Nat /\ s < b /\ q = p * b + s
  BY <1>1, Division
<1> HIDE DEF q, r, p, s
<1>3. x = p * (a * b) + (s * a + r)
  <2>1. (p * b + s) * a + r = p * (a * b) + (s * a + r)
    BY <1>1, <1>2
  <2> QED BY <1>1, <1>2, <2>1
<1>4. s * a + r \in Nat /\ s * a + r < a * b /\ a * b \in Nat \ {0}
  <2>1. s * a + a <= b * a
    BY <1>2
  <2> QED BY <1>1, <1>2, <2>1
<1>5. (p * (a * b) + (s * a + r)) \div (a * b) = p
  BY <1>2, <1>4, DivisionIs
<1> QED BY <1>3, <1>5 DEF p, q

\* A field of a number: masked and shifted, or shifted and masked.
LEMMA ModDiv ==
    ASSUME NEW x \in Nat, NEW a \in Nat \ {0}, NEW b \in Nat \ {0}
    PROVE  (x % (a * b)) \div a = (x \div a) % b
<1> DEFINE q == x \div (a * b)
           r == x % (a * b)
           p == r \div a
           s == r % a
<1>0. a * b \in Nat \ {0}
  OBVIOUS
<1>1. q \in Nat /\ r \in Nat /\ r < a * b /\ x = q * (a * b) + r
  BY <1>0, Division
<1>2. p \in Nat /\ s \in Nat /\ s < a /\ r = p * a + s
  BY <1>1, Division
<1> HIDE DEF q, r, p, s
<1>3. p < b
  <2>1. SUFFICES ASSUME b <= p PROVE FALSE
    BY <1>2
  <2>2. b * a <= p * a
    BY <1>2, <2>1
  <2> QED BY <1>1, <1>2, <2>2
<1>4. x = (q * b + p) * a + s
  <2>1. q * (a * b) + (p * a + s) = (q * b + p) * a + s
    BY <1>1, <1>2
  <2> QED BY <1>1, <1>2, <2>1
<1>5. q * b + p \in Nat
  BY <1>1, <1>2
<1>6. x \div a = q * b + p
  BY <1>2, <1>4, <1>5, DivisionIs
<1>7. (q * b + p) % b = p
  BY <1>1, <1>2, <1>3, DivisionIs
<1> QED BY <1>6, <1>7 DEF p, r

\* A mask keeps the lowest bit.
LEMMA ModTwo ==
    ASSUME NEW y \in Nat, NEW c \in Nat \ {0}
    PROVE  (y % (c * 2)) % 2 = y % 2
<1> DEFINE q == y \div (c * 2)
           r == y % (c * 2)
           p == r \div 2
           s == r % 2
<1>0. c * 2 \in Nat \ {0}
  OBVIOUS
<1>1. q \in Nat /\ r \in Nat /\ y = q * (c * 2) + r
  BY <1>0, Division
<1>2. p \in Nat /\ s \in Nat /\ s < 2 /\ r = p * 2 + s
  BY <1>1, Division
<1> HIDE DEF q, r, p, s
<1>3. y = (q * c + p) * 2 + s
  <2>1. q * (c * 2) + (p * 2 + s) = (q * c + p) * 2 + s
    BY <1>1, <1>2
  <2> QED BY <1>1, <1>2, <2>1
<1>4. q * c + p \in Nat
  BY <1>1, <1>2
<1>5. y % 2 = s
  BY <1>2, <1>3, <1>4, DivisionIs
<1> QED BY <1>5 DEF s, r
==============================================================================
