---------------------------- MODULE DecoderProofs -----------------------------
(***************************************************************************)
(* Theorems about the decoders and the readers, for every stream, buffer,  *)
(* window and index: what the client of the Reader has got is a beginning  *)
(* of the stream (Reader); ExtendMatch copies what a match means           *)
(* (History); linked blocks decoded with a window are the bytes they mean, *)
(* and the blocks of frames are written in order (Lz4Decoder); a block     *)
(* that was coded is decoded to what it was (Lz4Block); segments decoded   *)
(* without their history and completed later are the bytes of the stream   *)
(* (DeflateWindow); and reads by an index are right whatever the cache     *)
(* keeps (IndexedReader).                                                  *)
(***************************************************************************)
EXTENDS Reader, IndexedReader, Lz4Decoder, Lz4Block, DeflateWindow, DataLemmas

------------------------------------------------------------------------------
(* History: what a match means, and that ExtendMatch copies it. *)

\* A match of `length` symbols: each is what stands `distance` before it.
IsMatch(whole, out, distance, length, S) ==
    /\ whole \in Seq(S) /\ Len(whole) = Len(out) + length
    /\ \A i \in 1..Len(out) : whole[i] = out[i]
    /\ \A i \in (Len(out) + 1)..(Len(out) + length) : whole[i] = whole[i - distance]

\* There is one such sequence.
LEMMA MatchUnique ==
    ASSUME NEW S, NEW out \in Seq(S), NEW distance \in 1..Len(out), NEW length \in Nat,
           NEW one, IsMatch(one, out, distance, length, S),
           NEW other, IsMatch(other, out, distance, length, S)
    PROVE  one = other
<1> DEFINE L == Len(out)
           Same == {n \in 0..length : \A i \in 1..(L + n) : one[i] = other[i]}
<1>1. /\ L \in Nat /\ distance \in Nat /\ 1 <= distance /\ distance <= L
      /\ one \in Seq(S) /\ other \in Seq(S) /\ Len(one) = L + length /\ Len(other) = L + length
      /\ \A i \in 1..L : one[i] = out[i] /\ other[i] = out[i]
      /\ \A i \in (L + 1)..(L + length) : one[i] = one[i - distance] /\ other[i] = other[i - distance]
  <2>1. L \in Nat /\ distance \in Nat /\ 1 <= distance /\ distance <= L
    OBVIOUS
  <2>2. /\ one \in Seq(S) /\ Len(one) = L + length
        /\ \A i \in 1..L : one[i] = out[i]
        /\ \A i \in (L + 1)..(L + length) : one[i] = one[i - distance]
    BY Zenon DEF IsMatch
  <2>3. /\ other \in Seq(S) /\ Len(other) = L + length
        /\ \A i \in 1..L : other[i] = out[i]
        /\ \A i \in (L + 1)..(L + length) : other[i] = other[i - distance]
    BY Zenon DEF IsMatch
  <2> HIDE DEF L
  <2> QED BY <2>1, <2>2, <2>3
<1> HIDE DEF L
<1>2. 0 \in Same
  <2>1. \A i \in 1..L : one[i] = other[i]
    BY <1>1
  <2>2. L + 0 = L /\ 0 \in 0..length
    BY <1>1
  <2> QED BY <2>1, <2>2
<1>3. ASSUME NEW n \in 1..length, n - 1 \in Same
      PROVE  n \in Same
  <2>1. n \in 0..length /\ \A i \in 1..(L + n - 1) : one[i] = other[i]
    BY <1>1, <1>3
  <2>2. one[L + n] = other[L + n]
    <3> DEFINE k == L + n
               j == k - distance
    <3>1. k \in (L + 1)..(L + length) /\ j \in 1..(L + n - 1)
      BY <1>1
    <3>2. one[k] = one[j] /\ other[k] = other[j]
      BY <1>1, <3>1
    <3> HIDE DEF k, j
    <3>3. one[k] = other[k]
      BY <2>1, <3>1, <3>2
    <3> QED BY <3>3 DEF k
  <2>3. ASSUME NEW i \in 1..(L + n)
        PROVE  one[i] = other[i]
    <3>1. CASE i = L + n
      BY <2>2, <3>1
    <3>2. CASE i # L + n
      <4>1. i \in 1..(L + n - 1)
        BY <1>1, <3>2
      <4> QED BY <2>1, <4>1
    <3> QED BY <3>1, <3>2
  <2> QED BY <2>1, <2>3
<1>4. \A n \in 0..length : n \in Same
  <2> HIDE DEF Same
  <2> QED BY <1>2, <1>3, Climb
<1>5. \A i \in 1..(L + length) : one[i] = other[i]
  BY <1>4
<1> QED BY <1>1, <1>5, SeqEqual

\* A recursive function on an interval: its values are a run, given a step that
\* stays in A.
IsRecursion(run, N, A, base, step) ==
    /\ run \in [0..N -> A]
    /\ run[0] = base
    /\ \A n \in 1..N : run[n] = step[<<run[n - 1], n>>]

\* Such a function exists.
LEMMA RecursionRuns ==
    ASSUME NEW N \in Nat, NEW A, NEW base \in A, NEW step, Steps(step, A, Nat)
    PROVE  \E run : IsRecursion(run, N, A, base, step)
<1> DEFINE seq == [n \in 1..N |-> n]
<1>1. seq \in Seq(Nat) /\ Len(seq) = N /\ \A n \in 1..N : seq[n] = n
  OBVIOUS
<1> HIDE DEF seq
<1>2. PICK t : IsFold(t, seq, A, base, step)
  BY <1>1, FoldExists
<1> DEFINE run == RunOf(t, seq)
<1>3. /\ IsRun(run, base, step, seq)
      /\ \A n \in 0..Len(seq) : run[n] = t[1..n] /\ t[1..n] \in A
  BY <1>1, <1>2, FoldRuns
<1>4. run \in [0..N -> A]
  <2>1. run = [n \in 0..N |-> t[1..n]]
    BY <1>1 DEF RunOf
  <2>2. \A n \in 0..N : t[1..n] \in A
    BY <1>1, <1>3
  <2> QED BY <2>1, <2>2
<1> HIDE DEF run
<1>5. run[0] = base /\ \A n \in 1..N : run[n] = step[<<run[n - 1], n>>]
  BY <1>1, <1>3 DEF IsRun
<1>6. IsRecursion(run, N, A, base, step)
  BY <1>4, <1>5 DEF IsRecursion
<1> QED BY <1>6

\* A match grows by one symbol.
LEMMA MatchGrows ==
    ASSUME NEW S, NEW out \in Seq(S), NEW distance \in 1..Len(out), NEW n \in Nat \ {0},
           NEW s, IsMatch(s, out, distance, n - 1, S)
    PROVE  /\ Len(out) + n - distance \in DOMAIN s
           /\ s \in Seq(S)
           /\ IsMatch(Append(s, s[Len(out) + n - distance]), out, distance, n, S)
<1> DEFINE L == Len(out)
           k == L + n - distance
           more == Append(s, s[k])
<1>1. /\ L \in Nat /\ distance \in Nat /\ 1 <= distance /\ distance <= L
      /\ s \in Seq(S) /\ Len(s) = L + n - 1 /\ Len(s) \in Nat
      /\ \A i \in 1..L : s[i] = out[i]
      /\ \A i \in (L + 1)..(L + n - 1) : s[i] = s[i - distance]
  <2> DEFINE m == n - 1
  <2>1. /\ s \in Seq(S) /\ Len(s) = L + m
        /\ \A i \in 1..L : s[i] = out[i]
        /\ \A i \in (L + 1)..(L + m) : s[i] = s[i - distance]
    BY Zenon DEF IsMatch
  <2>2. L \in Nat /\ L + m = L + n - 1 /\ Len(s) \in Nat
    BY <2>1
  <2> HIDE DEF L, m
  <2>3. Len(s) = L + n - 1 /\ (L + 1)..(L + n - 1) = (L + 1)..(L + m)
    BY <2>1, <2>2, Zenon
  <2>4. \A i \in (L + 1)..(L + n - 1) : s[i] = s[i - distance]
    BY <2>1, <2>3, Zenon
  <2>5. distance \in Nat /\ 1 <= distance /\ distance <= L
    BY <2>2 DEF L
  <2> QED BY <2>1, <2>2, <2>3, <2>4, <2>5
<1>2. k \in 1..Len(s) /\ L + n = Len(s) + 1 /\ L + n - distance = k
  BY <1>1
<1> HIDE DEF L, k
<1>3. s[k] \in S /\ k \in DOMAIN s
  BY <1>1, <1>2
<1>4. /\ more \in Seq(S) /\ Len(more) = Len(s) + 1
      /\ \A i \in 1..Len(s) : more[i] = s[i]
      /\ more[Len(s) + 1] = s[k]
  BY <1>1, <1>3, AppendProperties
<1> HIDE DEF more
<1>5. ASSUME NEW i \in (L + 1)..(L + n)
      PROVE  more[i] = more[i - distance]
  <2>1. CASE i = L + n
    <3>1. more[i] = s[k] /\ i - distance = k
      BY <1>1, <1>2, <1>4, <2>1 DEF k
    <3>2. more[k] = s[k]
      BY <1>2, <1>4
    <3> QED BY <3>1, <3>2
  <2>2. CASE i # L + n
    <3> DEFINE j == i - distance
    <3>1. i \in (L + 1)..(L + n - 1) /\ i \in 1..Len(s) /\ j \in 1..Len(s)
      BY <1>1, <2>2
    <3>2. s[i] = s[j]
      BY <1>1, <3>1
    <3> HIDE DEF j
    <3>3. more[i] = more[j]
      BY <1>4, <3>1, <3>2
    <3> QED BY <3>3 DEF j
  <2> QED BY <2>1, <2>2
<1>6. \A i \in 1..L : more[i] = out[i]
  BY <1>1, <1>2, <1>4
<1>7. IsMatch(more, out, distance, n, S)
  BY <1>1, <1>2, <1>4, <1>5, <1>6 DEF IsMatch, L
<1> QED BY <1>1, <1>3, <1>7 DEF more, k, L

\* Nothing is repeated.
LEMMA NothingCopied ==
    ASSUME NEW S, NEW out \in Seq(S), NEW distance \in 1..Len(out)
    PROVE  IsMatch(out, out, distance, 0, S)
  BY DEF IsMatch

\* What a match means is such a sequence.
LEMMA RepeatedIs ==
    ASSUME NEW S, NEW out \in Seq(S), NEW distance \in 1..Len(out), NEW length \in Nat
    PROVE  IsMatch(Repeated(out, distance, length), out, distance, length, S)
<1> DEFINE L == Len(out)
           Body(g) == [i \in 0..length |->
                          IF i = 0 THEN out
                          ELSE Append(g[i - 1], g[i - 1][L + i - distance])]
           all == CHOOSE g : g = Body(g)
           step == [p \in Seq(S) \X Nat |->
                       IF L + p[2] - distance \in DOMAIN p[1]
                       THEN Append(p[1], p[1][L + p[2] - distance]) ELSE p[1]]
           At(g, n) == IsMatch(g[n], out, distance, n, S)
<1>1. Repeated(out, distance, length) = all[length]
  BY DEF Repeated
<1>2. ASSUME NEW s \in Seq(S), NEW i \in Nat
      PROVE  /\ step[<<s, i>>] \in Seq(S)
             /\ L + i - distance \in DOMAIN s => step[<<s, i>>] = Append(s, s[L + i - distance])
  <2>1. <<s, i>> \in Seq(S) \X Nat /\ <<s, i>>[1] = s /\ <<s, i>>[2] = i
    OBVIOUS
  <2>2. step[<<s, i>>] = IF L + i - distance \in DOMAIN s
                         THEN Append(s, s[L + i - distance]) ELSE s
    BY <2>1
  <2> DEFINE k == L + i - distance
  <2>3. k \in DOMAIN s => Append(s, s[k]) \in Seq(S)
    <3> HIDE DEF k
    <3> QED BY AppendProperties
  <2> HIDE DEF step
  <2> QED BY <2>2, <2>3
<1>3. Steps(step, Seq(S), Nat)
  BY <1>2 DEF Steps
<1> HIDE DEF step
<1>4. PICK run : IsRecursion(run, length, Seq(S), out, step)
  BY <1>3, RecursionRuns
<1> USE DEF IsRecursion
<1>5. \A n \in 0..length : At(run, n)
  <2> DEFINE Good == {n \in 0..length : At(run, n)}
  <2>1. 0 \in Good
    BY <1>4, NothingCopied
  <2>2. ASSUME NEW n \in 1..length, n - 1 \in Good
        PROVE  n \in Good
    <3> DEFINE s == run[n - 1]
    <3>1. IsMatch(s, out, distance, n - 1, S) /\ n \in Nat \ {0}
      BY <2>2
    <3> HIDE DEF s
    <3>2. /\ L + n - distance \in DOMAIN s /\ s \in Seq(S)
          /\ IsMatch(Append(s, s[L + n - distance]), out, distance, n, S)
      BY <3>1, MatchGrows
    <3>3. run[n] = Append(s, s[L + n - distance])
      BY <1>2, <1>4, <3>1, <3>2 DEF s
    <3>4. At(run, n)
      BY <3>2, <3>3, Zenon
    <3> QED BY <3>4
  <2>3. \A n \in 0..length : n \in Good
    <3> HIDE DEF Good
    <3> QED BY <2>1, <2>2, Climb
  <2> QED BY <2>3
<1>6. run = Body(run)
  <2>1. ASSUME NEW n \in 0..length
        PROVE  run[n] = IF n = 0 THEN out
                        ELSE Append(run[n - 1], run[n - 1][L + n - distance])
    <3>1. CASE n = 0
      BY <1>4, <3>1
    <3>2. CASE n # 0
      <4> DEFINE s == run[n - 1]
      <4>1. n \in 1..length /\ n \in Nat \ {0} /\ IsMatch(s, out, distance, n - 1, S)
        BY <1>5, <3>2
      <4> HIDE DEF s
      <4>2. L + n - distance \in DOMAIN s /\ s \in Seq(S)
        BY <4>1, MatchGrows
      <4>3. run[n] = Append(s, s[L + n - distance])
        BY <1>2, <1>4, <4>1, <4>2 DEF s
      <4> QED BY <3>2, <4>3 DEF s
    <3> QED BY <3>1, <3>2
  <2>2. run = [n \in 0..length |-> run[n]]
    BY <1>4
  <2> QED BY <2>1, <2>2
<1>7. all = Body(all)
  <2> HIDE DEF Body
  <2> QED BY <1>6, Zenon
<1> HIDE DEF all
<1>8. ASSUME NEW n \in 0..length
      PROVE  all[n] = IF n = 0 THEN out
                      ELSE Append(all[n - 1], all[n - 1][L + n - distance])
  BY <1>7, Zenon
<1>9. \A n \in 0..length : At(all, n)
  <2> DEFINE Good == {n \in 0..length : At(all, n)}
  <2>1. 0 \in Good
    BY <1>8, NothingCopied
  <2>2. ASSUME NEW n \in 1..length, n - 1 \in Good
        PROVE  n \in Good
    <3> DEFINE s == all[n - 1]
    <3>1. IsMatch(s, out, distance, n - 1, S) /\ n \in Nat \ {0} /\ n \in 0..length
      BY <2>2
    <3>2. all[n] = Append(s, s[L + n - distance])
      BY <1>8, <3>1
    <3> HIDE DEF s
    <3>3. IsMatch(Append(s, s[L + n - distance]), out, distance, n, S)
      BY <3>1, MatchGrows
    <3> QED BY <3>1, <3>2, <3>3
  <2>3. \A n \in 0..length : n \in Good
    <3> HIDE DEF Good
    <3> QED BY <2>1, <2>2, Climb
  <2> QED BY <2>3
<1>10. length \in 0..length
  OBVIOUS
<1> QED BY <1>1, <1>9, <1>10

\* What a match adds: the last `distance` symbols of the out, over and over.
Recurs(tail, out, distance, length, S) ==
    /\ tail \in Seq(S) /\ Len(tail) = length
    /\ \A i \in 1..length : i <= distance => tail[i] = out[i + (Len(out) - distance)]
    /\ \A i \in 1..length : i > distance => tail[i] = tail[i - distance]

\* An output and what a match adds are a match.
LEMMA TailIsMatch ==
    ASSUME NEW S, NEW out \in Seq(S), NEW distance \in 1..Len(out), NEW length \in Nat,
           NEW tail, Recurs(tail, out, distance, length, S)
    PROVE  IsMatch(out \o tail, out, distance, length, S)
<1> DEFINE L == Len(out)
           whole == out \o tail
<1>1. /\ L \in Nat /\ distance \in Nat /\ 1 <= distance /\ distance <= L
      /\ tail \in Seq(S) /\ Len(tail) = length
      /\ \A i \in 1..length : i <= distance => tail[i] = out[i + (L - distance)]
      /\ \A i \in 1..length : i > distance => tail[i] = tail[i - distance]
  BY DEF Recurs
<1>2. /\ whole \in Seq(S) /\ Len(whole) = L + length
      /\ \A i \in 1..(L + length) : whole[i] = IF i <= L THEN out[i] ELSE tail[i - L]
  BY <1>1, ConcatProperties
<1> HIDE DEF whole, L
<1>3. ASSUME NEW i \in (L + 1)..(L + length)
      PROVE  whole[i] = whole[i - distance]
  <2> DEFINE k == i - L
             j == i - distance
  <2>1. k \in 1..length /\ j \in 1..(L + length) /\ j \in Nat /\ k \in Nat
        /\ i \in 1..(L + length) /\ ~(i <= L)
    BY <1>1
  <2>2. whole[i] = tail[k] /\ whole[j] = IF j <= L THEN out[j] ELSE tail[j - L]
    BY <1>2, <2>1
  <2>3. CASE k <= distance
    <3>1. j <= L /\ k + (L - distance) = j
      BY <1>1, <2>1, <2>3
    <3> HIDE DEF j, k
    <3>2. tail[k] = out[j]
      BY <1>1, <2>1, <2>3, <3>1
    <3>3. whole[i] = whole[j]
      BY <2>2, <3>1, <3>2
    <3> QED BY <3>3 DEF j
  <2>4. CASE k > distance
    <3>1. ~(j <= L) /\ k - distance = j - L
      BY <1>1, <2>1, <2>4
    <3> HIDE DEF j, k
    <3>2. tail[k] = tail[j - L]
      BY <1>1, <2>1, <2>4, <3>1
    <3>3. whole[i] = whole[j]
      BY <2>2, <3>1, <3>2
    <3> QED BY <3>3 DEF j
  <2>5. k <= distance \/ k > distance
    BY <1>1, <2>1
  <2> QED BY <2>3, <2>4, <2>5
<1>4. \A i \in 1..L : whole[i] = out[i]
  BY <1>1, <1>2
<1>5. IsMatch(whole, out, distance, length, S)
  BY <1>2, <1>3, <1>4 DEF IsMatch, L
<1> QED BY <1>5 DEF whole

\* A subsequence, by its place and its length.
LEMMA SubSeqIs ==
    ASSUME NEW S, NEW s \in Seq(S), NEW from \in Nat, NEW count \in Nat, from + count <= Len(s)
    PROVE  /\ SubSeq(s, from + 1, from + count) \in Seq(S)
           /\ Len(SubSeq(s, from + 1, from + count)) = count
           /\ \A i \in 1..count : SubSeq(s, from + 1, from + count)[i] = s[i + from]
<1> DEFINE m == from + 1
           n == from + count
           t == SubSeq(s, m, n)
<1>1. m \in 1..(Len(s) + 1) /\ n \in (m - 1)..Len(s) /\ n - m + 1 = count
  OBVIOUS
<1>2. t = [i \in 1..(n - m + 1) |-> s[m + i - 1]]
  OBVIOUS
<1>3. \A i \in 1..count : m + i - 1 = i + from /\ i + from \in 1..Len(s)
  BY <1>1
<1>4. t = [i \in 1..count |-> s[i + from]]
  BY <1>1, <1>2, <1>3
<1>5. \A i \in 1..count : s[i + from] \in S
  BY <1>3
<1> HIDE DEF t
<1>6. t \in Seq(S) /\ Len(t) = count /\ \A i \in 1..count : t[i] = s[i + from]
  BY <1>4, <1>5
<1> QED BY <1>6 DEF t, m, n

\* The places of a sequence that follow a place.
IsCut(t, s, from, count, S) ==
    t \in Seq(S) /\ Len(t) = count /\ \A i \in 1..count : t[i] = s[i + from]

\* SubSeqIs, in a form the provers instantiate.
LEMMA CutIs ==
    ASSUME NEW S, NEW s \in Seq(S), NEW from \in Nat, NEW count \in Nat, from + count <= Len(s),
           NEW t, t = SubSeq(s, from + 1, from + count)
    PROVE  IsCut(t, s, from, count, S)
BY SubSeqIs DEF IsCut

\* The branches of extend_match.
LEMMA WithinOnce ==
    ASSUME NEW S, NEW out \in Seq(S), NEW distance \in 1..Len(out), NEW length \in Nat,
           distance >= length
    PROVE  IsMatch(Within(out, Len(out) - distance, length), out, distance, length, S)
<1> DEFINE from == Len(out) - distance
           tail == SubSeq(out, from + 1, from + length)
<1>1. from \in Nat /\ from + length <= Len(out)
  OBVIOUS
<1>2. /\ tail \in Seq(S) /\ Len(tail) = length
      /\ \A i \in 1..length : tail[i] = out[i + from]
  <2> HIDE DEF from
  <2> QED BY <1>1, SubSeqIs
<1> HIDE DEF tail
<1>3. \A i \in 1..length : i <= distance
  OBVIOUS
<1>4. Recurs(tail, out, distance, length, S)
  BY <1>2, <1>3 DEF Recurs
<1> QED BY <1>4, TailIsMatch DEF Within, tail

\* A match of distance 1 repeats the last byte.
LEMMA OneByte ==
    ASSUME NEW S, NEW out \in Seq(S), 1 \in 1..Len(out), NEW length \in Nat
    PROVE  IsMatch(out \o [i \in 1..length |-> out[Len(out)]], out, 1, length, S)
<1> DEFINE L == Len(out)
           tail == [i \in 1..length |-> out[L]]
<1>1. L \in 1..L /\ out[L] \in S /\ L \in Nat
  OBVIOUS
<1>2. /\ tail \in Seq(S) /\ Len(tail) = length
      /\ \A i \in 1..length : tail[i] = out[L]
  BY <1>1
<1> HIDE DEF tail
<1>3. ASSUME NEW i \in 1..length
      PROVE  /\ i <= 1 => tail[i] = out[i + (L - 1)]
             /\ i > 1 => tail[i] = tail[i - 1]
  <2>1. i <= 1 => i + (L - 1) = L
    BY <1>1
  <2>2. i > 1 => i - 1 \in 1..length
    OBVIOUS
  <2> HIDE DEF L
  <2> QED BY <1>2, <2>1, <2>2
<1>4. Recurs(tail, out, 1, length, S)
  BY <1>2, <1>3 DEF Recurs, L
<1> QED BY <1>4, TailIsMatch DEF tail

\* Two matches in a row make one.
LEMMA MatchesJoin ==
    ASSUME NEW S, NEW out \in Seq(S), NEW distance \in 1..Len(out),
           NEW first \in Nat, NEW then \in Nat,
           NEW once, IsMatch(once, out, distance, first, S),
           NEW twice, IsMatch(twice, once, distance, then, S)
    PROVE  IsMatch(twice, out, distance, first + then, S)
<1> DEFINE L == Len(out)
<1>1. L \in Nat /\ distance \in Nat /\ 1 <= distance /\ distance <= L
  OBVIOUS
<1>3. /\ once \in Seq(S) /\ Len(once) = L + first
      /\ \A i \in 1..L : once[i] = out[i]
      /\ \A i \in (L + 1)..(L + first) : once[i] = once[i - distance]
  BY DEF IsMatch
<1> HIDE DEF L
<1>8. /\ twice \in Seq(S) /\ Len(twice) = L + (first + then)
      /\ \A i \in 1..(L + first) : twice[i] = once[i]
      /\ \A i \in (L + first + 1)..(L + (first + then)) : twice[i] = twice[i - distance]
  <2>1. /\ twice \in Seq(S) /\ Len(twice) = Len(once) + then
        /\ \A i \in 1..Len(once) : twice[i] = once[i]
        /\ \A i \in (Len(once) + 1)..(Len(once) + then) : twice[i] = twice[i - distance]
    BY DEF IsMatch
  <2> QED BY <1>1, <1>3, <2>1
<1>9. \A i \in 1..L : twice[i] = out[i]
  BY <1>1, <1>3, <1>8
<1>10. ASSUME NEW i \in (L + 1)..(L + (first + then))
       PROVE  twice[i] = twice[i - distance]
  <2>1. CASE i <= L + first
    <3> DEFINE j == i - distance
    <3>1. i \in (L + 1)..(L + first) /\ i \in 1..(L + first) /\ j \in 1..(L + first)
      BY <1>1, <2>1
    <3>2. once[i] = once[j]
      BY <1>3, <3>1
    <3> HIDE DEF j
    <3>3. twice[i] = twice[j]
      BY <1>8, <3>1, <3>2
    <3> QED BY <3>3 DEF j
  <2>2. CASE i > L + first
    <3>1. i \in (L + first + 1)..(L + (first + then))
      BY <1>1, <2>2
    <3> QED BY <1>8, <3>1
  <2>3. i <= L + first \/ i > L + first
    BY <1>1
  <2> QED BY <2>1, <2>2, <2>3
<1> QED BY <1>8, <1>9, <1>10 DEF IsMatch, L

\* A match of at most twice its distance is two copies.
LEMMA WithinTwice ==
    ASSUME NEW S, NEW out \in Seq(S), NEW distance \in 1..Len(out), NEW length \in Nat,
           distance < length, length <= 2 * distance
    PROVE  IsMatch(Within(Within(out, Len(out) - distance, distance), Len(out),
                          length - distance),
                   out, distance, length, S)
<1> DEFINE L == Len(out)
           once == Within(out, L - distance, distance)
           rest == length - distance
           twice == Within(once, L, rest)
<1>1. /\ L \in Nat /\ distance \in Nat /\ 1 <= distance /\ distance <= L
      /\ rest \in Nat /\ rest <= distance /\ distance + rest = length
  OBVIOUS
<1>2. IsMatch(once, out, distance, distance, S)
  BY <1>1, WithinOnce
<1>3. once \in Seq(S) /\ Len(once) = L + distance
  BY <1>2 DEF IsMatch
<1> HIDE DEF once
<1>4. distance \in 1..Len(once) /\ Len(once) - distance = L
  BY <1>1, <1>3
<1>5. IsMatch(Within(once, Len(once) - distance, rest), once, distance, rest, S)
  <2> HIDE DEF rest
  <2> QED BY <1>1, <1>3, <1>4, WithinOnce
<1>6. IsMatch(twice, once, distance, rest, S)
  BY <1>4, <1>5
<1> HIDE DEF twice, rest
<1>7. IsMatch(twice, out, distance, distance + rest, S)
  BY <1>1, <1>2, <1>6, MatchesJoin
<1> QED BY <1>1, <1>7 DEF twice, once, rest, L

\* The loop of the last branch: a turn copies what has been copied.
NextTurn(before, length) ==
    before \o SubSeq(before, 1, AtMostOf(Len(before), length - Len(before)))

UpTo(length, S) == {s \in Seq(S) : Len(s) <= length}

\* Until the length is reached, what has been copied ends as it begins, so
\* that a copy of it goes on where it ends.
Turning(s, out, distance, length, S) ==
    /\ Recurs(s, out, distance, Len(s), S)
    /\ distance <= Len(s) /\ Len(s) <= length
    /\ Len(s) = length \/ \A j \in 1..distance : s[j + (Len(s) - distance)] = s[j]

\* A turn of Doubled copies a beginning of what was copied behind it.
LEMMA TurnType ==
    ASSUME NEW S, NEW length \in Nat, NEW s \in UpTo(length, S)
    PROVE  /\ NextTurn(s, length) \in UpTo(length, S)
           /\ Len(NextTurn(s, length)) = Len(s) + AtMostOf(Len(s), length - Len(s))
           /\ \A i \in 1..Len(s) : NextTurn(s, length)[i] = s[i]
           /\ \A i \in (Len(s) + 1)..Len(NextTurn(s, length)) :
                 NextTurn(s, length)[i] = s[i - Len(s)]
<1> DEFINE c == Len(s)
           count == AtMostOf(c, length - c)
           copy == SubSeq(s, 1, count)
           next == s \o copy
<1>1. s \in Seq(S) /\ c \in Nat /\ count \in Nat /\ count <= c /\ c + count <= length
  BY DEF UpTo, AtMostOf
<1>2. copy \in Seq(S) /\ Len(copy) = count /\ \A i \in 1..count : copy[i] = s[i]
  <2> HIDE DEF count
  <2>1. /\ SubSeq(s, 0 + 1, 0 + count) \in Seq(S) /\ Len(SubSeq(s, 0 + 1, 0 + count)) = count
        /\ \A i \in 1..count : SubSeq(s, 0 + 1, 0 + count)[i] = s[i + 0]
    BY <1>1, SubSeqIs
  <2>2. 0 + 1 = 1 /\ 0 + count = count /\ \A i \in 1..count : i + 0 = i
    BY <1>1
  <2> QED BY <2>1, <2>2
<1> HIDE DEF copy, count
<1>3. /\ next \in Seq(S) /\ Len(next) = c + count
      /\ \A i \in 1..(c + count) : next[i] = IF i <= c THEN s[i] ELSE copy[i - c]
  BY <1>1, <1>2, ConcatProperties
<1> HIDE DEF next, c
<1>4. ASSUME NEW i \in 1..c
      PROVE  next[i] = s[i]
  <2>1. i \in 1..(c + count) /\ i <= c
    BY <1>1
  <2> QED BY <1>3, <2>1
<1>5. ASSUME NEW i \in (c + 1)..(c + count)
      PROVE  next[i] = s[i - c]
  <2> DEFINE k == i - c
  <2>1. i \in 1..(c + count) /\ ~(i <= c) /\ k \in 1..count
    BY <1>1
  <2>2. next[i] = copy[k]
    BY <1>3, <2>1
  <2> HIDE DEF k
  <2>3. next[i] = s[k]
    BY <1>2, <2>1, <2>2
  <2> QED BY <2>3 DEF k
<1>6. next = NextTurn(s, length)
  BY DEF next, copy, count, c, NextTurn
<1>7. next \in UpTo(length, S)
  BY <1>1, <1>3 DEF UpTo
<1> QED BY <1>3, <1>4, <1>5, <1>6, <1>7 DEF c, count

\* A turn of Doubled keeps what has been copied a part of the match, and
\* goes on until its length is reached.
LEMMA TurnGoesOn ==
    ASSUME NEW S, NEW out \in Seq(S), NEW distance \in 1..Len(out), NEW length \in Nat,
           NEW s, Turning(s, out, distance, length, S)
    PROVE  /\ Turning(NextTurn(s, length), out, distance, length, S)
           /\ s \in UpTo(length, S)
           /\ Len(NextTurn(s, length)) = length \/ Len(NextTurn(s, length)) > Len(s)
<1> DEFINE c == Len(s)
           L == Len(out)
           next == NextTurn(s, length)
           size == Len(next)
<1>1. /\ s \in Seq(S) /\ c \in Nat /\ distance \in Nat /\ distance >= 1
      /\ distance <= c /\ c <= length /\ s \in UpTo(length, S)
      /\ \A i \in 1..c : i <= distance => s[i] = out[i + (L - distance)]
      /\ \A i \in 1..c : i > distance => s[i] = s[i - distance]
      /\ c = length \/ \A j \in 1..distance : s[j + (c - distance)] = s[j]
  BY DEF Turning, Recurs, UpTo
<1>2. /\ next \in UpTo(length, S)
      /\ size = c + AtMostOf(c, length - c)
      /\ \A i \in 1..c : next[i] = s[i]
      /\ \A i \in (c + 1)..size : next[i] = s[i - c]
  BY <1>1, TurnType
<1> HIDE DEF c, next
<1>3. /\ next \in Seq(S) /\ size \in Nat /\ c <= size /\ size <= c + c /\ size <= length
      /\ size = length \/ size = c + c
  <2>1. size = c + AtMostOf(c, length - c)
    BY <1>2
  <2>2. next \in Seq(S) /\ size <= length
    BY <1>2 DEF UpTo
  <2> HIDE DEF size
  <2> QED BY <1>1, <2>1, <2>2 DEF AtMostOf
<1> HIDE DEF size, L
<1>4. ASSUME NEW i \in 1..size, i <= distance
      PROVE  next[i] = out[i + (L - distance)]
  <2>1. i \in 1..c
    BY <1>1, <1>4
  <2>2. next[i] = s[i]
    BY <1>2, <2>1
  <2>3. s[i] = out[i + (L - distance)]
    BY <1>1, <1>4, <2>1
  <2> QED BY <2>2, <2>3
<1>5. ASSUME NEW i \in 1..size, i > distance
      PROVE  next[i] = next[i - distance]
  <2> DEFINE j == i - distance
  <2>1. j \in 1..size /\ j \in Nat /\ i \in Nat
    BY <1>1, <1>3, <1>5
  <2>2. CASE i <= c
    <3>1. i \in 1..c /\ j \in 1..c
      BY <1>1, <2>1, <2>2
    <3>2. next[i] = s[i] /\ s[i] = s[j]
      BY <1>1, <1>2, <1>5, <3>1
    <3> HIDE DEF j
    <3>3. next[i] = next[j]
      BY <1>2, <3>1, <3>2
    <3> QED BY <3>3 DEF j
  <2>3. CASE i > c
    <3> DEFINE k == i - c
    <3>1. i \in (c + 1)..size /\ k \in 1..c /\ k \in Nat
      BY <1>1, <1>3, <2>1, <2>3
    <3>2. next[i] = s[k]
      BY <1>2, <3>1
    <3>3. CASE k > distance
      <4> DEFINE l == k - distance
      <4>1. j \in (c + 1)..size /\ j - c = l
        BY <1>1, <2>1, <3>1, <3>3
      <4>2. s[k] = s[l]
        BY <1>1, <3>1, <3>3
      <4> HIDE DEF j, k, l
      <4>3. next[j] = s[l]
        BY <1>2, <4>1
      <4>4. next[i] = next[j]
        BY <3>2, <4>2, <4>3
      <4> QED BY <4>4 DEF j
    <3>4. CASE k <= distance
      <4>1. j \in 1..c /\ k \in 1..distance /\ k + (c - distance) = j /\ c # length
        BY <1>1, <1>3, <2>1, <3>1, <3>4
      <4> HIDE DEF j, k
      <4>2. s[j] = s[k]
        BY <1>1, <4>1
      <4>3. next[i] = next[j]
        BY <1>2, <3>2, <4>1, <4>2
      <4> QED BY <4>3 DEF j
    <3>5. k > distance \/ k <= distance
      BY <1>1, <3>1
    <3> QED BY <3>3, <3>4, <3>5
  <2>4. i <= c \/ i > c
    BY <1>1, <2>1
  <2> QED BY <2>2, <2>3, <2>4
<1>6. ASSUME size # length, NEW j \in 1..distance
      PROVE  next[j + (size - distance)] = next[j]
  <2> DEFINE i == j + (size - distance)
             k == j + (c - distance)
  <2>1. size = c + c /\ c # length
    BY <1>1, <1>3, <1>6
  <2>2. i \in (c + 1)..size /\ i - c = k /\ j \in 1..c
    BY <1>1, <2>1
  <2>3. s[k] = s[j]
    BY <1>1, <2>1
  <2> HIDE DEF i, k
  <2>4. next[i] = s[k] /\ next[j] = s[j]
    BY <1>2, <2>2
  <2>5. next[i] = next[j]
    BY <2>3, <2>4
  <2> QED BY <2>5 DEF i
<1>7. Recurs(next, out, distance, size, S)
  BY <1>3, <1>4, <1>5 DEF Recurs, L, size
<1>8. distance <= size
  BY <1>1, <1>3
<1>9. Turning(next, out, distance, length, S)
  BY <1>3, <1>6, <1>7, <1>8 DEF Turning, size
<1>10. size = length \/ size > c
  BY <1>1, <1>3
<1> QED BY <1>1, <1>9, <1>10 DEF next, size, c

\* Doubled repeats what a match means.
LEMMA DoubledIs ==
    ASSUME NEW S, NEW out \in Seq(S), NEW distance \in 1..Len(out), NEW length \in Nat,
           distance < length
    PROVE  IsMatch(Doubled(out, distance, length), out, distance, length, S)
<1> DEFINE L == Len(out)
           from == L - distance
           unit == SubSeq(out, from + 1, L)
           Body(g) == [turn \in 0..length |-> IF turn = 0 THEN unit
                                              ELSE NextTurn(g[turn - 1], length)]
           all == CHOOSE g : g = Body(g)
           A == UpTo(length, S)
           step == [p \in A \X Nat |-> NextTurn(p[1], length)]
           At(s, n) == /\ Turning(s, out, distance, length, S)
                       /\ Len(s) = length \/ Len(s) > n
<1>1. Doubled(out, distance, length) = out \o all[length]
  BY DEF Doubled, NextTurn
<1>2. /\ L \in Nat /\ distance \in Nat /\ 1 <= distance /\ distance <= L /\ from \in Nat
      /\ from + distance = L /\ from + distance <= Len(out)
  OBVIOUS
<1>3. /\ unit \in Seq(S) /\ Len(unit) = distance
      /\ \A i \in 1..distance : unit[i] = out[i + from]
  <2>1. /\ SubSeq(out, from + 1, from + distance) \in Seq(S)
        /\ Len(SubSeq(out, from + 1, from + distance)) = distance
        /\ \A i \in 1..distance : SubSeq(out, from + 1, from + distance)[i] = out[i + from]
    <3> DEFINE cut == SubSeq(out, from + 1, from + distance)
    <3>1. cut = SubSeq(out, from + 1, from + distance)
      OBVIOUS
    <3> HIDE DEF from, cut
    <3>2. IsCut(cut, out, from, distance, S)
      BY <1>2, <3>1, CutIs
    <3> QED BY <3>2 DEF IsCut, cut
  <2>2. SubSeq(out, from + 1, from + distance) = unit
    BY <1>2
  <2> QED BY <2>1, <2>2, Zenon
<1> HIDE DEF unit
<1>4. At(unit, 0)
  <2>1. Recurs(unit, out, distance, Len(unit), S)
    <3>1. \A i \in 1..distance : ~(i > distance)
      BY <1>2
    <3> QED BY <1>3, <3>1 DEF Recurs
  <2>2. \A j \in 1..distance : j + (Len(unit) - distance) = j
    BY <1>2, <1>3
  <2> QED BY <1>2, <1>3, <2>1, <2>2 DEF Turning
<1>5. unit \in A
  BY <1>3 DEF UpTo
<1>6. ASSUME NEW s \in A, NEW n \in Nat
      PROVE  step[<<s, n>>] = NextTurn(s, length) /\ NextTurn(s, length) \in A
  <2>1. <<s, n>> \in A \X Nat /\ <<s, n>>[1] = s
    OBVIOUS
  <2>2. step[<<s, n>>] = NextTurn(s, length)
    BY <2>1
  <2> HIDE DEF step
  <2> QED BY <2>2, TurnType
<1>7. Steps(step, A, Nat)
  BY <1>6 DEF Steps
<1> HIDE DEF step
<1>8. PICK run : IsRecursion(run, length, A, unit, step)
  <2> HIDE DEF A
  <2> QED BY <1>5, <1>7, RecursionRuns
<1>9. run = Body(run)
  <2>1. ASSUME NEW n \in 0..length
        PROVE  run[n] = IF n = 0 THEN unit ELSE NextTurn(run[n - 1], length)
    <3>1. run \in [0..length -> A] /\ run[0] = unit
          /\ \A m \in 1..length : run[m] = step[<<run[m - 1], m>>]
      BY <1>8 DEF IsRecursion
    <3>2. CASE n = 0
      BY <3>1, <3>2
    <3>3. CASE n # 0
      <4> DEFINE s == run[n - 1]
      <4>1. n \in 1..length /\ n \in Nat /\ s \in A
        BY <3>1, <3>3
      <4> HIDE DEF s
      <4>2. step[<<s, n>>] = NextTurn(s, length)
        BY <1>6, <4>1
      <4>3. run[n] = NextTurn(s, length)
        BY <3>1, <4>1, <4>2 DEF s
      <4> QED BY <3>3, <4>3 DEF s
    <3> QED BY <3>2, <3>3
  <2>2. run = [n \in 0..length |-> run[n]]
    BY <1>8 DEF IsRecursion
  <2> QED BY <2>1, <2>2
<1>10. all = Body(all)
  <2> HIDE DEF Body
  <2> QED BY <1>9, Zenon
<1> HIDE DEF all
<1>11. ASSUME NEW n \in 0..length
       PROVE  all[n] = IF n = 0 THEN unit ELSE NextTurn(all[n - 1], length)
  BY <1>10, Zenon
<1>12. \A n \in 0..length : At(all[n], n)
  <2> DEFINE Good == {n \in 0..length : At(all[n], n)}
  <2>1. 0 \in Good
    <3>1. all[0] = unit
      BY <1>11
    <3> QED BY <1>4, <3>1
  <2>2. ASSUME NEW n \in 1..length, n - 1 \in Good
        PROVE  n \in Good
    <3> DEFINE s == all[n - 1]
               next == NextTurn(s, length)
    <3>1. (Len(s) = length \/ Len(s) > n - 1) /\ n \in 0..length
      BY <2>2
    <3>t. Turning(s, out, distance, length, S)
      BY <2>2
    <3>2. all[n] = next
      BY <1>11, <3>1
    <3> HIDE DEF s, next
    <3>3. /\ Turning(next, out, distance, length, S)
          /\ Len(next) = length \/ Len(next) > Len(s)
      BY <3>t, TurnGoesOn DEF next
    <3>4. Len(next) = length \/ Len(next) > n
      <4>1. Len(s) \in Nat /\ Len(next) \in Nat /\ Len(s) <= length /\ Len(next) <= length
            /\ Len(next) >= Len(s)
        BY <3>t, <3>3, TurnGoesOn, TurnType DEF Turning, Recurs, next, AtMostOf
      <4> QED BY <3>1, <3>3, <4>1
    <3>5. At(all[n], n)
      BY <3>2, <3>3, <3>4, Zenon
    <3> QED BY <3>5
  <2>3. \A n \in 0..length : n \in Good
    <3> HIDE DEF Good
    <3> QED BY <2>1, <2>2, Climb
  <2> QED BY <2>3
<1>13. /\ Turning(all[length], out, distance, length, S)
       /\ Len(all[length]) = length \/ Len(all[length]) > length
  <2>1. length \in 0..length
    OBVIOUS
  <2> QED BY <1>12, <2>1
<1>14. Recurs(all[length], out, distance, length, S)
  BY <1>13 DEF Turning
<1> QED BY <1>1, <1>14, TailIsMatch

\* extend_match does what a match means, whatever branch it takes.
THEOREM ExtendIsRepeated ==
    ASSUME NEW S, NEW out \in Seq(S), NEW distance \in 1..Len(out), NEW length \in Nat
    PROVE  /\ ExtendMatch(out, distance, length) = Repeated(out, distance, length)
           /\ IsMatch(ExtendMatch(out, distance, length), out, distance, length, S)
<1>1. IsMatch(ExtendMatch(out, distance, length), out, distance, length, S)
  <2>1. CASE distance >= length
    <3>1. ExtendMatch(out, distance, length) = Within(out, Len(out) - distance, length)
      BY <2>1 DEF ExtendMatch
    <3> QED BY <2>1, <3>1, WithinOnce
  <2>2. CASE distance < length /\ distance = 1
    <3>1. ExtendMatch(out, distance, length)
          = out \o [i \in 1..length |-> out[Len(out)]]
      BY <2>2 DEF ExtendMatch
    <3> QED BY <2>2, <3>1, OneByte
  <2>3. CASE distance < length /\ distance # 1 /\ length <= 2 * distance
    <3>1. ExtendMatch(out, distance, length)
          = Within(Within(out, Len(out) - distance, distance), Len(out),
                   length - distance)
      BY <2>3 DEF ExtendMatch
    <3> QED BY <2>3, <3>1, WithinTwice
  <2>4. CASE distance < length /\ distance # 1 /\ ~(length <= 2 * distance)
    <3>1. ExtendMatch(out, distance, length) = Doubled(out, distance, length)
      BY <2>4 DEF ExtendMatch
    <3> QED BY <2>4, <3>1, DoubledIs
  <2> QED BY <2>1, <2>2, <2>3, <2>4
<1>2. IsMatch(Repeated(out, distance, length), out, distance, length, S)
  BY RepeatedIs
<1> QED BY <1>1, <1>2, MatchUnique

------------------------------------------------------------------------------
(* The ends of sequences: a window of the last symbols. *)

\* What stands in front of both does not matter.
LEMMA MatchBehind ==
    ASSUME NEW S, NEW out \in Seq(S), NEW distance \in 1..Len(out), NEW length \in Nat,
           NEW whole, IsMatch(whole, out, distance, length, S), NEW front \in Seq(S)
    PROVE  IsMatch(front \o whole, front \o out, distance, length, S)
<1> DEFINE L == Len(out)
           F == Len(front)
           longer == front \o whole
           shorter == front \o out
<1>1. /\ L \in Nat /\ F \in Nat /\ distance \in Nat /\ 1 <= distance /\ distance <= L
      /\ whole \in Seq(S) /\ Len(whole) = L + length
      /\ \A i \in 1..L : whole[i] = out[i]
      /\ \A i \in (L + 1)..(L + length) : whole[i] = whole[i - distance]
  <2>1. L \in Nat /\ F \in Nat /\ distance \in Nat /\ 1 <= distance /\ distance <= L
    OBVIOUS
  <2>2. /\ whole \in Seq(S) /\ Len(whole) = L + length
        /\ \A i \in 1..L : whole[i] = out[i]
        /\ \A i \in (L + 1)..(L + length) : whole[i] = whole[i - distance]
    BY Zenon DEF IsMatch
  <2> QED BY <2>1, <2>2, Zenon
<1>2. /\ shorter \in Seq(S) /\ Len(shorter) = F + L
      /\ \A i \in 1..(F + L) : shorter[i] = IF i <= F THEN front[i] ELSE out[i - F]
  BY ConcatProperties
<1>3. /\ longer \in Seq(S) /\ Len(longer) = F + L + length
      /\ \A i \in 1..(F + L + length) : longer[i] = IF i <= F THEN front[i] ELSE whole[i - F]
  <2>1. /\ longer \in Seq(S) /\ Len(longer) = F + Len(whole)
        /\ \A i \in 1..(F + Len(whole)) : longer[i] = IF i <= F THEN front[i] ELSE whole[i - F]
    BY <1>1, ConcatProperties
  <2>2. F + Len(whole) = F + L + length
    BY <1>1
  <2> HIDE DEF longer, F, L
  <2> QED BY <2>1, <2>2
<1> HIDE DEF longer, shorter, L, F
<1>4. ASSUME NEW i \in 1..(F + L)
      PROVE  longer[i] = shorter[i]
  <2> DEFINE k == i - F
  <2>1. i \in 1..(F + L + length) /\ (~(i <= F) => k \in 1..L)
    BY <1>1
  <2>2. /\ longer[i] = IF i <= F THEN front[i] ELSE whole[k]
        /\ shorter[i] = IF i <= F THEN front[i] ELSE out[k]
    BY <1>2, <1>3, <2>1
  <2> HIDE DEF k
  <2> QED BY <1>1, <2>1, <2>2
<1>5. ASSUME NEW i \in (F + L + 1)..(F + L + length)
      PROVE  longer[i] = longer[i - distance]
  <2> DEFINE j == i - distance
             k == i - F
             l == k - distance
  <2>1. /\ i \in 1..(F + L + length) /\ j \in 1..(F + L + length)
        /\ ~(i <= F) /\ ~(j <= F) /\ j - F = l /\ k \in (L + 1)..(L + length)
    BY <1>1
  <2>2. longer[i] = whole[k] /\ longer[j] = whole[j - F]
    BY <1>3, <2>1
  <2>3. whole[k] = whole[l]
    BY <1>1, <2>1
  <2> HIDE DEF j, k, l
  <2>4. longer[i] = longer[j]
    BY <2>1, <2>2, <2>3
  <2> QED BY <2>4 DEF j
<1>6. IsMatch(longer, shorter, distance, length, S)
  BY <1>2, <1>3, <1>4, <1>5 DEF IsMatch
<1> QED BY <1>6 DEF longer, shorter

\* The last symbols of a sequence, n or all of them.
IsEnd(end, s, n, S) ==
    /\ end \in Seq(S) /\ Len(end) = AtMostOf(Len(s), n)
    /\ \A i \in 1..Len(end) : end[i] = s[i + (Len(s) - Len(end))]

\* There is one end of a length.
LEMMA EndUnique ==
    ASSUME NEW S, NEW s \in Seq(S), NEW n \in Nat, NEW one, IsEnd(one, s, n, S),
           NEW other, IsEnd(other, s, n, S)
    PROVE  one = other
<1>1. /\ one \in Seq(S) /\ other \in Seq(S) /\ Len(one) = Len(other)
      /\ \A i \in 1..Len(one) : one[i] = s[i + (Len(s) - Len(one))]
      /\ \A i \in 1..Len(one) : other[i] = s[i + (Len(s) - Len(one))]
  BY DEF IsEnd
<1>2. \A i \in 1..Len(one) : one[i] = other[i]
  BY <1>1
<1> QED BY <1>1, <1>2, SeqEqual

\* The last symbols, one by one.
LEMMA LastSymbols ==
    ASSUME NEW S, NEW s \in Seq(S), NEW count \in 0..Len(s)
    PROVE  /\ SubSeq(s, Len(s) - count + 1, Len(s)) \in Seq(S)
           /\ Len(SubSeq(s, Len(s) - count + 1, Len(s))) = count
           /\ \A i \in 1..count :
                 SubSeq(s, Len(s) - count + 1, Len(s))[i] = s[i + (Len(s) - count)]
<1> DEFINE from == Len(s) - count
<1>1. from \in Nat /\ count \in Nat /\ from + count <= Len(s) /\ from + count = Len(s)
  OBVIOUS
<1>2. /\ SubSeq(s, from + 1, from + count) \in Seq(S)
      /\ Len(SubSeq(s, from + 1, from + count)) = count
      /\ \A i \in 1..count : SubSeq(s, from + 1, from + count)[i] = s[i + from]
  <2> HIDE DEF from
  <2> QED BY <1>1, SubSeqIs
<1> HIDE DEF from
<1>3. /\ SubSeq(s, from + 1, Len(s)) \in Seq(S)
      /\ Len(SubSeq(s, from + 1, Len(s))) = count
      /\ \A i \in 1..count : SubSeq(s, from + 1, Len(s))[i] = s[i + from]
  BY <1>1, <1>2
<1> QED BY <1>3 DEF from

\* The last symbols are the end.
LEMMA EndIs ==
    ASSUME NEW S, NEW s \in Seq(S), NEW n \in Nat, NEW count, count = AtMostOf(Len(s), n)
    PROVE  IsEnd(SubSeq(s, Len(s) - count + 1, Len(s)), s, n, S)
<1> DEFINE end == SubSeq(s, Len(s) - count + 1, Len(s))
<1>1. count \in 0..Len(s)
  BY DEF AtMostOf
<1>2. /\ end \in Seq(S) /\ Len(end) = count
      /\ \A i \in 1..count : end[i] = s[i + (Len(s) - count)]
  BY <1>1, LastSymbols
<1> HIDE DEF end
<1>3. IsEnd(end, s, n, S)
  BY <1>2 DEF IsEnd
<1> QED BY <1>3 DEF end

\* The end of the end and more is the end of everything.
LEMMA EndSlides ==
    ASSUME NEW S, NEW s \in Seq(S), NEW n \in Nat, NEW end, IsEnd(end, s, n, S),
           NEW more \in Seq(S), NEW next, IsEnd(next, end \o more, n, S)
    PROVE  IsEnd(next, s \o more, n, S)
<1> DEFINE L == Len(s)
           e == Len(end)
           m == Len(more)
           longer == s \o more
           joined == end \o more
           c == Len(next)
           J == Len(joined)
<1>1. /\ end \in Seq(S) /\ L \in Nat /\ e \in Nat /\ m \in Nat
      /\ e = AtMostOf(L, n)
      /\ \A i \in 1..e : end[i] = s[i + (L - e)]
  BY DEF IsEnd
<1>2. /\ longer \in Seq(S) /\ Len(longer) = L + m
      /\ \A i \in 1..(L + m) : longer[i] = IF i <= L THEN s[i] ELSE more[i - L]
  BY ConcatProperties
<1>3. /\ joined \in Seq(S) /\ J = e + m
      /\ \A i \in 1..(e + m) : joined[i] = IF i <= e THEN end[i] ELSE more[i - e]
  BY <1>1, ConcatProperties
<1> HIDE DEF joined
<1>4. /\ next \in Seq(S) /\ c \in Nat
      /\ c = AtMostOf(J, n)
      /\ \A i \in 1..c : next[i] = joined[i + (J - c)]
  <2>1. /\ next \in Seq(S) /\ c = AtMostOf(J, n)
        /\ \A i \in 1..c : next[i] = joined[i + (J - c)]
    BY Zenon DEF IsEnd, joined
  <2> QED BY <2>1
<1> HIDE DEF L, e, m, longer, c, J
<1>5. e <= L /\ c <= e + m /\ c = AtMostOf(L + m, n)
  BY <1>1, <1>3, <1>4 DEF AtMostOf
<1>n. /\ L \in Nat /\ e \in Nat /\ m \in Nat /\ c \in Nat /\ J = e + m
      /\ e <= L /\ c <= e + m
  BY <1>1, <1>3, <1>4, <1>5
<1>6. ASSUME NEW i \in 1..c
      PROVE  next[i] = longer[i + ((L + m) - c)]
  <2>a. i \in Nat /\ 1 <= i /\ i <= c
    BY <1>n
  <2> DEFINE j == i + (J - c)
             k == i + ((L + m) - c)
  <2>1. next[i] = joined[j]
    BY <1>4
  <2>2. j \in Int /\ k \in Int /\ j - e = k - L /\ j + (L - e) = k
    BY <1>n, <2>a
  <2>3. 1 <= j /\ j <= e + m /\ 1 <= k /\ k <= L + m
    BY <1>n, <2>a
  <2> HIDE DEF j, k
  <2>4. j \in 1..(e + m) /\ k \in 1..(L + m) /\ (j <= e <=> k <= L)
    BY <1>n, <2>2, <2>3
  <2>5. CASE j <= e
    <3>1. joined[j] = end[j] /\ longer[k] = s[k]
      BY <1>2, <1>3, <2>4, <2>5
    <3>2. j \in 1..e
      BY <1>n, <2>4, <2>5
    <3>3. end[j] = s[k]
      BY <1>1, <2>2, <3>2
    <3> QED BY <2>1, <3>1, <3>3 DEF k
  <2>6. CASE ~(j <= e)
    <3>1. joined[j] = more[j - e] /\ longer[k] = more[k - L]
      BY <1>2, <1>3, <2>4, <2>6
    <3> QED BY <2>1, <2>2, <3>1 DEF k
  <2> QED BY <2>5, <2>6
<1> DEFINE M == Len(longer)
<1>7. M = L + m
  BY <1>2
<1> HIDE DEF M
<1>8. /\ next \in Seq(S) /\ c = AtMostOf(M, n)
      /\ \A i \in 1..c : next[i] = longer[i + (M - c)]
  <2>1. c = AtMostOf(M, n)
    BY <1>5, <1>7, Zenon
  <2>2. \A i \in 1..c : next[i] = longer[i + (M - c)]
    <3> DEFINE off == M - c
               same == (L + m) - c
    <3>1. off = same
      BY <1>7
    <3>2. \A i \in 1..c : next[i] = longer[i + (same)]
      BY <1>6
    <3> HIDE DEF off, same
    <3>3. \A i \in 1..c : next[i] = longer[i + off]
      BY <3>1, <3>2, Zenon
    <3> QED BY <3>3 DEF off
  <2> QED BY <1>4, <2>1, <2>2
<1>9. IsEnd(next, longer, n, S)
  BY <1>8 DEF IsEnd, c, M, AtMostOf
<1> QED BY <1>9 DEF longer

------------------------------------------------------------------------------
(* Linked blocks (decode_linked of src/lz4.rs). *)

Refused == [why : {"none", "too long", "too far"}, offset : Int]

LinkedInv ==
    /\ meaning \in Seq(LinkedBytes) /\ history \in Seq(LinkedBytes)
    /\ output \in Seq(LinkedBytes) /\ linked \in Seq(LinkedBytes)
    /\ linkedEnd \in Refused
    /\ linked \o output = meaning
    /\ IsEnd(history, linked, LinkedWindow, LinkedBytes)
    /\ linkedEnd.why = "too far" => linkedEnd.offset \notin 1..Len(meaning)

\* The invariant gives LinkedHistory.
LEMMA LinkedInvIsHistory ==
    ASSUME LinkedInv
    PROVE  LinkedHistory
<1> DEFINE count == AtMostOf(Len(linked), LinkedWindow)
<1>1. linked \in Seq(LinkedBytes) /\ LinkedWindow \in Nat
  BY LinkedAssumption DEF LinkedInv
<1>2. IsEnd(Latest(linked, count), linked, LinkedWindow, LinkedBytes)
  BY <1>1, EndIs DEF Latest
<1>3. IsEnd(history, linked, LinkedWindow, LinkedBytes)
  BY DEF LinkedInv
<1>4. history = Latest(linked, count)
  <2> HIDE DEF count
  <2> QED BY <1>1, <1>2, <1>3, EndUnique
<1> QED BY <1>4 DEF LinkedInv, LinkedHistory

\* The window is updated to the end of what was in it and the block.
LEMMA WindowOfBoth ==
    ASSUME LinkedInv, NEW block \in Seq(LinkedBytes)
    PROVE  IsEnd(UpdateHistory(block), history \o block, LinkedWindow, LinkedBytes)
<1> DEFINE S == LinkedBytes
           W == LinkedWindow
           h == Len(history)
           m == Len(block)
           joined == history \o block
           J == Len(joined)
           new == UpdateHistory(block)
<1>1. /\ history \in Seq(S) /\ h \in Nat /\ m \in Nat /\ W \in Nat /\ W >= 1
      /\ h = AtMostOf(Len(linked), W) /\ Len(linked) \in Nat
  <2>1. h = AtMostOf(Len(linked), W)
    BY Zenon DEF LinkedInv, IsEnd
  <2>4. history \in Seq(S) /\ linked \in Seq(S)
    BY Zenon DEF LinkedInv
  <2>2. history \in Seq(S) /\ Len(linked) \in Nat
    BY <2>4
  <2>3. W \in Nat /\ W >= 1
    BY LinkedAssumption
  <2> QED BY <2>1, <2>2, <2>3
<1>2. h <= W
  BY <1>1 DEF AtMostOf
<1>n. h \in Nat /\ m \in Nat /\ W \in Nat /\ W >= 1
  BY <1>1
<1>3. /\ joined \in Seq(S) /\ J = h + m
      /\ \A i \in 1..(h + m) : joined[i] = IF i <= h THEN history[i] ELSE block[i - h]
  BY <1>1, ConcatProperties
<1>4. CASE m >= W
  <2> DEFINE end == SubSeq(block, m - W + 1, m)
             off == J - W
  <2>1. new = end
    BY <1>4 DEF UpdateHistory, Latest
  <2>2. W \in 0..m
    BY <1>1, <1>4
  <2>3. end \in Seq(S) /\ Len(end) = W /\ \A i \in 1..W : end[i] = block[i + (m - W)]
    BY <2>2, LastSymbols
  <2>4. W = AtMostOf(J, W) /\ off \in Nat
    BY <1>1, <1>3, <1>4 DEF AtMostOf
  <2> HIDE DEF end, joined, J, h, m, W
  <2>5. ASSUME NEW i \in 1..W
        PROVE  end[i] = joined[i + off]
    <3> DEFINE k == i + off
               j == i + (m - W)
    <3>1. k \in 1..(h + m) /\ ~(k <= h) /\ k - h = j
      BY <1>1, <1>3, <1>4
    <3> HIDE DEF k, j
    <3>2. joined[k] = block[j]
      BY <1>3, <3>1
    <3>3. end[i] = block[j]
      BY <2>3 DEF j
    <3> QED BY <3>2, <3>3 DEF k
  <2> HIDE DEF off
  <2>6. /\ end \in Seq(S) /\ Len(end) = AtMostOf(J, W)
        /\ \A i \in 1..Len(end) : end[i] = joined[i + off]
    BY <2>3, <2>4, <2>5
  <2>7. IsEnd(end, joined, W, S)
    BY <2>3, <2>6, Zenon DEF IsEnd, J, off
  <2> QED BY <2>1, <2>7 DEF joined, W
<1>5. CASE m < W
  <2> DEFINE dropped == IF h + m - W > 0 THEN h + m - W ELSE 0
             left == h - dropped
             kept == SubSeq(history, dropped + 1, h)
             end == kept \o block
             off == J - Len(end)
  <2>1. new = end
    <3>1. ~(Len(block) >= LinkedWindow)
      BY <1>n, <1>5
    <3> QED BY <3>1, Zenon DEF UpdateHistory
  <2>2. /\ dropped \in Nat /\ left \in Nat /\ dropped + left = h /\ dropped + left <= h
        /\ left + m = AtMostOf(h + m, W)
    <3> HIDE DEF h, m, W
    <3> QED BY <1>n, <1>2, <1>5 DEF AtMostOf
  <2>3. /\ kept \in Seq(S) /\ Len(kept) = left
        /\ \A i \in 1..left : kept[i] = history[i + dropped]
    <3> HIDE DEF dropped, left
    <3>1. /\ SubSeq(history, dropped + 1, dropped + left) \in Seq(S)
          /\ Len(SubSeq(history, dropped + 1, dropped + left)) = left
          /\ \A i \in 1..left : SubSeq(history, dropped + 1, dropped + left)[i] = history[i + dropped]
      BY <1>1, <2>2, SubSeqIs
    <3> QED BY <2>2, <3>1
  <2> HIDE DEF kept, dropped, left
  <2>4. /\ end \in Seq(S) /\ Len(end) = left + m
        /\ \A i \in 1..(left + m) : end[i] = IF i <= left THEN kept[i] ELSE block[i - left]
    BY <2>3, ConcatProperties
  <2> HIDE DEF end, joined, J, h, m, W
  <2>5. off = dropped
    BY <1>1, <1>3, <2>2, <2>4
  <2>6. ASSUME NEW i \in 1..(left + m)
        PROVE  end[i] = joined[i + dropped]
    <3> DEFINE k == i + dropped
    <3>1. /\ k \in 1..(h + m) /\ (i <= left <=> k <= h) /\ k - h = i - left
          /\ i <= left => i \in 1..left
      BY <1>1, <2>2
    <3>2. i <= left => kept[i] = history[k]
      BY <2>3, <3>1
    <3> HIDE DEF k
    <3>3. end[i] = joined[k]
      BY <1>3, <2>4, <3>1, <3>2
    <3> QED BY <3>3 DEF k
  <2> HIDE DEF off
  <2>7. /\ end \in Seq(S) /\ Len(end) = AtMostOf(J, W)
        /\ \A i \in 1..Len(end) : end[i] = joined[i + off]
    BY <1>3, <2>2, <2>4, <2>5, <2>6
  <2>8. IsEnd(end, joined, W, S)
    BY <2>7, Zenon DEF IsEnd, J, off
  <2> QED BY <2>1, <2>8 DEF joined, W
<1>6. m >= W \/ m < W
  BY <1>1
<1> QED BY <1>4, <1>5, <1>6

\* So it is the end of all that is committed.
LEMMA WindowSlides ==
    ASSUME LinkedInv, NEW block \in Seq(LinkedBytes)
    PROVE  /\ UpdateHistory(block) \in Seq(LinkedBytes)
           /\ IsEnd(UpdateHistory(block), linked \o block, LinkedWindow, LinkedBytes)
<1> DEFINE new == UpdateHistory(block)
<1>1. IsEnd(new, history \o block, LinkedWindow, LinkedBytes)
  BY WindowOfBoth
<1>2. IsEnd(history, linked, LinkedWindow, LinkedBytes) /\ linked \in Seq(LinkedBytes) /\ LinkedWindow \in Nat
  BY LinkedAssumption DEF LinkedInv
<1> HIDE DEF new
<1>3. IsEnd(new, linked \o block, LinkedWindow, LinkedBytes)
  BY <1>1, <1>2, EndSlides
<1>4. new \in Seq(LinkedBytes)
  BY <1>1 DEF IsEnd
<1> QED BY <1>3, <1>4 DEF new

\* What the invariant says of the lengths of blocks and window.
LEMMA LinkedTypes ==
    ASSUME LinkedInv
    PROVE  /\ meaning \in Seq(LinkedBytes) /\ history \in Seq(LinkedBytes)
           /\ output \in Seq(LinkedBytes) /\ linked \in Seq(LinkedBytes)
           /\ linked \o output = meaning
           /\ Len(meaning) = Len(linked) + Len(output)
           /\ Len(history) = AtMostOf(Len(linked), LinkedWindow)
           /\ Len(history) <= Len(linked)
           /\ \A i \in 1..Len(history) :
                 history[i] = linked[i + (Len(linked) - Len(history))]
           /\ LinkedWindow \in Nat
<1>1. /\ meaning \in Seq(LinkedBytes) /\ history \in Seq(LinkedBytes)
      /\ output \in Seq(LinkedBytes) /\ linked \in Seq(LinkedBytes)
      /\ linked \o output = meaning
  BY Zenon DEF LinkedInv
<1>2. /\ Len(history) = AtMostOf(Len(linked), LinkedWindow)
      /\ \A i \in 1..Len(history) :
            history[i] = linked[i + (Len(linked) - Len(history))]
  BY Zenon DEF LinkedInv, IsEnd
<1>3. Len(linked \o output) = Len(linked) + Len(output)
  BY <1>1, ConcatProperties
<1>4. LinkedWindow \in Nat
  BY LinkedAssumption
<1>5. Len(history) <= Len(linked)
  BY <1>1, <1>2, <1>4 DEF AtMostOf
<1> QED BY <1>1, <1>2, <1>3, <1>4, <1>5

\* Where a match begins in the window, if it does.
FromHistory(start, take, offset) ==
    /\ start + take <= Len(history)
    /\ take <= offset /\ offset \in 1..Len(meaning)
    /\ take > 0 => start + (Len(linked) - Len(history)) = Len(meaning) - offset

\* The part of a match that is taken from the window goes on where the
\* blocks end.
LEMMA FromWindow ==
    ASSUME LinkedInv, NEW start \in Nat, NEW take \in Nat, NEW offset \in Nat,
           FromHistory(start, take, offset)
    PROVE  /\ output \o SubSeq(history, start + 1, start + take) \in Seq(LinkedBytes)
           /\ Len(output \o SubSeq(history, start + 1, start + take)) = Len(output) + take
           /\ IsMatch(linked \o (output \o SubSeq(history, start + 1, start + take)),
                      meaning, offset, take, LinkedBytes)
<1> DEFINE S == LinkedBytes
           h == Len(history)
           o == Len(output)
           l == Len(linked)
           M == Len(meaning)
           tail == SubSeq(history, start + 1, start + take)
<1>1. /\ meaning \in Seq(S) /\ history \in Seq(S) /\ output \in Seq(S) /\ linked \in Seq(S)
      /\ linked \o output = meaning /\ M = l + o /\ h <= l
      /\ \A i \in 1..h : history[i] = linked[i + (l - h)]
  BY LinkedTypes
<1>n. /\ h \in Nat /\ o \in Nat /\ l \in Nat /\ M \in Nat /\ M = l + o /\ h <= l
      /\ start + take <= h /\ take <= offset /\ offset \in 1..M
      /\ take > 0 => start + (l - h) = M - offset
  <2>1. /\ h \in Nat /\ o \in Nat /\ l \in Nat /\ M \in Nat
    BY <1>1
  <2> QED BY <1>1, <2>1 DEF FromHistory
<1>2. \A i \in 1..l : meaning[i] = linked[i]
  <2>1. \A i \in 1..(l + o) : (linked \o output)[i] = IF i <= l THEN linked[i] ELSE output[i - l]
    BY <1>1, ConcatProperties
  <2>2. \A i \in 1..(l + o) : meaning[i] = IF i <= l THEN linked[i] ELSE output[i - l]
    BY <1>1, <2>1, Zenon
  <2> HIDE DEF l, o
  <2> QED BY <1>n, <2>2
<1>4. /\ tail \in Seq(S) /\ Len(tail) = take
      /\ \A i \in 1..take : tail[i] = history[i + start]
  BY <1>1, <1>n, SubSeqIs
<1>5. /\ output \o tail \in Seq(S) /\ Len(output \o tail) = o + take
      /\ linked \o (output \o tail) = meaning \o tail
  <2> HIDE DEF tail
  <2>1. output \o tail \in Seq(S) /\ Len(output \o tail) = o + Len(tail)
    BY <1>1, <1>4, ConcatProperties
  <2>2. linked \in Seq(S) /\ output \in Seq(S) /\ tail \in Seq(S)
    BY <1>1, <1>4
  <2>3. (linked \o output) \o tail = linked \o (output \o tail)
    <3>1. Associates(linked, output, tail)
      BY <2>2, JoinsAssociate
    <3> QED BY <3>1 DEF Associates
  <2> QED BY <1>1, <1>4, <2>1, <2>3
<1> HIDE DEF h, o, l, M, tail
<1>7. ASSUME NEW i \in 1..take
      PROVE  tail[i] = meaning[i + (M - offset)]
  <2> DEFINE j == i + start
             k == i + (M - offset)
  <2>1. i \in Nat /\ i >= 1 /\ i <= take
    BY <1>n
  <2>2. j \in 1..h /\ k \in 1..l /\ j + (l - h) = k
    BY <1>n, <2>1
  <2>3. tail[i] = history[j]
    BY <1>4
  <2> HIDE DEF j, k
  <2>4. history[j] = linked[k] /\ meaning[k] = linked[k]
    BY <1>1, <1>2, <2>2
  <2> QED BY <2>3, <2>4 DEF k
<1>8. Recurs(tail, meaning, offset, take, S)
  <2>1. \A i \in 1..take : i <= offset => tail[i] = meaning[i + (M - offset)]
    BY <1>7
  <2>2. \A i \in 1..take : i > offset => tail[i] = tail[i - offset]
    BY <1>n
  <2> QED BY <1>4, <2>1, <2>2, Zenon DEF Recurs, M
<1>9. IsMatch(meaning \o tail, meaning, offset, take, S)
  BY <1>1, <1>8, <1>n, TailIsMatch DEF M
<1>10. /\ output \o tail \in Seq(S) /\ Len(output \o tail) = o + take
       /\ IsMatch(linked \o (output \o tail), meaning, offset, take, S)
  BY <1>5, <1>9, Zenon
<1> QED BY <1>10 DEF tail, o

\* copy_match copies what the match means.
LEMMA MatchAcross ==
    ASSUME LinkedInv, NEW offset \in Nat \ {0}, offset <= Len(history) + Len(output),
           NEW length \in Nat
    PROVE  /\ CopyMatch(offset, length) \in Seq(LinkedBytes)
           /\ Repeated(meaning, offset, length) \in Seq(LinkedBytes)
           /\ linked \o CopyMatch(offset, length) = Repeated(meaning, offset, length)
<1> DEFINE S == LinkedBytes
           needed == IF offset > Len(output) THEN offset - Len(output) ELSE 0
           start == Len(history) - needed
           take == AtMostOf(length, needed)
           begun == output \o SubSeq(history, start + 1, start + take)
           rest == length - take
           copy == CopyMatch(offset, length)
<1>1. /\ meaning \in Seq(S) /\ history \in Seq(S) /\ output \in Seq(S) /\ linked \in Seq(S)
      /\ Len(meaning) = Len(linked) + Len(output) /\ Len(history) <= Len(linked)
  BY LinkedTypes
<1>2. needed \in Nat /\ take \in 0..needed /\ take \in Nat /\ rest \in Nat /\ take + rest = length
      /\ offset \in 1..Len(meaning)
  BY <1>1 DEF AtMostOf
<1>3. copy = IF take = length THEN begun ELSE ExtendMatch(begun, offset, rest)
  BY Zenon DEF CopyMatch
<1>4. /\ begun \in Seq(S) /\ Len(begun) = Len(output) + take
      /\ IsMatch(linked \o begun, meaning, offset, take, S)
  <2>1. start \in Nat /\ FromHistory(start, take, offset)
    <3> DEFINE h == Len(history)
               o == Len(output)
               l == Len(linked)
    <3>1. h \in Nat /\ o \in Nat /\ l \in Nat /\ h <= l /\ Len(meaning) = l + o /\ offset <= h + o
      BY <1>1
    <3>2. needed = IF offset > o THEN offset - o ELSE 0
      OBVIOUS
    <3> HIDE DEF h, o, l, needed, take
    <3>3. h - needed \in Nat /\ (h - needed) + take <= h /\ take <= offset
      BY <1>2, <3>1, <3>2
    <3>4. take > 0 => (h - needed) + (l - h) = (l + o) - offset
      BY <1>2, <3>1, <3>2
    <3> QED BY <1>2, <3>1, <3>3, <3>4 DEF FromHistory, h, l
  <2> HIDE DEF needed, take, start
  <2> QED BY <1>2, <2>1, FromWindow
<1>5. take # length => offset \in 1..Len(begun)
  <2>1. take # length => take = needed
    BY <1>2 DEF AtMostOf
  <2>2. offset <= Len(output) + needed
    BY <1>1
  <2> HIDE DEF begun, needed, take
  <2> QED BY <1>1, <1>2, <1>4, <2>1, <2>2
<1> HIDE DEF begun, needed, take, rest, copy
<1>6. copy \in Seq(S) /\ IsMatch(linked \o copy, meaning, offset, length, S)
  <2>1. CASE take = length
    BY <1>3, <1>4, <2>1
  <2>2. CASE take # length
    <3> DEFINE more == ExtendMatch(begun, offset, rest)
    <3>1. IsMatch(more, begun, offset, rest, S) /\ copy = more
      BY <1>2, <1>3, <1>4, <1>5, <2>2, ExtendIsRepeated
    <3> HIDE DEF more
    <3>2. IsMatch(linked \o more, linked \o begun, offset, rest, S)
      BY <1>1, <1>2, <1>4, <1>5, <2>2, <3>1, MatchBehind
    <3>3. IsMatch(linked \o more, meaning, offset, take + rest, S)
      <4> DEFINE once == linked \o begun
                 twice == linked \o more
      <4>1. IsMatch(once, meaning, offset, take, S) /\ IsMatch(twice, once, offset, rest, S)
        BY <1>4, <3>2
      <4> HIDE DEF once, twice
      <4>2. IsMatch(twice, meaning, offset, take + rest, S)
        BY <1>1, <1>2, <4>1, MatchesJoin
      <4> QED BY <4>2 DEF twice
    <3>4. more \in Seq(S)
      BY <3>1 DEF IsMatch
    <3> QED BY <1>2, <3>1, <3>3, <3>4
  <2> QED BY <2>1, <2>2
<1> DEFINE whole == Repeated(meaning, offset, length)
           reached == linked \o copy
<1>7. IsMatch(whole, meaning, offset, length, S)
  BY <1>1, <1>2, RepeatedIs
<1>8. IsMatch(reached, meaning, offset, length, S)
  BY <1>6
<1> HIDE DEF whole, reached
<1>9. reached = whole /\ whole \in Seq(S)
  <2>1. reached = whole
    BY <1>1, <1>2, <1>7, <1>8, MatchUnique
  <2> QED BY <1>7, <2>1 DEF IsMatch
<1> QED BY <1>6, <1>9 DEF reached, whole, copy

\* Bytes that are added to a block.
LEMMA BlockGrows ==
    ASSUME LinkedInv, NEW block \in Seq(LinkedBytes)
    PROVE  /\ output \o block \in Seq(LinkedBytes) /\ meaning \o block \in Seq(LinkedBytes)
           /\ linked \o block \in Seq(LinkedBytes)
           /\ linked \o (output \o block) = meaning \o block
<1>1. /\ linked \in Seq(LinkedBytes) /\ output \in Seq(LinkedBytes)
      /\ meaning \in Seq(LinkedBytes) /\ linked \o output = meaning
  BY LinkedTypes
<1>2. linked \in Seq(LinkedBytes) /\ output \in Seq(LinkedBytes)
  BY <1>1
<1>3. (linked \o output) \o block = linked \o (output \o block)
  <2>1. Associates(linked, output, block)
    BY <1>2, JoinsAssociate
  <2> QED BY <2>1 DEF Associates
<1>4. /\ output \o block \in Seq(LinkedBytes) /\ meaning \o block \in Seq(LinkedBytes)
      /\ linked \o block \in Seq(LinkedBytes)
  BY <1>1
<1> QED BY <1>1, <1>3, <1>4, Zenon

\* A block that is too long is not refused for its offset.
LEMMA TooLong ==
    ASSUME NEW end \in Refused, NEW next, next = [end EXCEPT !.why = "too long"]
    PROVE  next \in Refused /\ next.why # "too far"
<1>1. next \in Refused
  BY DEF Refused
<1>2. next.why = "too long"
  BY DEF Refused
<1> QED BY <1>1, <1>2

\* A refused offset is kept.
LEMMA TooFar ==
    ASSUME NEW offset \in Int, NEW next, next = [why |-> "too far", offset |-> offset]
    PROVE  next \in Refused /\ next.offset = offset
  BY DEF Refused

\* The empty block.
LEMMA NothingDecoded ==
    ASSUME NEW S, NEW s \in Seq(S)
    PROVE  s \o <<>> = s /\ <<>> \in Seq(S) /\ Len(<<>>) = 0
  OBVIOUS

\* Nothing has been decoded at first.
LEMMA LinkedInvInit == LinkedInit => LinkedInv
<1> SUFFICES ASSUME LinkedInit PROVE LinkedInv
  OBVIOUS
<1>1. /\ meaning = <<>> /\ history = <<>> /\ output = <<>> /\ linked = <<>>
      /\ linkedEnd = [why |-> "none", offset |-> 0]
  BY DEF LinkedInit
<1>2. IsEnd(history, linked, LinkedWindow, LinkedBytes)
  BY <1>1, LinkedAssumption DEF IsEnd, AtMostOf
<1>3. /\ <<>> \in Seq(LinkedBytes) /\ <<>> \o <<>> = <<>>
      /\ [why |-> "none", offset |-> 0] \in Refused
  BY DEF Refused
<1>4. linkedEnd.why # "too far"
  BY <1>1
<1> QED BY <1>1, <1>2, <1>3, <1>4, Zenon DEF LinkedInv

\* Literals keep the invariant, ...
LEMMA DecodeRunKeeps ==
    ASSUME LinkedInv, NEW block \in Seq(LinkedBytes), DecodeRun(block)
    PROVE  LinkedInv'
<1>1. /\ meaning \in Seq(LinkedBytes) /\ history \in Seq(LinkedBytes)
      /\ output \in Seq(LinkedBytes) /\ linked \in Seq(LinkedBytes)
      /\ linked \o output = meaning
      /\ linkedEnd \in Refused
      /\ IsEnd(history, linked, LinkedWindow, LinkedBytes)
  BY Zenon DEF LinkedInv
<1>r. linkedEnd \in Refused
  BY <1>1
<1>2. linkedEnd.why = "none" /\ UNCHANGED <<history, linked>>
  BY DEF DecodeRun, LinkedRoom
<1>3. CASE Len(output) + Len(block) > MaxBlock
  <2>1. UNCHANGED <<meaning, output>> /\ linkedEnd' = [linkedEnd EXCEPT !.why = "too long"]
    BY <1>3 DEF DecodeRun
  <2>2. linkedEnd' \in Refused
    BY <1>r, <2>1, TooLong
  <2>3. linkedEnd'.why # "too far"
    BY <1>r, <2>1, TooLong
  <2> QED BY <1>1, <1>2, <2>1, <2>2, <2>3 DEF LinkedInv
<1>4. CASE ~(Len(output) + Len(block) > MaxBlock)
  <2>1. output' = output \o block /\ meaning' = meaning \o block /\ UNCHANGED linkedEnd
    BY <1>4 DEF DecodeRun
  <2>2. linkedEnd'.why # "too far"
    BY <1>2, <2>1
  <2>3. linked' \o output' = meaning' /\ output' \in Seq(LinkedBytes) /\ meaning' \in Seq(LinkedBytes)
    BY <1>2, <2>1, BlockGrows
  <2> QED BY <1>1, <1>2, <2>1, <2>2, <2>3 DEF LinkedInv
<1> QED BY <1>3, <1>4

\* ... and a match, copied or refused, ...
LEMMA DecodeLinkedMatchKeeps ==
    ASSUME LinkedInv, NEW offset \in 0..(LinkedWindow - 1), NEW length \in Nat,
           DecodeLinkedMatch(offset, length)
    PROVE  LinkedInv'
<1>1. /\ meaning \in Seq(LinkedBytes) /\ history \in Seq(LinkedBytes)
      /\ output \in Seq(LinkedBytes) /\ linked \in Seq(LinkedBytes)
      /\ linked \o output = meaning
      /\ linkedEnd \in Refused
      /\ IsEnd(history, linked, LinkedWindow, LinkedBytes)
  BY Zenon DEF LinkedInv
<1>r. linkedEnd \in Refused
  BY <1>1
<1>2. linkedEnd.why = "none" /\ UNCHANGED <<history, linked>>
  BY DEF DecodeLinkedMatch, LinkedRoom
<1>3. CASE Len(output) + length > MaxBlock
  <2>1. UNCHANGED <<meaning, output>> /\ linkedEnd' = [linkedEnd EXCEPT !.why = "too long"]
    BY <1>3 DEF DecodeLinkedMatch
  <2>2. linkedEnd' \in Refused
    BY <1>r, <2>1, TooLong
  <2>3. linkedEnd'.why # "too far"
    BY <1>r, <2>1, TooLong
  <2> QED BY <1>1, <1>2, <2>1, <2>2, <2>3 DEF LinkedInv
<1>4. CASE ~(Len(output) + length > MaxBlock) /\ (offset = 0 \/ offset > Len(history) + Len(output))
  <2>1. UNCHANGED <<meaning, output>> /\ linkedEnd' = [why |-> "too far", offset |-> offset]
    BY <1>4 DEF DecodeLinkedMatch
  <2>2. offset \in Int /\ linkedEnd' \in Refused /\ linkedEnd'.offset = offset
    <3>1. offset \in Int
      BY LinkedAssumption
    <3> QED BY <2>1, <3>1, TooFar
  <2>3. offset \notin 1..Len(meaning)
    <3>1. /\ Len(meaning) = Len(linked) + Len(output)
          /\ Len(history) = AtMostOf(Len(linked), LinkedWindow)
          /\ Len(linked) \in Nat /\ Len(output) \in Nat /\ LinkedWindow \in Nat
      BY LinkedTypes
    <3>2. CASE offset = 0
      BY <3>1, <3>2
    <3>3. CASE offset > Len(history) + Len(output)
      <4> DEFINE h == Len(history)
                 o == Len(output)
                 l == Len(linked)
                 M == Len(meaning)
      <4>1. h = IF l < LinkedWindow THEN l ELSE LinkedWindow
        BY <3>1 DEF AtMostOf
      <4>2. M = l + o /\ l \in Nat /\ o \in Nat /\ LinkedWindow \in Nat /\ offset > h + o
        BY <3>1, <3>3
      <4> HIDE DEF h, o, l, M
      <4>3. offset > M
        BY <4>1, <4>2
      <4>4. offset \notin 1..M
        BY <4>2, <4>3
      <4> QED BY <4>4 DEF M
    <3> QED BY <1>4, <3>2, <3>3
  <2>4. linkedEnd'.offset \notin 1..Len(meaning')
    BY <2>1, <2>2, <2>3
  <2> QED BY <1>1, <1>2, <2>1, <2>2, <2>4 DEF LinkedInv
<1>5. CASE ~(Len(output) + length > MaxBlock) /\ ~(offset = 0 \/ offset > Len(history) + Len(output))
  <2>1. /\ output' = CopyMatch(offset, length) /\ meaning' = Repeated(meaning, offset, length)
        /\ UNCHANGED linkedEnd
    BY <1>5 DEF DecodeLinkedMatch
  <2>2. offset \in Nat \ {0} /\ offset <= Len(history) + Len(output)
    <3>1. LinkedWindow \in Nat /\ Len(history) \in Nat /\ Len(output) \in Nat
      BY <1>1, LinkedAssumption
    <3> QED BY <1>5, <3>1
  <2>3. /\ CopyMatch(offset, length) \in Seq(LinkedBytes)
        /\ Repeated(meaning, offset, length) \in Seq(LinkedBytes)
        /\ linked \o CopyMatch(offset, length) = Repeated(meaning, offset, length)
    BY <2>2, MatchAcross
  <2>4. linked' \o output' = meaning' /\ output' \in Seq(LinkedBytes) /\ meaning' \in Seq(LinkedBytes)
    BY <1>2, <2>1, <2>3
  <2>5. linkedEnd'.why # "too far"
    BY <1>2, <2>1
  <2> QED BY <1>1, <1>2, <2>1, <2>4, <2>5 DEF LinkedInv
<1> QED BY <1>3, <1>4, <1>5

\* ... and a block that is committed, ...
LEMMA CommitBlockKeeps ==
    ASSUME LinkedInv, CommitBlock
    PROVE  LinkedInv'
<1>1. /\ meaning \in Seq(LinkedBytes) /\ output \in Seq(LinkedBytes) /\ linked \in Seq(LinkedBytes)
      /\ linked \o output = meaning
      /\ linkedEnd \in Refused
  BY Zenon DEF LinkedInv
<1>2. /\ linkedEnd.why = "none" /\ UNCHANGED <<meaning, linkedEnd>>
      /\ history' = UpdateHistory(output) /\ linked' = linked \o output /\ output' = <<>>
  BY DEF CommitBlock
<1>3. linkedEnd'.why # "too far"
  BY <1>2
<1>4. /\ UpdateHistory(output) \in Seq(LinkedBytes)
      /\ IsEnd(UpdateHistory(output), linked \o output, LinkedWindow, LinkedBytes)
  BY <1>1, WindowSlides
<1>5. history' \in Seq(LinkedBytes) /\ IsEnd(history', linked', LinkedWindow, LinkedBytes)
  BY <1>2, <1>4, Zenon
<1>6. linked' = meaning /\ linked' \o output' = meaning'
      /\ output' \in Seq(LinkedBytes) /\ linked' \in Seq(LinkedBytes)
  BY <1>1, <1>2, NothingDecoded
<1> QED BY <1>1, <1>2, <1>3, <1>5, <1>6 DEF LinkedInv

\* ... and a stored block.
LEMMA CommitStoredKeeps ==
    ASSUME LinkedInv, NEW block \in Seq(LinkedBytes), CommitStored(block)
    PROVE  LinkedInv'
<1>1. /\ meaning \in Seq(LinkedBytes) /\ output \in Seq(LinkedBytes) /\ linked \in Seq(LinkedBytes)
      /\ linked \o output = meaning
      /\ linkedEnd \in Refused
  BY Zenon DEF LinkedInv
<1>2. /\ linkedEnd.why = "none" /\ UNCHANGED <<output, linkedEnd>> /\ output = <<>>
      /\ history' = UpdateHistory(block) /\ linked' = linked \o block
      /\ meaning' = meaning \o block
  BY DEF CommitStored, LinkedRoom
<1>3. linkedEnd'.why # "too far"
  BY <1>2
<1>4. /\ UpdateHistory(block) \in Seq(LinkedBytes)
      /\ IsEnd(UpdateHistory(block), linked \o block, LinkedWindow, LinkedBytes)
  BY <1>1, WindowSlides
<1>5. history' \in Seq(LinkedBytes) /\ IsEnd(history', linked', LinkedWindow, LinkedBytes)
  BY <1>2, <1>4, Zenon
<1>6. /\ linked \o block \in Seq(LinkedBytes) /\ meaning \o block \in Seq(LinkedBytes)
  BY BlockGrows
<1>7. linked = meaning
  BY <1>1, <1>2, NothingDecoded
<1>8. linked' \o output' = meaning' /\ meaning' \in Seq(LinkedBytes) /\ linked' \in Seq(LinkedBytes)
  BY <1>2, <1>6, <1>7, NothingDecoded
<1> QED BY <1>1, <1>2, <1>3, <1>5, <1>8 DEF LinkedInv

\* Decoding linked blocks with the window of decode_linked gives the bytes the
\* blocks mean, and refuses a match only when it reaches in front of the first:
\* for every window, every size of block and every run and match.
THEOREM LinkedHistoryHolds == LinkedSpec => []LinkedHistory
<1>1. LinkedInit => LinkedInv
  BY LinkedInvInit
<1>2. LinkedInv /\ [LinkedNext]_lz4Linked => LinkedInv'
  <2> SUFFICES ASSUME LinkedInv, [LinkedNext]_lz4Linked PROVE LinkedInv'
    OBVIOUS
  <2>1. CASE UNCHANGED lz4Linked
    BY <2>1 DEF lz4Linked, LinkedInv, IsEnd
  <2>2. ASSUME NEW run \in LinkedRuns, NEW block \in [1..run -> LinkedBytes],
               DecodeRun(block) \/ CommitStored(block)
        PROVE  LinkedInv'
    <3>1. run \in Nat
      BY LinkedAssumption
    <3>2. block \in Seq(LinkedBytes)
      BY <3>1
    <3> QED BY <2>2, <3>2, DecodeRunKeeps, CommitStoredKeeps
  <2>3. ASSUME NEW offset \in 0..(LinkedWindow - 1), NEW run \in LinkedRuns,
               DecodeLinkedMatch(offset, run)
        PROVE  LinkedInv'
    <3>1. run \in Nat
      BY LinkedAssumption
    <3> QED BY <2>3, <3>1, DecodeLinkedMatchKeeps
  <2>4. CASE CommitBlock
    BY <2>4, CommitBlockKeeps
  <2> QED BY <2>1, <2>2, <2>3, <2>4 DEF LinkedNext
<1>3. LinkedInv => LinkedHistory
  BY LinkedInvIsHistory
<1> QED BY <1>1, <1>2, <1>3, PTL DEF LinkedSpec

------------------------------------------------------------------------------
(* The frames of an LZ4 input (Lz4Decoder). *)

\* The next block to be committed of the item at hand.
FirstLeft == IF inFrame THEN nextBlock - Len(batch) ELSE 1

\* What stands before block b of item i, blocks of frames only.
Passed(i, b, j, c) ==
    /\ j \in DOMAIN items /\ items[j].kind \in {"independent", "linked"}
    /\ c \in DOMAIN items[j].blocks
    /\ j < i \/ (j = i /\ c < b)

\* All of it has been written, and in order.
WrittenUpTo(i, b) ==
    /\ written \in Seq(Nat \X Nat)
    /\ \A m, n \in DOMAIN written : m < n => Before(written[m], written[n])
    /\ \A j, c : <<j, c>> \in Range(written) <=> Passed(i, b, j, c)

\* The frame at hand.
FrameAt ==
    /\ item \in DOMAIN items /\ Frame.kind \in {"independent", "linked"}
    /\ nextBlock \in 1..(Len(Frame.blocks) + 1)
    /\ batch \in Seq(Nat) /\ Len(batch) < nextBlock
    /\ \A k \in 1..Len(batch) : batch[k] = FirstLeft + k - 1
    /\ \A c \in 1..(FirstLeft - 1) : Block(c) # "corrupt"
    /\ ended => nextBlock = Len(Frame.blocks) + 1 /\ parseError = ~Frame.marked

FrameInv ==
    /\ items \in Seq(Items) /\ item \in 1..(Len(items) + 1)
    /\ \A j \in 1..(item - 1) : ~Faulty(j)
    /\ IF inFrame THEN FrameAt ELSE batch = <<>>
    /\ WrittenUpTo(item, FirstLeft)

FramesInv ==
    /\ outcome = "none" => FrameInv
    /\ outcome # "none" => FramesInOrder

\* An item.
LEMMA ItemIs ==
    ASSUME items \in Seq(Items), NEW i \in DOMAIN items
    PROVE  /\ i \in Nat /\ 1 <= i /\ i <= Len(items) /\ Len(items) \in Nat
           /\ items[i].blocks \in Seq({"stored", "checked", "packed", "corrupt"})
           /\ Len(items[i].blocks) \in Nat
           /\ DOMAIN items[i].blocks = 1..Len(items[i].blocks)
           /\ items[i].marked \in BOOLEAN /\ items[i].agrees \in BOOLEAN
<1>1. items[i] \in Items
  OBVIOUS
<1>. QED
  BY <1>1 DEF Items

\* A place in front of the first fault.
LEMMA PlaceIs ==
    ASSUME NEW place
    PROVE  place \in AllInFront <=>
              \E i \in DOMAIN items : \E b \in DOMAIN items[i].blocks :
                  place = <<i, b>> /\ InFront(i, b)
BY DEF AllInFront

\* What has been passed is a place with numbers, in front of the rest.
LEMMA PassedIs ==
    ASSUME items \in Seq(Items), NEW i \in Nat, NEW b \in Nat, NEW j, NEW c,
           Passed(i, b, j, c)
    PROVE  /\ j \in Nat /\ c \in Nat /\ 1 <= c
           /\ Before(<<j, c>>, <<i, b>>)
<1>1. j \in DOMAIN items /\ c \in DOMAIN items[j].blocks /\ (j < i \/ (j = i /\ c < b))
  BY DEF Passed
<1>2. j \in Nat /\ DOMAIN items[j].blocks = 1..Len(items[j].blocks)
      /\ Len(items[j].blocks) \in Nat
  BY <1>1, ItemIs
<1>3. c \in Nat /\ 1 <= c
  BY <1>1, <1>2
<1>4. Before(<<j, c>>, <<i, b>>)
  BY <1>1 DEF Before
<1>. QED
  BY <1>2, <1>3, <1>4

\* A written place.
LEMMA WrittenIs ==
    ASSUME items \in Seq(Items), NEW i \in Nat, NEW b \in Nat, WrittenUpTo(i, b)
    PROVE  \A n \in DOMAIN written : \E j, c :
              /\ written[n] = <<j, c>> /\ Passed(i, b, j, c)
              /\ written[n] \in Range(written)
<1>. SUFFICES ASSUME NEW n \in DOMAIN written
              PROVE  \E j, c : /\ written[n] = <<j, c>> /\ Passed(i, b, j, c)
                               /\ written[n] \in Range(written)
  OBVIOUS
<1>1. written \in Seq(Nat \X Nat)
  BY DEF WrittenUpTo
<1>2. written[n] \in Nat \X Nat
  BY <1>1
<1>3. PICK j \in Nat, c \in Nat : written[n] = <<j, c>>
  BY <1>2
<1>4. written[n] \in Range(written)
  BY DEF Range
<1>5. <<j, c>> \in Range(written)
  BY Zenon, <1>3, <1>4
<1>6. Passed(i, b, j, c)
  BY <1>5 DEF WrittenUpTo
<1>. QED
  BY Zenon, <1>3, <1>4, <1>6

\* An order of the places.
LEMMA BeforeOrders ==
    ASSUME NEW i \in Nat, NEW b \in Nat, NEW j \in Nat, NEW c \in Nat,
           NEW k \in Nat, NEW d \in Nat,
           Before(<<i, b>>, <<j, c>>), Before(<<j, c>>, <<k, d>>)
    PROVE  Before(<<i, b>>, <<k, d>>)
<1>1. i < j \/ (i = j /\ b < c)
  BY DEF Before
<1>2. j < k \/ (j = k /\ c < d)
  BY DEF Before
<1>3. i < k \/ (i = k /\ b < d)
  BY <1>1, <1>2
<1>. QED
  BY <1>3 DEF Before

\* What is right of a call that goes on.
InOrder ==
    /\ \A m, n \in DOMAIN written : m < n => Before(written[m], written[n])
    /\ Range(written) \subseteq AllInFront
    /\ \A n \in DOMAIN written, place \in AllInFront :
          Before(place, written[n]) => place \in Range(written)

\* The invariant gives it.
LEMMA GoingInOrder ==
    ASSUME FrameInv
    PROVE  InOrder
<1>1. /\ items \in Seq(Items) /\ item \in Nat /\ FirstLeft \in Nat
      /\ \A j \in 1..(item - 1) : ~Faulty(j)
      /\ WrittenUpTo(item, FirstLeft)
      /\ inFrame => /\ item \in DOMAIN items
                    /\ \A c \in 1..(FirstLeft - 1) : Block(c) # "corrupt"
      /\ ~inFrame => FirstLeft = 1
  <2>1. CASE inFrame
    <3>1. FrameAt
      BY <2>1 DEF FrameInv
    <3>2. /\ nextBlock \in Nat /\ Len(batch) \in Nat /\ Len(batch) < nextBlock
      BY <3>1 DEF FrameAt
    <3>3. FirstLeft = nextBlock - Len(batch)
      BY <2>1 DEF FirstLeft
    <3>4. FirstLeft \in Nat
      BY <3>2, <3>3
    <3>. QED
      BY <2>1, <3>1, <3>4 DEF FrameInv, FrameAt
  <2>2. CASE ~inFrame
    <3>1. FirstLeft = 1
      BY <2>2 DEF FirstLeft
    <3>. QED
      BY <2>2, <3>1 DEF FrameInv
  <2>. QED
    BY <2>1, <2>2
<1>2. ASSUME NEW j, NEW c, Passed(item, FirstLeft, j, c)
      PROVE  <<j, c>> \in AllInFront
  <2>1. /\ j \in DOMAIN items /\ items[j].kind \in {"independent", "linked"}
        /\ c \in DOMAIN items[j].blocks /\ (j < item \/ (j = item /\ c < FirstLeft))
    BY <1>2 DEF Passed
  <2>2. j \in Nat /\ c \in Nat /\ 1 <= c /\ 1 <= j
    BY <1>1, <1>2, <2>1, PassedIs, ItemIs
  <2>3. \A k \in 1..(j - 1) : ~Faulty(k)
    BY <1>1, <2>1, <2>2
  <2>4. \A d \in Corrupt(j) : c < d
    <3>1. CASE j < item
      <4>1. ~Faulty(j)
        BY <1>1, <2>2, <3>1
      <4>2. Corrupt(j) = {}
        BY <2>1, <4>1 DEF Faulty
      <4>. QED
        BY <4>2
    <3>2. CASE j = item /\ c < FirstLeft
      <4>1. inFrame
        BY <1>1, <2>2, <3>2
      <4>. SUFFICES ASSUME NEW d \in Corrupt(j) PROVE c < d
        OBVIOUS
      <4>2. d \in DOMAIN items[j].blocks /\ items[j].blocks[d] = "corrupt"
        BY DEF Corrupt
      <4>3. d \in Nat /\ 1 <= d
        BY <1>1, <2>1, <4>2, ItemIs
      <4>4. items[item].blocks[d] = "corrupt"
        BY <3>2, <4>2
      <4>5. d \notin 1..(FirstLeft - 1)
        BY <1>1, <4>1, <4>4 DEF Block, Frame
      <4>. QED
        BY <1>1, <2>2, <3>2, <4>3, <4>5
    <3>. QED
      BY <2>1, <3>1, <3>2
  <2>5. InFront(j, c)
    BY <2>1, <2>3, <2>4 DEF InFront
  <2>. QED
    BY Zenon, <2>1, <2>5, PlaceIs
<1>3. \A n \in DOMAIN written : \E j, c :
          /\ written[n] = <<j, c>> /\ Passed(item, FirstLeft, j, c)
          /\ written[n] \in Range(written)
  BY Zenon, <1>1, WrittenIs
<1>4. Range(written) \subseteq AllInFront
  <2>. SUFFICES ASSUME NEW place \in Range(written) PROVE place \in AllInFront
    OBVIOUS
  <2>1. PICK n \in DOMAIN written : place = written[n]
    BY DEF Range
  <2>. QED
    BY Zenon, <1>2, <1>3, <2>1
<1>5. ASSUME NEW n \in DOMAIN written, NEW place \in AllInFront, Before(place, written[n])
      PROVE  place \in Range(written)
  <2>1. PICK j, c : written[n] = <<j, c>> /\ Passed(item, FirstLeft, j, c)
    BY Zenon, <1>3
  <2>2. PICK i \in DOMAIN items : \E b \in DOMAIN items[i].blocks :
            place = <<i, b>> /\ InFront(i, b)
    BY Zenon, PlaceIs
  <2>3. PICK b \in DOMAIN items[i].blocks : place = <<i, b>> /\ InFront(i, b)
    BY Zenon, <2>2
  <2>4. /\ i \in Nat /\ b \in Nat
        /\ items[i].kind \in {"independent", "linked"}
    BY <1>1, <2>3, ItemIs DEF InFront
  <2>5. j \in Nat /\ c \in Nat /\ (j < item \/ (j = item /\ c < FirstLeft))
    BY <1>1, <2>1, PassedIs DEF Passed
  <2>6. i < j \/ (i = j /\ b < c)
    BY <1>5, <2>1, <2>3 DEF Before
  <2>7. i < item \/ (i = item /\ b < FirstLeft)
    BY <1>1, <2>4, <2>5, <2>6
  <2>8. Passed(item, FirstLeft, i, b)
    BY <2>3, <2>4, <2>7 DEF Passed
  <2>9. <<i, b>> \in Range(written)
    BY Zenon, <1>1, <2>8 DEF WrittenUpTo
  <2>. QED
    BY Zenon, <2>3, <2>9
<1>6. \A m, n \in DOMAIN written : m < n => Before(written[m], written[n])
  BY <1>1 DEF WrittenUpTo
<1>. QED
  BY Zenon, <1>4, <1>5, <1>6 DEF InOrder

\* All has been written when all in front of the first fault has been passed.
LEMMA AllWritten ==
    ASSUME NEW i, NEW b, WrittenUpTo(i, b),
           \A j \in DOMAIN items : \A c \in DOMAIN items[j].blocks :
               InFront(j, c) => Passed(i, b, j, c)
    PROVE  AllInFront \subseteq Range(written)
<1>. SUFFICES ASSUME NEW place \in AllInFront PROVE place \in Range(written)
  OBVIOUS
<1>1. PICK j \in DOMAIN items : \E c \in DOMAIN items[j].blocks :
          place = <<j, c>> /\ InFront(j, c)
  BY Zenon, PlaceIs
<1>2. PICK c \in DOMAIN items[j].blocks : place = <<j, c>> /\ InFront(j, c)
  BY Zenon, <1>1
<1>. QED
  BY Zenon, <1>2 DEF WrittenUpTo

\* A call ends as it must when all in front of the first fault has been written,
\* or when the output is gone.
LEMMA EndInOrder ==
    ASSUME FrameInv, items' = items, written' = written, outcome' # "none",
           outcome' \in {"ok", "error"} => AllInFront \subseteq Range(written),
           outcome' = "ok" => \A i \in DOMAIN items : ~Faulty(i)
    PROVE  FramesInv'
<1>1. InOrder
  BY GoingInOrder
<1>2. AllInFront' = AllInFront /\ Range(written)' = Range(written)
  BY DEF AllInFront, InFront, Faulty, Corrupt
<1>3. \A i : Faulty(i)' <=> Faulty(i)
  BY DEF Faulty, Corrupt
<1>4. DOMAIN written' = DOMAIN written /\ DOMAIN items' = DOMAIN items
  OBVIOUS
<1>5. FramesInOrder'
  BY <1>1, <1>2, <1>3, <1>4 DEF FramesInOrder, InOrder
<1>. QED
  BY <1>5 DEF FramesInv

\* Nothing behind a fault is in front of the first one.
LEMMA NothingBehind ==
    ASSUME items \in Seq(Items), NEW i \in DOMAIN items, Faulty(i),
           NEW j \in DOMAIN items, NEW c, InFront(j, c)
    PROVE  j <= i
<1>1. \A k \in 1..(j - 1) : ~Faulty(k)
  BY DEF InFront
<1>2. i \in Nat /\ 1 <= i /\ j \in Nat
  BY ItemIs
<1>. QED
  BY <1>1, <1>2

\* All in front of an unknown frame is written before it is met, ...
LEMMA UnknownEnds ==
    ASSUME FrameInv, outcome = "none", ~inFrame, item \in DOMAIN items,
           Frame.kind = "unknown"
    PROVE  AllInFront \subseteq Range(written)
<1>1. items \in Seq(Items) /\ WrittenUpTo(item, FirstLeft) /\ item \in Nat
  BY DEF FrameInv
<1>2. Faulty(item)
  BY DEF Faulty, Frame
<1>3. ASSUME NEW j \in DOMAIN items, NEW c \in DOMAIN items[j].blocks, InFront(j, c)
      PROVE  Passed(item, FirstLeft, j, c)
  <2>1. j <= item
    BY Zenon, <1>1, <1>2, <1>3, NothingBehind
  <2>2. items[j].kind \in {"independent", "linked"}
    BY <1>3 DEF InFront
  <2>3. j # item
    BY <2>2 DEF Frame
  <2>4. j < item
    BY <1>1, <2>1, <2>3, ItemIs
  <2>. QED
    BY <2>2, <2>4 DEF Passed
<1>. QED
  BY Zenon, <1>1, <1>3, AllWritten

\* ... all in front of a damaged block, ...
LEMMA DamageEnds ==
    ASSUME FrameInv, inFrame, batch # <<>>, Block(Head(batch)) = "corrupt"
    PROVE  AllInFront \subseteq Range(written)
<1>1. /\ items \in Seq(Items) /\ WrittenUpTo(item, FirstLeft) /\ item \in DOMAIN items
      /\ Frame.kind \in {"independent", "linked"}
      /\ nextBlock \in 1..(Len(Frame.blocks) + 1)
      /\ batch \in Seq(Nat) /\ Len(batch) < nextBlock
      /\ \A k \in 1..Len(batch) : batch[k] = FirstLeft + k - 1
  BY DEF FrameInv, FrameAt
<1>2. /\ item \in Nat /\ Len(Frame.blocks) \in Nat
      /\ DOMAIN Frame.blocks = 1..Len(Frame.blocks)
  BY <1>1, ItemIs DEF Frame
<1>3. FirstLeft = nextBlock - Len(batch) /\ Len(batch) \in Nat \ {0}
  BY <1>1 DEF FirstLeft
<1>4. FirstLeft \in DOMAIN Frame.blocks /\ FirstLeft \in Nat
  BY <1>1, <1>2, <1>3
<1>5. Head(batch) = FirstLeft
  <2>1. Head(batch) = batch[1]
    BY <1>1
  <2>2. batch[1] = FirstLeft + 1 - 1
    BY <1>1, <1>3
  <2>. QED
    BY <1>4, <2>1, <2>2
<1>6. FirstLeft \in Corrupt(item)
  BY <1>4, <1>5 DEF Corrupt, Block, Frame
<1>7. Faulty(item)
  <2>1. Corrupt(item) # {}
    BY <1>6
  <2>. QED
    BY <1>1, <2>1 DEF Faulty, Frame
<1>8. ASSUME NEW j \in DOMAIN items, NEW c \in DOMAIN items[j].blocks, InFront(j, c)
      PROVE  Passed(item, FirstLeft, j, c)
  <2>1. j <= item
    BY Zenon, <1>1, <1>7, <1>8, NothingBehind
  <2>2. items[j].kind \in {"independent", "linked"} /\ \A d \in Corrupt(j) : c < d
    BY <1>8 DEF InFront
  <2>3. j = item => c < FirstLeft
    BY <1>6, <2>2
  <2>4. j \in Nat
    BY <1>1, ItemIs
  <2>5. j < item \/ (j = item /\ c < FirstLeft)
    BY <1>2, <2>1, <2>3, <2>4
  <2>. QED
    BY <2>2, <2>5 DEF Passed
<1>. QED
  BY Zenon, <1>1, <1>8, AllWritten

\* All of a frame is written before its end is looked at.
LEMMA FrameIsWritten ==
    ASSUME FrameInv, inFrame, ended, batch = <<>>
    PROVE  /\ items \in Seq(Items) /\ item \in DOMAIN items /\ item \in Nat
           /\ WrittenUpTo(item, FirstLeft) /\ FirstLeft \in Nat
           /\ FirstLeft = Len(Frame.blocks) + 1
           /\ DOMAIN Frame.blocks = 1..Len(Frame.blocks) /\ Len(Frame.blocks) \in Nat
           /\ Corrupt(item) = {}
           /\ parseError = ~Frame.marked /\ Frame.marked \in BOOLEAN
           /\ Frame.kind \in {"independent", "linked"}
<1>1. /\ items \in Seq(Items) /\ WrittenUpTo(item, FirstLeft) /\ item \in DOMAIN items
      /\ Frame.kind \in {"independent", "linked"}
      /\ \A c \in 1..(FirstLeft - 1) : Block(c) # "corrupt"
      /\ nextBlock = Len(Frame.blocks) + 1 /\ parseError = ~Frame.marked
  BY DEF FrameInv, FrameAt
<1>2. /\ item \in Nat /\ Len(Frame.blocks) \in Nat
      /\ DOMAIN Frame.blocks = 1..Len(Frame.blocks) /\ Frame.marked \in BOOLEAN
  BY <1>1, ItemIs DEF Frame
<1>3. FirstLeft = Len(Frame.blocks) + 1 /\ FirstLeft \in Nat
  BY <1>1, <1>2 DEF FirstLeft
<1>4. Corrupt(item) = {}
  <2>1. \A c \in DOMAIN Frame.blocks : Block(c) # "corrupt"
    BY <1>1, <1>2, <1>3
  <2>. QED
    BY <2>1 DEF Corrupt, Block, Frame
<1>. QED
  BY <1>1, <1>2, <1>3, <1>4

\* ... all of a frame that is cut or does not agree, ...
LEMMA FrameEnds ==
    ASSUME FrameInv, inFrame, ended, batch = <<>>, parseError \/ ~Frame.agrees
    PROVE  AllInFront \subseteq Range(written)
<1>1. /\ items \in Seq(Items) /\ item \in DOMAIN items /\ item \in Nat
      /\ WrittenUpTo(item, FirstLeft) /\ FirstLeft \in Nat
      /\ FirstLeft = Len(Frame.blocks) + 1
      /\ DOMAIN Frame.blocks = 1..Len(Frame.blocks) /\ Len(Frame.blocks) \in Nat
      /\ parseError = ~Frame.marked
      /\ Frame.kind \in {"independent", "linked"}
  BY FrameIsWritten
<1>2. Faulty(item)
  BY <1>1 DEF Faulty, Frame
<1>3. ASSUME NEW j \in DOMAIN items, NEW c \in DOMAIN items[j].blocks, InFront(j, c)
      PROVE  Passed(item, FirstLeft, j, c)
  <2>1. j <= item
    BY Zenon, <1>1, <1>2, <1>3, NothingBehind
  <2>2. items[j].kind \in {"independent", "linked"}
    BY <1>3 DEF InFront
  <2>3. j = item => c < FirstLeft
    BY <1>1 DEF Frame
  <2>4. j \in Nat
    BY <1>1, ItemIs
  <2>5. j < item \/ (j = item /\ c < FirstLeft)
    BY <1>1, <2>1, <2>3, <2>4
  <2>. QED
    BY <2>2, <2>5 DEF Passed
<1>. QED
  BY Zenon, <1>1, <1>3, AllWritten

\* ... and all of the input before its end.
LEMMA InputEnds ==
    ASSUME FrameInv, ~inFrame, item > Len(items)
    PROVE  AllInFront \subseteq Range(written) /\ \A i \in DOMAIN items : ~Faulty(i)
<1>1. /\ items \in Seq(Items) /\ item \in Nat /\ item = Len(items) + 1 /\ Len(items) \in Nat
      /\ DOMAIN items = 1..Len(items)
      /\ WrittenUpTo(item, FirstLeft) /\ \A j \in 1..(item - 1) : ~Faulty(j)
  BY DEF FrameInv
<1>2. ASSUME NEW j \in DOMAIN items, NEW c \in DOMAIN items[j].blocks, InFront(j, c)
      PROVE  Passed(item, FirstLeft, j, c)
  BY <1>1, <1>2 DEF InFront, Passed
<1>3. AllInFront \subseteq Range(written)
  BY Zenon, <1>1, <1>2, AllWritten
<1>. QED
  BY <1>1, <1>3

\* A step that writes nothing and passes nothing more.
LEMMA PassedTheSame ==
    ASSUME WrittenUpTo(item, FirstLeft), items' = items, written' = written,
           \A j, c : Passed(item', FirstLeft', j, c) <=> Passed(item, FirstLeft, j, c)
    PROVE  WrittenUpTo(item, FirstLeft)'
<1>1. \A j, c : Passed(item, FirstLeft, j, c)' <=> Passed(item', FirstLeft', j, c)
  BY DEF Passed
<1>2. Range(written)' = Range(written) /\ DOMAIN written' = DOMAIN written
  OBVIOUS
<1>3. \A j, c : <<j, c>> \in Range(written)' <=> Passed(item, FirstLeft, j, c)'
  BY Zenon, <1>1, <1>2 DEF WrittenUpTo
<1>4. /\ written' \in Seq(Nat \X Nat)
      /\ \A m, n \in DOMAIN written' : m < n => Before(written'[m], written'[n])
  BY DEF WrittenUpTo
<1>. QED
  BY <1>3, <1>4 DEF WrittenUpTo, Before

\* Faults are faults of the input, which stays.
LEMMA ItemsBefore ==
    ASSUME items' = items
    PROVE  \A j : Faulty(j)' <=> Faulty(j)
BY DEF Faulty, Corrupt

\* The next item begins.
LEMMA BeginItemKeeps ==
    ASSUME FrameInv, outcome = "none", BeginItem
    PROVE  FramesInv'
<1>1. /\ ~inFrame /\ item <= Len(items) /\ nextBlock' = 1 /\ ended' = FALSE
      /\ item' = IF Frame.kind = "skip" THEN item + 1 ELSE item
      /\ inFrame' = (Frame.kind \in {"independent", "linked"})
      /\ outcome' = IF Frame.kind = "unknown" THEN "error" ELSE "none"
      /\ items' = items /\ batch' = batch /\ written' = written
  BY DEF BeginItem
<1>2. /\ items \in Seq(Items) /\ item \in Nat /\ item \in 1..Len(items) /\ Len(items) \in Nat
      /\ item \in DOMAIN items /\ DOMAIN items = 1..Len(items)
      /\ \A j \in 1..(item - 1) : ~Faulty(j)
      /\ batch = <<>> /\ WrittenUpTo(item, FirstLeft)
  BY <1>1 DEF FrameInv
<1>3. FirstLeft = 1
  BY <1>1 DEF FirstLeft
<1>4. \A j : Faulty(j)' <=> Faulty(j)
  BY <1>1, ItemsBefore
<1>5. CASE Frame.kind = "unknown"
  <2>1. AllInFront \subseteq Range(written)
    BY <1>1, <1>2, <1>5, UnknownEnds DEF BeginItem
  <2>2. outcome' = "error"
    BY <1>1, <1>5
  <2>. QED
    BY <1>1, <2>1, <2>2, EndInOrder
<1>6. CASE Frame.kind = "skip"
  <2>1. item' = item + 1 /\ ~inFrame' /\ outcome' = "none"
    BY <1>1, <1>6
  <2>2. FirstLeft' = 1
    BY <2>1 DEF FirstLeft
  <2>3. ASSUME NEW j, NEW c
        PROVE  Passed(item', FirstLeft', j, c) <=> Passed(item, FirstLeft, j, c)
    <3>1. j \in DOMAIN items /\ items[j].kind \in {"independent", "linked"} => j # item
      BY <1>6 DEF Frame
    <3>2. c \in DOMAIN items[j].blocks /\ j \in DOMAIN items => j \in Nat /\ c \in Nat /\ 1 <= c
      BY <1>2, ItemIs
    <3>. QED
      BY <1>2, <1>3, <2>1, <2>2, <3>1, <3>2 DEF Passed
  <2>4. WrittenUpTo(item, FirstLeft)'
    BY <1>1, <1>2, <2>3, PassedTheSame
  <2>5. ~Faulty(item)
    BY <1>6 DEF Faulty, Frame
  <2>6. \A j \in 1..(item' - 1) : ~Faulty(j)'
    BY <1>2, <1>4, <2>1, <2>5
  <2>7. items' \in Seq(Items) /\ item' \in 1..(Len(items') + 1)
    BY <1>1, <1>2, <2>1
  <2>8. FrameInv'
    BY <1>1, <1>2, <2>1, <2>4, <2>6, <2>7 DEF FrameInv
  <2>. QED
    BY <2>1, <2>8 DEF FramesInv
<1>7. CASE Frame.kind \in {"independent", "linked"}
  <2>1. item' = item /\ inFrame' /\ outcome' = "none"
    BY <1>1, <1>7
  <2>2. FirstLeft' = 1
    BY <1>1, <1>2, <2>1 DEF FirstLeft
  <2>3. WrittenUpTo(item, FirstLeft)'
    BY <1>1, <1>2, <1>3, <2>1, <2>2, PassedTheSame
  <2>4. Frame' = Frame
    BY <1>1, <2>1 DEF Frame
  <2>5. Len(Frame.blocks) \in Nat
    BY <1>2, ItemIs DEF Frame
  <2>6. FrameAt'
    BY <1>1, <1>2, <1>7, <2>1, <2>2, <2>4, <2>5 DEF FrameAt
  <2>7. FrameInv'
    BY <1>1, <1>2, <1>4, <2>1, <2>3, <2>6 DEF FrameInv
  <2>. QED
    BY <2>1, <2>7 DEF FramesInv
<1>8. Frame.kind \in {"skip", "unknown", "independent", "linked"}
  <2>1. items[item] \in Items
    BY <1>2
  <2>. QED
    BY <2>1 DEF Items, Frame
<1>. QED
  BY <1>5, <1>6, <1>7, <1>8
------------------------------------------------------------------------------
\* What is gathered is the next part of the frame, and all that is left if it
\* is the last.
LEMMA ParsedIs ==
    ASSUME FrameInv, inFrame, batch = <<>>
    PROVE  /\ Parsed \in Seq(Nat) /\ Len(Parsed) \in 0..(Len(Frame.blocks) + 1 - nextBlock)
           /\ \A k \in 1..Len(Parsed) : Parsed[k] = nextBlock + k - 1
           /\ ParsedLast => Len(Parsed) = Len(Frame.blocks) + 1 - nextBlock
<1> DEFINE N == Len(Frame.blocks)
           numbers == [b \in DOMAIN Frame.blocks |-> b]
           left == N + 1 - nextBlock
           stops == {n \in 0..Len(Unparsed) :
                        n = Len(Unparsed) \/ Stops(SubSeq(Unparsed, 1, n))}
           count == CHOOSE n \in stops : \A m \in stops : n <= m
<1>1. FrameAt /\ items \in Seq(Items)
  BY DEF FrameInv
<1>2. /\ item \in DOMAIN items /\ nextBlock \in 1..(N + 1)
  BY <1>1 DEF FrameAt
<1>3. N \in Nat /\ DOMAIN Frame.blocks = 1..N
  BY <1>1, <1>2, ItemIs DEF Frame
<1> HIDE DEF N
<1>4. numbers = [b \in 1..N |-> b]
  BY <1>3
<1>5. numbers \in Seq(Nat) /\ Len(numbers) = N /\ \A b \in 1..N : numbers[b] = b
  BY <1>3, <1>4
<1>6. left \in Nat /\ nextBlock \in Nat /\ nextBlock - 1 \in Nat /\ (nextBlock - 1) + left = N
      /\ (nextBlock - 1) + 1 = nextBlock
  BY <1>2, <1>3
<1> HIDE DEF numbers, left
<1>7. /\ Unparsed \in Seq(Nat) /\ Len(Unparsed) = left
      /\ \A k \in 1..left : Unparsed[k] = nextBlock + k - 1
  <2> DEFINE f == nextBlock - 1
  <2>1. f \in Nat /\ f + left <= Len(numbers) /\ f + left = N /\ f + 1 = nextBlock
    BY <1>3, <1>5, <1>6
  <2> DEFINE T == Nat
  <2>5. numbers \in Seq(T) /\ left \in Nat
    BY <1>5, <1>6
  <2> HIDE DEF f, T
  <2>2. /\ SubSeq(numbers, f + 1, f + left) \in Seq(T)
        /\ Len(SubSeq(numbers, f + 1, f + left)) = left
        /\ \A k \in 1..left : SubSeq(numbers, f + 1, f + left)[k] = numbers[k + f]
    BY <2>1, <2>5, SubSeqIs
  <2>3. Unparsed = SubSeq(numbers, f + 1, f + left)
    BY Zenon, <2>1 DEF Unparsed, N, numbers
  <2>4. \A k \in 1..left : numbers[k + f] = nextBlock + k - 1
    <3>. SUFFICES ASSUME NEW k \in 1..left PROVE numbers[k + f] = nextBlock + k - 1
      OBVIOUS
    <3>1. k + f \in 1..N /\ k + f = nextBlock + k - 1
      BY <1>6, <2>1 DEF f
    <3>. QED
      BY <1>5, <3>1
  <2>. QED
    BY <2>2, <2>3, <2>4 DEF T
<1>8. stops \subseteq Nat /\ Len(Unparsed) \in stops
  BY <1>6, <1>7
<1>9. \E a \in stops : \A b \in stops : a <= b
  <2> HIDE DEF stops
  <2>1. stops # {}
    BY <1>8
  <2>. QED
    BY Zenon, <1>8, <2>1, LeastNat
<1>10. count \in stops
  <2> HIDE DEF stops
  <2>. QED
    BY Zenon, <1>9
<1>11. count \in 0..left
  BY <1>7, <1>10
<1>12. Parsed = SubSeq(Unparsed, 1, count)
  BY Zenon DEF Parsed
<1> HIDE DEF count
<1>13. /\ Parsed \in Seq(Nat) /\ Len(Parsed) = count
       /\ \A k \in 1..count : Parsed[k] = Unparsed[k]
  <2> DEFINE z == 0
  <2>1. z \in Nat /\ z + count <= Len(Unparsed) /\ z + count = count /\ z + 1 = 1
        /\ count \in Nat /\ \A k \in 1..count : k + z = k
    BY <1>6, <1>7, <1>11
  <2> DEFINE T == Nat
  <2>5. Unparsed \in Seq(T)
    BY <1>7
  <2> HIDE DEF z, T
  <2>2. /\ SubSeq(Unparsed, z + 1, z + count) \in Seq(T)
        /\ Len(SubSeq(Unparsed, z + 1, z + count)) = count
        /\ \A k \in 1..count : SubSeq(Unparsed, z + 1, z + count)[k] = Unparsed[k + z]
    BY <2>1, <2>5, SubSeqIs
  <2>3. Parsed = SubSeq(Unparsed, z + 1, z + count)
    BY Zenon, <1>12, <2>1
  <2>. QED
    BY <2>1, <2>2, <2>3 DEF T
<1>14. ParsedLast => Len(Parsed) = left
  BY <1>7 DEF ParsedLast
<1>15. \A k \in 1..count : k \in 1..left
  BY <1>6, <1>11
<1>16. \A k \in 1..Len(Parsed) : Parsed[k] = nextBlock + k - 1
  BY <1>7, <1>13, <1>15
<1>. QED
  BY <1>11, <1>13, <1>14, <1>16 DEF left, N

\* The numbers of the invariant for a frame.
LEMMA FrameNumbers ==
    ASSUME FrameInv, inFrame
    PROVE  /\ FrameAt /\ items \in Seq(Items) /\ item \in DOMAIN items /\ item \in Nat
           /\ Len(items) \in Nat /\ item \in 1..(Len(items) + 1)
           /\ Len(Frame.blocks) \in Nat /\ DOMAIN Frame.blocks = 1..Len(Frame.blocks)
           /\ nextBlock \in Nat /\ Len(batch) \in Nat /\ FirstLeft \in Nat
           /\ FirstLeft = nextBlock - Len(batch) /\ 1 <= FirstLeft
           /\ nextBlock <= Len(Frame.blocks) + 1
           /\ batch \in Seq(Nat) /\ WrittenUpTo(item, FirstLeft)
           /\ \A k \in 1..Len(batch) : batch[k] = FirstLeft + k - 1
           /\ \A c \in 1..(FirstLeft - 1) : Block(c) # "corrupt"
           /\ Frame.kind \in {"independent", "linked"}
           /\ \A j \in 1..(item - 1) : ~Faulty(j)
           /\ ended => nextBlock = Len(Frame.blocks) + 1 /\ parseError = ~Frame.marked
<1>1. /\ FrameAt /\ items \in Seq(Items) /\ WrittenUpTo(item, FirstLeft)
      /\ item \in 1..(Len(items) + 1) /\ \A j \in 1..(item - 1) : ~Faulty(j)
  BY DEF FrameInv
<1>2. /\ item \in DOMAIN items /\ nextBlock \in 1..(Len(Frame.blocks) + 1)
      /\ batch \in Seq(Nat) /\ Len(batch) < nextBlock
      /\ \A k \in 1..Len(batch) : batch[k] = FirstLeft + k - 1
      /\ \A c \in 1..(FirstLeft - 1) : Block(c) # "corrupt"
      /\ Frame.kind \in {"independent", "linked"}
      /\ ended => nextBlock = Len(Frame.blocks) + 1 /\ parseError = ~Frame.marked
  BY <1>1 DEF FrameAt
<1>3. /\ item \in Nat /\ Len(Frame.blocks) \in Nat
      /\ DOMAIN Frame.blocks = 1..Len(Frame.blocks) /\ Len(items) \in Nat
  BY <1>1, <1>2, ItemIs DEF Frame
<1>4. FirstLeft = nextBlock - Len(batch) /\ Len(batch) \in Nat
  BY <1>2 DEF FirstLeft
<1>5. nextBlock \in Nat /\ FirstLeft \in Nat /\ 1 <= FirstLeft
      /\ nextBlock <= Len(Frame.blocks) + 1
  BY <1>2, <1>3, <1>4
<1>. QED
  BY <1>1, <1>2, <1>3, <1>4, <1>5

\* The next part of the frame is parsed.
LEMMA GatherBlocksKeeps ==
    ASSUME FrameInv, outcome = "none", GatherBlocks
    PROVE  FramesInv'
<1>1. /\ inFrame /\ batch = <<>> /\ batch' = Parsed /\ nextBlock' = nextBlock + Len(Parsed)
      /\ ended' = ParsedLast /\ parseError' = (ParsedLast /\ ~Frame.marked)
      /\ items' = items /\ item' = item /\ inFrame' = inFrame /\ written' = written
      /\ outcome' = "none"
  BY DEF GatherBlocks
<1>2. /\ Parsed \in Seq(Nat) /\ Len(Parsed) \in 0..(Len(Frame.blocks) + 1 - nextBlock)
      /\ \A k \in 1..Len(Parsed) : Parsed[k] = nextBlock + k - 1
      /\ ParsedLast => Len(Parsed) = Len(Frame.blocks) + 1 - nextBlock
  BY <1>1, ParsedIs
<1>3. /\ items \in Seq(Items) /\ item \in DOMAIN items /\ item \in 1..(Len(items) + 1)
      /\ Len(Frame.blocks) \in Nat /\ nextBlock \in Nat /\ FirstLeft \in Nat
      /\ FirstLeft = nextBlock - Len(batch) /\ 1 <= FirstLeft
      /\ WrittenUpTo(item, FirstLeft)
      /\ \A c \in 1..(FirstLeft - 1) : Block(c) # "corrupt"
      /\ Frame.kind \in {"independent", "linked"}
      /\ \A j \in 1..(item - 1) : ~Faulty(j)
  BY <1>1, FrameNumbers
<1>4. FirstLeft = nextBlock
  BY <1>1, <1>3
<1>5. FirstLeft' = nextBlock
  <2>1. FirstLeft' = (nextBlock + Len(Parsed)) - Len(Parsed)
    BY <1>1 DEF FirstLeft
  <2>. QED
    BY <1>2, <1>3, <2>1
<1>6. Frame' = Frame
  BY <1>1 DEF Frame
<1>7. WrittenUpTo(item, FirstLeft)'
  BY <1>1, <1>3, <1>4, <1>5, PassedTheSame
<1>8. FrameAt'
  <2>1. nextBlock' \in 1..(Len(Frame.blocks) + 1) /\ Len(Parsed) < nextBlock'
    BY <1>1, <1>2, <1>3
  <2>2. \A k \in 1..Len(batch') : batch'[k] = FirstLeft' + k - 1
    BY <1>1, <1>2, <1>5
  <2>3. \A c \in 1..(FirstLeft' - 1) : Block(c)' # "corrupt"
    BY <1>3, <1>4, <1>5, <1>6 DEF Block
  <2>4. ended' => nextBlock' = Len(Frame.blocks) + 1 /\ parseError' = ~Frame.marked
    BY <1>1, <1>2, <1>3
  <2>. QED
    BY <1>1, <1>2, <1>3, <1>6, <2>1, <2>2, <2>3, <2>4 DEF FrameAt
<1>9. \A j : Faulty(j)' <=> Faulty(j)
  BY <1>1, ItemsBefore
<1>10. FrameInv'
  BY <1>1, <1>3, <1>7, <1>8, <1>9 DEF FrameInv
<1>. QED
  BY <1>1, <1>10 DEF FramesInv

\* The first block of a batch.
LEMMA FirstOfBatch ==
    ASSUME FrameInv, inFrame, batch # <<>>
    PROVE  /\ Head(batch) = FirstLeft /\ FirstLeft \in DOMAIN Frame.blocks
           /\ Tail(batch) \in Seq(Nat) /\ Len(Tail(batch)) = Len(batch) - 1
           /\ \A k \in 1..Len(Tail(batch)) : Tail(batch)[k] = (FirstLeft + 1) + k - 1
<1>1. /\ batch \in Seq(Nat) /\ Len(batch) \in Nat /\ FirstLeft \in Nat /\ nextBlock \in Nat
      /\ FirstLeft = nextBlock - Len(batch) /\ 1 <= FirstLeft
      /\ nextBlock <= Len(Frame.blocks) + 1 /\ Len(Frame.blocks) \in Nat
      /\ DOMAIN Frame.blocks = 1..Len(Frame.blocks)
      /\ \A k \in 1..Len(batch) : batch[k] = FirstLeft + k - 1
  BY FrameNumbers
<1>2. Len(batch) >= 1
  BY <1>1
<1>3. FirstLeft \in DOMAIN Frame.blocks
  BY <1>1, <1>2
<1>4. Head(batch) = FirstLeft
  <2>1. batch[1] = FirstLeft + 1 - 1
    BY <1>1, <1>2
  <2>2. Head(batch) = batch[1]
    BY <1>1
  <2>. QED
    BY <1>1, <2>1, <2>2
<1>5. /\ Tail(batch) \in Seq(Nat) /\ Len(Tail(batch)) = Len(batch) - 1
      /\ \A k \in 1..Len(Tail(batch)) : Tail(batch)[k] = batch[k + 1]
  BY <1>1, <1>2
<1>6. \A k \in 1..Len(Tail(batch)) : Tail(batch)[k] = (FirstLeft + 1) + k - 1
  <2>. SUFFICES ASSUME NEW k \in 1..Len(Tail(batch))
                PROVE  Tail(batch)[k] = (FirstLeft + 1) + k - 1
    OBVIOUS
  <2>1. k + 1 \in 1..Len(batch)
    BY <1>1, <1>2, <1>5
  <2>2. Tail(batch)[k] = FirstLeft + (k + 1) - 1
    BY <1>1, <1>5, <2>1
  <2>. QED
    BY <1>1, <2>2
<1>. QED
  BY <1>3, <1>4, <1>5, <1>6

\* One block more is written.
LEMMA WritesNext ==
    ASSUME items \in Seq(Items), item \in Nat, FirstLeft \in Nat, item \in DOMAIN items,
           Frame.kind \in {"independent", "linked"}, FirstLeft \in DOMAIN Frame.blocks,
           WrittenUpTo(item, FirstLeft), items' = items, item' = item,
           written' = Append(written, <<item, FirstLeft>>), FirstLeft' = FirstLeft + 1
    PROVE  WrittenUpTo(item, FirstLeft)'
<1> DEFINE L == Len(written)
           place == <<item, FirstLeft>>
<1>1. /\ written \in Seq(Nat \X Nat) /\ place \in Nat \X Nat
      /\ \A m, n \in DOMAIN written : m < n => Before(written[m], written[n])
  BY DEF WrittenUpTo
<1>2. /\ L \in Nat /\ DOMAIN written = 1..L /\ Len(written') = L + 1
      /\ written' \in Seq(Nat \X Nat) /\ DOMAIN written' = 1..(L + 1)
      /\ \A n \in 1..L : written'[n] = written[n]
      /\ written'[L + 1] = place
  BY <1>1
<1>3. \A n \in 1..L : Before(written[n], place)
  <2>. SUFFICES ASSUME NEW n \in 1..L PROVE Before(written[n], place)
    OBVIOUS
  <2>1. PICK j, c : written[n] = <<j, c>> /\ Passed(item, FirstLeft, j, c)
    BY <1>2, WrittenIs
  <2>2. Before(<<j, c>>, <<item, FirstLeft>>)
    BY <2>1, PassedIs
  <2>. QED
    BY <2>1, <2>2
<1> HIDE DEF place
<1>4. ASSUME NEW m \in DOMAIN written', NEW n \in DOMAIN written', m < n
      PROVE  Before(written'[m], written'[n])
  <2>1. m \in 1..L /\ (n \in 1..L \/ n = L + 1)
    BY <1>2, <1>4
  <2>2. CASE n \in 1..L
    BY <1>1, <1>2, <1>4, <2>1, <2>2
  <2>3. CASE n = L + 1
    BY <1>2, <1>3, <2>1, <2>3
  <2>. QED
    BY <2>1, <2>2, <2>3
<1>5. ASSUME NEW x
      PROVE  x \in Range(written') <=> x \in Range(written) \/ x = place
  <2>1. x \in Range(written') <=> \E n \in 1..(L + 1) : written'[n] = x
    BY <1>2 DEF Range
  <2>2. x \in Range(written) <=> \E n \in 1..L : written[n] = x
    BY <1>2 DEF Range
  <2>3. \A n \in 1..(L + 1) : n \in 1..L \/ n = L + 1
    BY <1>2
  <2>4. L + 1 \in 1..(L + 1) /\ \A n \in 1..L : n \in 1..(L + 1)
    BY <1>2
  <2>5. (\E n \in 1..(L + 1) : written'[n] = x) <=> (\E n \in 1..L : written[n] = x) \/ x = place
    BY <1>2, <2>3, <2>4
  <2>. QED
    BY Zenon, <2>1, <2>2, <2>5
<1>6. ASSUME NEW j, NEW c
      PROVE  <<j, c>> \in Range(written') <=> Passed(item, FirstLeft + 1, j, c)
  <2>1. <<j, c>> \in Range(written) <=> Passed(item, FirstLeft, j, c)
    BY DEF WrittenUpTo
  <2>2. <<j, c>> = place <=> j = item /\ c = FirstLeft
    BY DEF place
  <2>3. c \in DOMAIN items[j].blocks /\ j \in DOMAIN items => c \in Nat /\ j \in Nat
    BY ItemIs
  <2>4. Passed(item, FirstLeft + 1, j, c) <=>
           Passed(item, FirstLeft, j, c) \/ (j = item /\ c = FirstLeft)
    BY <2>3 DEF Passed, Frame
  <2>. QED
    BY <1>5, <2>1, <2>2, <2>4
<1>7. \A j, c : <<j, c>> \in Range(written') <=> Passed(item, FirstLeft, j, c)'
  <2>1. \A j, c : Passed(item, FirstLeft, j, c)' <=> Passed(item, FirstLeft + 1, j, c)
    BY DEF Passed
  <2>. QED
    BY Zenon, <1>6, <2>1
<1>. QED
  BY <1>2, <1>4, <1>7 DEF WrittenUpTo, Before

\* A batch is never at hand between two frames.
LEMMA BatchInFrame ==
    ASSUME FrameInv, batch # <<>>
    PROVE  inFrame
BY DEF FrameInv

\* The first block of a batch is written.
LEMMA CommitFirstKeeps ==
    ASSUME FrameInv, outcome = "none", CommitFirst
    PROVE  FramesInv'
<1>1. /\ inFrame /\ batch # <<>> /\ Block(Head(batch)) # "corrupt"
      /\ written' = Append(written, <<item, Head(batch)>>) /\ batch' = Tail(batch)
      /\ items' = items /\ item' = item /\ inFrame' = inFrame /\ nextBlock' = nextBlock
      /\ parseError' = parseError /\ ended' = ended /\ outcome' = "none"
  BY BatchInFrame DEF CommitFirst
<1>2. /\ FrameAt /\ items \in Seq(Items) /\ item \in DOMAIN items /\ item \in Nat
      /\ item \in 1..(Len(items) + 1)
      /\ nextBlock \in Nat /\ Len(batch) \in Nat /\ FirstLeft \in Nat
      /\ FirstLeft = nextBlock - Len(batch) /\ 1 <= FirstLeft
      /\ nextBlock <= Len(Frame.blocks) + 1 /\ Len(Frame.blocks) \in Nat
      /\ WrittenUpTo(item, FirstLeft)
      /\ \A c \in 1..(FirstLeft - 1) : Block(c) # "corrupt"
      /\ Frame.kind \in {"independent", "linked"}
      /\ \A j \in 1..(item - 1) : ~Faulty(j)
      /\ ended => nextBlock = Len(Frame.blocks) + 1 /\ parseError = ~Frame.marked
  BY <1>1, FrameNumbers
<1>3. /\ Head(batch) = FirstLeft /\ FirstLeft \in DOMAIN Frame.blocks
      /\ Tail(batch) \in Seq(Nat) /\ Len(Tail(batch)) = Len(batch) - 1
      /\ \A k \in 1..Len(Tail(batch)) : Tail(batch)[k] = (FirstLeft + 1) + k - 1
  BY <1>1, FirstOfBatch
<1>4. FirstLeft' = FirstLeft + 1
  <2>1. FirstLeft' = nextBlock - Len(Tail(batch))
    BY <1>1 DEF FirstLeft
  <2>. QED
    BY <1>2, <1>3, <2>1
<1>5. written' = Append(written, <<item, FirstLeft>>)
  BY <1>1, <1>3
<1>6. WrittenUpTo(item, FirstLeft)'
  BY <1>1, <1>2, <1>3, <1>4, <1>5, WritesNext
<1>7. Frame' = Frame
  BY <1>1 DEF Frame
<1>8. FrameAt'
  <2>1. nextBlock' \in 1..(Len(Frame.blocks) + 1) /\ Len(batch') < nextBlock'
    BY <1>1, <1>2, <1>3
  <2>2. \A k \in 1..Len(batch') : batch'[k] = FirstLeft' + k - 1
    BY <1>1, <1>3, <1>4
  <2>3. \A c \in 1..(FirstLeft' - 1) : Block(c)' # "corrupt"
    <3>1. \A c : Block(c)' = Block(c)
      BY <1>7 DEF Block
    <3>2. Block(FirstLeft) # "corrupt"
      BY <1>1, <1>3
    <3>3. FirstLeft' - 1 = FirstLeft /\ FirstLeft \in Nat
      BY <1>2, <1>4
    <3>4. \A c \in 1..FirstLeft : c \in 1..(FirstLeft - 1) \/ c = FirstLeft
      BY <3>3
    <3>5. \A c \in 1..FirstLeft : Block(c)' # "corrupt"
      BY <1>2, <3>1, <3>2, <3>4
    <3>. QED
      BY <3>3, <3>5
  <2>. QED
    BY <1>1, <1>2, <1>3, <1>7, <2>1, <2>2, <2>3 DEF FrameAt
<1>9. \A j : Faulty(j)' <=> Faulty(j)
  BY <1>1, ItemsBefore
<1>10. FrameInv'
  BY <1>1, <1>2, <1>6, <1>8, <1>9 DEF FrameInv
<1>. QED
  BY <1>1, <1>10 DEF FramesInv

\* The end of a frame, right or not.
LEMMA EndFrameKeeps ==
    ASSUME FrameInv, outcome = "none", EndFrame
    PROVE  FramesInv'
<1>1. /\ inFrame /\ ended /\ batch = <<>> /\ ~inFrame' /\ item' = item + 1
      /\ outcome' = IF parseError \/ ~Frame.agrees THEN "error" ELSE "none"
      /\ items' = items /\ batch' = batch /\ written' = written
  BY DEF EndFrame
<1>2. CASE parseError \/ ~Frame.agrees
  <2>1. AllInFront \subseteq Range(written) /\ outcome' = "error"
    BY <1>1, <1>2, FrameEnds
  <2>. QED
    BY <1>1, <2>1, EndInOrder
<1>3. CASE ~(parseError \/ ~Frame.agrees)
  <2>1. /\ items \in Seq(Items) /\ item \in DOMAIN items /\ item \in Nat
        /\ WrittenUpTo(item, FirstLeft) /\ FirstLeft \in Nat
        /\ FirstLeft = Len(Frame.blocks) + 1
        /\ DOMAIN Frame.blocks = 1..Len(Frame.blocks) /\ Len(Frame.blocks) \in Nat
        /\ Corrupt(item) = {} /\ parseError = ~Frame.marked /\ Frame.marked \in BOOLEAN
        /\ Frame.kind \in {"independent", "linked"}
    BY <1>1, FrameIsWritten
  <2>2. FirstLeft' = 1 /\ outcome' = "none"
    BY <1>1, <1>3 DEF FirstLeft
  <2>3. ~Faulty(item)
    BY <1>3, <2>1 DEF Faulty, Frame
  <2>4. ASSUME NEW j, NEW c
        PROVE  Passed(item', FirstLeft', j, c) <=> Passed(item, FirstLeft, j, c)
    <3>1. CASE j \in DOMAIN items /\ c \in DOMAIN items[j].blocks
      <4>1. j \in Nat /\ c \in Nat /\ 1 <= c
        BY <2>1, <3>1, ItemIs
      <4>2. j = item => c < FirstLeft
        BY <2>1, <3>1, <4>1 DEF Frame
      <4>3. (j < item + 1 \/ (j = item + 1 /\ c < 1)) <=> (j < item \/ (j = item /\ c < FirstLeft))
        BY <2>1, <4>1, <4>2
      <4>. QED
        BY <1>1, <2>2, <4>3 DEF Passed
    <3>2. CASE ~(j \in DOMAIN items /\ c \in DOMAIN items[j].blocks)
      BY <3>2 DEF Passed
    <3>. QED
      BY <3>1, <3>2
  <2>5. WrittenUpTo(item, FirstLeft)'
    BY <1>1, <2>1, <2>4, PassedTheSame
  <2>6. \A j : Faulty(j)' <=> Faulty(j)
    BY <1>1, ItemsBefore
  <2>7. \A j \in 1..(item - 1) : ~Faulty(j)
    BY DEF FrameInv
  <2>8. \A j \in 1..(item' - 1) : ~Faulty(j)'
    <3>1. \A j \in 1..(item' - 1) : j \in 1..(item - 1) \/ j = item
      BY <1>1, <2>1
    <3>. QED
      BY <2>3, <2>6, <2>7, <3>1
  <2>9. items' \in Seq(Items) /\ item' \in 1..(Len(items') + 1)
    BY <1>1, <2>1
  <2>10. FrameInv'
    BY <1>1, <2>5, <2>8, <2>9 DEF FrameInv
  <2>. QED
    BY <2>2, <2>10 DEF FramesInv
<1>. QED
  BY <1>2, <1>3

\* The first item is still to come.
LEMMA FramesStart ==
    ASSUME FramesInit
    PROVE  FramesInv
<1>1. /\ items \in Seq(Items) /\ item = 1 /\ ~inFrame /\ batch = <<>> /\ written = <<>>
      /\ outcome = "none" /\ Len(items) \in Nat
  <2>1. items \in FrameInputs /\ item = 1 /\ ~inFrame /\ batch = <<>> /\ written = <<>>
        /\ outcome = "none"
    BY DEF FramesInit
  <2>2. items \in Seq(Items)
    BY <2>1, FramesAssumption
  <2>. QED
    BY <2>1, <2>2
<1>2. FirstLeft = 1
  BY <1>1 DEF FirstLeft
<1>3. WrittenUpTo(item, FirstLeft)
  <2>1. \A j, c : ~Passed(1, 1, j, c)
    <3>. SUFFICES ASSUME NEW j, NEW c, Passed(1, 1, j, c) PROVE FALSE
      OBVIOUS
    <3>1. j \in DOMAIN items /\ c \in DOMAIN items[j].blocks /\ (j < 1 \/ (j = 1 /\ c < 1))
      BY DEF Passed
    <3>2. j \in Nat /\ 1 <= j /\ c \in Nat /\ 1 <= c
      BY <1>1, <3>1, ItemIs
    <3>. QED
      BY <3>1, <3>2
  <2>2. DOMAIN written = {} /\ Range(written) = {} /\ written \in Seq(Nat \X Nat)
    BY <1>1 DEF Range
  <2>. QED
    BY <1>1, <1>2, <2>1, <2>2 DEF WrittenUpTo
<1>4. FrameInv
  BY <1>1, <1>3 DEF FrameInv
<1>. QED
  BY <1>1, <1>4 DEF FramesInv

\* Every step keeps the invariant.
LEMMA FramesStep ==
    ASSUME FramesInv, [FramesNext]_lz4Frames
    PROVE  FramesInv'
<1>1. ASSUME FramesNext PROVE outcome = "none" /\ FrameInv
  <2>1. outcome = "none"
    BY <1>1 DEF FramesNext, BeginItem, OutputGone, GatherBlocks, CommitFirst, CommitRefused,
                BlockFails, EndFrame, EndInput
  <2>. QED
    BY <2>1 DEF FramesInv
<1>2. ASSUME BeginItem, FramesNext PROVE FramesInv'
  BY <1>1, <1>2, BeginItemKeeps
<1>3. ASSUME GatherBlocks, FramesNext PROVE FramesInv'
  BY <1>1, <1>3, GatherBlocksKeeps
<1>4. ASSUME CommitFirst, FramesNext PROVE FramesInv'
  BY <1>1, <1>4, CommitFirstKeeps
<1>5. ASSUME EndFrame, FramesNext PROVE FramesInv'
  BY <1>1, <1>5, EndFrameKeeps
<1>6. ASSUME OutputGone \/ CommitRefused, FramesNext PROVE FramesInv'
  <2>1. items' = items /\ written' = written /\ outcome' = "aborted"
    BY <1>6 DEF OutputGone, CommitRefused
  <2>. QED
    BY <1>1, <1>6, <2>1, EndInOrder
<1>7. ASSUME BlockFails, FramesNext PROVE FramesInv'
  <2>1. /\ items' = items /\ written' = written /\ outcome' = "error"
        /\ batch # <<>> /\ Block(Head(batch)) = "corrupt"
    BY <1>7 DEF BlockFails
  <2>2. AllInFront \subseteq Range(written)
    BY <1>1, <1>7, <2>1, BatchInFrame, DamageEnds
  <2>. QED
    BY <1>1, <1>7, <2>1, <2>2, EndInOrder
<1>8. ASSUME EndInput, FramesNext PROVE FramesInv'
  <2>1. /\ items' = items /\ written' = written /\ outcome' \in {"ok", "error"}
        /\ ~inFrame /\ item > Len(items)
    BY <1>8 DEF EndInput
  <2>2. AllInFront \subseteq Range(written) /\ \A i \in DOMAIN items : ~Faulty(i)
    BY <1>1, <1>8, <2>1, InputEnds
  <2>. QED
    BY <1>1, <1>8, <2>1, <2>2, EndInOrder
<1>9. ASSUME UNCHANGED lz4Frames PROVE FramesInv'
  <2>1. /\ items' = items /\ item' = item /\ nextBlock' = nextBlock /\ inFrame' = inFrame
        /\ batch' = batch /\ parseError' = parseError /\ ended' = ended
        /\ written' = written /\ outcome' = outcome
    BY <1>9 DEF lz4Frames
  <2>2. Frame' = Frame /\ FirstLeft' = FirstLeft /\ \A c : Block(c)' = Block(c)
    BY <2>1 DEF Frame, FirstLeft, Block
  <2>3. \A j : Faulty(j)' <=> Faulty(j)
    BY <2>1, ItemsBefore
  <2>4. ASSUME outcome = "none" PROVE FrameInv'
    <3>1. FrameInv
      BY <2>4 DEF FramesInv
    <3>2. WrittenUpTo(item, FirstLeft)'
      BY <2>1, <2>2, <3>1, PassedTheSame DEF FrameInv
    <3>3. inFrame => FrameAt'
      BY <2>1, <2>2, <3>1 DEF FrameInv, FrameAt
    <3>. QED
      BY <2>1, <2>3, <3>1, <3>2, <3>3 DEF FrameInv
  <2>5. ASSUME outcome # "none" PROVE FramesInOrder'
    <3>1. FramesInOrder
      BY <2>5 DEF FramesInv
    <3>2. AllInFront' = AllInFront
      BY <2>1 DEF AllInFront, InFront, Faulty, Corrupt
    <3>. QED
      BY <2>1, <2>3, <3>1, <3>2 DEF FramesInOrder
  <2>. QED
    BY <2>1, <2>4, <2>5 DEF FramesInv
<1>. QED
  BY Zenon, <1>2, <1>3, <1>4, <1>5, <1>6, <1>7, <1>8, <1>9 DEF FramesNext

\* The invariant gives FramesInOrder.
LEMMA FramesInvInOrder ==
    ASSUME FramesInv
    PROVE  FramesInOrder
<1>1. CASE outcome = "none"
  <2>1. InOrder
    BY <1>1, GoingInOrder DEF FramesInv
  <2>. QED
    BY <1>1, <2>1 DEF FramesInOrder, InOrder
<1>2. CASE outcome # "none"
  BY <1>2 DEF FramesInv
<1>. QED
  BY <1>1, <1>2

\* The output of the LZ4 decoder is the blocks of its input in order up to the
\* first fault, and all of them when the call answers: for every input, every
\* number of workers and every size of batch.
THEOREM FramesAlwaysInOrder ==
    FramesSpec => []FramesInOrder
<1>1. FramesInit => FramesInv
  BY Zenon, FramesStart
<1>2. FramesInv /\ [FramesNext]_lz4Frames => FramesInv'
  BY Zenon, FramesStep
<1>3. FramesInv => FramesInOrder
  BY Zenon, FramesInvInOrder
<1>. QED
  BY <1>1, <1>2, <1>3, PTL DEF FramesSpec

------------------------------------------------------------------------------
(* The bytes of an LZ4 block (Lz4Block). *)

\* A set of numbers up to n has a greatest one.
LEMMA GreatestIn ==
    ASSUME NEW n \in Nat, NEW s \in SUBSET (0..n), s # {}
    PROVE  Max(s) \in s /\ \A y \in s : y <= Max(s)
<1> DEFINE below == {n - x : x \in s}
<1>1. below \subseteq Nat /\ below # {}
  <2>1. PICK x \in s : TRUE
    OBVIOUS
  <2>2. n - x \in below
    BY <2>1
  <2>3. \A y \in s : n - y \in Nat
    OBVIOUS
  <2> QED BY <2>2, <2>3
<1>2. PICK a \in below : \A b \in below : a <= b
  <2> HIDE DEF below
  <2> QED BY <1>1, LeastNat
<1>3. PICK x \in s : a = n - x
  BY <1>2
<1>4. \A y \in s : x >= y
  <2> TAKE y \in s
  <2>1. n - y \in below
    OBVIOUS
  <2>2. a <= n - y
    BY <1>2, <2>1
  <2> QED BY <1>3, <2>2
<1>5. Max(s) \in s /\ \A y \in s : Max(s) >= y
  BY <1>4 DEF Max
<1>6. \A y \in s : y \in Nat
  OBVIOUS
<1> QED BY <1>5, <1>6

\* The bytes of s stand behind place p of all.
StandsAt(s, p, all) ==
    /\ p + Len(s) <= Len(all)
    /\ \A i \in 1..Len(s) : all[p + i] = s[i]

\* Both parts of what stands there stand there.
LEMMA PartsStand ==
    ASSUME NEW a \in Seq(Nat), NEW b \in Seq(Nat), NEW p \in Nat, NEW all \in Seq(Nat),
           StandsAt(a \o b, p, all)
    PROVE  StandsAt(a, p, all) /\ StandsAt(b, p + Len(a), all)
<1> DEFINE both == a \o b
           A == Len(a)
           B == Len(b)
<1>1. /\ both \in Seq(Nat) /\ Len(both) = A + B /\ A \in Nat /\ B \in Nat
      /\ \A i \in 1..(A + B) : both[i] = IF i <= A THEN a[i] ELSE b[i - A]
  BY ConcatProperties
<1>2. p + Len(both) <= Len(all) /\ \A i \in 1..Len(both) : all[p + i] = both[i]
  BY DEF StandsAt
<1> HIDE DEF both, A, B
<1>3. ASSUME NEW i \in 1..A
      PROVE  all[p + i] = a[i]
  <2>1. i \in 1..Len(both) /\ i \in 1..(A + B) /\ i <= A
    BY <1>1
  <2>2. all[p + i] = both[i]
    BY <1>2, <2>1
  <2>3. both[i] = a[i]
    BY <1>1, <2>1
  <2> QED BY <2>2, <2>3
<1>4. ASSUME NEW i \in 1..B
      PROVE  all[(p + A) + i] = b[i]
  <2> DEFINE j == A + i
  <2>1. j \in 1..(A + B) /\ ~(j <= A) /\ j - A = i /\ p + j = (p + A) + i
    BY <1>1
  <2>2. all[p + j] = b[j - A]
    <3> HIDE DEF j
    <3> QED BY <1>1, <1>2, <2>1
  <2> QED BY <2>1, <2>2
<1>5. p + A <= Len(all) /\ (p + A) + B <= Len(all)
  <2>1. Len(all) \in Nat
    OBVIOUS
  <2> QED BY <1>1, <1>2, <2>1
<1>6. StandsAt(a, p, all)
  BY <1>3, <1>5 DEF StandsAt, A
<1>7. StandsAt(b, p + A, all)
  BY <1>4, <1>5 DEF StandsAt, B
<1> QED BY <1>6, <1>7 DEF A

\* What stands there still does when more is written.
LEMMA StandsStill ==
    ASSUME NEW s \in Seq(Nat), NEW p \in Nat, NEW all \in Seq(Nat), NEW more \in Seq(Nat),
           StandsAt(s, p, all)
    PROVE  StandsAt(s, p, all \o more)
<1> DEFINE longer == all \o more
           L == Len(all)
           N == Len(s)
<1>1. /\ Len(longer) = L + Len(more) /\ L \in Nat /\ Len(more) \in Nat /\ N \in Nat
      /\ \A i \in 1..L : longer[i] = all[i]
  BY ConcatProperties
<1>2. p + N <= L /\ \A i \in 1..N : all[p + i] = s[i]
  BY DEF StandsAt
<1> HIDE DEF longer, L, N
<1>3. ASSUME NEW i \in 1..N
      PROVE  longer[p + i] = s[i]
  <2>1. p + i \in 1..L
    BY <1>1, <1>2
  <2> QED BY <1>1, <1>2, <2>1
<1>4. p + N <= Len(longer)
  BY <1>1, <1>2
<1> QED BY <1>3, <1>4 DEF StandsAt, longer, N

\* What is written stands behind what was.
LEMMA WrittenStands ==
    ASSUME NEW s \in Seq(Nat), NEW all \in Seq(Nat)
    PROVE  StandsAt(s, Len(all), all \o s) /\ Len(all \o s) = Len(all) + Len(s)
<1> DEFINE longer == all \o s
           L == Len(all)
           N == Len(s)
<1>1. /\ Len(longer) = L + N /\ L \in Nat /\ N \in Nat
      /\ \A i \in 1..(L + N) : longer[i] = IF i <= L THEN all[i] ELSE s[i - L]
  BY ConcatProperties
<1> HIDE DEF longer, L, N
<1>3. ASSUME NEW i \in 1..N
      PROVE  longer[L + i] = s[i]
  <2> DEFINE j == L + i
  <2>1. j \in 1..(L + N) /\ ~(j <= L) /\ j - L = i
    BY <1>1
  <2>2. longer[j] = s[j - L]
    <3> HIDE DEF j
    <3> QED BY <1>1, <2>1
  <2> QED BY <2>1, <2>2
<1> QED BY <1>1, <1>3 DEF StandsAt, longer, L, N

\* It is cut out by its place and its length.
LEMMA StandingIs ==
    ASSUME NEW s \in Seq(Nat), NEW p \in Nat, NEW all \in Seq(Nat), StandsAt(s, p, all)
    PROVE  SubSeq(all, p + 1, p + Len(s)) = s
<1> DEFINE N == Len(s)
           t == SubSeq(all, p + 1, p + N)
<1>1. N \in Nat /\ p + N <= Len(all) /\ \A i \in 1..N : all[p + i] = s[i]
  BY DEF StandsAt
<1>2. t \in Seq(Nat) /\ Len(t) = N /\ \A i \in 1..N : t[i] = all[i + p]
  <2> HIDE DEF N
  <2> QED BY <1>1, SubSeqIs
<1> HIDE DEF t
<1>3. \A i \in 1..N : t[i] = s[i]
  <2> TAKE i \in 1..N
  <2>1. i + p = p + i
    OBVIOUS
  <2>2. t[i] = all[i + p] /\ all[p + i] = s[i]
    BY <1>1, <1>2
  <2> QED BY <2>1, <2>2
<1>4. t = s
  BY <1>2, <1>3, SeqEqual
<1> QED BY <1>4 DEF t, N

\* What stands between two places of the block.
Piece(whole, from, to) == SubSeq(whole, from + 1, to)

\* A piece, by its length.
LEMMA PieceIs ==
    ASSUME NEW whole \in Seq(Nat), NEW from \in Nat, NEW to \in Nat,
           from <= to, to <= Len(whole)
    PROVE  /\ Piece(whole, from, to) \in Seq(Nat)
           /\ Len(Piece(whole, from, to)) = to - from
           /\ \A i \in 1..(to - from) : Piece(whole, from, to)[i] = whole[i + from]
<1> DEFINE count == to - from
<1>1. count \in Nat /\ from + count = to
  OBVIOUS
<1> HIDE DEF count
<1>2. /\ SubSeq(whole, from + 1, from + count) \in Seq(Nat)
      /\ Len(SubSeq(whole, from + 1, from + count)) = count
      /\ \A i \in 1..count : SubSeq(whole, from + 1, from + count)[i] = whole[i + from]
  BY <1>1, SubSeqIs
<1> QED BY <1>1, <1>2 DEF Piece, count

\* What stands in front of a place.
LEMMA FrontIs ==
    ASSUME NEW whole \in Seq(Nat), NEW to \in Nat, to <= Len(whole)
    PROVE  /\ Piece(whole, 0, to) \in Seq(Nat)
           /\ Len(Piece(whole, 0, to)) = to
           /\ \A i \in 1..to : Piece(whole, 0, to)[i] = whole[i]
<1> DEFINE piece == Piece(whole, 0, to)
<1>1. 0 \in Nat /\ 0 <= to
  OBVIOUS
<1>2. /\ piece \in Seq(Nat) /\ Len(piece) = to - 0
      /\ \A i \in 1..(to - 0) : piece[i] = whole[i + 0]
  BY <1>1, PieceIs
<1> HIDE DEF piece
<1>3. to - 0 = to /\ \A i \in 1..to : i + 0 = i
  OBVIOUS
<1>4. piece \in Seq(Nat) /\ Len(piece) = to /\ \A i \in 1..to : piece[i] = whole[i]
  BY <1>2, <1>3
<1> QED BY <1>4 DEF piece

\* Two pieces, one behind the other, are one.
LEMMA PiecesJoin ==
    ASSUME NEW whole \in Seq(Nat), NEW l \in Nat, NEW c \in Nat, l <= c, c <= Len(whole)
    PROVE  Piece(whole, 0, l) \o Piece(whole, l, c) = Piece(whole, 0, c)
<1> DEFINE a == Piece(whole, 0, l)
           b == Piece(whole, l, c)
           both == a \o b
           all == Piece(whole, 0, c)
<1>1. a \in Seq(Nat) /\ Len(a) = l /\ \A i \in 1..l : a[i] = whole[i]
  <2>1. l <= Len(whole)
    OBVIOUS
  <2> QED BY <2>1, FrontIs
<1>2. b \in Seq(Nat) /\ Len(b) = c - l /\ \A i \in 1..(c - l) : b[i] = whole[i + l]
  BY PieceIs
<1>3. all \in Seq(Nat) /\ Len(all) = c /\ \A i \in 1..c : all[i] = whole[i]
  BY FrontIs
<1> HIDE DEF a, b, all
<1>4. /\ both \in Seq(Nat) /\ Len(both) = Len(a) + Len(b)
      /\ \A i \in 1..(Len(a) + Len(b)) : both[i] = IF i <= Len(a) THEN a[i] ELSE b[i - Len(a)]
  <2>1. a \in Seq(Nat) /\ b \in Seq(Nat)
    BY <1>1, <1>2
  <2> QED BY <2>1, ConcatProperties, Zenon
<1> HIDE DEF both
<1>5. ASSUME NEW i \in 1..c
      PROVE  both[i] = all[i]
  <2>1. both[i] = IF i <= l THEN a[i] ELSE b[i - l]
    BY <1>1, <1>2, <1>4
  <2>2. CASE i <= l
    BY <1>1, <1>3, <2>1, <2>2
  <2>3. CASE ~(i <= l)
    <3> DEFINE j == i - l
    <3>1. j \in 1..(c - l) /\ j + l = i
      BY <2>3
    <3>2. b[j] = whole[j + l]
      <4> HIDE DEF j
      <4> QED BY <1>2, <3>1
    <3> QED BY <1>3, <2>1, <2>3, <3>1, <3>2
  <2> QED BY <2>2, <2>3
<1>6. Len(both) = Len(all)
  BY <1>1, <1>2, <1>3, <1>4
<1>7. both = all
  BY <1>3, <1>4, <1>5, <1>6, SeqEqual
<1> QED BY <1>7 DEF both, all, a, b

\* A match of the block: n bytes behind place c are what stands d before them.
BlockMatch(whole, c, d, n) ==
    /\ d \in 1..Reach /\ d <= c /\ Shortest <= n /\ c + n <= Len(whole)
    /\ \A i \in (c + 1)..(c + n) : whole[i] = whole[i - d]

\* Extending what stands in front of a match by it gives what stands up to its
\* end.
LEMMA CopyExtends ==
    ASSUME NEW whole \in Seq(Nat), NEW c \in Nat, NEW d \in Nat, NEW n \in Nat,
           BlockMatch(whole, c, d, n)
    PROVE  ExtendMatch(Piece(whole, 0, c), d, n) = Piece(whole, 0, c + n)
<1> DEFINE out == Piece(whole, 0, c)
           all == Piece(whole, 0, c + n)
<1>1. /\ 1 <= d /\ d <= c /\ c + n <= Len(whole)
      /\ \A i \in (c + 1)..(c + n) : whole[i] = whole[i - d]
  BY DEF BlockMatch
<1>2. out \in Seq(Nat) /\ Len(out) = c /\ \A i \in 1..c : out[i] = whole[i]
  <2>1. c <= Len(whole)
    BY <1>1
  <2> QED BY <2>1, FrontIs
<1>3. all \in Seq(Nat) /\ Len(all) = c + n /\ \A i \in 1..(c + n) : all[i] = whole[i]
  <2> DEFINE e == c + n
  <2>1. e \in Nat /\ 0 <= e /\ e <= Len(whole)
    BY <1>1
  <2> HIDE DEF e
  <2>2. /\ Piece(whole, 0, e) \in Seq(Nat) /\ Len(Piece(whole, 0, e)) = e
        /\ \A i \in 1..e : Piece(whole, 0, e)[i] = whole[i]
    BY <2>1, FrontIs
  <2> QED BY <2>2 DEF e
<1> HIDE DEF out, all
<1>4. ASSUME NEW i \in (c + 1)..(c + n)
      PROVE  all[i] = all[i - d]
  <2> DEFINE j == i - d
  <2>1. i \in 1..(c + n) /\ j \in 1..(c + n)
    BY <1>1
  <2>2. whole[i] = whole[j]
    BY <1>1
  <2> HIDE DEF j
  <2>3. all[i] = all[j]
    BY <1>3, <2>1, <2>2
  <2> QED BY <2>3 DEF j
<1>5. \A i \in 1..c : all[i] = out[i]
  <2> TAKE i \in 1..c
  <2>1. i \in 1..(c + n)
    OBVIOUS
  <2>2. all[i] = whole[i] /\ out[i] = whole[i]
    BY <1>2, <1>3, <2>1
  <2> QED BY <2>2
<1>6. IsMatch(all, out, d, n, Nat)
  BY <1>2, <1>3, <1>4, <1>5 DEF IsMatch
<1>7. d \in 1..Len(out)
  BY <1>1, <1>2
<1>8. IsMatch(ExtendMatch(out, d, n), out, d, n, Nat)
  BY <1>2, <1>7, ExtendIsRepeated
<1>9. ExtendMatch(out, d, n) = all
  BY <1>2, <1>6, <1>7, <1>8, MatchUnique
<1> QED BY <1>9 DEF out, all

\* The numbers of the format.
LEMMA BlockNumbers ==
    /\ NibbleMax \in Nat \ {0} /\ LengthByte \in Nat \ {0} /\ Reach \in Nat \ {0}
    /\ SkipEvery \in Nat \ {0}
    /\ LastStart \in Nat /\ EndBytes \in Nat /\ EndBytes + Shortest <= LastStart
  BY Lz4BlockAssumption DEF Shortest

\* What a half of the token holds of a length.
LEMMA NibbleIs ==
    ASSUME NEW n \in Nat
    PROVE  /\ Nibble(n) \in Nat /\ Nibble(n) < NibbleMax + 1
           /\ n >= NibbleMax => Nibble(n) = NibbleMax
           /\ ~(n >= NibbleMax) => Nibble(n) = n /\ n # NibbleMax
<1>1. NibbleMax \in Nat
  BY BlockNumbers
<1> QED BY <1>1 DEF Nibble, AtMostOf

\* The halves of a token are told apart.
LEMMA TokenIs ==
    ASSUME NEW m \in Nat, NEW n \in Nat
    PROVE  LET token == Nibble(m) * (NibbleMax + 1) + Nibble(n) IN
           /\ token \in Nat
           /\ token \div (NibbleMax + 1) = Nibble(m)
           /\ token % (NibbleMax + 1) = Nibble(n)
<1> DEFINE b == NibbleMax + 1
           q == Nibble(m)
           r == Nibble(n)
<1>1. b \in Nat \ {0} /\ q \in Nat /\ r \in Nat /\ r < b
  BY BlockNumbers, NibbleIs
<1> HIDE DEF b, q, r
<1>2. (q * b + r) \div b = q /\ (q * b + r) % b = r
  BY <1>1, DivisionIs
<1>3. q * b + r \in Nat
  BY <1>1
<1> QED BY <1>2, <1>3 DEF b, q, r

\* The bytes of a length: full ones, and a last one that is not.
FullBytes(n) == n \div LengthByte
LEMMA WriteLengthIs ==
    ASSUME NEW n \in Nat
    PROVE  /\ WriteLength(n) \in Seq(Nat)
           /\ FullBytes(n) \in Nat /\ Len(WriteLength(n)) = FullBytes(n) + 1
           /\ \A i \in 1..FullBytes(n) : WriteLength(n)[i] = LengthByte
           /\ WriteLength(n)[FullBytes(n) + 1] < LengthByte
           /\ WriteLength(n)[FullBytes(n) + 1] \in Nat
           /\ FullBytes(n) * LengthByte + WriteLength(n)[FullBytes(n) + 1] = n
<1> DEFINE k == n \div LengthByte
           r == n % LengthByte
           full == [i \in 1..k |-> LengthByte]
           last == <<r>>
           all == full \o last
<1>1. LengthByte \in Nat \ {0}
  BY BlockNumbers
<1>2. k \in Nat /\ r \in Nat /\ r < LengthByte /\ n = k * LengthByte + r
  BY <1>1, Division
<1> HIDE DEF k, r
<1>3. full \in Seq(Nat) /\ Len(full) = k /\ \A i \in 1..k : full[i] = LengthByte
  BY <1>1, <1>2
<1>4. last \in Seq(Nat) /\ Len(last) = 1 /\ last[1] = r
  BY <1>2
<1> HIDE DEF full, last
<1>5. /\ all \in Seq(Nat) /\ Len(all) = Len(full) + Len(last)
      /\ \A i \in 1..(Len(full) + Len(last)) :
            all[i] = IF i <= Len(full) THEN full[i] ELSE last[i - Len(full)]
  <2>1. full \in Seq(Nat) /\ last \in Seq(Nat)
    BY <1>3, <1>4
  <2> QED BY <2>1, ConcatProperties, Zenon
<1> HIDE DEF all
<1>6. \A i \in 1..k : all[i] = LengthByte
  <2> TAKE i \in 1..k
  <2>1. i \in 1..(Len(full) + Len(last)) /\ i <= Len(full)
    BY <1>2, <1>3, <1>4
  <2>2. all[i] = full[i]
    BY <1>5, <2>1
  <2> QED BY <1>3, <2>2
<1>7. all[k + 1] = r
  <2> DEFINE j == k + 1
  <2>1. j \in 1..(Len(full) + Len(last)) /\ ~(j <= Len(full)) /\ j - Len(full) = 1
    BY <1>2, <1>3, <1>4
  <2>2. all[j] = last[j - Len(full)]
    <3> HIDE DEF j
    <3> QED BY <1>5, <2>1
  <2>3. all[j] = last[1]
    BY <2>1, <2>2
  <2> QED BY <1>4, <2>3
<1>8. WriteLength(n) = all /\ FullBytes(n) = k
  BY DEF WriteLength, FullBytes, all, full, last, k, r
<1>9. all \in Seq(Nat) /\ Len(all) = k + 1
  BY <1>3, <1>4, <1>5
<1> QED BY <1>2, <1>6, <1>7, <1>8, <1>9

\* What a length is written as is bytes.
LEMMA LengthBytesType ==
    ASSUME NEW n \in Nat
    PROVE  LengthBytes(n) \in Seq(Nat) /\ Len(LengthBytes(n)) \in Nat
<1>1. CASE n >= NibbleMax
  <2>1. n - NibbleMax \in Nat
    BY <1>1, BlockNumbers
  <2>2. LengthBytes(n) = WriteLength(n - NibbleMax)
    BY <1>1 DEF LengthBytes
  <2>3. WriteLength(n - NibbleMax) \in Seq(Nat)
    BY <2>1, WriteLengthIs
  <2> QED BY <2>2, <2>3
<1>2. CASE ~(n >= NibbleMax)
  <2>1. LengthBytes(n) = <<>>
    BY <1>2 DEF LengthBytes
  <2> QED BY <2>1
<1> QED BY <1>1, <1>2

\* The least of a set is told by being one.
LEMMA LeastIs ==
    ASSUME NEW s \in SUBSET Nat, NEW x \in s, \A y \in s : x <= y
    PROVE  Min(s) = x
<1>1. Min(s) \in s /\ \A y \in s : Min(s) <= y
  BY DEF Min
<1>2. Min(s) <= x /\ x <= Min(s) /\ Min(s) \in Nat /\ x \in Nat
  BY <1>1
<1> QED BY <1>2

\* A length is read as it was written.
LEMMA LengthRead ==
    ASSUME packed \in Seq(Nat), NEW at \in Nat, NEW n \in Nat,
           StandsAt(LengthBytes(n), at, packed)
    PROVE  LengthAt(at, Nibble(n)) = [length |-> n, at |-> at + Len(LengthBytes(n))]
<1>0. NibbleMax \in Nat /\ LengthByte \in Nat
  BY BlockNumbers
<1>1. CASE n >= NibbleMax
  <2> DEFINE m == n - NibbleMax
             all == WriteLength(m)
             k == FullBytes(m)
             last == {i \in at..(Len(packed) - 1) : packed[i + 1] # LengthByte}
             r == all[k + 1]
             e == at + k
  <2>1. m \in Nat /\ LengthBytes(n) = all /\ Nibble(n) = NibbleMax
    BY <1>0, <1>1, NibbleIs DEF LengthBytes
  <2>2. /\ k \in Nat /\ Len(all) = k + 1
        /\ \A i \in 1..k : all[i] = LengthByte
        /\ r < LengthByte /\ r \in Nat /\ k * LengthByte + r = m
    <3> HIDE DEF m
    <3> QED BY <2>1, WriteLengthIs
  <2> HIDE DEF all, k
  <2>3. at + (k + 1) <= Len(packed) /\ \A i \in 1..(k + 1) : packed[at + i] = all[i]
    BY <2>1, <2>2 DEF StandsAt
  <2>4. \A i \in 1..k : packed[at + i] = LengthByte
    <3> TAKE i \in 1..k
    <3>1. i \in 1..(k + 1)
      BY <2>2
    <3>2. packed[at + i] = all[i]
      BY <2>3, <3>1
    <3> QED BY <2>2, <3>2
  <2>5. packed[e + 1] = r /\ e + 1 = at + (k + 1)
    <3>1. e + 1 = at + (k + 1) /\ k + 1 \in 1..(k + 1)
      BY <2>2
    <3> QED BY <2>3, <3>1
  <2>6. e \in last
    BY <1>0, <2>2, <2>3, <2>5
  <2>7. \A i \in last : e <= i
    <3> SUFFICES ASSUME NEW i \in at..(Len(packed) - 1), packed[i + 1] # LengthByte, ~(e <= i)
                 PROVE  FALSE
      OBVIOUS
    <3> DEFINE j == (i - at) + 1
    <3>1. j \in 1..k /\ at + j = i + 1
      BY <2>2
    <3>2. packed[at + j] = LengthByte
      <4> HIDE DEF j
      <4> QED BY <2>4, <3>1
    <3> QED BY <3>1, <3>2
  <2>8. last \in SUBSET Nat
    OBVIOUS
  <2>9. Min(last) = e
    <3> HIDE DEF last, e
    <3> QED BY <2>6, <2>7, <2>8, LeastIs
  <2>10. LengthAt(at, Nibble(n))
         = [length |-> NibbleMax + (e - at) * LengthByte + packed[e + 1], at |-> e + 1]
    <3> DEFINE initial == Nibble(n)
    <3>1. last # {} /\ initial = NibbleMax
      BY <2>1, <2>6
    <3> HIDE DEF e, initial
    <3>2. LengthAt(at, initial)
          = [length |-> initial + (Min(last) - at) * LengthByte + packed[Min(last) + 1],
             at |-> Min(last) + 1]
      BY <3>1, Zenon DEF LengthAt
    <3> HIDE DEF last
    <3>3. LengthAt(at, initial)
          = [length |-> NibbleMax + (e - at) * LengthByte + packed[e + 1], at |-> e + 1]
      BY <2>9, <3>1, <3>2, Zenon
    <3> QED BY <3>3 DEF initial
  <2>11. NibbleMax + (e - at) * LengthByte + packed[e + 1] = n
    <3>1. e - at = k
      BY <2>2
    <3>2. NibbleMax + (k * LengthByte + r) = n
      BY <1>0, <1>1, <2>2
    <3> HIDE DEF e, r, m
    <3>3. NibbleMax + k * LengthByte + r = n
      <4>1. k * LengthByte \in Nat
        BY <1>0, <2>2
      <4> DEFINE z == k * LengthByte
      <4> HIDE DEF z
      <4>2. z \in Nat /\ NibbleMax + (z + r) = n
        BY <3>2, <4>1 DEF z
      <4>3. NibbleMax + z + r = n
        BY <1>0, <2>2, <4>2
      <4> QED BY <4>3 DEF z
    <3> QED BY <2>5, <3>1, <3>3
  <2>12. at + Len(LengthBytes(n)) = e + 1
    BY <2>1, <2>2
  <2> HIDE DEF e
  <2> QED BY <2>10, <2>11, <2>12
<1>2. CASE ~(n >= NibbleMax)
  <2>1. Nibble(n) = n /\ n # NibbleMax /\ LengthBytes(n) = <<>>
    BY <1>2, NibbleIs DEF LengthBytes
  <2>2. at + Len(LengthBytes(n)) = at
    BY <2>1
  <2> QED BY <2>1, <2>2 DEF LengthAt
<1> QED BY <1>1, <1>2

\* Three parts, one behind the other.
ThreeParts(a, b, c, p, all) ==
    /\ Len(a \o b \o c) = Len(a) + Len(b) + Len(c)
    /\ StandsAt(a, p, all)
    /\ StandsAt(b, p + Len(a), all)
    /\ StandsAt(c, p + Len(a) + Len(b), all)
ThreeAt(a, b, c, p, all) == StandsAt(a \o b \o c, p, all)

LEMMA ThreeStand ==
    ASSUME NEW a \in Seq(Nat), NEW b \in Seq(Nat), NEW c \in Seq(Nat), NEW p \in Nat,
           NEW all \in Seq(Nat), ThreeAt(a, b, c, p, all)
    PROVE  ThreeParts(a, b, c, p, all)
<1> DEFINE ab == a \o b
           abc == ab \o c
<1>1. ab \in Seq(Nat) /\ Len(ab) = Len(a) + Len(b)
  BY ConcatProperties
<1> HIDE DEF ab
<1>2. abc \in Seq(Nat) /\ Len(abc) = Len(ab) + Len(c)
  BY <1>1, ConcatProperties
<1>3. StandsAt(ab, p, all) /\ StandsAt(c, p + Len(ab), all)
  <2>1. StandsAt(ab \o c, p, all)
    BY DEF ThreeAt, ab
  <2> QED BY <1>1, <2>1, PartsStand
<1>4. StandsAt(a, p, all) /\ StandsAt(b, p + Len(a), all)
  BY <1>3, PartsStand DEF ab
<1>5. p + Len(ab) = p + Len(a) + Len(b)
  BY <1>1
<1>6. Len(abc) = Len(a) + Len(b) + Len(c)
  BY <1>1, <1>2
<1> QED BY <1>3, <1>4, <1>5, <1>6, Zenon DEF ThreeParts, abc, ab

\* The token of a sequence.
TokenOf(m, n) == Nibble(m) * (NibbleMax + 1) + Nibble(n)

\* A sequence that stands in the block, part by part.
SequenceStands(literals, d, n, p, all) ==
    LET a == p + 1
        l == a + Len(LengthBytes(Len(literals)))
        o == l + Len(literals)
    IN  /\ all[a] = TokenOf(Len(literals), n - Shortest)
        /\ StandsAt(LengthBytes(Len(literals)), a, all)
        /\ StandsAt(literals, l, all)
        /\ o + 1 <= Len(all) /\ all[o + 1] = d
        /\ StandsAt(LengthBytes(n - Shortest), o + 1, all)
        /\ p + Len(WriteSequence(literals, d, n)) = o + 1 + Len(LengthBytes(n - Shortest))

LEMMA SequenceParts ==
    ASSUME NEW literals \in Seq(Nat), NEW d \in 1..Reach, NEW n \in Nat, Shortest <= n,
           NEW p \in Nat, NEW all \in Seq(Nat),
           StandsAt(WriteSequence(literals, d, n), p, all)
    PROVE  SequenceStands(literals, d, n, p, all)
<1> DEFINE m == n - Shortest
           token == TokenOf(Len(literals), m)
           t == <<token>>
           a == LengthBytes(Len(literals))
           b == LengthBytes(m)
           dd == <<d>>
           front == t \o a \o literals
           whole == front \o dd \o b
<1>1. m \in Nat /\ Len(literals) \in Nat /\ Reach \in Nat
  BY BlockNumbers DEF Shortest
<1>2. token \in Nat
  BY <1>1, TokenIs DEF TokenOf
<1>3. d % (Reach + 1) = d
  <2> DEFINE k == Reach + 1
  <2>1. k \in Nat \ {0} /\ d \in Nat /\ d < k /\ 0 \in Nat
    BY <1>1
  <2> HIDE DEF k
  <2>2. (0 * k + d) % k = d
    BY <2>1, DivisionIs
  <2>3. 0 * k + d = d
    BY <2>1
  <2>4. d % k = d
    BY <2>2, <2>3
  <2> QED BY <2>4 DEF k
<1>4. WriteSequence(literals, d, n) = whole
  BY <1>3, Zenon DEF WriteSequence, TokenOf
<1>5. a \in Seq(Nat) /\ b \in Seq(Nat) /\ Len(a) \in Nat /\ Len(b) \in Nat
  BY <1>1, LengthBytesType
<1>6. t \in Seq(Nat) /\ dd \in Seq(Nat) /\ Len(t) = 1 /\ Len(dd) = 1 /\ t[1] = token /\ dd[1] = d
  BY <1>1, <1>2
<1> HIDE DEF m, token, t, a, b, dd
<1>7. front \in Seq(Nat)
  BY <1>5, <1>6
<1> HIDE DEF front
<1>8. /\ Len(whole) = Len(front) + Len(dd) + Len(b)
      /\ StandsAt(front, p, all)
      /\ StandsAt(dd, p + Len(front), all)
      /\ StandsAt(b, p + Len(front) + Len(dd), all)
  <2>1. ThreeAt(front, dd, b, p, all)
    BY <1>4 DEF ThreeAt
  <2>2. front \in Seq(Nat) /\ dd \in Seq(Nat) /\ b \in Seq(Nat)
    BY <1>5, <1>6, <1>7
  <2>3. ThreeParts(front, dd, b, p, all)
    BY <2>1, <2>2, ThreeStand
  <2> QED BY <2>3, Zenon DEF ThreeParts
<1>9. /\ Len(front) = Len(t) + Len(a) + Len(literals)
      /\ StandsAt(t, p, all)
      /\ StandsAt(a, p + Len(t), all)
      /\ StandsAt(literals, p + Len(t) + Len(a), all)
  <2>1. ThreeAt(t, a, literals, p, all)
    BY <1>8 DEF front, ThreeAt
  <2>2. t \in Seq(Nat) /\ a \in Seq(Nat)
    BY <1>5, <1>6
  <2>3. ThreeParts(t, a, literals, p, all)
    BY <2>1, <2>2, ThreeStand
  <2> QED BY <2>3, Zenon DEF ThreeParts, front
<1> DEFINE l == p + 1 + Len(a)
           o == l + Len(literals)
<1>10. /\ p + Len(t) = p + 1 /\ p + Len(t) + Len(a) = l /\ p + Len(front) = o
       /\ p + Len(front) + Len(dd) = o + 1 /\ o \in Nat
       /\ p + Len(whole) = o + 1 + Len(b)
  BY <1>1, <1>5, <1>6, <1>8, <1>9
<1>11. all[p + 1] = token
  BY <1>6, <1>9 DEF StandsAt
<1>12. o + 1 <= Len(all) /\ all[o + 1] = d
  <2> HIDE DEF o
  <2>1. StandsAt(dd, o, all)
    BY <1>8, <1>10
  <2> QED BY <1>6, <2>1 DEF StandsAt
<1>13. StandsAt(a, p + 1, all) /\ StandsAt(literals, l, all) /\ StandsAt(b, o + 1, all)
  <2> HIDE DEF o, l
  <2> QED BY <1>8, <1>9, <1>10
<1>14. p + Len(WriteSequence(literals, d, n)) = o + 1 + Len(b)
  BY <1>4, <1>10
<1> HIDE DEF whole
<1> QED BY <1>11, <1>12, <1>13, <1>14, Zenon DEF SequenceStands, token, a, b, m, l, o

\* The last literals, part by part.
LastStand(literals, p, all) ==
    LET a == p + 1
        l == a + Len(LengthBytes(Len(literals)))
    IN  /\ all[a] = Nibble(Len(literals)) * (NibbleMax + 1)
        /\ StandsAt(LengthBytes(Len(literals)), a, all)
        /\ StandsAt(literals, l, all)
        /\ p + Len(WriteLastLiterals(literals)) = l + Len(literals)

LEMMA LastParts ==
    ASSUME NEW literals \in Seq(Nat), NEW p \in Nat, NEW all \in Seq(Nat),
           StandsAt(WriteLastLiterals(literals), p, all)
    PROVE  LastStand(literals, p, all)
<1> DEFINE token == Nibble(Len(literals)) * (NibbleMax + 1)
           t == <<token>>
           a == LengthBytes(Len(literals))
           whole == t \o a \o literals
<1>1. Len(literals) \in Nat
  OBVIOUS
<1>2. token \in Nat
  <2>1. Nibble(Len(literals)) \in Nat /\ NibbleMax \in Nat
    BY <1>1, BlockNumbers, NibbleIs
  <2> QED BY <2>1
<1>4. WriteLastLiterals(literals) = whole
  BY DEF WriteLastLiterals
<1>5. a \in Seq(Nat) /\ Len(a) \in Nat
  BY <1>1, LengthBytesType
<1>6. t \in Seq(Nat) /\ Len(t) = 1 /\ t[1] = token
  BY <1>2
<1> HIDE DEF token, t, a
<1>9. /\ Len(whole) = Len(t) + Len(a) + Len(literals)
      /\ StandsAt(t, p, all)
      /\ StandsAt(a, p + Len(t), all)
      /\ StandsAt(literals, p + Len(t) + Len(a), all)
  <2>1. ThreeAt(t, a, literals, p, all)
    BY <1>4 DEF ThreeAt
  <2>2. t \in Seq(Nat) /\ a \in Seq(Nat)
    BY <1>5, <1>6
  <2>3. ThreeParts(t, a, literals, p, all)
    BY <2>1, <2>2, ThreeStand
  <2> QED BY <2>3, Zenon DEF ThreeParts
<1> DEFINE l == p + 1 + Len(a)
<1>10. /\ p + Len(t) = p + 1 /\ p + Len(t) + Len(a) = l
       /\ p + Len(whole) = l + Len(literals)
  BY <1>1, <1>5, <1>6, <1>9
<1>11. all[p + 1] = token
  BY <1>6, <1>9 DEF StandsAt
<1>13. StandsAt(a, p + 1, all) /\ StandsAt(literals, l, all)
  <2> HIDE DEF l
  <2> QED BY <1>9, <1>10
<1>14. p + Len(WriteLastLiterals(literals)) = l + Len(literals)
  BY <1>4, <1>10
<1> HIDE DEF whole
<1> QED BY <1>11, <1>13, <1>14, Zenon DEF LastStand, token, a, l

\* What is written is bytes.
LEMMA SequenceType ==
    ASSUME NEW literals \in Seq(Nat), NEW d \in Nat, NEW n \in Nat, Shortest <= n
    PROVE  WriteSequence(literals, d, n) \in Seq(Nat)
<1> DEFINE t == <<Nibble(Len(literals)) * (NibbleMax + 1) + Nibble(n - Shortest)>>
           a == LengthBytes(Len(literals))
           b == LengthBytes(n - Shortest)
           e == d % (Reach + 1)
           dd == <<e>>
<1>1. Len(literals) \in Nat /\ n - Shortest \in Nat /\ Reach + 1 \in Nat \ {0}
  BY BlockNumbers DEF Shortest
<1>2. t \in Seq(Nat)
  <2> DEFINE token == Nibble(Len(literals)) * (NibbleMax + 1) + Nibble(n - Shortest)
  <2>1. token \in Nat
    BY <1>1, TokenIs
  <2> HIDE DEF token
  <2>2. <<token>> \in Seq(Nat)
    BY <2>1
  <2> QED BY <2>2 DEF token
<1>3. a \in Seq(Nat) /\ b \in Seq(Nat)
  BY <1>1, LengthBytesType
<1>4. e \in Nat
  BY <1>1, Division
<1> HIDE DEF e
<1>5. dd \in Seq(Nat)
  BY <1>4
<1> HIDE DEF t, a, b, dd
<1>6. t \o a \o literals \o dd \o b \in Seq(Nat)
  BY <1>2, <1>3, <1>5
<1> QED BY <1>6, Zenon DEF WriteSequence, t, a, b, dd, e

\* And the last literals.

LEMMA LastType ==
    ASSUME NEW literals \in Seq(Nat)
    PROVE  WriteLastLiterals(literals) \in Seq(Nat)
<1> DEFINE token == Nibble(Len(literals)) * (NibbleMax + 1)
           t == <<token>>
           a == LengthBytes(Len(literals))
<1>1. Len(literals) \in Nat
  OBVIOUS
<1>2. token \in Nat
  <2>1. Nibble(Len(literals)) \in Nat /\ NibbleMax \in Nat
    BY <1>1, BlockNumbers, NibbleIs
  <2> QED BY <2>1
<1> HIDE DEF token
<1>3. t \in Seq(Nat)
  BY <1>2
<1>4. a \in Seq(Nat)
  BY <1>1, LengthBytesType
<1> HIDE DEF t, a
<1>5. t \o a \o literals \in Seq(Nat)
  BY <1>3, <1>4
<1> QED BY <1>5, Zenon DEF WriteLastLiterals, t, a, token

\* A sequence stands between two marks: of what is written, and of the block.
SequenceBetween(whole, all, m, k) ==
    \E c, d, n \in Nat :
        /\ m[2] <= c
        /\ BlockMatch(whole, c, d, n)
        /\ StandsAt(WriteSequence(Piece(whole, m[2], c), d, n), m[1], all)
        /\ k = <<m[1] + Len(WriteSequence(Piece(whole, m[2], c), d, n)), c + n>>
Coded(whole, all, marks, m) == \E k \in marks : SequenceBetween(whole, all, m, k)

\* The last literals stand behind a mark, and nothing behind them.
LastBehind(whole, all, m) ==
    /\ m[2] <= Len(whole)
    /\ StandsAt(WriteLastLiterals(Piece(whole, m[2], Len(whole))), m[1], all)
    /\ m[1] + Len(WriteLastLiterals(Piece(whole, m[2], Len(whole)))) = Len(all)

\* While coding, what is written is sequences up to where the literals held
\* back begin.
CodedUpTo(marks, whole, all, place) ==
    /\ marks \in SUBSET (Nat \X Nat) /\ <<0, 0>> \in marks
    /\ \A m \in marks : m = <<Len(all), place>> \/ Coded(whole, all, marks, m)

\* While decoding, it is sequences and last literals, and the decoder is at one.
DecodedUpTo(marks, whole, all, at, out) ==
    /\ marks \in SUBSET (Nat \X Nat) /\ <<at, Len(out)>> \in marks
    /\ \A m \in marks : LastBehind(whole, all, m) \/ Coded(whole, all, marks, m)
    /\ out = Piece(whole, 0, Len(out))

Lz4BlockInv ==
    /\ text \in Seq(Nat) /\ chain \in Nat
    /\ anchor \in Nat /\ cursor \in Nat /\ anchor <= cursor /\ anchor <= Len(text)
    /\ anchor # 0 => anchor + EndBytes <= Len(text)
    /\ \A q \in finder : q \in Nat /\ q < cursor
    /\ packed \in Seq(Nat)
    /\ packing \in {"coding", "decoding", "done"}
    /\ packing = "coding" => /\ unread = 0 /\ unpacked = <<>>
                             /\ \E marks : CodedUpTo(marks, text, packed, anchor)
    /\ packing = "decoding" => \E marks : DecodedUpTo(marks, text, packed, unread, unpacked)
    /\ packing = "done" => unpacked = text

\* The longest common beginning is common.
Common(left, right, n) == \A i \in 0..(n - 1) : TextAt(left + i) = TextAt(right + i)

LEMMA CommonIs ==
    ASSUME NEW left \in Nat, NEW right \in Nat, NEW limit \in Nat
    PROVE  /\ CommonLength(left, right, limit) \in 0..limit
           /\ Common(left, right, CommonLength(left, right, limit))
           /\ \A n \in 0..limit :
                 Common(left, right, n) => n <= CommonLength(left, right, limit)
<1> DEFINE s == {n \in 0..limit : Common(left, right, n)}
<1>1. CommonLength(left, right, limit) = Max(s)
  BY DEF CommonLength, Common
<1>2. 0 \in s
  BY DEF Common
<1>3. s \in SUBSET (0..limit) /\ s # {}
  BY <1>2
<1>4. Max(s) \in s /\ \A y \in s : y <= Max(s)
  <2> HIDE DEF s
  <2> QED BY <1>3, GreatestIn
<1> DEFINE most == Max(s)
<1>5. CommonLength(left, right, limit) = most /\ most \in s /\ \A y \in s : y <= most
  BY <1>1, <1>4
<1> HIDE DEF most
<1> QED BY <1>5

\* A match that is found: it begins before, near enough, is long enough, ends
\* before the end, and is the same.
IsFound(match) ==
    /\ match.from \in Nat /\ match.from < cursor /\ cursor - match.from <= Reach
    /\ match.length \in Nat /\ Shortest <= match.length
    /\ cursor + match.length + EndBytes <= Len(text)
    /\ Common(cursor, match.from, match.length)

\* As found at a place: long enough, by its length.
LEMMA FoundAt ==
    ASSUME Lz4BlockInv, Looking, NEW q \in finder, cursor - q <= Reach,
           Shortest <= CommonLength(cursor, q, Len(text) - cursor - EndBytes)
    PROVE  IsFound([length |-> CommonLength(cursor, q, Len(text) - cursor - EndBytes),
                    from |-> q])
<1> DEFINE limit == Len(text) - cursor - EndBytes
           n == CommonLength(cursor, q, limit)
<1>1. /\ cursor \in Nat /\ q \in Nat /\ q < cursor /\ text \in Seq(Nat) /\ Len(text) \in Nat
      /\ cursor + LastStart <= Len(text)
  BY DEF Lz4BlockInv, Looking
<1>2. limit \in Nat /\ cursor + limit + EndBytes = Len(text) /\ EndBytes \in Nat
  BY <1>1, BlockNumbers DEF Shortest
<1> HIDE DEF limit
<1>3. n \in 0..limit /\ Common(cursor, q, n)
  BY <1>1, <1>2, CommonIs
<1>4. Shortest <= n
  BY DEF limit
<1> DEFINE match == [length |-> n, from |-> q]
<1> HIDE DEF n
<1>5. match.length = n /\ match.from = q
  OBVIOUS
<1>6. cursor + n + EndBytes <= Len(text)
  BY <1>1, <1>2, <1>3
<1> HIDE DEF match
<1>7. IsFound(match)
  BY <1>1, <1>3, <1>4, <1>5, <1>6 DEF IsFound
<1> QED BY <1>7 DEF match, n, limit

\* Four bytes are the same: so long is what is common at least.
LEMMA FourAreCommon ==
    ASSUME Lz4BlockInv, Looking, NEW q \in finder,
           Cut(q, q + Shortest) = Cut(cursor, cursor + Shortest)
    PROVE  Shortest <= CommonLength(cursor, q, Len(text) - cursor - EndBytes)
<1> DEFINE limit == Len(text) - cursor - EndBytes
<1>1. /\ cursor \in Nat /\ q \in Nat /\ q < cursor /\ text \in Seq(Nat) /\ Len(text) \in Nat
      /\ cursor + LastStart <= Len(text)
  BY DEF Lz4BlockInv, Looking
<1>2. limit \in Nat /\ 4 <= limit /\ cursor + 4 <= Len(text) /\ q + 4 <= Len(text)
  BY <1>1, BlockNumbers DEF Shortest
<1> HIDE DEF limit
<1> DEFINE a == SubSeq(text, q + 1, q + 4)
           b == SubSeq(text, cursor + 1, cursor + 4)
<1>3. a = b
  BY DEF Cut, Shortest
<1>4. \A i \in 1..4 : a[i] = text[i + q]
  BY <1>1, <1>2, SubSeqIs
<1>5. \A i \in 1..4 : b[i] = text[i + cursor]
  BY <1>1, <1>2, SubSeqIs
<1> HIDE DEF a, b
<1>6. ASSUME NEW i \in 0..3
      PROVE  TextAt(cursor + i) = TextAt(q + i)
  <2> DEFINE j == i + 1
  <2>1. j \in 1..4 /\ j + q = (q + i) + 1 /\ j + cursor = (cursor + i) + 1
    BY <1>1
  <2>2. text[j + q] = text[j + cursor]
    <3> HIDE DEF j
    <3> QED BY <1>3, <1>4, <1>5, <2>1
  <2> QED BY <2>1, <2>2 DEF TextAt
<1>7. Common(cursor, q, 4)
  BY <1>6 DEF Common
<1>8. 4 \in 0..limit
  BY <1>2
<1>9. 4 <= CommonLength(cursor, q, limit)
  BY <1>1, <1>2, <1>7, <1>8, CommonIs
<1> QED BY <1>9 DEF limit, Shortest

\* What the finders return, if anything, is such a match.
LEMMA LatestIsFound ==
    ASSUME Lz4BlockInv, Looking, LatestOf(cursor) # NoMatch
    PROVE  IsFound(LatestOf(cursor))
<1> DEFINE slot == {q \in finder : HashAt(q) = HashAt(cursor)}
           latest == Max(slot)
           match == [length |-> CommonLength(cursor, latest, Len(text) - cursor - EndBytes),
                     from |-> latest]
           none == \/ slot = {} \/ cursor - latest > Reach
                   \/ Cut(latest, latest + Shortest) # Cut(cursor, cursor + Shortest)
<1>1. LatestOf(cursor) = IF none THEN NoMatch ELSE match
  BY DEF LatestOf
<1>2. ~none /\ LatestOf(cursor) = match
  BY <1>1, Zenon
<1>3. /\ slot # {} /\ ~(cursor - latest > Reach)
      /\ Cut(latest, latest + Shortest) = Cut(cursor, cursor + Shortest)
  BY <1>2
<1>4. latest \in slot
  <2>1. cursor \in Nat /\ slot \in SUBSET (0..cursor)
    BY DEF Lz4BlockInv
  <2> HIDE DEF slot
  <2> QED BY <1>3, <2>1, GreatestIn
<1>5. latest \in finder
  BY <1>4
<1> HIDE DEF latest, none
<1>6. cursor - latest <= Reach
  <2>1. latest \in Nat /\ cursor \in Nat /\ Reach \in Nat
    BY <1>5, BlockNumbers DEF Lz4BlockInv
  <2> QED BY <1>3, <2>1
<1>7. IsFound(match)
  BY <1>3, <1>5, <1>6, FourAreCommon, FoundAt
<1> QED BY <1>2, <1>7

\* And that of the chain.

LEMMA BestIsFound ==
    ASSUME Lz4BlockInv, Looking, BestOf(cursor) # NoMatch
    PROVE  IsFound(BestOf(cursor))
<1> DEFINE near == {q \in finder : cursor - q <= Reach /\ HashAt(q) = HashAt(cursor)}
           searched == {q \in near : Cardinality({p \in near : p > q}) < chain}
           length == [q \in searched |->
                         CommonLength(cursor, q, Len(text) - cursor - EndBytes)]
           longest == {q \in searched :
                          length[q] >= Shortest /\ \A p \in searched : length[p] <= length[q]}
           place == Max(longest)
           match == [length |-> length[place], from |-> place]
<1>1. BestOf(cursor) = IF longest = {} THEN NoMatch ELSE match
  BY DEF BestOf
<1>2. longest # {} /\ BestOf(cursor) = match
  BY <1>1, Zenon
<1>3. longest \in SUBSET (0..cursor) /\ cursor \in Nat
  <2>1. \A q \in near : q \in 0..cursor
    BY DEF Lz4BlockInv
  <2>2. searched \subseteq near
    OBVIOUS
  <2>3. longest \subseteq searched
    OBVIOUS
  <2>4. cursor \in Nat
    BY DEF Lz4BlockInv
  <2> HIDE DEF near, searched, longest
  <2> QED BY <2>1, <2>2, <2>3, <2>4
<1>4. place \in longest
  <2> HIDE DEF longest
  <2> QED BY <1>2, <1>3, GreatestIn
<1>5. place \in searched /\ length[place] >= Shortest
  <2> HIDE DEF place, searched, length
  <2> QED BY <1>4
<1>6. place \in finder /\ cursor - place <= Reach
  <2> HIDE DEF place
  <2> QED BY <1>5
<1>7. length[place] = CommonLength(cursor, place, Len(text) - cursor - EndBytes)
  <2> HIDE DEF place, searched
  <2> QED BY <1>5
<1> HIDE DEF place, searched, length
<1>8. Shortest <= CommonLength(cursor, place, Len(text) - cursor - EndBytes)
  <2> DEFINE x == length[place]
  <2>1. x >= Shortest
    BY <1>5
  <2> HIDE DEF x
  <2>2. Shortest <= x
    BY <2>1
  <2> QED BY <1>7, <2>2 DEF x
<1>9. IsFound([length |-> CommonLength(cursor, place, Len(text) - cursor - EndBytes),
               from |-> place])
  BY <1>6, <1>8, FoundAt
<1> QED BY <1>2, <1>7, <1>9

\* And so what the encoder looks at.

LEMMA MatchIsFound ==
    ASSUME Lz4BlockInv, Looking, MatchHere # NoMatch
    PROVE  IsFound(MatchHere)
<1>1. CASE Fast
  <2>1. MatchHere = LatestOf(cursor)
    BY <1>1 DEF MatchHere
  <2> QED BY <2>1, LatestIsFound
<1>2. CASE ~Fast
  <2>1. MatchHere = BestOf(cursor)
    BY <1>2 DEF MatchHere
  <2> QED BY <2>1, BestIsFound
<1> QED BY <1>1, <1>2

\* How far a match goes back.
Alike(i, from, n) == \A k \in 1..n : TextAt(i - k) = TextAt(from - k)

\* Not before the literals held back, nor before the block.

LEMMA BackwardsIs ==
    ASSUME NEW i \in Nat, NEW from \in Nat, anchor \in Nat, anchor <= i
    PROVE  /\ Backwards(i, from) \in Nat
           /\ Backwards(i, from) <= i - anchor /\ Backwards(i, from) <= from
           /\ Alike(i, from, Backwards(i, from))
<1> DEFINE most == AtMostOf(i - anchor, from)
           s == {n \in 0..most : Alike(i, from, n)}
<1>1. Backwards(i, from) = Max(s)
  BY DEF Backwards, Alike
<1>2. most \in Nat /\ most <= i - anchor /\ most <= from
  BY DEF AtMostOf
<1> HIDE DEF most
<1>3. 0 \in s
  BY <1>2 DEF Alike
<1>4. s \in SUBSET (0..most) /\ s # {}
  BY <1>3
<1> DEFINE back == Max(s)
<1>5. back \in s
  <2> HIDE DEF s
  <2> QED BY <1>2, <1>4, GreatestIn
<1> HIDE DEF back
<1>6. back \in 0..most /\ Alike(i, from, back)
  BY <1>5
<1>7. back \in Nat /\ back <= i - anchor /\ back <= from
  BY <1>2, <1>6
<1> QED BY <1>1, <1>6, <1>7 DEF back

\* A match found and what it is longer by are a match of the block.
LEMMA FoundCopies ==
    ASSUME Lz4BlockInv, Looking, NEW match, IsFound(match),
           NEW back, back = Backwards(cursor, match.from)
    PROVE  /\ back \in Nat /\ cursor - back \in Nat /\ anchor <= cursor - back
           /\ cursor - match.from \in Nat /\ match.length + back \in Nat
           /\ BlockMatch(text, cursor - back, cursor - match.from, match.length + back)
<1> DEFINE from == match.from
           length == match.length
           c == cursor - back
           d == cursor - from
           n == length + back
<1>1. /\ from \in Nat /\ from < cursor /\ d <= Reach
      /\ length \in Nat /\ 4 <= length
      /\ cursor + length + EndBytes <= Len(text)
      /\ Common(cursor, from, length)
  BY DEF IsFound, Shortest
<1>2. /\ cursor \in Nat /\ anchor \in Nat /\ anchor <= cursor /\ text \in Seq(Nat)
      /\ Len(text) \in Nat /\ EndBytes \in Nat /\ Reach \in Nat
  BY BlockNumbers DEF Lz4BlockInv
<1> HIDE DEF from, length
<1>3. back \in Nat /\ back <= cursor - anchor /\ back <= from /\ Alike(cursor, from, back)
  BY <1>1, <1>2, BackwardsIs DEF from
<1>4. /\ c \in Nat /\ anchor <= c /\ d \in 1..Reach /\ d <= c /\ n \in Nat /\ 4 <= n
      /\ c + n = cursor + length /\ c + n <= Len(text)
  <2>1. /\ from \in Nat /\ from < cursor /\ d <= Reach /\ length \in Nat /\ 4 <= length
        /\ cursor + length + EndBytes <= Len(text)
    BY <1>1
  <2>2. back \in Nat /\ back <= cursor - anchor /\ back <= from
    BY <1>3
  <2>3. /\ cursor \in Nat /\ anchor \in Nat /\ anchor <= cursor
        /\ Len(text) \in Nat /\ EndBytes \in Nat /\ Reach \in Nat
    BY <1>2
  <2> DEFINE size == Len(text)
  <2> HIDE DEF size
  <2>4. size \in Nat /\ cursor + length + EndBytes <= size
    BY <2>1, <2>3 DEF size
  <2>5. c \in Nat /\ anchor <= c
    BY <2>2, <2>3
  <2>6. d \in 1..Reach /\ d <= c
    BY <2>1, <2>2, <2>3
  <2>7. n \in Nat /\ 4 <= n /\ c + n = cursor + length
    BY <2>1, <2>2, <2>3
  <2>8. c + n <= size
    BY <2>1, <2>3, <2>4, <2>7
  <2> QED BY <2>5, <2>6, <2>7, <2>8 DEF size
<1>5. ASSUME NEW i \in (c + 1)..(c + n)
      PROVE  text[i] = text[i - d]
  <2>1. CASE i <= cursor
    <3> DEFINE k == cursor + 1 - i
    <3>1. k \in 1..back /\ (cursor - k) + 1 = i /\ (from - k) + 1 = i - d
      BY <1>1, <1>2, <1>3, <2>1
    <3>2. TextAt(cursor - k) = TextAt(from - k)
      <4> HIDE DEF k
      <4> QED BY <1>3, <3>1 DEF Alike
    <3>3. text[(cursor - k) + 1] = text[(from - k) + 1]
      BY <3>2 DEF TextAt
    <3> HIDE DEF k, d
    <3> QED BY <3>1, <3>3
  <2>2. CASE ~(i <= cursor)
    <3> DEFINE k == i - cursor - 1
    <3>1. k \in 0..(length - 1) /\ (cursor + k) + 1 = i /\ (from + k) + 1 = i - d
      BY <1>1, <1>2, <1>3, <1>4, <2>2
    <3>2. TextAt(cursor + k) = TextAt(from + k)
      <4> HIDE DEF k
      <4> QED BY <1>1, <3>1 DEF Common
    <3>3. text[(cursor + k) + 1] = text[(from + k) + 1]
      BY <3>2 DEF TextAt
    <3> HIDE DEF k, d
    <3> QED BY <3>1, <3>3
  <2> QED BY <2>1, <2>2
<1>6. BlockMatch(text, c, d, n)
  <2> HIDE DEF c, d, n
  <2> QED BY <1>4, <1>5 DEF BlockMatch, Shortest
<1>7. d \in Nat
  BY <1>4
<1> QED BY <1>3, <1>4, <1>6, <1>7 DEF from, length

\* What stands between two marks still does when more is written.
LEMMA BetweenStill ==
    ASSUME NEW whole \in Seq(Nat), NEW all \in Seq(Nat), NEW more \in Seq(Nat),
           NEW m \in Nat \X Nat, NEW k, SequenceBetween(whole, all, m, k)
    PROVE  SequenceBetween(whole, all \o more, m, k)
<1> DEFINE l == m[2]
           p == m[1]
<1>0. l \in Nat /\ p \in Nat
  OBVIOUS
<1>1. PICK c \in Nat : \E d, n \in Nat :
        /\ l <= c
        /\ BlockMatch(whole, c, d, n)
        /\ StandsAt(WriteSequence(Piece(whole, l, c), d, n), p, all)
        /\ k = <<p + Len(WriteSequence(Piece(whole, l, c), d, n)), c + n>>
  BY DEF SequenceBetween
<1>2. PICK d \in Nat : \E n \in Nat :
        /\ l <= c
        /\ BlockMatch(whole, c, d, n)
        /\ StandsAt(WriteSequence(Piece(whole, l, c), d, n), p, all)
        /\ k = <<p + Len(WriteSequence(Piece(whole, l, c), d, n)), c + n>>
  BY <1>1
<1>3. PICK n \in Nat :
        /\ l <= c
        /\ BlockMatch(whole, c, d, n)
        /\ StandsAt(WriteSequence(Piece(whole, l, c), d, n), p, all)
        /\ k = <<p + Len(WriteSequence(Piece(whole, l, c), d, n)), c + n>>
  BY <1>2
<1>4. c <= Len(whole) /\ Shortest <= n
  <2>1. c + n <= Len(whole) /\ Shortest <= n /\ Len(whole) \in Nat
    BY <1>3 DEF BlockMatch
  <2> QED BY <2>1
<1>5. Piece(whole, l, c) \in Seq(Nat)
  <2> HIDE DEF l
  <2> QED BY <1>0, <1>3, <1>4, PieceIs
<1> DEFINE s == WriteSequence(Piece(whole, l, c), d, n)
<1>6. s \in Seq(Nat)
  BY <1>4, <1>5, SequenceType
<1>7. StandsAt(s, p, all \o more)
  <2>1. StandsAt(s, p, all)
    BY <1>3
  <2> HIDE DEF s, p
  <2> QED BY <1>0, <1>6, <2>1, StandsStill
<1>8. /\ m[2] <= c
      /\ BlockMatch(whole, c, d, n)
      /\ StandsAt(WriteSequence(Piece(whole, m[2], c), d, n), m[1], all \o more)
      /\ k = <<m[1] + Len(WriteSequence(Piece(whole, m[2], c), d, n)), c + n>>
  BY <1>3, <1>7
<1> QED BY <1>8, Zenon DEF SequenceBetween

\* And so does what a mark leads to, with more marks.

LEMMA CodedStill ==
    ASSUME NEW whole \in Seq(Nat), NEW all \in Seq(Nat), NEW more \in Seq(Nat),
           NEW marks, NEW also, NEW m \in Nat \X Nat, Coded(whole, all, marks, m)
    PROVE  Coded(whole, all \o more, marks \union also, m)
<1>1. PICK k \in marks : SequenceBetween(whole, all, m, k)
  BY DEF Coded
<1>2. SequenceBetween(whole, all \o more, m, k)
  BY <1>1, BetweenStill
<1>3. k \in marks \union also
  OBVIOUS
<1> QED BY <1>2, <1>3 DEF Coded

\* A sequence more: the literals held back, and a match.
LEMMA OneMore ==
    ASSUME NEW whole \in Seq(Nat), NEW all \in Seq(Nat), NEW marks, NEW place \in Nat,
           CodedUpTo(marks, whole, all, place),
           NEW c \in Nat, NEW d \in Nat, NEW n \in Nat, place <= c, BlockMatch(whole, c, d, n),
           NEW s, s = WriteSequence(Piece(whole, place, c), d, n)
    PROVE  /\ s \in Seq(Nat)
           /\ CodedUpTo(marks \union {<<Len(all \o s), c + n>>}, whole, all \o s, c + n)
<1> DEFINE front == <<Len(all), place>>
           next == <<Len(all \o s), c + n>>
           longer == marks \union {next}
<1>1. c <= Len(whole) /\ Shortest <= n
  <2>1. c + n <= Len(whole) /\ Shortest <= n /\ Len(whole) \in Nat
    BY DEF BlockMatch
  <2> QED BY <2>1
<1>2. Piece(whole, place, c) \in Seq(Nat)
  BY <1>1, PieceIs
<1>3. s \in Seq(Nat)
  BY <1>1, <1>2, SequenceType
<1>4. StandsAt(s, Len(all), all \o s) /\ Len(all \o s) = Len(all) + Len(s)
  BY <1>3, WrittenStands
<1>5. next \in Nat \X Nat /\ marks \in SUBSET (Nat \X Nat) /\ <<0, 0>> \in marks
  <2>1. Len(all) \in Nat /\ Len(s) \in Nat /\ c + n \in Nat
    BY <1>3
  <2>2. Len(all \o s) \in Nat
    BY <1>4, <2>1
  <2>3. marks \in SUBSET (Nat \X Nat) /\ <<0, 0>> \in marks
    BY DEF CodedUpTo
  <2> QED BY <2>1, <2>2, <2>3
<1> HIDE DEF next
<1>6. SequenceBetween(whole, all \o s, front, next)
  <2>1. front[1] = Len(all) /\ front[2] = place
    OBVIOUS
  <2>2. /\ place <= c /\ BlockMatch(whole, c, d, n)
        /\ StandsAt(WriteSequence(Piece(whole, place, c), d, n), Len(all), all \o s)
        /\ next = <<Len(all) + Len(WriteSequence(Piece(whole, place, c), d, n)), c + n>>
    BY <1>4 DEF next
  <2> HIDE DEF front
  <2>3. /\ front[2] <= c /\ BlockMatch(whole, c, d, n)
        /\ StandsAt(WriteSequence(Piece(whole, front[2], c), d, n), front[1], all \o s)
        /\ next = <<front[1] + Len(WriteSequence(Piece(whole, front[2], c), d, n)), c + n>>
    BY <2>1, <2>2
  <2> QED BY <2>3, Zenon DEF SequenceBetween
<1>7. ASSUME NEW m \in longer
      PROVE  m = next \/ Coded(whole, all \o s, longer, m)
  <2>1. CASE m = next
    BY <2>1
  <2>2. CASE m # next /\ m = front
    <3>1. SequenceBetween(whole, all \o s, m, next)
      BY <1>6, <2>2
    <3> QED BY <3>1 DEF Coded
  <2>3. CASE m # next /\ m # front
    <3>1. m \in marks /\ Coded(whole, all, marks, m)
      BY <2>3 DEF CodedUpTo
    <3>2. m \in Nat \X Nat
      BY <1>5, <3>1
    <3> QED BY <1>3, <3>1, <3>2, CodedStill
  <2> QED BY <2>1, <2>2, <2>3
<1>8. longer \in SUBSET (Nat \X Nat) /\ <<0, 0>> \in longer
  BY <1>5
<1> HIDE DEF longer
<1>9. CodedUpTo(longer, whole, all \o s, c + n)
  BY <1>7, <1>8, Zenon DEF CodedUpTo, next
<1> QED BY <1>3, <1>9 DEF longer, next

\* Places inserted are in front of the new cursor.
LEMMA InsertedIs ==
    ASSUME NEW places, NEW i \in Nat, NEW bound \in Nat, i < bound,
           \A q \in places : q \in Nat /\ q < bound
    PROVE  \A q \in Inserted(places, i) : q \in Nat /\ q < bound
<1>1. Inserted(places, i) = places \/ Inserted(places, i) = places \union {i}
  BY Zenon DEF Inserted
<1> QED BY <1>1

\* The steps of the encoder.

LEMMA MissKeeps ==
    ASSUME Lz4BlockInv, Miss
    PROVE  Lz4BlockInv'
<1>1. /\ finder' = Inserted(finder, cursor)
      /\ cursor' = cursor + 1 + IF Fast THEN (cursor - anchor) \div SkipEvery ELSE 0
      /\ UNCHANGED <<text, chain, anchor, packed, unread, unpacked, packing>>
  BY DEF Miss
<1>2. cursor \in Nat /\ anchor \in Nat /\ anchor <= cursor
  BY DEF Lz4BlockInv
<1>3. cursor' \in Nat /\ cursor < cursor'
  <2> DEFINE skip == IF Fast THEN (cursor - anchor) \div SkipEvery ELSE 0
  <2>1. skip \in Nat
    <3>1. cursor - anchor \in Nat /\ SkipEvery \in Nat \ {0}
      BY <1>2, BlockNumbers
    <3>2. (cursor - anchor) \div SkipEvery \in Nat
      BY <3>1, Division
    <3> QED BY <3>2
  <2> HIDE DEF skip
  <2>2. cursor' = cursor + 1 + skip
    BY <1>1 DEF skip
  <2> QED BY <1>2, <2>1, <2>2
<1>4. \A q \in finder : q \in Nat /\ q < cursor'
  <2>1. \A q \in finder : q \in Nat /\ q < cursor
    BY DEF Lz4BlockInv
  <2> QED BY <1>2, <1>3, <2>1
<1>5. \A q \in finder' : q \in Nat /\ q < cursor'
  <2> DEFINE places == finder
             bound == cursor'
  <2>1. \A q \in places : q \in Nat /\ q < bound
    BY <1>4
  <2>2. bound \in Nat /\ cursor < bound
    BY <1>3
  <2> HIDE DEF places, bound
  <2>3. \A q \in Inserted(places, cursor) : q \in Nat /\ q < bound
    BY <1>2, <2>1, <2>2, InsertedIs
  <2> QED BY <1>1, <2>3 DEF places, bound
<1>6. anchor <= cursor'
  BY <1>2, <1>3
<1> QED BY <1>1, <1>3, <1>5, <1>6 DEF Lz4BlockInv

\* A match is written with the literals before it, and the literals held back
\* begin behind it.

LEMMA HitKeeps ==
    ASSUME Lz4BlockInv, Hit
    PROVE  Lz4BlockInv'
<1> DEFINE match == MatchHere
           back == Backwards(cursor, match.from)
           end == cursor + match.length
           c == cursor - back
           d == cursor - match.from
           n == match.length + back
           s == WriteSequence(Cut(anchor, c), d, n)
<1>1. /\ Looking /\ match # NoMatch
      /\ packed' = packed \o s
      /\ finder' = Inserted(IF Fast THEN Inserted(finder, cursor) ELSE finder, end - 2)
      /\ cursor' = end /\ anchor' = end
      /\ UNCHANGED <<text, chain, unread, unpacked, packing>>
  <2> HIDE DEF match
  <2>1. MatchHere = match
    BY DEF match
  <2> QED BY <2>1 DEF Hit
<1> HIDE DEF match
<1>2. IsFound(match)
  BY <1>1, MatchIsFound DEF match
<1>3. /\ cursor \in Nat /\ anchor \in Nat /\ text \in Seq(Nat) /\ packed \in Seq(Nat)
      /\ packing = "coding" /\ unread = 0 /\ unpacked = <<>> /\ chain \in Nat
      /\ \A q \in finder : q \in Nat /\ q < cursor
  BY <1>1 DEF Lz4BlockInv, Looking
<1>4. /\ c \in Nat /\ anchor <= c /\ d \in Nat /\ n \in Nat
      /\ BlockMatch(text, c, d, n) /\ back \in Nat
  BY <1>1, <1>2, FoundCopies
<1>5. /\ end \in Nat /\ cursor + 4 <= end /\ end + EndBytes <= Len(text)
      /\ EndBytes \in Nat /\ Len(text) \in Nat
  <2> DEFINE length == match.length
             size == Len(text)
  <2>1. length \in Nat /\ 4 <= length /\ cursor + length + EndBytes <= size
    BY <1>2 DEF IsFound, Shortest
  <2>2. EndBytes \in Nat /\ size \in Nat /\ cursor \in Nat
    BY <1>3, BlockNumbers
  <2> HIDE DEF length, size
  <2>3. /\ cursor + length \in Nat /\ cursor + 4 <= cursor + length
        /\ cursor + length + EndBytes <= size
    BY <2>1, <2>2
  <2> QED BY <2>2, <2>3 DEF length, size
<1>6. c + n = end
  <2>1. match.length \in Nat
    BY <1>2 DEF IsFound
  <2> HIDE DEF back
  <2> QED BY <1>3, <1>4, <2>1
<1> HIDE DEF back, c, d, n, end
<1>7. s = WriteSequence(Piece(text, anchor, c), d, n)
  BY DEF Cut, Piece
<1> HIDE DEF s
<1>8. PICK marks : CodedUpTo(marks, text, packed, anchor)
  BY <1>3 DEF Lz4BlockInv
<1>9. /\ s \in Seq(Nat)
      /\ CodedUpTo(marks \union {<<Len(packed \o s), c + n>>}, text, packed \o s, c + n)
  <2> DEFINE all == packed
             whole == text
             place == anchor
  <2>1. /\ all \in Seq(Nat) /\ whole \in Seq(Nat) /\ place \in Nat
        /\ CodedUpTo(marks, whole, all, place) /\ place <= c /\ BlockMatch(whole, c, d, n)
        /\ s = WriteSequence(Piece(whole, place, c), d, n)
    BY <1>3, <1>4, <1>7, <1>8
  <2> HIDE DEF all, whole, place
  <2>2. /\ s \in Seq(Nat)
        /\ CodedUpTo(marks \union {<<Len(all \o s), c + n>>}, whole, all \o s, c + n)
    BY <1>4, <2>1, OneMore
  <2> QED BY <2>2 DEF all, whole, place
<1>10. \E all : CodedUpTo(all, text', packed', anchor')
  <2>1. CodedUpTo(marks \union {<<Len(packed \o s), c + n>>}, text, packed \o s, end)
    BY <1>6, <1>9
  <2>2. text' = text /\ packed' = packed \o s /\ anchor' = end
    BY <1>1
  <2>3. CodedUpTo(marks \union {<<Len(packed \o s), c + n>>}, text', packed', anchor')
    BY <2>1, <2>2, Zenon
  <2> QED BY <2>3
<1>11. packed' \in Seq(Nat)
  BY <1>1, <1>3, <1>9
<1>12. \A q \in finder' : q \in Nat /\ q < end
  <2> DEFINE first == IF Fast THEN Inserted(finder, cursor) ELSE finder
  <2>1. \A q \in finder : q \in Nat /\ q < end
    BY <1>3, <1>5
  <2>2. cursor < end /\ end - 2 \in Nat /\ end - 2 < end
    BY <1>3, <1>5
  <2>3. \A q \in Inserted(finder, cursor) : q \in Nat /\ q < end
    BY <1>3, <1>5, <2>1, <2>2, InsertedIs
  <2>4. \A q \in first : q \in Nat /\ q < end
    <3>1. first = finder \/ first = Inserted(finder, cursor)
      OBVIOUS
    <3> HIDE DEF first
    <3> QED BY <2>1, <2>3, <3>1
  <2> HIDE DEF first
  <2> DEFINE e == end - 2
  <2>5. e \in Nat /\ e < end
    BY <2>2
  <2> HIDE DEF e
  <2>6. \A q \in Inserted(first, e) : q \in Nat /\ q < end
    BY <1>5, <2>4, <2>5, InsertedIs
  <2>7. finder' = Inserted(first, e)
    BY <1>1 DEF first, e
  <2> QED BY <2>6, <2>7
<1>13. end <= Len(text)
  BY <1>5
<1> QED BY <1>1, <1>3, <1>5, <1>10, <1>11, <1>12, <1>13 DEF Lz4BlockInv

\* The last literals are written, and the decoder begins.

LEMMA EndCodingKeeps ==
    ASSUME Lz4BlockInv, EndBlockCoding
    PROVE  Lz4BlockInv'
<1> DEFINE s == WriteLastLiterals(Piece(text, anchor, Len(text)))
           size == Len(text)
           more == packed \o s
<1>1. /\ packing = "coding" /\ packed' = packed \o s /\ packing' = "decoding"
      /\ UNCHANGED <<text, chain, anchor, cursor, finder, unread, unpacked>>
  BY DEF EndBlockCoding, Cut, Piece
<1>2. /\ text \in Seq(Nat) /\ packed \in Seq(Nat) /\ anchor \in Nat /\ anchor <= size
      /\ size \in Nat /\ unread = 0 /\ unpacked = <<>>
  BY <1>1 DEF Lz4BlockInv
<1>3. PICK marks : CodedUpTo(marks, text, packed, anchor)
  BY <1>1 DEF Lz4BlockInv
<1>4. Piece(text, anchor, size) \in Seq(Nat)
  <2> DEFINE whole == text
             l == anchor
  <2>1. whole \in Seq(Nat) /\ l \in Nat /\ size \in Nat /\ l <= size /\ size <= Len(whole)
    BY <1>2
  <2> HIDE DEF whole, l, size
  <2>2. Piece(whole, l, size) \in Seq(Nat)
    BY <2>1, PieceIs
  <2> QED BY <2>2 DEF whole, l
<1>5. s \in Seq(Nat)
  BY <1>4, LastType
<1>6. StandsAt(s, Len(packed), more) /\ Len(more) = Len(packed) + Len(s)
  <2> DEFINE all == packed
  <2>1. all \in Seq(Nat)
    BY <1>2
  <2> HIDE DEF all, s
  <2>2. StandsAt(s, Len(all), all \o s) /\ Len(all \o s) = Len(all) + Len(s)
    BY <1>5, <2>1, WrittenStands
  <2> QED BY <2>2 DEF all
<1>7. more \in Seq(Nat)
  <2> HIDE DEF s
  <2> QED BY <1>2, <1>5
<1>8. ASSUME NEW m \in marks
      PROVE  LastBehind(text, more, m) \/ Coded(text, more, marks, m)
  <2> DEFINE front == <<Len(packed), anchor>>
  <2>1. CASE m = front
    <3>1. m[1] = Len(packed) /\ m[2] = anchor
      BY <2>1
    <3>2. /\ m[2] <= Len(text)
          /\ StandsAt(WriteLastLiterals(Piece(text, m[2], Len(text))), m[1], more)
          /\ m[1] + Len(WriteLastLiterals(Piece(text, m[2], Len(text)))) = Len(more)
      <4> HIDE DEF more
      <4> QED BY <1>2, <1>6, <3>1
    <3> HIDE DEF more
    <3> QED BY <3>2, Zenon DEF LastBehind
  <2>2. CASE m # front
    <3> DEFINE whole == text
               all == packed
    <3>1. Coded(whole, all, marks, m) /\ m \in Nat \X Nat
      BY <1>3, <2>2 DEF CodedUpTo
    <3>2. whole \in Seq(Nat) /\ all \in Seq(Nat)
      BY <1>2
    <3> HIDE DEF whole, all, s
    <3>3. Coded(whole, all \o s, marks \union {}, m)
      BY <1>5, <3>1, <3>2, CodedStill
    <3>4. marks \union {} = marks
      OBVIOUS
    <3>5. Coded(whole, all \o s, marks, m)
      BY <3>3, <3>4
    <3> QED BY <3>5 DEF whole, all
  <2> QED BY <2>1, <2>2
<1> HIDE DEF more, s
<1>9. unpacked = Piece(text, 0, Len(unpacked)) /\ Len(unpacked) = 0
  <2> DEFINE whole == text
             piece == Piece(whole, 0, 0)
  <2>1. whole \in Seq(Nat) /\ 0 \in Nat /\ 0 <= Len(whole)
    BY <1>2
  <2> HIDE DEF whole
  <2>2. piece \in Seq(Nat) /\ Len(piece) = 0
    BY <2>1, FrontIs
  <2> HIDE DEF piece
  <2>3. piece = <<>>
    BY <2>2
  <2>4. Len(unpacked) = 0
    BY <1>2
  <2> QED BY <1>2, <2>3, <2>4 DEF piece, whole
<1>10. DecodedUpTo(marks, text, more, unread, unpacked)
  <2>1. marks \in SUBSET (Nat \X Nat) /\ <<0, 0>> \in marks
    BY <1>3 DEF CodedUpTo
  <2>2. <<unread, Len(unpacked)>> \in marks
    BY <1>2, <1>9, <2>1
  <2> QED BY <1>8, <1>9, <2>1, <2>2, Zenon DEF DecodedUpTo
<1>11. \E all : DecodedUpTo(all, text', packed', unread', unpacked')
  <2>1. text' = text /\ packed' = more /\ unread' = unread /\ unpacked' = unpacked
    BY <1>1 DEF more
  <2>2. DecodedUpTo(marks, text', packed', unread', unpacked')
    BY <1>10, <2>1, Zenon
  <2> QED BY <2>2
<1>12. packed' \in Seq(Nat)
  BY <1>1, <1>7 DEF more
<1> QED BY <1>1, <1>11, <1>12 DEF Lz4BlockInv

\* How the decoder goes on behind the literals: at the end, and with a match.
LEMMA RestEnds ==
    ASSUME NEW out, NEW at, NEW nibble, DecodeRest(out, at, nibble), at = Len(packed)
    PROVE  unpacked' = out /\ packing' = "done"
  BY DEF DecodeRest

LEMMA RestCopies ==
    ASSUME NEW out, NEW at, NEW nibble, DecodeRest(out, at, nibble),
           at # Len(packed),
           NEW distance, distance = packed[at + 1],
           NEW n, NEW end, LengthAt(at + 1, nibble) = [length |-> n, at |-> end],
           end # -1, ~(Len(out) + n + Shortest > Len(text)),
           distance # 0, ~(distance > Len(out)), end # Len(packed)
    PROVE  /\ unpacked' = ExtendMatch(out, distance, n + Shortest)
           /\ unread' = end /\ packing' = "decoding"
<1> DEFINE match == [length |-> n, at |-> end]
<1>1. match.length = n /\ match.at = end
  OBVIOUS
<1>2. IF \/ match.at = -1
         \/ Len(out) + match.length + Shortest > Len(text)
         \/ distance = 0 \/ distance > Len(out)
      THEN Refuse
      ELSE /\ unpacked' = ExtendMatch(out, distance, match.length + Shortest)
           /\ unread' = match.at
           /\ packing' = IF match.at = Len(packed) THEN "done" ELSE "decoding"
  BY Zenon DEF DecodeRest
<1> HIDE DEF match
<1>3. ~(\/ match.at = -1 \/ Len(out) + match.length + Shortest > Len(text)
        \/ distance = 0 \/ distance > Len(out))
  BY <1>1
<1> QED BY <1>1, <1>2, <1>3, Zenon

\* How it gets there.
LEMMA LiteralsThen ==
    ASSUME DecodeSequence, NEW token, token = packed[unread + 1],
           NEW n, NEW at,
           LengthAt(unread + 1, token \div (NibbleMax + 1)) = [length |-> n, at |-> at],
           at # -1, ~(at + n > Len(packed)), ~(Len(unpacked) + n > Len(text))
    PROVE  /\ DecodeRest(unpacked \o SubSeq(packed, at + 1, at + n), at + n,
                         token % (NibbleMax + 1))
           /\ UNCHANGED <<text, chain, anchor, cursor, finder, packed>>
<1> DEFINE literals == [length |-> n, at |-> at]
<1>1. literals.length = n /\ literals.at = at
  OBVIOUS
<1>2. /\ IF \/ literals.at = -1
            \/ literals.at + literals.length > Len(packed)
            \/ Len(unpacked) + literals.length > Len(text)
         THEN Refuse
         ELSE DecodeRest(
                  unpacked \o SubSeq(packed, literals.at + 1, literals.at + literals.length),
                  literals.at + literals.length, token % (NibbleMax + 1))
      /\ UNCHANGED <<text, chain, anchor, cursor, finder, packed>>
  BY Zenon DEF DecodeSequence
<1> HIDE DEF literals
<1>3. ~(\/ literals.at = -1
        \/ literals.at + literals.length > Len(packed)
        \/ Len(unpacked) + literals.length > Len(text))
  BY <1>1
<1> QED BY <1>1, <1>2, <1>3, Zenon

\* A sequence between two marks, read part by part.
ReadsBetween(whole, all, p, l, k, c, d, n) ==
    /\ l <= c /\ BlockMatch(whole, c, d, n) /\ Shortest <= n /\ c + n <= Len(whole)
    /\ Piece(whole, l, c) \in Seq(Nat) /\ Len(Piece(whole, l, c)) = c - l
    /\ SequenceStands(Piece(whole, l, c), d, n, p, all)
    /\ k = <<p + Len(WriteSequence(Piece(whole, l, c), d, n)), c + n>>

LEMMA BetweenReads ==
    ASSUME NEW whole \in Seq(Nat), NEW all \in Seq(Nat), NEW p \in Nat, NEW l \in Nat,
           NEW k, SequenceBetween(whole, all, <<p, l>>, k)
    PROVE  \E c, d, n \in Nat : ReadsBetween(whole, all, p, l, k, c, d, n)
<1>1. \E c, d, n \in Nat :
        /\ l <= c
        /\ BlockMatch(whole, c, d, n)
        /\ StandsAt(WriteSequence(Piece(whole, l, c), d, n), p, all)
        /\ k = <<p + Len(WriteSequence(Piece(whole, l, c), d, n)), c + n>>
  <2> DEFINE m == <<p, l>>
  <2>1. m[1] = p /\ m[2] = l
    OBVIOUS
  <2>2. SequenceBetween(whole, all, m, k)
    OBVIOUS
  <2> HIDE DEF m
  <2>3. \E c, d, n \in Nat :
        /\ m[2] <= c
        /\ BlockMatch(whole, c, d, n)
        /\ StandsAt(WriteSequence(Piece(whole, m[2], c), d, n), m[1], all)
        /\ k = <<m[1] + Len(WriteSequence(Piece(whole, m[2], c), d, n)), c + n>>
    BY <2>2, Zenon DEF SequenceBetween
  <2> QED BY <2>1, <2>3, Zenon
<1>2. PICK c \in Nat : \E d, n \in Nat :
        /\ l <= c
        /\ BlockMatch(whole, c, d, n)
        /\ StandsAt(WriteSequence(Piece(whole, l, c), d, n), p, all)
        /\ k = <<p + Len(WriteSequence(Piece(whole, l, c), d, n)), c + n>>
  BY <1>1
<1>3. PICK d \in Nat : \E n \in Nat :
        /\ l <= c
        /\ BlockMatch(whole, c, d, n)
        /\ StandsAt(WriteSequence(Piece(whole, l, c), d, n), p, all)
        /\ k = <<p + Len(WriteSequence(Piece(whole, l, c), d, n)), c + n>>
  BY <1>2
<1>4. PICK n \in Nat :
        /\ l <= c
        /\ BlockMatch(whole, c, d, n)
        /\ StandsAt(WriteSequence(Piece(whole, l, c), d, n), p, all)
        /\ k = <<p + Len(WriteSequence(Piece(whole, l, c), d, n)), c + n>>
  BY <1>3
<1>5. c + n <= Len(whole) /\ Shortest <= n /\ Len(whole) \in Nat /\ d \in 1..Reach
  BY <1>4 DEF BlockMatch
<1>6. c <= Len(whole)
  BY <1>5
<1>7. Piece(whole, l, c) \in Seq(Nat) /\ Len(Piece(whole, l, c)) = c - l
  BY <1>4, <1>6, PieceIs
<1>8. SequenceStands(Piece(whole, l, c), d, n, p, all)
  <2> DEFINE literals == Piece(whole, l, c)
  <2>1. literals \in Seq(Nat) /\ StandsAt(WriteSequence(literals, d, n), p, all)
    BY <1>4, <1>7
  <2> HIDE DEF literals
  <2>2. SequenceStands(literals, d, n, p, all)
    BY <1>5, <2>1, SequenceParts
  <2> QED BY <2>2 DEF literals
<1>9. ReadsBetween(whole, all, p, l, k, c, d, n)
  BY <1>4, <1>5, <1>7, <1>8, Zenon DEF ReadsBetween
<1> QED BY <1>9

\* Something is written behind every mark.
LEMMA MarkInside ==
    ASSUME NEW whole \in Seq(Nat), NEW all \in Seq(Nat), NEW p \in Nat, NEW l \in Nat,
           NEW marks, LastBehind(whole, all, <<p, l>>) \/ Coded(whole, all, marks, <<p, l>>)
    PROVE  p < Len(all)
<1>0. Len(all) \in Nat
  OBVIOUS
<1>1. CASE LastBehind(whole, all, <<p, l>>)
  <2> DEFINE literals == Piece(whole, l, Len(whole))
             m == <<p, l>>
             size == Len(whole)
  <2>1. m[1] = p /\ m[2] = l /\ LastBehind(whole, all, m)
    BY <1>1
  <2> HIDE DEF m
  <2>2. /\ l <= size
        /\ StandsAt(WriteLastLiterals(literals), p, all)
        /\ p + Len(WriteLastLiterals(literals)) = Len(all)
    BY <2>1 DEF LastBehind
  <2>3. literals \in Seq(Nat)
    <3>1. size \in Nat /\ size <= Len(whole)
      OBVIOUS
    <3> HIDE DEF size
    <3>2. Piece(whole, l, size) \in Seq(Nat)
      BY <2>2, <3>1, PieceIs
    <3> QED BY <3>2 DEF size
  <2> HIDE DEF literals
  <2>4. LastStand(literals, p, all)
    BY <2>2, <2>3, LastParts
  <2>5. p + Len(WriteLastLiterals(literals))
        = p + 1 + Len(LengthBytes(Len(literals))) + Len(literals)
    BY <2>4 DEF LastStand
  <2>6. Len(literals) \in Nat /\ Len(LengthBytes(Len(literals))) \in Nat
    <3>1. Len(literals) \in Nat
      BY <2>3
    <3> QED BY <3>1, LengthBytesType
  <2> QED BY <1>0, <2>2, <2>5, <2>6
<1>2. CASE Coded(whole, all, marks, <<p, l>>)
  <2>1. PICK k \in marks : SequenceBetween(whole, all, <<p, l>>, k)
    BY <1>2 DEF Coded
  <2>2. PICK c \in Nat : \E d, n \in Nat : ReadsBetween(whole, all, p, l, k, c, d, n)
    BY <2>1, BetweenReads
  <2>3. PICK d \in Nat : \E n \in Nat : ReadsBetween(whole, all, p, l, k, c, d, n)
    BY <2>2
  <2>4. PICK n \in Nat : ReadsBetween(whole, all, p, l, k, c, d, n)
    BY <2>3
  <2> DEFINE literals == Piece(whole, l, c)
  <2>5. literals \in Seq(Nat) /\ SequenceStands(literals, d, n, p, all)
    BY <2>4 DEF ReadsBetween
  <2> HIDE DEF literals
  <2>6. p + 1 + Len(LengthBytes(Len(literals))) + Len(literals) + 1 <= Len(all)
    BY <2>5 DEF SequenceStands
  <2>7. Len(literals) \in Nat /\ Len(LengthBytes(Len(literals))) \in Nat
    <3>1. Len(literals) \in Nat
      BY <2>5
    <3> QED BY <3>1, LengthBytesType
  <2> QED BY <1>0, <2>6, <2>7
<1> QED BY <1>1, <1>2

\* The literals that the decoder reads, and what it has with them.
LEMMA LiteralsRead ==
    ASSUME text \in Seq(Nat), packed \in Seq(Nat), unread \in Nat, DecodeSequence,
           unpacked = Piece(text, 0, Len(unpacked)),
           NEW l \in Nat, l = Len(unpacked), NEW c \in Nat, l <= c, c <= Len(text),
           NEW literals, literals = Piece(text, l, c),
           NEW m \in Nat, NEW token, token = packed[unread + 1],
           token = TokenOf(Len(literals), m),
           NEW at, at = unread + 1 + Len(LengthBytes(Len(literals))),
           StandsAt(LengthBytes(Len(literals)), unread + 1, packed),
           StandsAt(literals, at, packed)
    PROVE  /\ at \in Nat /\ literals \in Seq(Nat) /\ Len(literals) \in Nat
           /\ DecodeRest(Piece(text, 0, c), at + Len(literals), Nibble(m))
           /\ UNCHANGED <<text, chain, anchor, cursor, finder, packed>>
<1> DEFINE count == Len(literals)
           p == unread + 1
           size == Len(packed)
<1>1. literals \in Seq(Nat) /\ count = c - l /\ count \in Nat
  <2>1. literals \in Seq(Nat) /\ count = c - l
    BY PieceIs
  <2> QED BY <2>1
<1>2. at \in Nat /\ p \in Nat /\ at = p + Len(LengthBytes(count)) /\ size \in Nat
  <2>1. Len(LengthBytes(count)) \in Nat
    BY <1>1, LengthBytesType
  <2> QED BY <2>1
<1>3. token \div (NibbleMax + 1) = Nibble(count) /\ token % (NibbleMax + 1) = Nibble(m)
  BY <1>1, TokenIs DEF TokenOf
<1>4. LengthAt(p, Nibble(count)) = [length |-> count, at |-> at]
  <2> HIDE DEF count, p
  <2>1. StandsAt(LengthBytes(count), p, packed)
    BY DEF count, p
  <2>2. LengthAt(p, Nibble(count)) = [length |-> count, at |-> p + Len(LengthBytes(count))]
    BY <1>1, <1>2, <2>1, LengthRead
  <2> QED BY <1>2, <2>2
<1>5. at + count <= size
  BY DEF StandsAt
<1>6. Len(unpacked) + count = c
  BY <1>1
<1> HIDE DEF count, p, size
<1>7. at # -1 /\ ~(at + count > size) /\ ~(Len(unpacked) + count > Len(text))
  <2>1. at + count \in Nat /\ Len(text) \in Nat
    BY <1>1, <1>2
  <2> QED BY <1>2, <1>5, <1>6, <2>1
<1>8. LengthAt(unread + 1, token \div (NibbleMax + 1)) = [length |-> count, at |-> at]
  BY <1>3, <1>4 DEF p
<1>9. /\ DecodeRest(unpacked \o SubSeq(packed, at + 1, at + count), at + count,
                    token % (NibbleMax + 1))
      /\ UNCHANGED <<text, chain, anchor, cursor, finder, packed>>
  BY <1>7, <1>8, LiteralsThen DEF size
<1>10. SubSeq(packed, at + 1, at + count) = literals
  BY <1>1, <1>2, StandingIs DEF count
<1>11. unpacked \o literals = Piece(text, 0, c)
  <2> DEFINE whole == text
  <2>1. whole \in Seq(Nat) /\ c <= Len(whole) /\ literals = Piece(whole, l, c)
        /\ unpacked = Piece(whole, 0, l)
    OBVIOUS
  <2> HIDE DEF whole
  <2>2. Piece(whole, 0, l) \o Piece(whole, l, c) = Piece(whole, 0, c)
    BY <2>1, PiecesJoin
  <2>3. unpacked \o literals = Piece(whole, 0, c)
    BY <2>1, <2>2
  <2> QED BY <2>3 DEF whole
<1>12. DecodeRest(Piece(text, 0, c), at + count, Nibble(m))
  BY <1>3, <1>9, <1>10, <1>11, Zenon
<1> QED BY <1>1, <1>2, <1>9, <1>12 DEF count

\* At a sequence, the decoder gets to the next mark.
LEMMA DecodesSequence ==
    ASSUME Lz4BlockInv, packing = "decoding", DecodeSequence,
           NEW marks, DecodedUpTo(marks, text, packed, unread, unpacked),
           Coded(text, packed, marks, <<unread, Len(unpacked)>>)
    PROVE  /\ packing' = "decoding"
           /\ DecodedUpTo(marks, text, packed, unread', unpacked')
           /\ UNCHANGED <<text, chain, anchor, cursor, finder, packed>>
<1> DEFINE p == unread
           l == Len(unpacked)
           whole == text
           all == packed
<1>1. /\ whole \in Seq(Nat) /\ all \in Seq(Nat)
      /\ marks \in SUBSET (Nat \X Nat) /\ <<p, l>> \in marks
      /\ unpacked = Piece(whole, 0, l)
      /\ \A m \in marks : LastBehind(whole, all, m) \/ Coded(whole, all, marks, m)
  BY Zenon DEF Lz4BlockInv, DecodedUpTo
<1>2. p \in Nat /\ l \in Nat
  BY <1>1
<1>3. PICK k \in marks : SequenceBetween(whole, all, <<p, l>>, k)
  BY DEF Coded
<1>4. \E c, d, n \in Nat : ReadsBetween(whole, all, p, l, k, c, d, n)
  <2> HIDE DEF p, l, whole, all
  <2> QED BY <1>1, <1>2, <1>3, BetweenReads
<1>5. PICK c \in Nat : \E d, n \in Nat : ReadsBetween(whole, all, p, l, k, c, d, n)
  BY <1>4
<1>6. PICK d \in Nat : \E n \in Nat : ReadsBetween(whole, all, p, l, k, c, d, n)
  BY <1>5
<1>7. PICK n \in Nat : ReadsBetween(whole, all, p, l, k, c, d, n)
  BY <1>6
<1> DEFINE literals == Piece(whole, l, c)
           count == Len(literals)
           token == all[p + 1]
           m == n - Shortest
           at == p + 1 + Len(LengthBytes(count))
           o == at + count
           end == o + 1 + Len(LengthBytes(m))
<1>8. /\ l <= c /\ BlockMatch(whole, c, d, n) /\ Shortest <= n /\ c + n <= Len(whole)
      /\ literals \in Seq(Nat)
      /\ SequenceStands(literals, d, n, p, all)
      /\ k = <<p + Len(WriteSequence(literals, d, n)), c + n>>
  BY <1>7, Zenon DEF ReadsBetween
<1>9. m \in Nat /\ m + Shortest = n
  BY <1>8 DEF Shortest
<1>10. c <= Len(whole) /\ Len(whole) \in Nat
  <2>1. Len(whole) \in Nat
    BY <1>1
  <2> QED BY <1>8, <2>1
<1>11. /\ token = TokenOf(count, m)
       /\ StandsAt(LengthBytes(count), p + 1, all)
       /\ StandsAt(literals, at, all)
       /\ o + 1 <= Len(all) /\ all[o + 1] = d
       /\ StandsAt(LengthBytes(m), o + 1, all)
       /\ p + Len(WriteSequence(literals, d, n)) = end
  <2> HIDE DEF literals
  <2> QED BY <1>8, Zenon DEF SequenceStands
<1>12. k = <<end, c + n>>
  BY <1>8, <1>11
<1>13. /\ at \in Nat /\ count \in Nat
       /\ DecodeRest(Piece(text, 0, c), at + count, Nibble(m))
       /\ UNCHANGED <<text, chain, anchor, cursor, finder, packed>>
  <2> HIDE DEF m, literals, at, token
  <2>1. at = unread + 1 + Len(LengthBytes(Len(literals))) /\ token = packed[unread + 1]
    BY DEF at, token
  <2>2. literals = Piece(text, l, c) /\ unpacked = Piece(text, 0, Len(unpacked))
    BY <1>1 DEF literals
  <2>3. /\ text \in Seq(Nat) /\ packed \in Seq(Nat) /\ unread \in Nat /\ l \in Nat
        /\ l <= c /\ c <= Len(text) /\ m \in Nat
    BY <1>1, <1>2, <1>8, <1>9, <1>10
  <2>4. /\ token = TokenOf(Len(literals), m)
        /\ StandsAt(LengthBytes(Len(literals)), unread + 1, packed)
        /\ StandsAt(literals, at, packed)
    BY <1>11
  <2>5. /\ at \in Nat /\ literals \in Seq(Nat) /\ Len(literals) \in Nat
        /\ DecodeRest(Piece(text, 0, c), at + Len(literals), Nibble(m))
        /\ UNCHANGED <<text, chain, anchor, cursor, finder, packed>>
    BY <2>1, <2>2, <2>3, <2>4, LiteralsRead
  <2> QED BY <2>5
<1>14. o \in Nat /\ Len(LengthBytes(m)) \in Nat /\ Len(all) \in Nat
  <2>1. Len(LengthBytes(m)) \in Nat
    <3> HIDE DEF m
    <3> QED BY <1>9, LengthBytesType
  <2>2. Len(all) \in Nat
    BY <1>1
  <2> QED BY <1>13, <2>1, <2>2
<1> HIDE DEF o, m, at, count, token, literals
<1>15. end \in Nat
  BY <1>14
<1>16. LengthAt(o + 1, Nibble(m)) = [length |-> m, at |-> end]
  <2> DEFINE q == o + 1
  <2>1. q \in Nat /\ StandsAt(LengthBytes(m), q, packed) /\ packed \in Seq(Nat)
    BY <1>1, <1>11, <1>14
  <2> HIDE DEF q
  <2>2. LengthAt(q, Nibble(m)) = [length |-> m, at |-> q + Len(LengthBytes(m))]
    BY <1>9, <2>1, LengthRead
  <2> QED BY <2>2 DEF q
<1>17. end < Len(all)
  <2>1. LastBehind(whole, all, k) \/ Coded(whole, all, marks, k)
    BY <1>1
  <2>2. c + n \in Nat
    OBVIOUS
  <2> DEFINE e == c + n
  <2>3. e \in Nat /\ k = <<end, e>>
    BY <1>12, <2>2
  <2> HIDE DEF e, end, whole, all
  <2>4. LastBehind(whole, all, <<end, e>>) \/ Coded(whole, all, marks, <<end, e>>)
    BY <2>1, <2>3
  <2> QED BY <1>1, <1>15, <2>3, <2>4, MarkInside
<1> DEFINE out == Piece(whole, 0, c)
           next == Piece(whole, 0, c + n)
<1>18. out \in Seq(Nat) /\ Len(out) = c
  <2> HIDE DEF whole
  <2> QED BY <1>1, <1>10, FrontIs
<1>19. 1 <= d /\ d <= c
  BY <1>8 DEF BlockMatch
<1>20. ExtendMatch(out, d, n) = next
  <2> HIDE DEF whole
  <2> QED BY <1>1, <1>8, CopyExtends
<1>21. Len(next) = c + n /\ c + n \in Nat
  <2> DEFINE e == c + n
  <2>1. e \in Nat /\ e <= Len(whole)
    BY <1>8
  <2> HIDE DEF e, whole
  <2>2. Len(Piece(whole, 0, e)) = e
    BY <1>1, <2>1, FrontIs
  <2> QED BY <2>1, <2>2 DEF e
<1>22. DecodeRest(out, o, Nibble(m))
  BY <1>13 DEF o
<1> HIDE DEF out, next, end
<1>23. /\ unpacked' = ExtendMatch(out, d, m + Shortest)
       /\ unread' = end /\ packing' = "decoding"
  <2>1. o # Len(packed) /\ end # -1 /\ end # Len(packed)
    BY <1>11, <1>14, <1>15, <1>17
  <2>2. ~(Len(out) + m + Shortest > Len(text)) /\ d # 0 /\ ~(d > Len(out))
    <3>1. Len(out) + m + Shortest = c + n
      BY <1>9, <1>18 DEF Shortest
    <3>2. c + n <= Len(text) /\ Len(text) \in Nat
      BY <1>8, <1>10
    <3> QED BY <1>18, <1>19, <3>1, <3>2
  <2>3. d = packed[o + 1]
    BY <1>11
  <2> QED BY <1>16, <1>22, <2>1, <2>2, <2>3, RestCopies
<1>24. unpacked' = next
  BY <1>9, <1>20, <1>23
<1>25. <<unread', Len(unpacked')>> \in marks
  BY <1>12, <1>21, <1>23, <1>24
<1>26. unpacked' = Piece(whole, 0, Len(unpacked'))
  <2>1. Len(unpacked') = c + n
    BY <1>21, <1>24
  <2>2. unpacked' = Piece(whole, 0, c + n)
    BY <1>24 DEF next
  <2> HIDE DEF whole
  <2> QED BY <2>1, <2>2
<1>27. DecodedUpTo(marks, text, packed, unread', unpacked')
  <2> DEFINE a == unread'
             b == unpacked'
  <2>1. /\ marks \in SUBSET (Nat \X Nat) /\ <<a, Len(b)>> \in marks
        /\ \A x \in marks : LastBehind(whole, all, x) \/ Coded(whole, all, marks, x)
        /\ b = Piece(whole, 0, Len(b))
    BY <1>1, <1>25, <1>26
  <2> HIDE DEF a, b, whole, all
  <2>2. DecodedUpTo(marks, whole, all, a, b)
    BY <2>1, Zenon DEF DecodedUpTo
  <2> QED BY <2>2 DEF a, b, whole, all
<1> QED BY <1>13, <1>23, <1>27

\* At the last literals, it gets to the end, and has the block.
LEMMA DecodesLast ==
    ASSUME Lz4BlockInv, packing = "decoding", DecodeSequence,
           NEW marks, DecodedUpTo(marks, text, packed, unread, unpacked),
           LastBehind(text, packed, <<unread, Len(unpacked)>>)
    PROVE  /\ packing' = "done" /\ unpacked' = text
           /\ UNCHANGED <<text, chain, anchor, cursor, finder, packed>>
<1> DEFINE p == unread
           l == Len(unpacked)
           whole == text
           all == packed
           size == Len(whole)
           literals == Piece(whole, l, size)
           count == Len(literals)
           token == all[p + 1]
           at == p + 1 + Len(LengthBytes(count))
<1>1. /\ whole \in Seq(Nat) /\ all \in Seq(Nat)
      /\ marks \in SUBSET (Nat \X Nat) /\ <<p, l>> \in marks
      /\ unpacked = Piece(whole, 0, l)
  BY Zenon DEF Lz4BlockInv, DecodedUpTo
<1>2. p \in Nat /\ l \in Nat
  BY <1>1
<1>3. size \in Nat
  BY <1>1
<1>4. /\ l <= size
      /\ StandsAt(WriteLastLiterals(literals), p, all)
      /\ p + Len(WriteLastLiterals(literals)) = Len(all)
  <2> DEFINE m == <<p, l>>
  <2>1. m[1] = p /\ m[2] = l /\ LastBehind(whole, all, m)
    OBVIOUS
  <2> HIDE DEF m
  <2> QED BY <2>1 DEF LastBehind
<1>5. literals \in Seq(Nat)
  <2> HIDE DEF whole, l, size
  <2>1. size <= Len(whole)
    BY <1>3 DEF size
  <2> QED BY <1>1, <1>2, <1>3, <1>4, <2>1, PieceIs
<1>6. LastStand(literals, p, all)
  <2> HIDE DEF literals, whole, all
  <2> QED BY <1>1, <1>2, <1>4, <1>5, LastParts
<1>7. /\ token = Nibble(count) * (NibbleMax + 1)
      /\ StandsAt(LengthBytes(count), p + 1, all)
      /\ StandsAt(literals, at, all)
      /\ at + count = Len(all)
  <2> HIDE DEF literals
  <2>1. /\ token = Nibble(count) * (NibbleMax + 1)
        /\ StandsAt(LengthBytes(count), p + 1, all)
        /\ StandsAt(literals, at, all)
        /\ p + Len(WriteLastLiterals(literals)) = at + count
    BY <1>6, Zenon DEF LastStand
  <2> QED BY <1>4, <2>1
<1>8. token = TokenOf(count, 0)
  <2>1. count \in Nat
    <3> HIDE DEF literals
    <3> QED BY <1>5
  <2>2. Nibble(count) \in Nat /\ NibbleMax \in Nat \ {0}
    BY <2>1, BlockNumbers, NibbleIs
  <2>3. Nibble(0) = 0
    BY <2>2 DEF Nibble, AtMostOf
  <2> DEFINE z == Nibble(count) * (NibbleMax + 1)
  <2>4. z \in Nat
    BY <2>2
  <2> HIDE DEF z
  <2>5. z + Nibble(0) = z
    BY <2>3, <2>4
  <2> HIDE DEF token, count
  <2> QED BY <1>7, <2>5 DEF z, TokenOf
<1>9. /\ DecodeRest(Piece(text, 0, size), at + count, Nibble(0))
      /\ UNCHANGED <<text, chain, anchor, cursor, finder, packed>>
  <2> HIDE DEF literals, at, token
  <2>1. at = unread + 1 + Len(LengthBytes(Len(literals))) /\ token = packed[unread + 1]
    BY DEF at, token
  <2>2. literals = Piece(text, l, size) /\ unpacked = Piece(text, 0, Len(unpacked))
    BY <1>1 DEF literals
  <2>3. 0 \in Nat /\ size <= Len(text)
    BY <1>3
  <2> HIDE DEF size
  <2> QED BY <1>1, <1>2, <1>3, <1>4, <1>7, <1>8, <2>1, <2>2, <2>3, LiteralsRead
<1> DEFINE o == at + count
           out == Piece(text, 0, size)
<1>10. DecodeRest(out, o, Nibble(0)) /\ o = Len(packed)
  BY <1>7, <1>9
<1>11. out = text
  <2>1. out \in Seq(Nat) /\ Len(out) = size /\ \A i \in 1..size : out[i] = whole[i]
    <3>1. size <= Len(whole)
      BY <1>3
    <3> HIDE DEF whole, size
    <3>2. /\ Piece(whole, 0, size) \in Seq(Nat) /\ Len(Piece(whole, 0, size)) = size
          /\ \A i \in 1..size : Piece(whole, 0, size)[i] = whole[i]
      BY <1>1, <1>3, <3>1, FrontIs
    <3> QED BY <3>2 DEF whole
  <2> HIDE DEF out
  <2>2. out = whole
    BY <1>1, <2>1, SeqEqual
  <2> QED BY <2>2
<1> HIDE DEF o, out
<1>12. unpacked' = out /\ packing' = "done"
  BY <1>10, RestEnds
<1> QED BY <1>9, <1>11, <1>12

\* A step of the decoder is one of the two.

LEMMA DecodeSequenceKeeps ==
    ASSUME Lz4BlockInv, DecodeSequence
    PROVE  Lz4BlockInv'
<1>1. packing = "decoding"
  BY DEF DecodeSequence
<1>2. PICK marks : DecodedUpTo(marks, text, packed, unread, unpacked)
  BY <1>1 DEF Lz4BlockInv
<1> DEFINE m == <<unread, Len(unpacked)>>
<1>3. LastBehind(text, packed, m) \/ Coded(text, packed, marks, m)
  BY <1>2, Zenon DEF DecodedUpTo
<1>4. CASE LastBehind(text, packed, m)
  <2>1. /\ packing' = "done" /\ unpacked' = text
        /\ UNCHANGED <<text, chain, anchor, cursor, finder, packed>>
    BY <1>1, <1>2, <1>4, DecodesLast
  <2> QED BY <2>1 DEF Lz4BlockInv
<1>5. CASE Coded(text, packed, marks, m)
  <2>1. /\ packing' = "decoding"
        /\ DecodedUpTo(marks, text, packed, unread', unpacked')
        /\ UNCHANGED <<text, chain, anchor, cursor, finder, packed>>
    BY <1>1, <1>2, <1>5, DecodesSequence
  <2>2. \E some : DecodedUpTo(some, text', packed', unread', unpacked')
    <3>1. DecodedUpTo(marks, text', packed', unread', unpacked')
      BY <2>1
    <3> QED BY <3>1
  <2> QED BY <2>1, <2>2 DEF Lz4BlockInv
<1> QED BY <1>3, <1>4, <1>5

\* Nothing is written at first.

LEMMA BlockInvInit == Lz4BlockInit => Lz4BlockInv
<1> SUFFICES ASSUME Lz4BlockInit PROVE Lz4BlockInv
  OBVIOUS
<1>1. /\ text \in Seq(Nat) /\ chain \in Nat
      /\ anchor = 0 /\ cursor = 0 /\ finder = {} /\ packed = <<>>
      /\ unread = 0 /\ unpacked = <<>> /\ packing = "coding"
  BY Lz4BlockAssumption DEF Lz4BlockInit
<1>2. CodedUpTo({<<0, 0>>}, text, packed, anchor)
  <2>1. <<Len(packed), anchor>> = <<0, 0>>
    BY <1>1
  <2>2. {<<0, 0>>} \in SUBSET (Nat \X Nat)
    OBVIOUS
  <2> QED BY <2>1, <2>2 DEF CodedUpTo
<1>3. \E marks : CodedUpTo(marks, text, packed, anchor)
  BY <1>2
<1>4. packed \in Seq(Nat) /\ anchor <= Len(text)
  BY <1>1
<1> QED BY <1>1, <1>3, <1>4 DEF Lz4BlockInv

\* What is always so is what Unpacks says.
LEMMA BlockInvUnpacks == Lz4BlockInv => Unpacks
<1> SUFFICES ASSUME Lz4BlockInv PROVE Unpacks
  OBVIOUS
<1>1. text \in Seq(Nat) /\ packing \in {"coding", "decoding", "done"}
  BY DEF Lz4BlockInv
<1>2. IsPrefix(unpacked, text)
  <2>1. CASE packing = "coding"
    <3>1. unpacked = <<>>
      BY <2>1 DEF Lz4BlockInv
    <3> QED BY <1>1, <3>1 DEF IsPrefix
  <2>2. CASE packing = "decoding"
    <3>1. PICK marks : DecodedUpTo(marks, text, packed, unread, unpacked)
      BY <2>2 DEF Lz4BlockInv
    <3> DEFINE l == Len(unpacked)
               m == <<unread, l>>
    <3>2. /\ unpacked = Piece(text, 0, l) /\ m \in Nat \X Nat
          /\ LastBehind(text, packed, m) \/ Coded(text, packed, marks, m)
      BY <3>1 DEF DecodedUpTo
    <3>3. l \in Nat /\ m[2] = l /\ Len(text) \in Nat
      BY <1>1, <3>2
    <3> HIDE DEF m
    <3>4. l <= Len(text)
      <4>1. CASE LastBehind(text, packed, m)
        BY <3>3, <4>1 DEF LastBehind
      <4>2. CASE Coded(text, packed, marks, m)
        <5>1. \E c, d, n \in Nat : m[2] <= c /\ BlockMatch(text, c, d, n)
          BY <4>2 DEF Coded, SequenceBetween
        <5>2. PICK c \in Nat : m[2] <= c /\ \E n \in Nat : c + n <= Len(text)
          BY <5>1 DEF BlockMatch
        <5> QED BY <3>3, <5>2
      <4> QED BY <3>2, <4>1, <4>2
    <3>5. unpacked = SubSeq(text, 1, l)
      BY <3>2 DEF Piece
    <3> HIDE DEF l
    <3>6. Len(unpacked) = l
      BY DEF l
    <3>7. /\ SubSeq(text, 1, l) \in Seq(Nat) /\ SubSeq(unpacked, 1, l) = unpacked
      <4>1. SubSeq(text, 1, l) \in Seq(Nat)
        BY <1>1, <3>3, <3>4
      <4>2. unpacked \in Seq(Nat)
        BY <3>5, <4>1
      <4> QED BY <3>6, <4>1, <4>2
    <3> QED BY <3>4, <3>5, <3>6, <3>7 DEF IsPrefix
  <2>3. CASE packing = "done"
    <3>1. unpacked = text
      BY <2>3 DEF Lz4BlockInv
    <3> QED BY <1>1, <3>1 DEF IsPrefix
  <2> QED BY <1>1, <2>1, <2>2, <2>3
<1> QED BY <1>2 DEF Lz4BlockInv, Unpacks

\* A block comes back as it was, whatever matches the finders return and
\* however lengths are cut into bytes: the decoder refuses nothing, what it has
\* is a beginning of the block, and all of it in the end (Unpacks).
THEOREM BlockAlwaysUnpacks == Lz4BlockSpec => []Unpacks
<1>1. Lz4BlockInit => Lz4BlockInv
  BY BlockInvInit
<1>2. Lz4BlockInv /\ [Lz4BlockNext]_lz4Block => Lz4BlockInv'
  <2> SUFFICES ASSUME Lz4BlockInv, [Lz4BlockNext]_lz4Block PROVE Lz4BlockInv'
    OBVIOUS
  <2>1. CASE UNCHANGED lz4Block
    BY <2>1 DEF lz4Block, Lz4BlockInv
  <2>2. CASE Miss
    BY <2>2, MissKeeps
  <2>3. CASE Hit
    BY <2>3, HitKeeps
  <2>4. CASE EndBlockCoding
    BY <2>4, EndCodingKeeps
  <2>5. CASE DecodeSequence
    BY <2>5, DecodeSequenceKeeps
  <2> QED BY <2>1, <2>2, <2>3, <2>4, <2>5 DEF Lz4BlockNext
<1>3. Lz4BlockInv => Unpacks
  BY BlockInvUnpacks
<1> QED BY <1>1, <1>2, <1>3, PTL DEF Lz4BlockSpec

------------------------------------------------------------------------------
(* Segments of DEFLATE, decoded without their history (DeflateWindow). *)

\* What stands at the end of a sequence.
Ends(end, s, S) ==
    /\ end \in Seq(S) /\ s \in Seq(S) /\ Len(end) <= Len(s)
    /\ \A i \in 1..Len(end) : end[i] = s[i + (Len(s) - Len(end))]

\* The symbols of a segment.
Symbols == 0..(2 * Window - 1)

\* The states of an Emitter, ...
Emitters == [buffer : Seq(Bytewise), historyLen : Nat, decoded : Nat,
             written : Seq(Bytewise), refused : BOOLEAN]

\* ... and of a MarkerOutput.
Segments == [marked : Seq(Symbols), clean : Seq(Bytewise), cleanStart : Nat,
             known : BOOLEAN, cleanMode : BOOLEAN,
             refused : {"no", "too big", "too far"}]

\* What has been decoded and not written.
Pending(e) == SubSeq(e.buffer, e.historyLen + 1, Len(e.buffer))

\* What the serial decoder holds of a stream.
Emitting(e, p) ==
    /\ e \in Emitters /\ p \in Seq(Bytewise)
    /\ e.historyLen <= Len(e.buffer) /\ e.decoded = Len(p)
    /\ e.written \o Pending(e) = p
    /\ Ends(e.buffer, p, Bytewise)
    /\ AtMostOf(Len(p), Window) <= Len(e.buffer)

\* A segment begins with its history, without it, or has come to know it.
Shape(g, c) ==
    /\ g \in Segments
    /\ \/ g.known /\ g.cleanMode /\ g.marked = <<>> /\ g.cleanStart = 0 /\ c = <<>>
       \/ ~g.known /\ ~g.cleanMode /\ g.clean = <<>> /\ g.cleanStart = 0
       \/ ~g.known /\ g.cleanMode /\ g.cleanStart = Window /\ Len(g.clean) >= Window

\* What a segment decodes to behind c, with the window w.
Meaning(g, c, w) == (c \o ResolveSymbols(g.marked, w)) \o CleanOutput(g)

\* A segment that is right, behind c.
Means(g, c, w, p) ==
    /\ Resolvable(g.marked, w) /\ p = Meaning(g, c, w)
    /\ g.cleanMode => Ends(g.clean, p, Bytewise)

\* The serial decoder holds the stream, the window is the end of all that is
\* committed, and a segment means the stream, given the window, as long as the
\* serial decoder has refused nothing; then it cannot be resolved.
WindowInv ==
    /\ Emitting(emitter, plain)
    /\ committed \in Seq(Bytewise) /\ IsPrefix(committed, plain)
    /\ IsEnd(predecessor, committed, Window, Bytewise)
    /\ Shape(segment, committed)
    /\ answer \in {"none", "too big", "too far"}
    /\ answer = "too far" \/ segment.refused = "too far" => emitter.refused
    /\ segment.refused = "no" =>
          IF emitter.refused THEN ~Resolvable(segment.marked, predecessor)
          ELSE Means(segment, committed, predecessor, plain)

\* A sequence splits anywhere.
LEMMA SplitAt ==
    ASSUME NEW S, NEW s \in Seq(S), NEW n \in 0..Len(s)
    PROVE  /\ SubSeq(s, 1, n) \in Seq(S) /\ Len(SubSeq(s, 1, n)) = n
           /\ SubSeq(s, n + 1, Len(s)) \in Seq(S) /\ Len(SubSeq(s, n + 1, Len(s))) = Len(s) - n
           /\ s = SubSeq(s, 1, n) \o SubSeq(s, n + 1, Len(s))
<1> DEFINE L == Len(s)
           a == SubSeq(s, 1, n)
           b == SubSeq(s, n + 1, L)
           m == L - n
<1>1. L \in Nat /\ n \in Nat /\ m \in Nat /\ n <= L /\ n + m = L
  OBVIOUS
<1>2. a \in Seq(S) /\ Len(a) = n /\ \A i \in 1..n : a[i] = s[i]
  <2> DEFINE z == 0
  <2>1. z \in Nat /\ z + n <= Len(s) /\ z + n = n /\ z + 1 = 1 /\ \A i \in 1..n : i + z = i
    BY <1>1
  <2> HIDE DEF z
  <2>2. /\ SubSeq(s, z + 1, z + n) \in Seq(S) /\ Len(SubSeq(s, z + 1, z + n)) = n
        /\ \A i \in 1..n : SubSeq(s, z + 1, z + n)[i] = s[i + z]
    BY <1>1, <2>1, SubSeqIs
  <2>3. SubSeq(s, z + 1, z + n) = a
    BY <2>1
  <2> HIDE DEF a
  <2> QED BY <2>1, <2>2, <2>3
<1>3. b \in Seq(S) /\ Len(b) = m /\ \A i \in 1..m : b[i] = s[i + n]
  <2>1. /\ SubSeq(s, n + 1, n + m) \in Seq(S) /\ Len(SubSeq(s, n + 1, n + m)) = m
        /\ \A i \in 1..m : SubSeq(s, n + 1, n + m)[i] = s[i + n]
    <3> HIDE DEF m
    <3> QED BY <1>1, SubSeqIs
  <2> HIDE DEF m, L
  <2> QED BY <1>1, <2>1
<1> DEFINE j == a \o b
<1>4. j \in Seq(S) /\ Len(j) = n + m
      /\ \A i \in 1..(n + m) : j[i] = IF i <= n THEN a[i] ELSE b[i - n]
  <2>1. j \in Seq(S) /\ Len(j) = Len(a) + Len(b)
      /\ \A i \in 1..(Len(a) + Len(b)) : j[i] = IF i <= Len(a) THEN a[i] ELSE b[i - Len(a)]
    <3>1. a \in Seq(S) /\ b \in Seq(S)
      BY <1>2, <1>3
    <3> HIDE DEF a, b
    <3> QED BY <3>1, ConcatProperties
  <2> HIDE DEF a, b, m, j
  <2> QED BY <1>2, <1>3, <2>1
<1> HIDE DEF a, b, j, m
<1>5. \A i \in 1..L : j[i] = s[i]
  <2> TAKE i \in 1..L
  <2>1. i \in 1..(n + m)
    BY <1>1
  <2>2. CASE i <= n
    BY <1>1, <1>2, <1>4, <2>1, <2>2
  <2>3. CASE ~(i <= n)
    <3> DEFINE k == i - n
    <3>1. k \in 1..m /\ k + n = i
      BY <1>1, <2>1, <2>3
    <3>2. j[i] = b[k]
      BY <1>4, <2>1, <2>3
    <3> HIDE DEF k
    <3>3. b[k] = s[k + n]
      BY <1>3, <3>1
    <3> QED BY <3>1, <3>2, <3>3
  <2> QED BY <2>2, <2>3
<1>6. s = j
  BY <1>1, <1>4, <1>5, SeqEqual
<1> QED BY <1>1, <1>2, <1>3, <1>6 DEF a, b, j, m

\* What is before and what is behind a place.
Splits(a, b, s, n, S) ==
    a \in Seq(S) /\ Len(a) = n /\ b \in Seq(S) /\ Len(b) = Len(s) - n /\ s = a \o b

\* SplitAt, in a form the provers instantiate.
LEMMA SplitsAt ==
    ASSUME NEW S, NEW s \in Seq(S), NEW n \in 0..Len(s),
           NEW a, a = SubSeq(s, 1, n), NEW b, b = SubSeq(s, n + 1, Len(s))
    PROVE  Splits(a, b, s, n, S)
BY SplitAt DEF Splits

\* What stands behind something.
StandsIn(end, s, S) == \E front \in Seq(S) : s = front \o end

\* An end stands behind something, ...
LEMMA EndsSplit ==
    ASSUME NEW S, NEW end, NEW s, Ends(end, s, S)
    PROVE  StandsIn(end, s, S)
<1> DEFINE n == Len(s) - Len(end)
           a == SubSeq(s, 1, n)
           b == SubSeq(s, n + 1, Len(s))
<1>1. /\ end \in Seq(S) /\ s \in Seq(S) /\ n \in 0..Len(s) /\ n \in Nat /\ n + Len(end) = Len(s)
      /\ Len(end) \in Nat
  BY DEF Ends
<1>2. a \in Seq(S) /\ b \in Seq(S) /\ Len(b) = Len(s) - n /\ s = a \o b
  <2> HIDE DEF n
  <2> QED BY <1>1, SplitAt
<1>3. \A i \in 1..Len(end) : b[i] = end[i]
  <2> DEFINE m == Len(end)
  <2>1. \A i \in 1..m : SubSeq(s, n + 1, n + m)[i] = s[i + n]
    <3> HIDE DEF n, m
    <3> QED BY <1>1, SubSeqIs DEF m
  <2>2. \A i \in 1..m : end[i] = s[i + n]
    BY DEF Ends
  <2>3. b = SubSeq(s, n + 1, n + m)
    BY <1>1
  <2> HIDE DEF n, m, b
  <2> QED BY <2>1, <2>2, <2>3 DEF m
<1>4. Len(b) = Len(end)
  BY <1>1, <1>2
<1> HIDE DEF a, b, n
<1>5. b = end
  BY <1>1, <1>2, <1>3, <1>4, SeqEqual
<1> QED BY <1>2, <1>5 DEF StandsIn

\* ... and what stands behind something is an end.
LEMMA EndsBehind ==
    ASSUME NEW S, NEW front \in Seq(S), NEW end \in Seq(S)
    PROVE  Ends(end, front \o end, S)
<1> DEFINE F == Len(front)
           e == Len(end)
           s == front \o end
<1>1. /\ s \in Seq(S) /\ Len(s) = F + e /\ F \in Nat /\ e \in Nat
      /\ \A i \in 1..(F + e) : s[i] = IF i <= F THEN front[i] ELSE end[i - F]
  BY ConcatProperties
<1> DEFINE off == Len(s) - e
<1>2. off = F /\ e <= Len(s)
  BY <1>1
<1> HIDE DEF F, e, s, off
<1>3. ASSUME NEW i \in 1..e
      PROVE  end[i] = s[i + off]
  <2> DEFINE k == i + off
  <2>1. k \in 1..(F + e) /\ ~(k <= F) /\ k - F = i
    BY <1>1, <1>2
  <2> HIDE DEF k
  <2>2. s[k] = end[i]
    BY <1>1, <2>1
  <2> QED BY <2>2 DEF k
<1>4. Ends(end, s, S)
  BY <1>1, <1>2, <1>3, Zenon DEF Ends, off, e
<1> QED BY <1>4 DEF s

\* An end and more is an end of everything and more.
LEMMA EndsGrow ==
    ASSUME NEW S, NEW end, NEW s, Ends(end, s, S), NEW more \in Seq(S)
    PROVE  Ends(end \o more, s \o more, S)
<1>a. StandsIn(end, s, S)
  BY EndsSplit
<1>1. PICK front \in Seq(S) : s = front \o end
  BY <1>a DEF StandsIn
<1>2. end \in Seq(S)
  BY DEF Ends
<1>3. s \o more = front \o (end \o more)
  <2>1. Associates(front, end, more)
    BY <1>2, JoinsAssociate
  <2> QED BY <1>1, <2>1 DEF Associates
<1>4. end \o more \in Seq(S)
  BY <1>2, ConcatProperties
<1> DEFINE longer == end \o more
<1>5. longer \in Seq(S) /\ s \o more = front \o longer
  BY <1>3, <1>4
<1> HIDE DEF longer
<1>6. Ends(longer, front \o longer, S)
  BY <1>5, EndsBehind
<1> QED BY <1>5, <1>6 DEF longer

\* An end of an end is an end.
LEMMA EndsInEnds ==
    ASSUME NEW S, NEW end, NEW t, NEW s, Ends(end, t, S), Ends(t, s, S)
    PROVE  Ends(end, s, S)
<1>a. StandsIn(end, t, S) /\ StandsIn(t, s, S)
  BY EndsSplit
<1>1. PICK front \in Seq(S) : t = front \o end
  BY <1>a DEF StandsIn
<1>2. PICK before \in Seq(S) : s = before \o t
  BY <1>a DEF StandsIn
<1>3. end \in Seq(S)
  BY DEF Ends
<1>4. s = (before \o front) \o end
  <2>1. Associates(before, front, end)
    BY <1>3, JoinsAssociate
  <2> QED BY <1>1, <1>2, <2>1 DEF Associates
<1> DEFINE first == before \o front
<1>5. first \in Seq(S) /\ s = first \o end
  BY <1>4, ConcatProperties
<1> HIDE DEF first
<1> QED BY <1>3, <1>5, EndsBehind

\* The newest symbols are an end.
LEMMA NewestEnds ==
    ASSUME NEW S, NEW s \in Seq(S), NEW count \in 0..Len(s)
    PROVE  /\ Newest(s, count) \in Seq(S) /\ Len(Newest(s, count)) = count
           /\ Ends(Newest(s, count), s, S)
           /\ StandsIn(Newest(s, count), s, S)
<1> DEFINE end == Newest(s, count)
<1>1. /\ end \in Seq(S) /\ Len(end) = count
      /\ \A i \in 1..count : end[i] = s[i + (Len(s) - count)]
  BY LastSymbols DEF Newest
<1>2. Len(s) \in Nat /\ count <= Len(s)
  OBVIOUS
<1> HIDE DEF end
<1>3. Ends(end, s, S)
  BY <1>1, <1>2 DEF Ends
<1>4. StandsIn(end, s, S)
  BY <1>3, EndsSplit
<1> QED BY <1>1, <1>3, <1>4 DEF end

\* An end of the right length is the end of that length.
LEMMA EndsIsEnd ==
    ASSUME NEW S, NEW end, NEW s, Ends(end, s, S), NEW n \in Nat,
           Len(end) = AtMostOf(Len(s), n)
    PROVE  IsEnd(end, s, n, S)
<1>1. end \in Seq(S) /\ \A i \in 1..Len(end) : end[i] = s[i + (Len(s) - Len(end))]
  BY Zenon DEF Ends
<1> QED BY <1>1, Zenon DEF IsEnd

\* The end of a length is an end.
LEMMA EndIsEnds ==
    ASSUME NEW S, NEW s \in Seq(S), NEW n \in Nat, NEW end, IsEnd(end, s, n, S)
    PROVE  Ends(end, s, S) /\ Len(end) <= n
<1>1. end \in Seq(S) /\ Len(end) = AtMostOf(Len(s), n)
      /\ \A i \in 1..Len(end) : end[i] = s[i + (Len(s) - Len(end))]
  BY DEF IsEnd
<1>2. Len(end) <= Len(s) /\ Len(end) <= n
  BY <1>1 DEF AtMostOf
<1> QED BY <1>1, <1>2 DEF Ends

\* A beginning.
LEMMA PrefixBefore ==
    ASSUME NEW S, NEW s \in Seq(S), NEW more \in Seq(S)
    PROVE  IsPrefix(s, s \o more)
<1> DEFINE L == Len(s)
           longer == s \o more
<1>1. /\ longer \in Seq(S) /\ Len(longer) = L + Len(more) /\ L \in Nat /\ Len(more) \in Nat
      /\ \A i \in 1..(L + Len(more)) : longer[i] = IF i <= L THEN s[i] ELSE more[i - L]
  BY ConcatProperties
<1> HIDE DEF longer, L
<1>2. \A i \in 1..L : longer[i] = s[i]
  BY <1>1
<1>3. SubSeq(longer, 1, L) \in Seq(S) /\ Len(SubSeq(longer, 1, L)) = L
      /\ \A i \in 1..L : SubSeq(longer, 1, L)[i] = longer[i]
  <2>1. \A i \in 1..L : longer[i] \in S
    BY <1>1
  <2>2. /\ SubSeq(longer, 1, L) \in Seq(S) /\ Len(SubSeq(longer, 1, L)) = IF 1 <= L THEN L - 1 + 1 ELSE 0
        /\ \A i \in 1..(L - 1 + 1) : SubSeq(longer, 1, L)[i] = longer[1 + i - 1]
    BY <1>1, <2>1, SubSeqProperties
  <2>3. \A i \in 1..L : 1 + i - 1 = i
    BY <1>1
  <2>4. (IF 1 <= L THEN L - 1 + 1 ELSE 0) = L /\ L - 1 + 1 = L
    BY <1>1
  <2> QED BY <2>2, <2>3, <2>4
<1>4. SubSeq(s, 1, L) = s
  BY SubSeqFull DEF L
<1>5. s = SubSeq(longer, 1, L)
  <2> DEFINE t == SubSeq(longer, 1, L)
  <2>1. t \in Seq(S) /\ Len(t) = L /\ \A i \in 1..L : s[i] = t[i]
    BY <1>2, <1>3
  <2> HIDE DEF t
  <2>2. s = t
    BY <2>1, SeqEqual DEF L
  <2> QED BY <2>2 DEF t
<1> QED BY <1>1, <1>4, <1>5 DEF IsPrefix, L, longer

\* Behind a beginning stands the rest.
LEMMA PrefixSplit ==
    ASSUME NEW S, NEW s \in Seq(S), NEW t \in Seq(S), IsPrefix(s, t)
    PROVE  \E more \in Seq(S) : t = s \o more
<1> DEFINE L == Len(s)
<1>1. L \in 0..Len(t) /\ SubSeq(s, 1, L) = SubSeq(t, 1, L) /\ SubSeq(s, 1, L) = s
  BY SubSeqFull DEF IsPrefix
<1>2. SubSeq(t, L + 1, Len(t)) \in Seq(S) /\ t = SubSeq(t, 1, L) \o SubSeq(t, L + 1, Len(t))
  <2> HIDE DEF L
  <2> QED BY <1>1, SplitAt
<1> QED BY <1>1, <1>2

\* A beginning stays one when more follows.
LEMMA PrefixGrows ==
    ASSUME NEW S, NEW s \in Seq(S), NEW t \in Seq(S), IsPrefix(s, t), NEW more \in Seq(S)
    PROVE  IsPrefix(s, t \o more)
<1>1. PICK rest \in Seq(S) : t = s \o rest
  BY PrefixSplit
<1>2. t \o more = s \o (rest \o more)
  <2>1. Associates(s, rest, more)
    BY JoinsAssociate
  <2> QED BY <1>1, <2>1 DEF Associates
<1> DEFINE behind == rest \o more
<1>3. behind \in Seq(S) /\ t \o more = s \o behind
  BY <1>2, ConcatProperties
<1> HIDE DEF behind
<1> QED BY <1>3, PrefixBefore

------------------------------------------------------------------------------
(* The serial decoder. *)

\* So many symbols more, ...
Adds(whole, out, length, S) ==
    \E more \in Seq(S) : Len(more) = length /\ whole = out \o more

\* ... and the same to both.
AddTheSame(one, out, other, behind, length, S) ==
    \E more \in Seq(S) : /\ Len(more) = length
                          /\ one = out \o more /\ other = behind \o more

\* What a match adds.
LEMMA MatchAdds ==
    ASSUME NEW S, NEW out \in Seq(S), NEW distance \in 1..Len(out), NEW length \in Nat,
           NEW whole, IsMatch(whole, out, distance, length, S)
    PROVE  Adds(whole, out, length, S)
<1> DEFINE L == Len(out)
           a == SubSeq(whole, 1, L)
           more == SubSeq(whole, L + 1, Len(whole))
<1>1. /\ whole \in Seq(S) /\ Len(whole) = L + length /\ L \in Nat
      /\ \A i \in 1..L : whole[i] = out[i]
  BY DEF IsMatch
<1>2. L \in 0..Len(whole)
  BY <1>1
<1>3. /\ a \in Seq(S) /\ Len(a) = L /\ more \in Seq(S) /\ Len(more) = Len(whole) - L
      /\ whole = a \o more
  <2> HIDE DEF L
  <2> QED BY <1>1, <1>2, SplitAt
<1>4. Len(more) = length
  BY <1>1, <1>3
<1>5. \A i \in 1..L : a[i] = whole[i]
  <2>1. \A i \in 1..L : whole[i] \in S
    BY <1>1
  <2> DEFINE z == 0
  <2>2. z \in Nat /\ z + L <= Len(whole) /\ z + L = L /\ z + 1 = 1 /\ \A i \in 1..L : i + z = i
    BY <1>1
  <2> HIDE DEF z, L
  <2>3. \A i \in 1..L : SubSeq(whole, z + 1, z + L)[i] = whole[i + z]
    BY <1>1, <2>2, SubSeqIs
  <2>4. SubSeq(whole, z + 1, z + L) = a
    BY <2>2
  <2> HIDE DEF a
  <2> QED BY <2>2, <2>3, <2>4
<1>6. a = out
  <2>1. \A i \in 1..L : a[i] = out[i]
    BY <1>1, <1>5
  <2>2. a \in Seq(S) /\ Len(a) = Len(out)
    BY <1>3
  <2> HIDE DEF a
  <2> QED BY <2>1, <2>2, SeqEqual
<1> HIDE DEF a, more
<1> QED BY <1>3, <1>4, <1>6 DEF Adds

\* A match adds to an end what it adds to everything.
LEMMA MatchInEnd ==
    ASSUME NEW S, NEW end, NEW s, Ends(end, s, S), NEW distance \in 1..Len(end),
           NEW length \in Nat
    PROVE  AddTheSame(ExtendMatch(end, distance, length), end,
                      Repeated(s, distance, length), s, length, S)
<1> DEFINE ext == ExtendMatch(end, distance, length)
           all == Repeated(s, distance, length)
<1>a. StandsIn(end, s, S)
  BY EndsSplit
<1>1. PICK front \in Seq(S) : s = front \o end
  BY <1>a DEF StandsIn
<1>2. end \in Seq(S) /\ s \in Seq(S) /\ Len(end) <= Len(s)
  BY DEF Ends
<1>3. distance \in 1..Len(s)
  BY <1>2
<1>4. IsMatch(ext, end, distance, length, S)
  BY <1>2, ExtendIsRepeated
<1>5. IsMatch(all, s, distance, length, S)
  BY <1>2, <1>3, RepeatedIs
<1> HIDE DEF ext, all
<1>b. Adds(ext, end, length, S)
  BY <1>2, <1>4, MatchAdds
<1>6. PICK more \in Seq(S) : Len(more) = length /\ ext = end \o more
  BY <1>b DEF Adds
<1> DEFINE longer == front \o ext
<1>7. IsMatch(longer, front \o end, distance, length, S)
  BY <1>2, <1>4, MatchBehind
<1>8. IsMatch(longer, s, distance, length, S)
  BY <1>1, <1>7
<1> HIDE DEF longer
<1>9. longer = all
  BY <1>2, <1>3, <1>5, <1>8, MatchUnique
<1>10. all = s \o more
  <2>1. all = front \o (end \o more)
    BY <1>6, <1>9 DEF longer
  <2>2. (front \o end) \o more = front \o (end \o more)
    <3>1. Associates(front, end, more)
      BY <1>2, JoinsAssociate
    <3> QED BY <3>1 DEF Associates
  <2> QED BY <1>1, <2>1, <2>2
<1> QED BY <1>6, <1>10 DEF ext, all, AddTheSame

\* What is pending.
LEMMA PendingIs ==
    ASSUME NEW S, NEW b \in Seq(S), NEW h \in 0..Len(b), NEW more \in Seq(S)
    PROVE  /\ SubSeq(b, h + 1, Len(b)) \in Seq(S)
           /\ SubSeq(b \o more, h + 1, Len(b \o more)) = SubSeq(b, h + 1, Len(b)) \o more
           /\ SubSeq(b, Len(b) + 1, Len(b)) = <<>>
<1> DEFINE a == SubSeq(b, 1, h)
           c == SubSeq(b, h + 1, Len(b))
           j == b \o more
           aj == SubSeq(j, 1, h)
           cj == SubSeq(j, h + 1, Len(j))
<1>1. /\ a \in Seq(S) /\ Len(a) = h /\ c \in Seq(S) /\ Len(c) = Len(b) - h /\ b = a \o c
  <2>1. a = SubSeq(b, 1, h) /\ c = SubSeq(b, h + 1, Len(b))
    OBVIOUS
  <2> HIDE DEF a, c, j, aj, cj
  <2>2. Splits(a, c, b, h, S)
    BY <2>1, SplitsAt
  <2> QED BY <2>2 DEF Splits
<1>2. /\ j \in Seq(S) /\ Len(j) = Len(b) + Len(more) /\ Len(b) \in Nat /\ Len(more) \in Nat
  BY ConcatProperties
<1>3. h \in 0..Len(j)
  BY <1>2
<1>4. /\ aj \in Seq(S) /\ Len(aj) = h /\ cj \in Seq(S) /\ Len(cj) = Len(j) - h /\ j = aj \o cj
  <2> HIDE DEF j
  <2> QED BY <1>2, <1>3, SplitAt
<1>5. j = a \o (c \o more)
  <2>1. j = (a \o c) \o more
    BY <1>1
  <2>2. a \in Seq(S) /\ c \in Seq(S)
    BY <1>1
  <2> HIDE DEF a, c, j
  <2>3. Associates(a, c, more)
    BY <2>2, JoinsAssociate
  <2> QED BY <2>1, <2>3 DEF Associates
<1>6. c \o more \in Seq(S) /\ Len(c \o more) = Len(c) + Len(more)
  <2>1. c \in Seq(S)
    BY <1>1
  <2> HIDE DEF c
  <2> QED BY <2>1, ConcatProperties
<1> DEFINE d == c \o more
<1>7. d \in Seq(S) /\ Len(d) = Len(j) - h /\ j = a \o d
  <2>1. Len(c) = Len(b) - h /\ Len(j) = Len(b) + Len(more) /\ Len(b) \in Nat /\ Len(more) \in Nat
    BY <1>1, <1>2
  <2>2. d \in Seq(S) /\ Len(d) = Len(c) + Len(more)
    BY <1>6
  <2>3. j = a \o d
    BY <1>5
  <2> HIDE DEF a, c, j, d
  <2>4. Len(d) = Len(j) - h
    BY <2>1, <2>2
  <2> QED BY <2>2, <2>3, <2>4
<1> HIDE DEF a, c, j, aj, cj, d
<1>8. \A i \in 1..Len(d) : d[i] = cj[i]
  <2>1. /\ \A i \in 1..(Len(a) + Len(d)) : j[i] = IF i <= Len(a) THEN a[i] ELSE d[i - Len(a)]
    BY <1>1, <1>7, ConcatProperties
  <2>2. \A i \in 1..(Len(aj) + Len(cj)) : j[i] = IF i <= Len(aj) THEN aj[i] ELSE cj[i - Len(aj)]
    BY <1>4, ConcatProperties
  <2> TAKE i \in 1..Len(d)
  <2> DEFINE k == i + h
  <2>3. k \in 1..(Len(a) + Len(d)) /\ k \in 1..(Len(aj) + Len(cj)) /\ ~(k <= h) /\ k - h = i
    BY <1>1, <1>4, <1>7
  <2> HIDE DEF k
  <2>4. j[k] = d[k - h] /\ j[k] = cj[k - h]
    BY <1>1, <1>4, <2>1, <2>2, <2>3
  <2> QED BY <2>3, <2>4
<1>9. d = cj
  BY <1>4, <1>7, <1>8, SeqEqual
<1>10. SubSeq(b, Len(b) + 1, Len(b)) = <<>>
  BY SubSeqEmpty
<1> QED BY <1>1, <1>9, <1>10 DEF d, c, cj, j

\* More bytes, the same in the ring and in the stream.
LEMMA EmitMore ==
    ASSUME NEW e, NEW p, Emitting(e, p), NEW more \in Seq(Bytewise)
    PROVE  Emitting([e EXCEPT !.buffer = e.buffer \o more, !.decoded = e.decoded + Len(more)],
                    p \o more)
<1> DEFINE b == e.buffer \o more
           n == e.decoded + Len(more)
           f == [e EXCEPT !.buffer = b, !.decoded = n]
           q == p \o more
<1>1. /\ e \in Emitters /\ p \in Seq(Bytewise)
      /\ e.historyLen <= Len(e.buffer) /\ e.decoded = Len(p)
      /\ e.written \o Pending(e) = p
      /\ Ends(e.buffer, p, Bytewise)
      /\ AtMostOf(Len(p), Window) <= Len(e.buffer)
  BY DEF Emitting
<1>2. /\ e.buffer \in Seq(Bytewise) /\ e.historyLen \in Nat /\ e.decoded \in Nat
      /\ e.written \in Seq(Bytewise)
  BY <1>1 DEF Emitters
<1>3. /\ b \in Seq(Bytewise) /\ Len(b) = Len(e.buffer) + Len(more) /\ Len(e.buffer) \in Nat
      /\ Len(more) \in Nat /\ n \in Nat
  BY <1>2, ConcatProperties
<1>4. q \in Seq(Bytewise) /\ Len(q) = Len(p) + Len(more) /\ Len(p) \in Nat
  BY <1>1, ConcatProperties
<1>5. /\ f \in Emitters /\ f.buffer = b /\ f.decoded = n
      /\ f.historyLen = e.historyLen /\ f.written = e.written
  <2>1. e \in Emitters /\ b \in Seq(Bytewise) /\ n \in Nat
    BY <1>1, <1>3
  <2> HIDE DEF b, n
  <2> QED BY <2>1 DEF Emitters
<1>6. Pending(f) = Pending(e) \o more
  <2>1. e.historyLen \in 0..Len(e.buffer)
    BY <1>1, <1>2, <1>3
  <2>2. SubSeq(b, e.historyLen + 1, Len(b)) = Pending(e) \o more
    BY <1>2, <2>1, PendingIs DEF Pending
  <2> HIDE DEF b, f
  <2> QED BY <1>5, <2>2 DEF Pending
<1>7. f.written \o Pending(f) = q
  <2>1. Pending(e) \in Seq(Bytewise)
    <3>1. e.historyLen \in 0..Len(e.buffer)
      BY <1>1, <1>2, <1>3
    <3> QED BY <1>2, <3>1, SplitAt DEF Pending
  <2>2. (e.written \o Pending(e)) \o more = e.written \o (Pending(e) \o more)
    <3> DEFINE w == e.written
               c == Pending(e)
    <3>1. w \in Seq(Bytewise) /\ c \in Seq(Bytewise)
      BY <1>2, <2>1
    <3> HIDE DEF w, c
    <3>2. (w \o c) \o more = w \o (c \o more)
      <4>1. Associates(w, c, more)
        BY <3>1, JoinsAssociate
      <4> QED BY <4>1 DEF Associates
    <3> QED BY <3>2 DEF w, c
  <2> HIDE DEF f
  <2> QED BY <1>1, <1>5, <1>6, <2>2
<1>8. Ends(b, q, Bytewise)
  BY <1>1, EndsGrow
<1>9. AtMostOf(Len(q), Window) <= Len(b)
  <2> HIDE DEF b, q
  <2> QED BY <1>1, <1>3, <1>4, WindowAssumption DEF AtMostOf
<1>10. f.historyLen <= Len(f.buffer) /\ f.decoded = Len(q)
  <2> HIDE DEF b, q, f
  <2> QED BY <1>1, <1>2, <1>3, <1>4, <1>5 DEF n
<1>11. Emitting(f, q)
  <2> HIDE DEF b, q, f
  <2> QED BY <1>4, <1>5, <1>7, <1>8, <1>9, <1>10 DEF Emitting
<1> QED BY <1>11

\* Flushing what is pending keeps enough of the ring.
LEMMA FlushedKeeps ==
    ASSUME NEW e, NEW p, Emitting(e, p)
    PROVE  Emitting(Flushed(e), p) /\ Flushed(e).refused = e.refused
<1>1. /\ e \in Emitters /\ p \in Seq(Bytewise)
      /\ e.historyLen <= Len(e.buffer) /\ e.decoded = Len(p)
      /\ e.written \o Pending(e) = p
      /\ Ends(e.buffer, p, Bytewise)
      /\ AtMostOf(Len(p), Window) <= Len(e.buffer)
  BY DEF Emitting
<1>2. /\ e.buffer \in Seq(Bytewise) /\ e.historyLen \in Nat /\ e.decoded \in Nat
      /\ e.written \in Seq(Bytewise) /\ Len(e.buffer) \in Nat /\ Len(p) \in Nat
  <2>1. /\ e.buffer \in Seq(Bytewise) /\ e.historyLen \in Nat /\ e.decoded \in Nat
        /\ e.written \in Seq(Bytewise)
    BY <1>1 DEF Emitters
  <2> QED BY <1>1, <2>1
<1> DEFINE L == Len(e.buffer)
           keep == IF L >= Compact THEN AtMostOf(L, Window) ELSE L
           b == Newest(e.buffer, keep)
           w == e.written \o Pending(e)
           f == [e EXCEPT !.buffer = b, !.historyLen = keep, !.written = w]
<1>3. Flushed(e) = IF L - e.historyLen < OutputChunk THEN e ELSE f
  BY DEF Flushed, Pending
<1>4. keep \in 0..L /\ AtMostOf(L, Window) <= keep /\ keep \in Nat
  BY <1>2, WindowAssumption DEF AtMostOf
<1> HIDE DEF keep
<1>5. b \in Seq(Bytewise) /\ Len(b) = keep /\ Ends(b, e.buffer, Bytewise)
  BY <1>2, <1>4, NewestEnds
<1>6. w = p
  BY <1>1
<1> HIDE DEF b, w
<1>7. /\ f \in Emitters /\ f.buffer = b /\ f.decoded = e.decoded
      /\ f.historyLen = keep /\ f.written = w /\ f.refused = e.refused
  <2>1. e \in Emitters /\ b \in Seq(Bytewise) /\ keep \in Nat /\ w \in Seq(Bytewise)
    BY <1>1, <1>4, <1>5, <1>6
  <2> QED BY <2>1 DEF Emitters
<1> HIDE DEF f
<1>8. Pending(f) = <<>>
  <2>1. SubSeq(b, Len(b) + 1, Len(b)) = <<>>
    BY <1>5, <1>4, SubSeqEmpty
  <2> QED BY <1>5, <1>7, <2>1 DEF Pending
<1>9. f.written \o Pending(f) = p
  BY <1>1, <1>6, <1>7, <1>8, ConcatEmptySeq
<1>10. Ends(b, p, Bytewise)
  BY <1>1, <1>5, EndsInEnds
<1>11. AtMostOf(Len(p), Window) <= Len(b)
  BY <1>1, <1>2, <1>4, <1>5, WindowAssumption DEF AtMostOf
<1>12. Emitting(f, p)
  BY <1>1, <1>4, <1>5, <1>7, <1>9, <1>10, <1>11 DEF Emitting
<1> QED BY <1>3, <1>7, <1>12

\* The serial decoder emits bytes ...
LEMMA EmitBytesKeeps ==
    ASSUME NEW e, NEW p, Emitting(e, p), NEW added \in Seq(Bytewise)
    PROVE  /\ Emitting(EmitBytes(e, added), p \o added)
           /\ EmitBytes(e, added).refused = e.refused
<1> DEFINE f == [e EXCEPT !.buffer = e.buffer \o added, !.decoded = e.decoded + Len(added)]
<1>1. Emitting(f, p \o added)
  BY EmitMore
<1>2. EmitBytes(e, added) = Flushed(f)
  BY DEF EmitBytes
<1>3. f.refused = e.refused
  BY DEF Emitting, Emitters
<1> HIDE DEF f
<1> QED BY <1>1, <1>2, <1>3, FlushedKeeps

\* ... and matches, or refuses one that reaches in front of the first byte.
LEMMA EmitMatchKeeps ==
    ASSUME NEW e, NEW p, Emitting(e, p), NEW distance \in 1..Window, NEW length \in Nat
    PROVE  /\ distance > Len(p) => /\ Emitting(EmitMatch(e, distance, length), p)
                                   /\ EmitMatch(e, distance, length).refused
           /\ distance <= Len(p) =>
                 /\ Emitting(EmitMatch(e, distance, length), Repeated(p, distance, length))
                 /\ EmitMatch(e, distance, length).refused = e.refused
<1>1. /\ e \in Emitters /\ p \in Seq(Bytewise)
      /\ e.historyLen <= Len(e.buffer) /\ e.decoded = Len(p)
      /\ e.written \o Pending(e) = p
      /\ Ends(e.buffer, p, Bytewise)
      /\ AtMostOf(Len(p), Window) <= Len(e.buffer)
  BY DEF Emitting
<1>2. e.buffer \in Seq(Bytewise) /\ Len(e.buffer) \in Nat /\ Len(p) \in Nat /\ Window \in Nat
  <2>1. e.buffer \in Seq(Bytewise)
    BY <1>1 DEF Emitters
  <2> QED BY <1>1, <2>1, WindowAssumption
<1> DEFINE b == ExtendMatch(e.buffer, distance, length)
           n == e.decoded + length
           f == [e EXCEPT !.buffer = b, !.decoded = n]
           r == [e EXCEPT !.refused = TRUE]
           m == EmitMatch(e, distance, length)
<1>3. m = IF distance > AtMostOf(e.decoded, Window) THEN r ELSE Flushed(f)
  BY DEF EmitMatch
<1>4. distance > AtMostOf(e.decoded, Window) <=> distance > Len(p)
  BY <1>1, <1>2 DEF AtMostOf
<1> HIDE DEF m
<1>5. ASSUME distance > Len(p)
      PROVE  Emitting(m, p) /\ m.refused
  <2>1. /\ r \in Emitters /\ r.buffer = e.buffer /\ r.decoded = e.decoded
        /\ r.historyLen = e.historyLen /\ r.written = e.written /\ r.refused
    BY <1>1 DEF Emitters
  <2>2. Pending(r) = Pending(e)
    BY <2>1 DEF Pending
  <2> HIDE DEF r
  <2>3. Emitting(r, p)
    BY <1>1, <2>1, <2>2 DEF Emitting
  <2> QED BY <1>3, <1>4, <1>5, <2>1, <2>3
<1>6. ASSUME distance <= Len(p)
      PROVE  Emitting(m, Repeated(p, distance, length)) /\ m.refused = e.refused
  <2>1. distance \in 1..Len(e.buffer)
    BY <1>1, <1>2, <1>6 DEF AtMostOf
  <2>2. AddTheSame(b, e.buffer, Repeated(p, distance, length), p, length, Bytewise)
    BY <1>1, <2>1, MatchInEnd
  <2> HIDE DEF b
  <2>3. PICK more \in Seq(Bytewise) : /\ Len(more) = length
                                 /\ b = e.buffer \o more
                                 /\ Repeated(p, distance, length) = p \o more
    BY <2>2 DEF AddTheSame
  <2>4. Emitting(f, p \o more)
    <3>1. Emitting([e EXCEPT !.buffer = e.buffer \o more, !.decoded = e.decoded + Len(more)],
                    p \o more)
      BY EmitMore
    <3> QED BY <2>3, <3>1
  <2>5. f.refused = e.refused
    BY <1>1 DEF Emitters
  <2> HIDE DEF f
  <2>6. m = Flushed(f)
    BY <1>1, <1>2, <1>3, <1>4, <1>6
  <2> QED BY <2>3, <2>4, <2>5, <2>6, FlushedKeeps
<1> QED BY <1>2, <1>5, <1>6 DEF m

------------------------------------------------------------------------------
(* Resolving markers. *)

\* A history the markers stand for.
History(w) == w \in Seq(Bytewise) /\ Len(w) <= Window

\* What resolving does, symbol by symbol.
Resolves(r, symbols, w) ==
    /\ r \in Seq(Bytewise) /\ Len(r) = Len(symbols)
    /\ \A i \in 1..Len(symbols) :
          IF IsMarker(symbols[i])
          THEN /\ symbols[i] - (2 * Window - Len(w)) + 1 \in 1..Len(w)
               /\ r[i] = w[symbols[i] - (2 * Window - Len(w)) + 1]
          ELSE r[i] = symbols[i]

\* What is missing of a whole window.
LEMMA MissingIs ==
    ASSUME NEW w, History(w)
    PROVE  Missing(w) = Window - Len(w) /\ Len(w) \in 0..Window /\ Window \in Nat \ {0}
           /\ MaxByte \in 0..(Window - 1)
<1>1. w \in Seq(Bytewise) /\ Len(w) <= Window /\ Len(w) \in Nat
  BY DEF History
<1>2. Window \in Nat \ {0} /\ MaxByte \in 0..(Window - 1)
  BY WindowAssumption
<1>3. Missing(w) = Window - Len(w)
  BY <1>1, <1>2 DEF Missing
<1> QED BY <1>1, <1>2, <1>3

\* resolve_symbols accepts the markers of what the history has, and then every
\* symbol becomes a byte.
LEMMA ResolvableIs ==
    ASSUME NEW symbols \in Seq(Symbols), NEW w, History(w)
    PROVE  /\ Resolvable(symbols, w) =>
                  Resolves(ResolveSymbols(symbols, w), symbols, w)
           /\ Resolvable(symbols, w) <=>
                  \A i \in 1..Len(symbols) :
                      IsMarker(symbols[i]) => symbols[i] >= 2 * Window - Len(w)
<1> DEFINE h == Len(w)
           r == ResolveSymbols(symbols, w)
           n == Len(symbols)
           m == Missing(w)
<1>1. /\ m = Window - h /\ h \in 0..Window /\ Window \in Nat \ {0} /\ MaxByte \in 0..(Window - 1)
      /\ h \in Nat
  BY MissingIs
<1>2. n \in Nat /\ DOMAIN symbols = 1..n /\ \A i \in 1..n : symbols[i] \in Symbols
  OBVIOUS
<1>3. \A i \in 1..n : symbols[i] \in Int /\ symbols[i] >= 0 /\ symbols[i] <= 2 * Window - 1
  BY <1>1, <1>2 DEF Symbols
<1>4. Resolvable(symbols, w) <=>
         \A i \in 1..n : IsMarker(symbols[i]) => symbols[i] >= 2 * Window - h
  <2>1. Resolvable(symbols, w) <=> \A i \in 1..n : IsMarker(symbols[i]) => symbols[i] - Window >= m
    BY <1>2 DEF Resolvable
  <2>2. \A i \in 1..n : symbols[i] - Window >= m <=> symbols[i] >= 2 * Window - h
    <3> TAKE i \in 1..n
    <3> DEFINE x == symbols[i]
    <3>1. x \in Int
      BY <1>3
    <3> HIDE DEF x, m, h
    <3>2. x - Window >= m <=> x >= 2 * Window - h
      BY <1>1, <3>1
    <3> QED BY <3>2 DEF x
  <2> HIDE DEF m, h, n
  <2> QED BY <2>1, <2>2
<1>5. ASSUME Resolvable(symbols, w)
      PROVE  Resolves(r, symbols, w)
  <2>1. r = [i \in 1..n |-> IF IsMarker(symbols[i]) THEN w[symbols[i] - Window - m + 1]
                            ELSE symbols[i]]
    BY <1>2 DEF ResolveSymbols
  <2>w. w \in Seq(Bytewise) /\ \A i \in 1..h : w[i] \in Bytewise
    BY DEF History
  <2>2. ASSUME NEW i \in 1..n
        PROVE  /\ r[i] \in Bytewise
               /\ IF IsMarker(symbols[i])
                  THEN /\ symbols[i] - (2 * Window - h) + 1 \in 1..h
                       /\ r[i] = w[symbols[i] - (2 * Window - h) + 1]
                  ELSE r[i] = symbols[i]
    <3> DEFINE x == symbols[i]
               at == x - Window - m + 1
               same == x - (2 * Window - h) + 1
    <3>1. /\ x \in Int /\ x >= 0 /\ x <= 2 * Window - 1
          /\ IsMarker(x) => x >= 2 * Window - h
      BY <1>3, <1>4, <1>5
    <3>2. r[i] = IF IsMarker(x) THEN w[at] ELSE x
      BY <2>1
    <3> HIDE DEF x, m, h
    <3>3. at = same /\ (IsMarker(x) => at \in 1..h)
      BY <1>1, <3>1
    <3>4. ~IsMarker(x) => x \in Bytewise
      BY <1>1, <3>1 DEF IsMarker, Bytewise
    <3> HIDE DEF at, same, r
    <3>5. /\ r[i] \in Bytewise
          /\ IF IsMarker(x) THEN same \in 1..h /\ r[i] = w[same] ELSE r[i] = x
      BY <2>w, <3>2, <3>3, <3>4
    <3> QED BY <3>5 DEF x, same, h
  <2>3. r \in Seq(Bytewise) /\ Len(r) = n
    <3>1. DOMAIN r = 1..n /\ r = [i \in 1..n |-> r[i]]
      BY <2>1
    <3>2. \A i \in 1..n : r[i] \in Bytewise
      BY <2>2
    <3> HIDE DEF r
    <3>3. r \in [1..n -> Bytewise]
      BY <3>1, <3>2
    <3> HIDE DEF n
    <3> QED BY <1>2, <3>3
  <2> HIDE DEF r
  <2> QED BY <2>2, <2>3 DEF Resolves
<1> QED BY <1>4, <1>5 DEF r

\* There is one such sequence.
LEMMA ResolvesOnce ==
    ASSUME NEW symbols, NEW w, NEW one, NEW other,
           Resolves(one, symbols, w), Resolves(other, symbols, w)
    PROVE  one = other
<1>1. /\ one \in Seq(Bytewise) /\ other \in Seq(Bytewise) /\ Len(one) = Len(other)
      /\ \A i \in 1..Len(one) : one[i] = other[i]
  BY DEF Resolves
<1> QED BY <1>1, SeqEqual

\* And it needs every marker.
LEMMA ResolvesMeans ==
    ASSUME NEW symbols \in Seq(Symbols), NEW w, History(w), NEW r, Resolves(r, symbols, w)
    PROVE  Resolvable(symbols, w) /\ ResolveSymbols(symbols, w) = r
<1>1. Len(w) \in Nat /\ Window \in Nat
  BY MissingIs
<1>2. ASSUME NEW i \in 1..Len(symbols), IsMarker(symbols[i])
      PROVE  symbols[i] >= 2 * Window - Len(w)
  <2> DEFINE x == symbols[i]
             h == Len(w)
  <2>1. x \in Int /\ x - (2 * Window - h) + 1 \in 1..h /\ h \in Nat
    <3>1. x \in Symbols
      OBVIOUS
    <3> QED BY <1>1, <1>2, <3>1 DEF Resolves, Symbols
  <2> HIDE DEF x, h
  <2>2. x >= 2 * Window - h
    BY <1>1, <2>1
  <2> QED BY <2>2 DEF x, h
<1>3. Resolvable(symbols, w)
  BY <1>2, ResolvableIs
<1>4. Resolves(ResolveSymbols(symbols, w), symbols, w)
  BY <1>3, ResolvableIs
<1> DEFINE other == ResolveSymbols(symbols, w)
<1> HIDE DEF other
<1>5. other = r
  BY <1>4, ResolvesOnce DEF other
<1> QED BY <1>3, <1>5 DEF other

\* Bytes stand for themselves.
LEMMA ResolveBytes ==
    ASSUME NEW symbols \in Seq(Symbols), NEW w, History(w), NEW added \in Seq(Bytewise)
    PROVE  /\ symbols \o added \in Seq(Symbols)
           /\ Resolvable(symbols \o added, w) <=> Resolvable(symbols, w)
           /\ Resolvable(symbols, w) =>
                 ResolveSymbols(symbols \o added, w) = ResolveSymbols(symbols, w) \o added
<1> DEFINE n == Len(symbols)
           m == Len(added)
           h == Len(w)
           j == symbols \o added
           bound == 2 * Window - h
<1>0. /\ Window \in Nat \ {0} /\ MaxByte \in 0..(Window - 1) /\ h \in 0..Window
      /\ n \in Nat /\ m \in Nat
  BY MissingIs
<1>1. added \in Seq(Symbols)
  <2>1. Bytewise \subseteq Symbols
    BY <1>0 DEF Bytewise, Symbols
  <2>2. \A i \in 1..m : added[i] \in Symbols
    BY <2>1
  <2>3. added \in [1..m -> Symbols]
    BY <2>2
  <2> HIDE DEF m
  <2> QED BY <1>0, <2>3
<1>2. /\ j \in Seq(Symbols) /\ Len(j) = n + m
      /\ \A i \in 1..(n + m) : j[i] = IF i <= n THEN symbols[i] ELSE added[i - n]
  BY <1>1, ConcatProperties
<1>b. \A i \in 1..m : ~IsMarker(added[i])
  <2>1. \A i \in 1..m : added[i] \in Bytewise
    OBVIOUS
  <2>2. \A b \in Bytewise : ~IsMarker(b)
    BY <1>0 DEF Bytewise, IsMarker
  <2> QED BY <2>1, <2>2
<1> HIDE DEF n, m, h, j
<1>n. ASSUME NEW i \in 1..n PROVE i \in 1..(n + m) /\ i <= n /\ j[i] = symbols[i]
  BY <1>0, <1>2
<1>m. ASSUME NEW i \in 1..(n + m), ~(i <= n)
      PROVE  i - n \in 1..m /\ j[i] = added[i - n] /\ ~IsMarker(j[i])
  <2>1. i - n \in 1..m
    BY <1>0, <1>m
  <2>2. j[i] = added[i - n]
    BY <1>2, <1>m
  <2> QED BY <2>1, <2>2, <1>b
<1>3. Resolvable(j, w) <=> Resolvable(symbols, w)
  <2>1. Resolvable(symbols, w) <=>
           \A i \in 1..n : IsMarker(symbols[i]) => symbols[i] >= bound
    BY ResolvableIs DEF n, h
  <2>2. Resolvable(j, w) <=> \A i \in 1..(n + m) : IsMarker(j[i]) => j[i] >= bound
    BY <1>2, ResolvableIs DEF h
  <2> HIDE DEF bound
  <2>3. ASSUME \A i \in 1..n : IsMarker(symbols[i]) => symbols[i] >= bound,
               NEW i \in 1..(n + m)
        PROVE  IsMarker(j[i]) => j[i] >= bound
    <3>1. CASE i <= n
      <4>1. i \in 1..n
        BY <1>0, <3>1
      <4> QED BY <1>n, <2>3, <4>1
    <3>2. CASE ~(i <= n)
      BY <1>m, <3>2
    <3> QED BY <3>1, <3>2
  <2>4. ASSUME \A i \in 1..(n + m) : IsMarker(j[i]) => j[i] >= bound,
               NEW i \in 1..n
        PROVE  IsMarker(symbols[i]) => symbols[i] >= bound
    BY <1>n, <2>4
  <2> QED BY <2>1, <2>2, <2>3, <2>4
<1>4. ASSUME Resolvable(symbols, w)
      PROVE  ResolveSymbols(j, w) = ResolveSymbols(symbols, w) \o added
  <2> DEFINE r == ResolveSymbols(symbols, w)
             q == r \o added
  <2>1. Resolves(r, symbols, w)
    BY <1>4, ResolvableIs
  <2> HIDE DEF r
  <2>2. /\ r \in Seq(Bytewise) /\ Len(r) = n
        /\ \A i \in 1..n :
              IF IsMarker(symbols[i])
              THEN symbols[i] - bound + 1 \in 1..h /\ r[i] = w[symbols[i] - bound + 1]
              ELSE r[i] = symbols[i]
    BY <2>1, Zenon DEF Resolves, n, h
  <2> HIDE DEF bound
  <2>3. /\ q \in Seq(Bytewise) /\ Len(q) = n + m
        /\ \A i \in 1..(n + m) : q[i] = IF i <= n THEN r[i] ELSE added[i - n]
    <3>1. /\ q \in Seq(Bytewise) /\ Len(q) = Len(r) + m
          /\ \A i \in 1..(Len(r) + m) : q[i] = IF i <= Len(r) THEN r[i] ELSE added[i - Len(r)]
      BY <2>2, ConcatProperties DEF m
    <3> HIDE DEF q
    <3> QED BY <2>2, <3>1
  <2> HIDE DEF q
  <2>4. ASSUME NEW i \in 1..(n + m)
        PROVE  IF IsMarker(j[i])
               THEN j[i] - bound + 1 \in 1..h /\ q[i] = w[j[i] - bound + 1]
               ELSE q[i] = j[i]
    <3>1. CASE i <= n
      <4>1. i \in 1..n /\ j[i] = symbols[i] /\ q[i] = r[i]
        BY <1>0, <1>n, <2>3, <3>1
      <4>2. IF IsMarker(symbols[i])
            THEN symbols[i] - bound + 1 \in 1..h /\ r[i] = w[symbols[i] - bound + 1]
            ELSE r[i] = symbols[i]
        BY <2>2, <4>1
      <4> QED BY <4>1, <4>2, Zenon
    <3>2. CASE ~(i <= n)
      BY <1>m, <2>3, <3>2
    <3> QED BY <3>1, <3>2
  <2>5. Resolves(q, j, w)
    BY <1>2, <2>3, <2>4 DEF Resolves, bound, h
  <2>6. ResolveSymbols(j, w) = q
    BY <1>2, <2>5, ResolvesMeans
  <2> QED BY <2>6 DEF q, r
<1> QED BY <1>2, <1>3, <1>4 DEF j

------------------------------------------------------------------------------
(* Matches of marked symbols. *)

\* A match of a segment that does not know its history: symbol after symbol,
\* and markers for what lies before the segment.
MarkedBy(new, marked, distance, length) ==
    /\ new \in Seq(Symbols) /\ Len(new) = Len(marked) + length
    /\ \A i \in 1..Len(marked) : new[i] = marked[i]
    /\ \A i \in (Len(marked) + 1)..(Len(marked) + length) :
          new[i] = IF i > distance THEN new[i - distance] ELSE 2 * Window + i - distance - 1

\* The markers of a match.
MarkersOf(before, distance, count) ==
    [i \in 1..count |-> Window + (Window + before - distance) + i - 1]

\* The markers of a match are the match, as far as it lies before the segment.
LEMMA MarkersAre ==
    ASSUME NEW marked \in Seq(Symbols), NEW distance \in 1..Window, NEW count \in Nat,
           count > 0 => Len(marked) + count <= distance
    PROVE  /\ marked \o MarkersOf(Len(marked), distance, count) \in Seq(Symbols)
           /\ MarkedBy(marked \o MarkersOf(Len(marked), distance, count), marked, distance, count)
<1> DEFINE n == Len(marked)
           t == MarkersOf(n, distance, count)
           j == marked \o t
<1>1. n \in Nat /\ Window \in Nat \ {0} /\ distance \in Nat /\ 1 <= distance /\ distance <= Window
  BY WindowAssumption
<1>2. t \in Seq(Symbols) /\ Len(t) = count
      /\ \A i \in 1..count : t[i] = Window + (Window + n - distance) + i - 1
  <2>1. t = [i \in 1..count |-> Window + (Window + n - distance) + i - 1]
    BY DEF MarkersOf
  <2> HIDE DEF n
  <2>2. \A i \in 1..count : Window + (Window + n - distance) + i - 1 \in Symbols
    BY <1>1 DEF Symbols, n
  <2> HIDE DEF t
  <2>3. t \in [1..count -> Symbols]
    BY <2>1, <2>2
  <2> QED BY <2>1, <2>3
<1> HIDE DEF t
<1>3. /\ j \in Seq(Symbols) /\ Len(j) = n + count
      /\ \A i \in 1..(n + count) : j[i] = IF i <= n THEN marked[i] ELSE t[i - n]
  <2>1. /\ j \in Seq(Symbols) /\ Len(j) = n + Len(t)
        /\ \A i \in 1..(n + Len(t)) : j[i] = IF i <= n THEN marked[i] ELSE t[i - n]
    BY <1>2, ConcatProperties
  <2> HIDE DEF j, n
  <2> QED BY <1>2, <2>1
<1> HIDE DEF j, n
<1>4. \A i \in 1..n : j[i] = marked[i]
  BY <1>1, <1>3
<1>5. ASSUME NEW i \in (n + 1)..(n + count)
      PROVE  j[i] = IF i > distance THEN j[i - distance] ELSE 2 * Window + i - distance - 1
  <2> DEFINE k == i - n
  <2>1. k \in 1..count /\ i \in 1..(n + count) /\ ~(i <= n) /\ ~(i > distance)
        /\ Window + (Window + n - distance) + k - 1 = 2 * Window + i - distance - 1
    BY <1>1 DEF n
  <2>2. j[i] = t[k]
    BY <1>3, <2>1
  <2> HIDE DEF k
  <2> QED BY <1>2, <2>1, <2>2
<1>6. MarkedBy(j, marked, distance, count)
  BY <1>3, <1>4, <1>5 DEF MarkedBy, n
<1> QED BY <1>3, <1>6 DEF j, t, n

\* What copy makes of the marked symbols.
Copied(marked, distance, length) ==
    LET before == Len(marked)
        fromWindow == IF distance > before THEN AtMostOf(distance - before, length) ELSE 0
        begun == marked \o MarkersOf(before, distance, fromWindow)
    IN  IF fromWindow = length THEN begun
        ELSE ExtendMatch(begun, distance, length - fromWindow)

\* MarkerOutput::copy repeats symbol after symbol, like a match.
LEMMA CopiedIs ==
    ASSUME NEW marked \in Seq(Symbols), NEW distance \in 1..Window, NEW length \in Nat
    PROVE  MarkedBy(Copied(marked, distance, length), marked, distance, length)
<1> DEFINE n == Len(marked)
           f == IF distance > n THEN AtMostOf(distance - n, length) ELSE 0
           begun == marked \o MarkersOf(n, distance, f)
           rest == length - f
           ext == ExtendMatch(begun, distance, rest)
           new == Copied(marked, distance, length)
<1>1. n \in Nat /\ Window \in Nat \ {0} /\ distance \in Nat /\ 1 <= distance /\ distance <= Window
  BY WindowAssumption
<1>2. new = IF f = length THEN begun ELSE ext
  BY Zenon DEF Copied
<1>3. /\ f \in Nat /\ f <= length /\ rest \in Nat /\ f + rest = length
      /\ f > 0 => n + f <= distance
      /\ f # length => n + f >= distance
  BY <1>1 DEF AtMostOf
<1> HIDE DEF f
<1>4. begun \in Seq(Symbols) /\ MarkedBy(begun, marked, distance, f)
  BY <1>3, MarkersAre
<1> HIDE DEF begun, new
<1>5. ASSUME f = length
      PROVE  MarkedBy(new, marked, distance, length)
  <2>1. new = begun
    BY <1>2, <1>5
  <2> QED BY <1>4, <1>5, <2>1
<1>6. ASSUME f # length
      PROVE  MarkedBy(new, marked, distance, length)
  <2>1. /\ Len(begun) = n + f
        /\ \A i \in 1..n : begun[i] = marked[i]
        /\ \A i \in (n + 1)..(n + f) :
              begun[i] = IF i > distance THEN begun[i - distance] ELSE 2 * Window + i - distance - 1
    BY <1>4 DEF MarkedBy
  <2> HIDE DEF n
  <2>2. distance \in 1..Len(begun) /\ new = ext
    BY <1>1, <1>2, <1>3, <1>6, <2>1
  <2>3. IsMatch(new, begun, distance, rest, Symbols)
    <3> HIDE DEF rest
    <3> QED BY <1>3, <1>4, <2>2, ExtendIsRepeated
  <2>4. /\ new \in Seq(Symbols) /\ Len(new) = n + f + rest
        /\ \A i \in 1..(n + f) : new[i] = begun[i]
        /\ \A i \in (n + f + 1)..(n + f + rest) : new[i] = new[i - distance]
    <3> DEFINE b == Len(begun)
    <3>1. /\ new \in Seq(Symbols) /\ Len(new) = b + rest
          /\ \A i \in 1..b : new[i] = begun[i]
          /\ \A i \in (b + 1)..(b + rest) : new[i] = new[i - distance]
      BY <2>3, Zenon DEF IsMatch
    <3>2. b = n + f
      BY <2>1
    <3> HIDE DEF b, rest
    <3> QED BY <3>1, <3>2
  <2>5. \A i \in 1..n : new[i] = marked[i]
    <3> TAKE i \in 1..n
    <3>1. i \in 1..(n + f)
      BY <1>1, <1>3
    <3> QED BY <2>1, <2>4, <3>1
  <2>6. ASSUME NEW i \in (n + 1)..(n + length)
        PROVE  new[i] = IF i > distance THEN new[i - distance] ELSE 2 * Window + i - distance - 1
    <3>1. CASE i <= n + f
      <4>1. i \in (n + 1)..(n + f) /\ i \in 1..(n + f)
        BY <1>1, <1>3, <3>1
      <4>2. new[i] = begun[i]
            /\ begun[i] = IF i > distance THEN begun[i - distance]
                          ELSE 2 * Window + i - distance - 1
        BY <2>1, <2>4, <4>1
      <4>3. CASE i > distance
        <5> DEFINE k == i - distance
        <5>1. k \in 1..(n + f)
          BY <1>1, <1>3, <4>1, <4>3
        <5>3. begun[i] = begun[k]
          BY <4>2, <4>3
        <5> HIDE DEF k
        <5>2. new[k] = begun[k]
          BY <2>4, <5>1
        <5> QED BY <4>2, <4>3, <5>3, <5>2 DEF k
      <4> QED BY <4>2, <4>3
    <3>2. CASE ~(i <= n + f)
      <4>1. i \in (n + f + 1)..(n + f + rest) /\ i > distance
        BY <1>1, <1>3, <1>6, <3>2
      <4> HIDE DEF rest
      <4>2. new[i] = new[i - distance]
        BY <2>4, <4>1
      <4> QED BY <4>1, <4>2
    <3> QED BY <3>1, <3>2
  <2>7. Len(new) = n + length
    BY <1>1, <1>3, <2>4
  <2>8. new \in Seq(Symbols)
    BY <2>4
  <2> HIDE DEF ext, rest, f
  <2> QED BY <2>5, <2>6, <2>7, <2>8, Zenon DEF MarkedBy, n
<1>7. MarkedBy(new, marked, distance, length)
  BY <1>5, <1>6
<1> QED BY <1>7 DEF new

\* A symbol of a match resolves to what the match means.
IsResolved(q, new, w, i) ==
    IF IsMarker(new[i])
    THEN /\ new[i] - (2 * Window - Len(w)) + 1 \in 1..Len(w)
         /\ q[i] = w[new[i] - (2 * Window - Len(w)) + 1]
    ELSE q[i] = new[i]

\* Symbols that resolve to the end of `all`, behind c.
ResolveTo(new, w, c, all) == \E q : Resolves(q, new, w) /\ c \o q = all

\* A match of a segment means the match of everything, when it is resolved with
\* the end of what lies before the segment.
LEMMA MarkedMeans ==
    ASSUME NEW marked \in Seq(Symbols), NEW distance \in 1..Window, NEW length \in Nat,
           NEW new, MarkedBy(new, marked, distance, length),
           NEW c \in Seq(Bytewise), NEW w, IsEnd(w, c, Window, Bytewise),
           NEW r, Resolves(r, marked, w), distance <= Len(c) + Len(marked)
    PROVE  ResolveTo(new, w, c, Repeated(c \o r, distance, length))
<1> DEFINE n == Len(marked)
           h == Len(w)
           C == Len(c)
           p == c \o r
           all == Repeated(p, distance, length)
<1>0. /\ n \in Nat /\ C \in Nat /\ h \in Nat /\ h <= C /\ h <= Window
      /\ h = C \/ h = Window
      /\ Window \in Nat \ {0} /\ MaxByte \in 0..(Window - 1)
      /\ distance \in Nat /\ 1 <= distance /\ distance <= Window /\ distance <= C + n
  <2>1. h = AtMostOf(C, Window) /\ w \in Seq(Bytewise)
    BY DEF IsEnd
  <2> QED BY <2>1, WindowAssumption DEF AtMostOf
<1>w. \A i \in 1..h : w[i] = c[i + (C - h)]
  BY DEF IsEnd
<1>r. /\ r \in Seq(Bytewise) /\ Len(r) = n /\ \A i \in 1..n : IsResolved(r, marked, w, i)
  BY DEF Resolves, IsResolved
<1>m. /\ new \in Seq(Symbols) /\ Len(new) = n + length
      /\ \A i \in 1..n : new[i] = marked[i]
      /\ \A i \in (n + 1)..(n + length) :
            new[i] = IF i > distance THEN new[i - distance] ELSE 2 * Window + i - distance - 1
  BY Zenon DEF MarkedBy
<1>1. /\ p \in Seq(Bytewise) /\ Len(p) = C + n
      /\ \A i \in 1..(C + n) : p[i] = IF i <= C THEN c[i] ELSE r[i - C]
  <2>1. /\ p \in Seq(Bytewise) /\ Len(p) = C + Len(r)
        /\ \A i \in 1..(C + Len(r)) : p[i] = IF i <= C THEN c[i] ELSE r[i - C]
    BY <1>r, ConcatProperties
  <2> HIDE DEF p, C
  <2> QED BY <1>r, <2>1
<1> HIDE DEF p
<1>2. distance \in 1..Len(p)
  BY <1>0, <1>1
<1>3. IsMatch(all, p, distance, length, Bytewise)
  BY <1>1, <1>2, RepeatedIs
<1> HIDE DEF all
<1>4. Adds(all, p, length, Bytewise)
  BY <1>1, <1>2, <1>3, MatchAdds
<1>5. PICK more \in Seq(Bytewise) : Len(more) = length /\ all = p \o more
  BY <1>4 DEF Adds
<1> DEFINE q == r \o more
<1>6. /\ q \in Seq(Bytewise) /\ Len(q) = n + length
      /\ \A i \in 1..(n + length) : q[i] = IF i <= n THEN r[i] ELSE more[i - n]
  <2>1. /\ q \in Seq(Bytewise) /\ Len(q) = Len(r) + Len(more)
        /\ \A i \in 1..(Len(r) + Len(more)) : q[i] = IF i <= Len(r) THEN r[i] ELSE more[i - Len(r)]
    <3>1. r \in Seq(Bytewise)
      BY <1>r
    <3> QED BY <3>1, ConcatProperties
  <2> HIDE DEF q, n
  <2> QED BY <1>r, <1>5, <2>1
<1>7. all = c \o q
  <2>1. r \in Seq(Bytewise)
    BY <1>r
  <2>2. all = (c \o r) \o more
    BY <1>5 DEF p
  <2>3. (c \o r) \o more = c \o (r \o more)
    <3>1. Associates(c, r, more)
      BY <2>1, JoinsAssociate
    <3> QED BY <3>1 DEF Associates
  <2> QED BY <2>2, <2>3
<1> HIDE DEF q
<1>8. /\ \A i \in 1..C : all[i] = c[i]
      /\ \A i \in 1..(n + length) : all[i + C] = q[i]
  <2>1. \A i \in 1..(C + Len(q)) : (c \o q)[i] = IF i <= C THEN c[i] ELSE q[i - C]
    BY <1>6, ConcatProperties
  <2>2. \A i \in 1..(C + (n + length)) : all[i] = IF i <= C THEN c[i] ELSE q[i - C]
    BY <1>6, <1>7, <2>1
  <2> HIDE DEF C, n
  <2>3. \A i \in 1..C : all[i] = c[i]
    BY <1>0, <2>2
  <2>4. ASSUME NEW i \in 1..(n + length)
        PROVE  all[i + C] = q[i]
    <3> DEFINE k == i + C
    <3>1. k \in 1..(C + (n + length)) /\ ~(k <= C) /\ k - C = i
      BY <1>0
    <3> HIDE DEF k
    <3>2. all[k] = q[k - C]
      BY <2>2, <3>1
    <3> QED BY <3>1, <3>2 DEF k
  <2> QED BY <2>3, <2>4
<1>9. \A i \in (C + n + 1)..(C + n + length) : all[i] = all[i - distance]
  <2> DEFINE L == Len(p)
  <2>1. \A i \in (L + 1)..(L + length) : all[i] = all[i - distance]
    BY <1>3, Zenon DEF IsMatch
  <2>2. L = C + n
    BY <1>1
  <2> HIDE DEF L
  <2> QED BY <2>1, <2>2
<1> HIDE DEF n, h, C
\* By induction on the symbol.
<1> DEFINE Good == {k \in 0..(n + length) : \A i \in 1..k : IsResolved(q, new, w, i)}
<1>10. 0 \in Good
  BY <1>0
<1>11. ASSUME NEW k \in 1..(n + length), k - 1 \in Good
       PROVE  k \in Good
  <2>0. k \in Nat /\ k >= 1 /\ k <= n + length
    BY <1>0
  <2>1. \A i \in 1..(k - 1) : IsResolved(q, new, w, i)
    BY <1>11
  <2>2. ASSUME k <= n
        PROVE  IsResolved(q, new, w, k)
    <3>1. k \in 1..n
      BY <1>0, <2>0, <2>2
    <3>2. q[k] = r[k] /\ new[k] = marked[k]
      BY <1>6, <1>m, <2>2, <3>1
    <3>3. IsResolved(r, marked, w, k)
      BY <1>r, <3>1
    <3> QED BY <3>2, <3>3, Zenon DEF IsResolved
  <2>3. ASSUME ~(k <= n)
        PROVE  IsResolved(q, new, w, k)
    <3> DEFINE i == k + C
               j == i - distance
               l == k - distance
    <3>1. k \in (n + 1)..(n + length) /\ i \in (C + n + 1)..(C + n + length) /\ j = l + C
          /\ l \in Int
      BY <1>0, <2>0, <2>3
    <3>2. q[k] = all[j]
      <4>1. all[i] = all[j]
        BY <1>9, <3>1
      <4>2. all[i] = q[k]
        BY <1>8
      <4> QED BY <4>1, <4>2
    <3>3. new[k] = IF k > distance THEN new[l] ELSE 2 * Window + k - distance - 1
      BY <1>m, <3>1
    <3>4. ASSUME k > distance
          PROVE  IsResolved(q, new, w, k)
      <4>1. l \in 1..(k - 1) /\ l \in 1..(n + length)
        BY <1>0, <2>0, <3>4
      <4> HIDE DEF i, j, l
      <4>2. all[j] = q[l]
        <5>1. all[l + C] = q[l]
          BY <1>8, <4>1
        <5> QED BY <3>1, <5>1
      <4>3. IsResolved(q, new, w, l)
        BY <2>1, <4>1
      <4>4. q[k] = q[l] /\ new[k] = new[l]
        BY <3>2, <3>3, <3>4, <4>2
      <4> QED BY <4>3, <4>4, Zenon DEF IsResolved
    <3>5. ASSUME ~(k > distance)
          PROVE  IsResolved(q, new, w, k)
      <4> DEFINE x == 2 * Window + k - distance - 1
                 at == x - (2 * Window - h) + 1
      <4>1. /\ new[k] = x /\ x > MaxByte
            /\ at \in 1..h /\ at + (C - h) = j /\ j \in 1..C
        <5>1. new[k] = x
          BY <3>3, <3>5
        <5>2. x > MaxByte /\ at = h + k - distance /\ at + (C - h) = j
          BY <1>0, <2>0
        <5>3. at \in 1..h
          BY <1>0, <2>0, <2>3, <3>5
        <5>4. j \in 1..C
          BY <1>0, <2>0, <2>3, <3>5
        <5> QED BY <5>1, <5>2, <5>3, <5>4
      <4> HIDE DEF x, j
      <4>2. all[j] = c[j]
        BY <1>8, <4>1
      <4>3. w[at] = c[j]
        <5> HIDE DEF at
        <5>1. w[at] = c[at + (C - h)]
          BY <1>w, <4>1
        <5> QED BY <4>1, <5>1
      <4>4. IsMarker(new[k]) /\ q[k] = w[at]
        BY <3>2, <4>1, <4>2, <4>3 DEF IsMarker
      <4>5. new[k] - (2 * Window - Len(w)) + 1 = at
        BY <4>1 DEF h
      <4>6. at \in 1..Len(w)
        BY <4>1 DEF h
      <4> HIDE DEF at
      <4> QED BY <4>4, <4>5, <4>6 DEF IsResolved
    <3> QED BY <3>4, <3>5
  <2>4. IsResolved(q, new, w, k)
    BY <2>2, <2>3
  <2>5. ASSUME NEW i \in 1..k
        PROVE  IsResolved(q, new, w, i)
    <3>1. i = k \/ i \in 1..(k - 1)
      BY <2>0
    <3> QED BY <2>1, <2>4, <3>1
  <2>6. k \in 0..(n + length)
    BY <1>0
  <2> QED BY <2>5, <2>6
<1>12. \A k \in 0..(n + length) : k \in Good
  <2> HIDE DEF Good
  <2>1. n + length \in Nat
    BY <1>0
  <2> QED BY <1>10, <1>11, <2>1, Climb
<1>13. \A i \in 1..(n + length) : IsResolved(q, new, w, i)
  <2>1. n + length \in 0..(n + length)
    BY <1>0
  <2> QED BY <1>12, <2>1
<1>14. Resolves(q, new, w)
  BY <1>6, <1>m, <1>13, Zenon DEF Resolves, IsResolved
<1> QED BY <1>7, <1>14 DEF all, p, ResolveTo

------------------------------------------------------------------------------
(* A segment and what it means. *)

\* The history of a segment behind c.
WindowOf(c, w) == c \in Seq(Bytewise) /\ IsEnd(w, c, Window, Bytewise)

\* It is a history, and no longer than the window.
LEMMA BehindIs ==
    ASSUME NEW c, NEW w, WindowOf(c, w)
    PROVE  History(w) /\ c \in Seq(Bytewise) /\ IsEnd(w, c, Window, Bytewise)
<1>1. c \in Seq(Bytewise) /\ IsEnd(w, c, Window, Bytewise) /\ Window \in Nat
  BY WindowAssumption DEF WindowOf
<1>2. Len(w) <= Window
  BY <1>1, EndIsEnds
<1>3. w \in Seq(Bytewise)
  BY <1>1 DEF IsEnd
<1> QED BY <1>1, <1>2, <1>3 DEF History

\* What the invariant says of the parts of a segment.
LEMMA ShapeIs ==
    ASSUME NEW g, NEW c, Shape(g, c)
    PROVE  /\ g \in Segments /\ g.marked \in Seq(Symbols) /\ g.clean \in Seq(Bytewise)
           /\ g.cleanStart \in 0..Len(g.clean) /\ g.cleanMode \in BOOLEAN
           /\ g.known => g.cleanMode /\ g.marked = <<>> /\ g.cleanStart = 0 /\ c = <<>>
           /\ ~g.cleanMode => g.clean = <<>> /\ g.cleanStart = 0 /\ CleanOutput(g) = <<>>
           /\ g.cleanMode /\ ~g.known => g.cleanStart = Window /\ Len(g.clean) >= Window
           /\ CleanOutput(g) \in Seq(Bytewise)
           /\ Len(CleanOutput(g)) = Len(g.clean) - g.cleanStart
<1>1. /\ g \in Segments /\ g.marked \in Seq(Symbols) /\ g.clean \in Seq(Bytewise)
      /\ g.cleanMode \in BOOLEAN /\ Len(g.clean) \in Nat
  <2>1. /\ g \in Segments /\ g.marked \in Seq(Symbols) /\ g.clean \in Seq(Bytewise)
        /\ g.cleanMode \in BOOLEAN
    BY DEF Shape, Segments
  <2> QED BY <2>1
<1>2. /\ g.known => g.cleanMode /\ g.marked = <<>> /\ g.cleanStart = 0 /\ c = <<>>
      /\ ~g.cleanMode => g.clean = <<>> /\ g.cleanStart = 0
      /\ g.cleanMode /\ ~g.known => g.cleanStart = Window /\ Len(g.clean) >= Window
      /\ g.cleanStart = 0 \/ (g.cleanStart = Window /\ Len(g.clean) >= Window)
  BY DEF Shape
<1>3. g.cleanStart \in 0..Len(g.clean)
  BY <1>1, <1>2, WindowAssumption
<1>4. CleanOutput(g) \in Seq(Bytewise) /\ Len(CleanOutput(g)) = Len(g.clean) - g.cleanStart
  BY <1>1, <1>3, SplitAt DEF CleanOutput
<1>5. ~g.cleanMode => CleanOutput(g) = <<>>
  <2>1. Len(<<>>) = 0
    OBVIOUS
  <2>2. ~g.cleanMode => Len(CleanOutput(g)) = 0
    BY <1>2, <1>4, <2>1
  <2>3. \A s \in Seq(Bytewise) : Len(s) = 0 => s = <<>>
    OBVIOUS
  <2> QED BY <1>4, <2>2, <2>3
<1> QED BY <1>1, <1>2, <1>3, <1>4, <1>5

\* Segments that differ in one field.
LEMMA RefusedSegment ==
    ASSUME NEW g, NEW c, Shape(g, c), NEW why \in {"no", "too big", "too far"}
    PROVE  /\ Shape([g EXCEPT !.refused = why], c)
           /\ [g EXCEPT !.refused = why].refused = why
           /\ [g EXCEPT !.refused = why].marked = g.marked
BY DEF Shape, Segments

\* A segment with other clean bytes, ...
LEMMA CleanSegment ==
    ASSUME NEW g, NEW c, Shape(g, c), g.cleanMode, NEW s \in Seq(Bytewise),
           Len(s) >= Len(g.clean)
    PROVE  LET f == [g EXCEPT !.clean = s] IN
           /\ Shape(f, c) /\ f.marked = g.marked /\ f.clean = s
           /\ f.cleanStart = g.cleanStart /\ f.cleanMode /\ f.refused = g.refused
<1> DEFINE f == [g EXCEPT !.clean = s]
<1>1. g \in Segments /\ Len(g.clean) \in Nat /\ Len(s) \in Nat
  <2>1. g \in Segments /\ g.clean \in Seq(Bytewise)
    BY DEF Shape, Segments
  <2> QED BY <2>1
<1>2. /\ f \in Segments /\ f.marked = g.marked /\ f.clean = s
      /\ f.cleanStart = g.cleanStart /\ f.cleanMode = g.cleanMode /\ f.refused = g.refused
      /\ f.known = g.known
  BY <1>1 DEF Segments
<1> HIDE DEF f
<1>3. Window \in Nat
  BY WindowAssumption
<1>4. Shape(f, c)
  BY <1>1, <1>2, <1>3 DEF Shape
<1> QED BY <1>2, <1>4 DEF f

\* ... and one with other marked symbols.
LEMMA MarkedSegment ==
    ASSUME NEW g, NEW c, Shape(g, c), ~g.cleanMode, NEW s \in Seq(Symbols)
    PROVE  LET f == [g EXCEPT !.marked = s] IN
           /\ Shape(f, c) /\ f.marked = s /\ f.clean = <<>> /\ ~f.cleanMode
           /\ f.refused = g.refused /\ CleanOutput(f) = <<>>
<1> DEFINE f == [g EXCEPT !.marked = s]
<1>1. g \in Segments /\ ~g.known /\ ~g.cleanMode /\ g.clean = <<>> /\ g.cleanStart = 0
  BY DEF Shape
<1>2. /\ f \in Segments /\ f.marked = s /\ f.clean = g.clean
      /\ f.cleanStart = g.cleanStart /\ f.cleanMode = g.cleanMode /\ f.refused = g.refused
      /\ f.known = g.known
  BY <1>1 DEF Segments
<1> HIDE DEF f
<1>4. Shape(f, c)
  BY <1>1, <1>2 DEF Shape
<1>5. CleanOutput(f) = <<>>
  BY <1>1, <1>2, <1>4, ShapeIs
<1> QED BY <1>1, <1>2, <1>4, <1>5 DEF f

\* The bytes of a segment that knows its history go on.
LEMMA CleanMore ==
    ASSUME NEW g, NEW c, Shape(g, c), NEW w, WindowOf(c, w), g.cleanMode, NEW p,
           Means(g, c, w, p), NEW more \in Seq(Bytewise)
    PROVE  Means([g EXCEPT !.clean = g.clean \o more], c, w, p \o more)
<1> DEFINE s == g.clean \o more
           f == [g EXCEPT !.clean = s]
           r == ResolveSymbols(g.marked, w)
           o == CleanOutput(g)
           t == c \o r
<1>1. /\ g.clean \in Seq(Bytewise) /\ g.cleanStart \in 0..Len(g.clean)
      /\ o \in Seq(Bytewise) /\ g.marked \in Seq(Symbols)
  BY ShapeIs
<1>2. /\ Resolvable(g.marked, w) /\ p = t \o o /\ Ends(g.clean, p, Bytewise)
  BY DEF Means, Meaning
<1>3. s \in Seq(Bytewise) /\ Len(s) = Len(g.clean) + Len(more) /\ Len(more) \in Nat
      /\ Len(g.clean) \in Nat
  BY <1>1, ConcatProperties
<1>4. Len(s) >= Len(g.clean)
  BY <1>3
<1>5. Ends(s, p \o more, Bytewise)
  BY <1>2, EndsGrow
<1>6. SubSeq(s, g.cleanStart + 1, Len(s)) = o \o more
  BY <1>1, PendingIs DEF CleanOutput
<1> HIDE DEF s
<1>7. /\ f.marked = g.marked /\ f.clean = s /\ f.cleanStart = g.cleanStart
  BY <1>3, <1>4, CleanSegment
<1> HIDE DEF f
<1>8. CleanOutput(f) = o \o more
  BY <1>6, <1>7 DEF CleanOutput
<1>9. t \in Seq(Bytewise)
  <2>1. Resolves(r, g.marked, w)
    BY <1>1, <1>2, BehindIs, ResolvableIs
  <2>2. r \in Seq(Bytewise) /\ c \in Seq(Bytewise)
    BY <2>1, BehindIs DEF Resolves
  <2> HIDE DEF r
  <2> QED BY <2>2, ConcatProperties
<1> HIDE DEF t, o
<1>10. p \o more = t \o (o \o more)
  <2>1. o \in Seq(Bytewise) /\ p = t \o o
    BY <1>1, <1>2
  <2>2. Associates(t, o, more)
    BY <1>9, <2>1, JoinsAssociate
  <2> QED BY <2>1, <2>2 DEF Associates
<1>11. p \o more = Meaning(f, c, w)
  BY <1>7, <1>8, <1>10 DEF Meaning, t, r
<1> DEFINE q == p \o more
<1>12. q = Meaning(f, c, w) /\ Ends(f.clean, q, Bytewise) /\ Resolvable(f.marked, w)
  BY <1>2, <1>5, <1>7, <1>11
<1> HIDE DEF q
<1>13. Means(f, c, w, q)
  BY <1>12 DEF Means
<1> QED BY <1>13 DEF f, q, s

\* What a segment that does not know its history means.
LEMMA MarkedMeaning ==
    ASSUME NEW g, NEW c, Shape(g, c), NEW w, WindowOf(c, w), ~g.cleanMode, NEW p
    PROVE  Means(g, c, w, p) <=>
              Resolvable(g.marked, w) /\ p = c \o ResolveSymbols(g.marked, w)
<1> DEFINE r == ResolveSymbols(g.marked, w)
           t == c \o r
<1>1. CleanOutput(g) = <<>> /\ g.marked \in Seq(Symbols)
  BY ShapeIs
<1>2. ASSUME Resolvable(g.marked, w)
      PROVE  Meaning(g, c, w) = t
  <2>1. Resolves(r, g.marked, w)
    BY <1>1, <1>2, BehindIs, ResolvableIs
  <2>2. r \in Seq(Bytewise) /\ c \in Seq(Bytewise)
    BY <2>1, BehindIs DEF Resolves
  <2>3. t \in Seq(Bytewise)
    <3> HIDE DEF r
    <3> QED BY <2>2, ConcatProperties
  <2>4. Meaning(g, c, w) = t \o <<>>
    BY <1>1 DEF Meaning
  <2> HIDE DEF t
  <2> QED BY <2>3, <2>4, ConcatEmptySeq
<1> HIDE DEF t
<1>3. Means(g, c, w, p) <=> Resolvable(g.marked, w) /\ p = t
  BY <1>2 DEF Means
<1> QED BY <1>3 DEF t

\* Bytes of a segment.
LEMMA GrownKeeps ==
    ASSUME NEW g, NEW c, Shape(g, c), NEW w, WindowOf(c, w), NEW added \in Seq(Bytewise),
           g.refused = "no", NEW p
    PROVE  /\ Shape(Grown(g, added), c)
           /\ Grown(g, added).refused \in {"no", "too big"}
           /\ Grown(g, added).refused = "no" =>
                 (Resolvable(Grown(g, added).marked, w) <=> Resolvable(g.marked, w))
           /\ Grown(g, added).refused = "no" /\ Means(g, c, w, p) =>
                 Means(Grown(g, added), c, w, p \o added)
<1> DEFINE G == Grown(g, added)
           refuse == [g EXCEPT !.refused = "too big"]
           more == g.clean \o added
           marks == g.marked \o added
           clean == [g EXCEPT !.clean = more]
           mark == [g EXCEPT !.marked = marks]
<1>1. G = IF Len(added) > SegmentLimit - Decoded(g) THEN refuse
          ELSE IF g.cleanMode THEN clean ELSE mark
  BY DEF Grown
<1>2. /\ g.marked \in Seq(Symbols) /\ g.clean \in Seq(Bytewise) /\ History(w)
      /\ c \in Seq(Bytewise)
  BY ShapeIs, BehindIs
<1>3. Shape(refuse, c) /\ refuse.refused = "too big"
  BY RefusedSegment
<1>4. ASSUME g.cleanMode
      PROVE  /\ Shape(clean, c) /\ clean.refused = "no" /\ clean.marked = g.marked
             /\ Means(g, c, w, p) => Means(clean, c, w, p \o added)
  <2>1. more \in Seq(Bytewise) /\ Len(more) >= Len(g.clean)
    <3>1. more \in Seq(Bytewise) /\ Len(more) = Len(g.clean) + Len(added)
          /\ Len(added) \in Nat /\ Len(g.clean) \in Nat
      BY <1>2, ConcatProperties
    <3> HIDE DEF more
    <3> QED BY <3>1
  <2>2. Shape(clean, c) /\ clean.refused = g.refused /\ clean.marked = g.marked
    <3> HIDE DEF more
    <3> QED BY <1>4, <2>1, CleanSegment
  <2>3. Means(g, c, w, p) => Means(clean, c, w, p \o added)
    BY <1>4, CleanMore
  <2> QED BY <2>2, <2>3
<1>5. ASSUME ~g.cleanMode
      PROVE  /\ Shape(mark, c) /\ mark.refused = "no"
             /\ Resolvable(mark.marked, w) <=> Resolvable(g.marked, w)
             /\ Means(g, c, w, p) => Means(mark, c, w, p \o added)
  <2> DEFINE r == ResolveSymbols(g.marked, w)
             x == ResolveSymbols(marks, w)
  <2>1. /\ marks \in Seq(Symbols)
        /\ Resolvable(marks, w) <=> Resolvable(g.marked, w)
        /\ Resolvable(g.marked, w) => x = r \o added
    BY <1>2, ResolveBytes
  <2> HIDE DEF marks
  <2>2. Shape(mark, c) /\ mark.refused = "no" /\ mark.marked = marks /\ ~mark.cleanMode
    BY <1>5, <2>1, MarkedSegment
  <2> HIDE DEF mark
  <2>3. ASSUME Means(g, c, w, p)
        PROVE  Means(mark, c, w, p \o added)
    <3>1. Resolvable(g.marked, w) /\ p = c \o r
      BY <1>5, <2>3, MarkedMeaning
    <3>2. Resolves(r, g.marked, w)
      BY <1>2, <3>1, ResolvableIs
    <3>3. r \in Seq(Bytewise)
      BY <3>2 DEF Resolves
    <3>x. x = r \o added
      BY <2>1, <3>1
    <3> HIDE DEF r, x
    <3>4. p \o added = c \o x
      <4>1. (c \o r) \o added = c \o (r \o added)
        <5>1. Associates(c, r, added)
          BY <1>2, <3>3, JoinsAssociate
        <5> QED BY <5>1 DEF Associates
      <4> QED BY <3>1, <3>x, <4>1
    <3> DEFINE q == p \o added
    <3>5. Resolvable(mark.marked, w) /\ q = c \o ResolveSymbols(mark.marked, w)
      BY <2>1, <2>2, <3>1, <3>4 DEF x
    <3> HIDE DEF q
    <3>6. Means(mark, c, w, q)
      BY <2>2, <3>5, MarkedMeaning
    <3> QED BY <3>6 DEF q
  <2> QED BY <2>1, <2>2, <2>3
<1> HIDE DEF G, refuse, clean, mark
<1>6. CASE Len(added) > SegmentLimit - Decoded(g)
  <2>1. G = refuse
    BY <1>1, <1>6
  <2> QED BY <1>3, <2>1 DEF G
<1>7. CASE ~(Len(added) > SegmentLimit - Decoded(g)) /\ g.cleanMode
  <2>1. G = clean
    BY <1>1, <1>7
  <2> QED BY <1>4, <1>7, <2>1 DEF G
<1>8. CASE ~(Len(added) > SegmentLimit - Decoded(g)) /\ ~g.cleanMode
  <2>1. G = mark
    BY <1>1, <1>8
  <2> QED BY <1>5, <1>8, <2>1 DEF G
<1> QED BY <1>6, <1>7, <1>8

\* A whole window without a marker.
Known(marked) ==
    /\ Len(marked) >= Window
    /\ \A i \in DOMAIN marked : i > Len(marked) - Window => ~IsMarker(marked[i])

\* It is bytes, and resolves to itself.
LEMMA KnownBytes ==
    ASSUME NEW marked \in Seq(Symbols), Known(marked)
    PROVE  /\ Newest(marked, Window) \in Seq(Bytewise) /\ Len(Newest(marked, Window)) = Window
           /\ \A r, w : Resolves(r, marked, w) => Ends(Newest(marked, Window), r, Bytewise)
<1> DEFINE n == Len(marked)
           s == Newest(marked, Window)
           off == n - Window
<1>1. /\ Window \in Nat \ {0} /\ MaxByte \in 0..(Window - 1) /\ n \in Nat /\ n >= Window
      /\ DOMAIN marked = 1..n
  BY WindowAssumption DEF Known
<1>2. Window \in 0..n
  BY <1>1
<1>3. /\ s \in Seq(Symbols) /\ Len(s) = Window /\ Ends(s, marked, Symbols)
  BY <1>2, NewestEnds
<1> HIDE DEF s
<1>4. \A i \in 1..Window : s[i] = marked[i + off]
  <2> DEFINE l == Len(s)
             o == Len(marked) - l
  <2>1. \A i \in 1..l : s[i] = marked[i + o]
    BY <1>3, Zenon DEF Ends
  <2>2. l = Window /\ o = off
    BY <1>3
  <2> HIDE DEF l, o, off
  <2> QED BY <2>1, <2>2
<1>5. ASSUME NEW i \in 1..Window
      PROVE  /\ i + off \in 1..n /\ s[i] \in Bytewise /\ ~IsMarker(marked[i + off])
  <2> DEFINE k == i + off
             x == marked[k]
  <2>1. k \in 1..n /\ k > n - Window
    BY <1>1
  <2> HIDE DEF k
  <2>2. ~IsMarker(x) /\ x \in Symbols
    BY <1>1, <2>1 DEF Known
  <2>3. s[i] = x
    BY <1>4 DEF k
  <2> HIDE DEF x
  <2>4. x \in Bytewise
    BY <1>1, <2>2 DEF IsMarker, Bytewise, Symbols
  <2> QED BY <2>1, <2>2, <2>3, <2>4 DEF k, x
<1>6. s \in Seq(Bytewise)
  <2>1. s = [i \in 1..Window |-> s[i]]
    BY <1>3
  <2>2. \A i \in 1..Window : s[i] \in Bytewise
    BY <1>5
  <2>3. s \in [1..Window -> Bytewise]
    BY <2>1, <2>2
  <2> QED BY <1>1, <2>3
<1>7. ASSUME NEW r, NEW w, Resolves(r, marked, w)
      PROVE  Ends(s, r, Bytewise)
  <2>1. /\ r \in Seq(Bytewise) /\ Len(r) = n
        /\ \A i \in 1..n : ~IsMarker(marked[i]) => r[i] = marked[i]
    BY <1>7 DEF Resolves
  <2>2. ASSUME NEW i \in 1..Window
        PROVE  s[i] = r[i + off]
    <3> DEFINE k == i + off
    <3>1. k \in 1..n /\ ~IsMarker(marked[k]) /\ s[i] = marked[k]
      BY <1>4, <1>5
    <3> HIDE DEF k
    <3>2. r[k] = marked[k]
      BY <2>1, <3>1
    <3> QED BY <3>1, <3>2 DEF k
  <2> DEFINE l == Len(s)
             o == Len(r) - l
  <2>3. l = Window /\ o = off /\ l <= Len(r)
    BY <1>1, <1>3, <2>1
  <2> HIDE DEF l, o, off
  <2>4. \A i \in 1..l : s[i] = r[i + o]
    BY <2>2, <2>3
  <2> QED BY <1>6, <2>1, <2>3, <2>4, Zenon DEF Ends, l, o
<1> QED BY <1>3, <1>6, <1>7 DEF s

\* try_clean changes nothing that is meant.
LEMMA CleanedKeeps ==
    ASSUME NEW g, NEW c, Shape(g, c), NEW w, WindowOf(c, w), NEW p
    PROVE  /\ Shape(Cleaned(g), c)
           /\ Cleaned(g).refused = g.refused /\ Cleaned(g).marked = g.marked
           /\ Means(g, c, w, p) => Means(Cleaned(g), c, w, p)
<1> DEFINE G == Cleaned(g)
           s == Newest(g.marked, Window)
           f == [g EXCEPT !.clean = s, !.cleanStart = Window, !.cleanMode = TRUE]
<1>1. /\ g \in Segments /\ g.marked \in Seq(Symbols) /\ History(w) /\ c \in Seq(Bytewise)
  BY ShapeIs, BehindIs
<1>2. g.cleanMode \/ ~Known(g.marked) => G = g
  <2>1. Len(g.marked) \in Nat /\ Window \in Nat
    BY <1>1, WindowAssumption
  <2> QED BY <2>1 DEF Cleaned, Known
<1>3. ~g.cleanMode /\ Known(g.marked) => G = f
  <2>1. Len(g.marked) \in Nat /\ Window \in Nat
    BY <1>1, WindowAssumption
  <2> QED BY <2>1 DEF Cleaned, Known
<1> HIDE DEF G
<1>4. ASSUME ~g.cleanMode, Known(g.marked)
      PROVE  /\ Shape(f, c) /\ f.refused = g.refused /\ f.marked = g.marked
             /\ Means(g, c, w, p) => Means(f, c, w, p)
  <2>1. /\ s \in Seq(Bytewise) /\ Len(s) = Window
        /\ \A r, v : Resolves(r, g.marked, v) => Ends(s, r, Bytewise)
    BY <1>1, <1>4, KnownBytes
  <2> HIDE DEF s
  <2>2. ~g.known
    BY <1>4 DEF Shape
  <2>3. Window \in Nat
    BY WindowAssumption
  <2>4. /\ f \in Segments /\ f.marked = g.marked /\ f.clean = s /\ f.cleanStart = Window
        /\ f.cleanMode /\ f.refused = g.refused /\ f.known = g.known
    BY <1>1, <2>1, <2>3 DEF Segments
  <2> HIDE DEF f
  <2>5. Shape(f, c)
    BY <2>1, <2>2, <2>3, <2>4 DEF Shape
  <2>6. ASSUME Means(g, c, w, p)
        PROVE  Means(f, c, w, p)
    <3> DEFINE r == ResolveSymbols(g.marked, w)
               t == c \o r
    <3>1. Resolvable(g.marked, w) /\ p = t
      BY <1>4, <2>6, MarkedMeaning
    <3>2. Resolves(r, g.marked, w)
      BY <1>1, <3>1, ResolvableIs
    <3>3. r \in Seq(Bytewise) /\ Ends(s, r, Bytewise)
      BY <2>1, <3>2 DEF Resolves
    <3> HIDE DEF r
    <3>4. Ends(r, t, Bytewise) /\ t \in Seq(Bytewise)
      BY <1>1, <3>3, EndsBehind, ConcatProperties
    <3>5. Ends(s, t, Bytewise)
      <4> HIDE DEF t
      <4> QED BY <3>3, <3>4, EndsInEnds
    <3>6. CleanOutput(f) = <<>>
      <4>1. SubSeq(s, Window + 1, Len(s)) = <<>>
        BY <2>1, <2>3, SubSeqEmpty
      <4> QED BY <2>4, <4>1 DEF CleanOutput
    <3>7. Meaning(f, c, w) = t
      <4>1. Meaning(f, c, w) = t \o <<>>
        BY <2>4, <3>6 DEF Meaning, r
      <4> HIDE DEF t
      <4> QED BY <3>4, <4>1, ConcatEmptySeq
    <3> QED BY <2>4, <3>1, <3>5, <3>7 DEF Means
  <2> QED BY <2>4, <2>5, <2>6
<1> HIDE DEF f
<1>5. CASE g.cleanMode \/ ~Known(g.marked)
  BY <1>2, <1>5 DEF G
<1>6. CASE ~g.cleanMode /\ Known(g.marked)
  BY <1>3, <1>4, <1>6 DEF G
<1> QED BY <1>5, <1>6

\* What a match makes of what is meant.
MatchMeans(G, g, c, w, distance, length, p) ==
    /\ Shape(G, c)
    /\ G.refused = "no" /\ ~Resolvable(g.marked, w) => ~Resolvable(G.marked, w)
    /\ Means(g, c, w, p) /\ distance > Len(p) =>
          G.refused # "no" \/ ~Resolvable(G.marked, w)
    /\ Means(g, c, w, p) /\ distance <= Len(p) =>
          /\ G.refused # "too far"
          /\ G.refused = "no" => Means(G, c, w, Repeated(p, distance, length))

\* A match of a segment that knows its history ...
LEMMA CleanMatch ==
    ASSUME NEW g, NEW c, Shape(g, c), NEW w, WindowOf(c, w), g.cleanMode, g.refused = "no",
           NEW distance \in 1..Window, NEW length \in Nat, NEW p \in Seq(Bytewise)
    PROVE  MatchMeans(IF distance > AtMostOf(Len(g.clean), Window)
                      THEN [g EXCEPT !.refused = "too far"]
                      ELSE [g EXCEPT !.clean = ExtendMatch(g.clean, distance, length)],
                      g, c, w, distance, length, p)
<1> DEFINE s == ExtendMatch(g.clean, distance, length)
           f == [g EXCEPT !.clean = s]
           e == [g EXCEPT !.refused = "too far"]
           G == IF distance > AtMostOf(Len(g.clean), Window) THEN e ELSE f
<1>1. /\ g \in Segments /\ g.clean \in Seq(Bytewise) /\ Len(g.clean) \in Nat
      /\ c \in Seq(Bytewise) /\ History(w)
  <2>1. g \in Segments /\ g.clean \in Seq(Bytewise)
    BY ShapeIs
  <2> QED BY <2>1, BehindIs
<1>2. Window \in Nat \ {0} /\ Len(p) \in Nat
  BY WindowAssumption
<1>3. Shape(e, c) /\ e.refused = "too far" /\ e.marked = g.marked
  BY RefusedSegment
<1>4. ASSUME Means(g, c, w, p)
      PROVE  /\ Ends(g.clean, p, Bytewise) /\ Len(g.clean) <= Len(p)
             /\ distance > AtMostOf(Len(g.clean), Window) <=> distance > Len(p)
  <2>1. Ends(g.clean, p, Bytewise) /\ p = Meaning(g, c, w)
    BY <1>4 DEF Means
  <2>2. Len(g.clean) <= Len(p)
    BY <2>1 DEF Ends
  <2>3. CASE g.known
    <3>1. g.marked = <<>> /\ g.cleanStart = 0 /\ c = <<>>
      BY <2>3, ShapeIs
    <3>2. CleanOutput(g) \in Seq(Bytewise) /\ Len(CleanOutput(g)) = Len(g.clean) - g.cleanStart
      BY ShapeIs
    <3>3. ResolveSymbols(g.marked, w) = <<>>
      BY <3>1 DEF ResolveSymbols
    <3>4. p = (<<>> \o <<>>) \o CleanOutput(g)
      BY <2>1, <3>1, <3>3 DEF Meaning
    <3> DEFINE o == CleanOutput(g)
    <3> HIDE DEF o
    <3>5. p = o
      <4>1. <<>> \o <<>> = <<>>
        OBVIOUS
      <4>2. <<>> \o o = o
        BY <3>2, ConcatEmptySeq DEF o
      <4> QED BY <3>4, <4>1, <4>2 DEF o
    <3>6. Len(p) = Len(g.clean)
      BY <1>1, <3>1, <3>2, <3>5 DEF o
    <3> QED BY <1>1, <1>2, <2>1, <2>2, <3>6 DEF AtMostOf
  <2>4. CASE ~g.known
    <3>1. Len(g.clean) >= Window
      BY <2>4, ShapeIs
    <3> QED BY <1>1, <1>2, <2>1, <2>2, <3>1 DEF AtMostOf
  <2> QED BY <2>3, <2>4
<1>5. ASSUME ~(distance > AtMostOf(Len(g.clean), Window))
      PROVE  /\ Shape(f, c) /\ f.refused = "no" /\ f.marked = g.marked
             /\ Means(g, c, w, p) => Means(f, c, w, Repeated(p, distance, length))
  <2>1. distance \in 1..Len(g.clean)
    BY <1>1, <1>2, <1>5 DEF AtMostOf
  <2>2. IsMatch(s, g.clean, distance, length, Bytewise)
    BY <1>1, <2>1, ExtendIsRepeated
  <2>3. s \in Seq(Bytewise) /\ Len(s) = Len(g.clean) + length
    <3> HIDE DEF s
    <3> QED BY <2>2 DEF IsMatch
  <2>4. Len(s) >= Len(g.clean)
    BY <1>1, <2>3
  <2>5. Shape(f, c) /\ f.refused = g.refused /\ f.marked = g.marked
    <3> HIDE DEF s
    <3> QED BY <2>3, <2>4, CleanSegment
  <2>6. ASSUME Means(g, c, w, p)
        PROVE  Means(f, c, w, Repeated(p, distance, length))
    <3>1. Ends(g.clean, p, Bytewise)
      BY <1>4, <2>6
    <3>2. AddTheSame(s, g.clean, Repeated(p, distance, length), p, length, Bytewise)
      BY <2>1, <3>1, MatchInEnd
    <3> HIDE DEF s
    <3>3. PICK more \in Seq(Bytewise) : /\ Len(more) = length
                                        /\ s = g.clean \o more
                                        /\ Repeated(p, distance, length) = p \o more
      BY <3>2 DEF AddTheSame
    <3>4. Means([g EXCEPT !.clean = g.clean \o more], c, w, p \o more)
      BY <2>6, CleanMore
    <3> QED BY <3>3, <3>4
  <2> QED BY <2>5, <2>6
<1> HIDE DEF f, e
<1>6. CASE distance > AtMostOf(Len(g.clean), Window)
  <2>1. G = e
    BY <1>6
  <2>2. ~(Means(g, c, w, p) /\ distance <= Len(p))
    BY <1>2, <1>4, <1>6
  <2> HIDE DEF G
  <2>3. MatchMeans(G, g, c, w, distance, length, p)
    BY <1>3, <2>1, <2>2 DEF MatchMeans
  <2> QED BY <2>3 DEF G, e, f, s
<1>7. CASE ~(distance > AtMostOf(Len(g.clean), Window))
  <2>1. G = f
    BY <1>7
  <2>2. ~(Means(g, c, w, p) /\ distance > Len(p))
    BY <1>4, <1>7
  <2> HIDE DEF G
  <2>3. MatchMeans(G, g, c, w, distance, length, p)
    BY <1>5, <1>7, <2>1, <2>2 DEF MatchMeans
  <2> QED BY <2>3 DEF G, e, f, s
<1> QED BY <1>6, <1>7

\* ... and of one that does not.
LEMMA MarkedMatch ==
    ASSUME NEW g, NEW c, Shape(g, c), NEW w, WindowOf(c, w), ~g.cleanMode, g.refused = "no",
           NEW distance \in 1..Window, NEW length \in Nat \ {0}, NEW p \in Seq(Bytewise)
    PROVE  MatchMeans([g EXCEPT !.marked = Copied(g.marked, distance, length)],
                      g, c, w, distance, length, p)
<1> DEFINE new == Copied(g.marked, distance, length)
           f == [g EXCEPT !.marked = new]
           n == Len(g.marked)
           h == Len(w)
           C == Len(c)
           r == ResolveSymbols(g.marked, w)
           bound == 2 * Window - h
<1>1. /\ g.marked \in Seq(Symbols) /\ c \in Seq(Bytewise) /\ History(w)
      /\ IsEnd(w, c, Window, Bytewise)
  BY ShapeIs, BehindIs
<1>2. MarkedBy(new, g.marked, distance, length)
  BY <1>1, CopiedIs
<1> HIDE DEF new
<1>3. /\ new \in Seq(Symbols) /\ Len(new) = n + length
      /\ \A i \in 1..n : new[i] = g.marked[i]
      /\ \A i \in (n + 1)..(n + length) :
            new[i] = IF i > distance THEN new[i - distance] ELSE 2 * Window + i - distance - 1
  BY <1>2, Zenon DEF MarkedBy
<1>4. Shape(f, c) /\ f.marked = new /\ ~f.cleanMode /\ f.refused = "no"
  BY <1>3, MarkedSegment
<1> HIDE DEF f
<1>5. /\ Window \in Nat \ {0} /\ MaxByte \in 0..(Window - 1) /\ n \in Nat /\ C \in Nat /\ h \in Nat
      /\ h = C \/ h = Window
      /\ distance \in Nat /\ distance <= Window
      /\ h <= C
  <2>1. h = AtMostOf(C, Window) /\ C \in Nat /\ n \in Nat
    BY <1>1 DEF IsEnd
  <2> QED BY <2>1, WindowAssumption DEF AtMostOf
<1>6. /\ Resolvable(g.marked, w) <=> \A i \in 1..n : IsMarker(g.marked[i]) => g.marked[i] >= bound
      /\ Resolvable(new, w) <=> \A i \in 1..Len(new) : IsMarker(new[i]) => new[i] >= bound
  BY <1>1, <1>3, ResolvableIs
<1>7. ASSUME ~Resolvable(g.marked, w)
      PROVE  ~Resolvable(new, w)
  <2>1. PICK i \in 1..n : IsMarker(g.marked[i]) /\ ~(g.marked[i] >= bound)
    BY <1>6, <1>7
  <2>2. i \in 1..Len(new) /\ new[i] = g.marked[i]
    BY <1>3, <1>5
  <2> HIDE DEF bound
  <2> QED BY <1>6, <2>1, <2>2
<1>8. ASSUME Means(g, c, w, p)
      PROVE  /\ Resolvable(g.marked, w) /\ p = c \o r /\ Resolves(r, g.marked, w)
             /\ Len(p) = C + n
  <2>1. Resolvable(g.marked, w) /\ p = c \o r
    BY <1>8, MarkedMeaning
  <2>2. Resolves(r, g.marked, w)
    BY <1>1, <2>1, ResolvableIs
  <2>3. r \in Seq(Bytewise) /\ Len(r) = n
    BY <2>2 DEF Resolves
  <2> HIDE DEF r
  <2>4. Len(c \o r) = C + Len(r)
    BY <1>1, <2>3, ConcatProperties
  <2>5. Len(c \o r) = C + n
    BY <2>3, <2>4
  <2> QED BY <2>1, <2>2, <2>5 DEF r
<1>9. ASSUME Means(g, c, w, p), distance > Len(p)
      PROVE  ~Resolvable(new, w)
  <2>1. distance > C + n /\ h = C
    BY <1>5, <1>8, <1>9
  <2> HIDE DEF n, h, C
  <2> DEFINE i == n + 1
             x == 2 * Window + i - distance - 1
  <2>2. i \in (n + 1)..(n + length) /\ i \in 1..Len(new) /\ ~(i > distance)
    BY <1>3, <1>5, <2>1
  <2>3. x > MaxByte /\ ~(x >= bound)
    BY <1>5, <2>1
  <2> HIDE DEF i
  <2>4. new[i] = x
    BY <1>3, <2>2
  <2> HIDE DEF x, bound
  <2>5. IsMarker(new[i]) /\ ~(new[i] >= bound)
    BY <2>3, <2>4 DEF IsMarker
  <2> QED BY <1>6, <2>2, <2>5
<1>10. ASSUME Means(g, c, w, p), distance <= Len(p)
       PROVE  Means(f, c, w, Repeated(p, distance, length))
  <2>1. /\ p = c \o r /\ Resolves(r, g.marked, w) /\ distance <= C + n
    BY <1>8, <1>10
  <2> HIDE DEF r
  <2>2. ResolveTo(new, w, c, Repeated(c \o r, distance, length))
    BY <1>1, <1>2, <2>1, MarkedMeans
  <2>3. PICK q : Resolves(q, new, w) /\ c \o q = Repeated(p, distance, length)
    BY <2>1, <2>2 DEF ResolveTo
  <2>4. Resolvable(new, w) /\ ResolveSymbols(new, w) = q
    BY <1>1, <1>3, <2>3, ResolvesMeans
  <2> DEFINE all == Repeated(p, distance, length)
  <2>5. Resolvable(f.marked, w) /\ all = c \o ResolveSymbols(f.marked, w)
    BY <1>4, <2>3, <2>4
  <2> HIDE DEF all
  <2>6. Means(f, c, w, all)
    BY <1>4, <2>5, MarkedMeaning
  <2> QED BY <2>6 DEF all
<1>11. MatchMeans(f, g, c, w, distance, length, p)
  BY <1>4, <1>7, <1>9, <1>10 DEF MatchMeans
<1> QED BY <1>11 DEF f, new

\* So every match of a segment means the match of everything, or is refused
\* with it.
LEMMA MatchKeeps ==
    ASSUME NEW g, NEW c, Shape(g, c), NEW w, WindowOf(c, w), g.refused = "no",
           NEW distance \in 1..Window, NEW length \in Nat \ {0}, NEW p \in Seq(Bytewise)
    PROVE  MatchMeans(Match(g, distance, length), g, c, w, distance, length, p)
<1> DEFINE G == Match(g, distance, length)
           e == [g EXCEPT !.refused = "too big"]
           far == IF distance > AtMostOf(Len(g.clean), Window)
                  THEN [g EXCEPT !.refused = "too far"]
                  ELSE [g EXCEPT !.clean = ExtendMatch(g.clean, distance, length)]
           f == [g EXCEPT !.marked = Copied(g.marked, distance, length)]
<1>1. G = IF length > SegmentLimit - Decoded(g) THEN e ELSE IF g.cleanMode THEN far ELSE f
  BY Zenon DEF Match, Copied, MarkersOf
<1>2. Shape(e, c) /\ e.refused = "too big"
  BY RefusedSegment
<1>3. g.cleanMode => MatchMeans(far, g, c, w, distance, length, p)
  BY CleanMatch
<1>4. ~g.cleanMode => MatchMeans(f, g, c, w, distance, length, p)
  BY MarkedMatch
<1> HIDE DEF e, far, f
<1>5. MatchMeans(e, g, c, w, distance, length, p)
  BY <1>2 DEF MatchMeans
<1> HIDE DEF G
<1>6. MatchMeans(G, g, c, w, distance, length, p)
  <2>1. G = e \/ (g.cleanMode /\ G = far) \/ (~g.cleanMode /\ G = f)
    BY <1>1
  <2> QED BY <1>3, <1>4, <1>5, <2>1
<1> QED BY <1>6 DEF G

------------------------------------------------------------------------------
\* The end of what stands behind something.
LEMMA EndOfFront ==
    ASSUME NEW S, NEW front \in Seq(S), NEW end \in Seq(S), NEW n \in Nat,
           Len(end) = AtMostOf(Len(front) + Len(end), n)
    PROVE  IsEnd(end, front \o end, n, S)
<1> DEFINE s == front \o end
<1>1. s \in Seq(S) /\ Len(s) = Len(front) + Len(end) /\ Ends(end, s, S)
  BY ConcatProperties, EndsBehind
<1>2. Len(end) = AtMostOf(Len(s), n)
  BY <1>1
<1> HIDE DEF s
<1>3. IsEnd(end, s, n, S)
  BY <1>1, <1>2, EndsIsEnd
<1> QED BY <1>3 DEF s

\* An end of three sequences, of which as many symbols are taken as are needed.
TakesOf(keep, count, a, b, c, n) ==
    /\ count \in 0..Len(b) /\ keep \in 0..Len(a)
    /\ keep + count + Len(c) = AtMostOf(Len(a) + Len(b) + Len(c), n)
    /\ count < Len(b) => keep = 0

\* The end of the three is made of the ends that are taken.
LEMMA EndOfThree ==
    ASSUME NEW S, NEW a \in Seq(S), NEW b \in Seq(S), NEW c \in Seq(S), NEW n \in Nat,
           NEW count, NEW keep, TakesOf(keep, count, a, b, c, n)
    PROVE  IsEnd((Newest(a, keep) \o Newest(b, count)) \o c, (a \o b) \o c, n, S)
<1> DEFINE x == Newest(a, keep)
           y == Newest(b, count)
           A == Len(a)
           B == Len(b)
           L == Len(c)
           end == (x \o y) \o c
           whole == (a \o b) \o c
<1>1. /\ A \in Nat /\ B \in Nat /\ L \in Nat
      /\ count \in 0..B /\ keep \in 0..A /\ keep + count + L = AtMostOf(A + B + L, n)
      /\ count < B => keep = 0
  BY DEF TakesOf
<1>2. x \in Seq(S) /\ Len(x) = keep /\ StandsIn(x, a, S)
  BY <1>1, NewestEnds
<1>3. y \in Seq(S) /\ Len(y) = count /\ StandsIn(y, b, S)
  BY <1>1, NewestEnds
<1> HIDE DEF x, y
<1>4. PICK u \in Seq(S) : a = u \o x
  BY <1>2 DEF StandsIn
<1>5. PICK v \in Seq(S) : b = v \o y
  BY <1>3 DEF StandsIn
<1>s. /\ x \in Seq(S) /\ y \in Seq(S) /\ u \in Seq(S) /\ v \in Seq(S)
      /\ a \in Seq(S) /\ b \in Seq(S) /\ c \in Seq(S)
  BY <1>2, <1>3
<1>6. end \in Seq(S) /\ Len(end) = keep + count + L
  <2>1. x \o y \in Seq(S) /\ Len(x \o y) = Len(x) + Len(y)
    BY <1>s, ConcatProperties
  <2> DEFINE z == x \o y
  <2>2. z \in Seq(S) /\ Len(z) = keep + count
    BY <1>2, <1>3, <2>1
  <2> HIDE DEF z
  <2>3. z \o c \in Seq(S) /\ Len(z \o c) = Len(z) + L
    BY <2>2, ConcatProperties
  <2>4. Len(z \o c) = keep + count + L
    BY <2>2, <2>3
  <2> QED BY <2>3, <2>4 DEF z
<1>7. whole \in Seq(S) /\ Len(whole) = A + B + L
  <2>1. a \o b \in Seq(S) /\ Len(a \o b) = A + B
    BY ConcatProperties
  <2> DEFINE z == a \o b
  <2>2. z \in Seq(S) /\ Len(z) = A + B
    BY <2>1
  <2> HIDE DEF z
  <2>3. z \o c \in Seq(S) /\ Len(z \o c) = Len(z) + L
    BY <2>2, ConcatProperties
  <2>4. Len(z \o c) = A + B + L
    BY <2>2, <2>3
  <2> QED BY <2>3, <2>4 DEF z
<1>8. \E front \in Seq(S) : whole = front \o end
  <2>1. CASE count < B
    <3>1. x = <<>>
      <4>1. Len(x) = 0
        BY <1>1, <1>2, <2>1
      <4>2. \A s \in Seq(S) : Len(s) = 0 => s = <<>>
        OBVIOUS
      <4> QED BY <1>s, <4>1, <4>2
    <3>2. end = y \o c
      <4>1. <<>> \o y = y
        BY <1>s, ConcatEmptySeq
      <4> QED BY <3>1, <4>1
    <3>3. a \o b = (a \o v) \o y
      <4>1. Associates(a, v, y)
        BY <1>s, JoinsAssociate
      <4> QED BY <1>5, <4>1 DEF Associates
    <3> DEFINE front == a \o v
    <3>4. front \in Seq(S)
      BY ConcatProperties
    <3>6. whole = (front \o y) \o c
      BY <3>3
    <3> HIDE DEF front
    <3>5. Associates(front, y, c)
      BY <1>s, <3>4, JoinsAssociate
    <3>7. whole = front \o end
      BY <3>2, <3>5, <3>6 DEF Associates
    <3> HIDE DEF whole, end
    <3> QED BY <3>4, <3>7
  <2>2. CASE ~(count < B)
    <3>1. v = <<>>
      <4>1. Len(v \o y) = Len(v) + Len(y) /\ Len(v) \in Nat
        BY <1>s, ConcatProperties
      <4>2. B = Len(v) + count
        BY <1>3, <1>5, <4>1
      <4>3. Len(v) = 0
        BY <1>1, <2>2, <4>1, <4>2
      <4>4. \A s \in Seq(S) : Len(s) = 0 => s = <<>>
        OBVIOUS
      <4> QED BY <4>3, <4>4
    <3>2. b = y
      <4>1. <<>> \o y = y
        BY <1>s, ConcatEmptySeq
      <4> QED BY <1>5, <3>1, <4>1
    <3>3. Associates(u, x, y)
      BY <1>s, JoinsAssociate
    <3> DEFINE z == x \o y
    <3>4. z \in Seq(S)
      BY <1>s, ConcatProperties
    <3>5. whole = (u \o z) \o c /\ end = z \o c
      BY <1>4, <3>2, <3>3 DEF Associates
    <3> HIDE DEF z, whole, end
    <3>6. Associates(u, z, c)
      BY <1>s, <3>4, JoinsAssociate
    <3>7. whole = u \o end
      BY <3>5, <3>6 DEF Associates
    <3> QED BY <3>7
  <2> QED BY <2>1, <2>2
<1> HIDE DEF end, whole
<1>9. PICK front \in Seq(S) : whole = front \o end
  BY <1>8
<1>10. Len(end) = AtMostOf(Len(front) + Len(end), n)
  <2>1. Len(front \o end) = Len(front) + Len(end)
    BY <1>6, ConcatProperties
  <2>2. Len(front) + Len(end) = A + B + L
    BY <1>7, <1>9, <2>1
  <2> HIDE DEF A, B, L
  <2> QED BY <1>1, <1>6, <2>2
<1>11. IsEnd(end, front \o end, n, S)
  BY <1>6, <1>10, EndOfFront
<1> QED BY <1>9, <1>11 DEF end, whole, x, y

------------------------------------------------------------------------------
(* The steps of DeflateWindow. *)

\* The newest symbols resolve to the newest bytes.
LEMMA ResolveNewest ==
    ASSUME NEW symbols \in Seq(Symbols), NEW w, History(w), Resolvable(symbols, w),
           NEW count \in 0..Len(symbols)
    PROVE  ResolveSymbols(Newest(symbols, count), w) = Newest(ResolveSymbols(symbols, w), count)
<1> DEFINE n == Len(symbols)
           off == n - count
           r == ResolveSymbols(symbols, w)
           s == Newest(symbols, count)
           q == Newest(r, count)
<1>1. Resolves(r, symbols, w)
  BY ResolvableIs
<1> HIDE DEF r
<1>2. /\ r \in Seq(Bytewise) /\ Len(r) = n /\ n \in Nat
      /\ \A i \in 1..n : IsResolved(r, symbols, w, i)
  BY <1>1 DEF Resolves, IsResolved
<1>3. s \in Seq(Symbols) /\ Len(s) = count /\ \A i \in 1..count : s[i] = symbols[i + off]
  BY LastSymbols DEF Newest
<1>4. q \in Seq(Bytewise) /\ Len(q) = count /\ \A i \in 1..count : q[i] = r[i + off]
  <2> DEFINE m == Len(r)
             o == m - count
  <2>1. count \in 0..m /\ o = off
    BY <1>2
  <2>2. q \in Seq(Bytewise) /\ Len(q) = count /\ \A i \in 1..count : q[i] = r[i + o]
    BY <1>2, <2>1, LastSymbols DEF Newest
  <2> HIDE DEF o, off, m, q
  <2> QED BY <2>1, <2>2
<1> HIDE DEF s, q
<1>5. ASSUME NEW i \in 1..count
      PROVE  IsResolved(q, s, w, i)
  <2> DEFINE k == i + off
  <2>1. k \in 1..n
    BY <1>2
  <2>2. q[i] = r[k] /\ s[i] = symbols[k]
    BY <1>3, <1>4
  <2> HIDE DEF k
  <2>3. IsResolved(r, symbols, w, k)
    BY <1>2, <2>1
  <2> QED BY <2>2, <2>3, Zenon DEF IsResolved
<1>6. Resolves(q, s, w)
  BY <1>3, <1>4, <1>5, Zenon DEF Resolves, IsResolved
<1>7. ResolveSymbols(s, w) = q
  BY <1>3, <1>6, ResolvesMeans
<1> QED BY <1>7 DEF s, q, r

\* The window for the next segment is the end of all that is committed.
LEMMA SuccessorKeeps ==
    ASSUME NEW g, NEW c, Shape(g, c), NEW w, WindowOf(c, w), NEW p, Means(g, c, w, p)
    PROVE  p \in Seq(Bytewise) /\ WindowOf(p, SuccessorWindow(g, w))
<1> DEFINE r == ResolveSymbols(g.marked, w)
           o == CleanOutput(g)
           L == Len(o)
           M == Len(g.marked)
           h == Len(w)
           W == Window
           next == SuccessorWindow(g, w)
<1>1. /\ g.marked \in Seq(Symbols) /\ o \in Seq(Bytewise) /\ c \in Seq(Bytewise)
      /\ History(w) /\ IsEnd(w, c, W, Bytewise) /\ W \in Nat \ {0}
  BY ShapeIs, BehindIs, WindowAssumption
<1>2. Resolvable(g.marked, w) /\ p = (c \o r) \o o
  BY DEF Means, Meaning
<1>3. Resolves(r, g.marked, w)
  BY <1>1, <1>2, ResolvableIs
<1>4. /\ r \in Seq(Bytewise) /\ Len(r) = M /\ w \in Seq(Bytewise) /\ h <= W
      /\ M \in Nat /\ h \in Nat /\ L \in Nat
  BY <1>1, <1>3 DEF Resolves, History
<1> HIDE DEF o
<1>5. p \in Seq(Bytewise) /\ Ends(o, p, Bytewise)
  <2> DEFINE t == c \o r
  <2>1. t \in Seq(Bytewise)
    <3> HIDE DEF r
    <3> QED BY <1>1, <1>4, ConcatProperties
  <2>2. p = t \o o
    BY <1>2
  <2> HIDE DEF t
  <2>3. t \o o \in Seq(Bytewise) /\ Ends(o, t \o o, Bytewise)
    BY <1>1, <2>1, ConcatProperties, EndsBehind
  <2> QED BY <2>2, <2>3
<1> DEFINE count == AtMostOf(W - L, M)
           keep == AtMostOf(W - count - L, h)
<1>6. next = IF L >= W THEN Newest(o, W)
             ELSE (Newest(w, keep) \o ResolveSymbols(Newest(g.marked, count), w)) \o o
  BY Zenon DEF SuccessorWindow, o
<1> HIDE DEF next
<1>7. ASSUME L >= W
      PROVE  IsEnd(next, p, W, Bytewise)
  <2> DEFINE x == Newest(o, W)
  <2>1. W \in 0..L
    BY <1>1, <1>4, <1>7
  <2>2. Len(x) = W /\ Ends(x, o, Bytewise)
    BY <1>1, <2>1, NewestEnds
  <2> HIDE DEF x
  <2>3. Ends(x, p, Bytewise)
    BY <1>5, <2>2, EndsInEnds
  <2>4. Len(x) = AtMostOf(Len(p), W)
    <3>1. L <= Len(p)
      BY <1>5 DEF Ends
    <3>2. Len(p) \in Nat
      BY <1>5
    <3> QED BY <1>1, <1>4, <1>7, <2>2, <3>1, <3>2 DEF AtMostOf
  <2>5. IsEnd(x, p, W, Bytewise)
    BY <1>1, <2>3, <2>4, EndsIsEnd
  <2> QED BY <1>6, <1>7, <2>5 DEF x
<1>8. ASSUME ~(L >= W)
      PROVE  IsEnd(next, p, W, Bytewise)
  <2>1. /\ count \in 0..M /\ keep \in 0..h
        /\ keep + count + L = AtMostOf(h + M + L, W)
        /\ count < M => keep = 0
    <3> HIDE DEF L, M, h, W
    <3> QED BY <1>1, <1>4, <1>8 DEF AtMostOf
  <2> HIDE DEF count, keep
  <2>2. ResolveSymbols(Newest(g.marked, count), w) = Newest(r, count)
    BY <1>1, <1>2, <2>1, ResolveNewest
  <2>3. TakesOf(keep, count, w, r, o, W)
    <3> HIDE DEF r
    <3> QED BY <1>4, <2>1 DEF TakesOf
  <2> DEFINE end == (Newest(w, keep) \o Newest(r, count)) \o o
  <2>4. next = end
    BY <1>6, <1>8, <2>2
  <2> HIDE DEF r
  <2>5. IsEnd(end, (w \o r) \o o, W, Bytewise)
    BY <1>1, <1>4, <2>3, EndOfThree
  <2> HIDE DEF end
  <2> DEFINE more == r \o o
  <2>6. more \in Seq(Bytewise)
    BY <1>1, <1>4, ConcatProperties
  <2>7. (w \o r) \o o = w \o more /\ p = c \o more
    <3>1. Associates(w, r, o) /\ Associates(c, r, o)
      BY <1>1, <1>4, JoinsAssociate
    <3>2. p = (c \o r) \o o
      BY <1>2 DEF r
    <3> QED BY <3>1, <3>2 DEF Associates
  <2> HIDE DEF more
  <2>8. IsEnd(end, w \o more, W, Bytewise)
    BY <2>5, <2>7
  <2>9. IsEnd(end, c \o more, W, Bytewise)
    BY <1>1, <2>6, <2>8, EndSlides
  <2> QED BY <2>4, <2>7, <2>9
<1>9. IsEnd(next, p, W, Bytewise)
  BY <1>7, <1>8
<1> QED BY <1>5, <1>9 DEF WindowOf, next

\* A segment that has decoded nothing.
LEMMA FreshMeans ==
    ASSUME NEW c, NEW w, WindowOf(c, w), NEW known \in BOOLEAN, known => c = <<>>
    PROVE  /\ Shape(Fresh(known), c) /\ Means(Fresh(known), c, w, c)
           /\ Fresh(known).refused = "no"
<1> DEFINE g == Fresh(known)
<1>1. /\ g.marked = <<>> /\ g.clean = <<>> /\ g.cleanStart = 0 /\ g.known = known
      /\ g.cleanMode = known /\ g.refused = "no" /\ g \in Segments
  BY DEF Fresh, Segments
<1> HIDE DEF g
<1>2. Shape(g, c)
  BY <1>1 DEF Shape
<1>3. Resolvable(g.marked, w) /\ ResolveSymbols(g.marked, w) = <<>> /\ CleanOutput(g) = <<>>
  BY <1>1 DEF Resolvable, ResolveSymbols, CleanOutput
<1>4. c \in Seq(Bytewise)
  BY DEF WindowOf
<1>5. c = Meaning(g, c, w)
  <2>1. c \o <<>> = c
    BY <1>4, ConcatEmptySeq
  <2>2. Meaning(g, c, w) = (c \o <<>>) \o <<>>
    BY <1>3 DEF Meaning
  <2> QED BY <2>1, <2>2
<1>6. known => Ends(g.clean, c, Bytewise)
  BY <1>1, <1>4 DEF Ends
<1>7. Means(g, c, w, c)
  BY <1>1, <1>3, <1>5, <1>6 DEF Means
<1> QED BY <1>1, <1>2, <1>7 DEF g

\* A stream that goes on: what has become of it, given what it means, its
\* emitter and its segment.
GoingOn(p, e, g) ==
    /\ Emitting(e, p)
    /\ IsPrefix(committed, p)
    /\ Shape(g, committed)
    /\ g.refused = "too far" => e.refused
    /\ g.refused = "no" =>
          IF e.refused THEN ~Resolvable(g.marked, predecessor)
          ELSE Means(g, committed, predecessor, p)

\* The invariant, of a stream that goes on, ...
LEMMA GoingOnIs ==
    ASSUME WindowInv, StreamGoesOn
    PROVE  /\ GoingOn(plain, emitter, segment)
           /\ segment.refused = "no" /\ answer = "none"
           /\ WindowOf(committed, predecessor) /\ plain \in Seq(Bytewise)
           /\ committed \in Seq(Bytewise) /\ Len(plain) \in Nat
           /\ emitter.refused \in BOOLEAN
<1>1. Emitting(emitter, plain)
  BY DEF WindowInv
<1>2. plain \in Seq(Bytewise) /\ emitter \in Emitters
  BY <1>1 DEF Emitting
<1>3. emitter.refused \in BOOLEAN
  BY <1>2 DEF Emitters
<1>4. committed \in Seq(Bytewise) /\ IsEnd(predecessor, committed, Window, Bytewise)
  BY DEF WindowInv
<1>5. segment.refused = "no" /\ answer = "none"
  BY DEF StreamGoesOn
<1>6. GoingOn(plain, emitter, segment)
  BY Zenon, <1>1 DEF WindowInv, GoingOn
<1>7. Len(plain) \in Nat
  BY <1>2
<1>. QED
  BY Zenon, <1>2, <1>3, <1>4, <1>5, <1>6, <1>7 DEF WindowOf

\* ... and back, when it still goes on.
LEMMA GoesOnStill ==
    ASSUME WindowInv, StreamGoesOn, GoingOn(plain', emitter', segment'),
           UNCHANGED <<predecessor, committed, answer>>
    PROVE  WindowInv'
<1>1. /\ committed \in Seq(Bytewise) /\ answer = "none"
      /\ IsEnd(predecessor, committed, Window, Bytewise)
  BY DEF WindowInv, StreamGoesOn
<1>2. predecessor' = predecessor /\ committed' = committed /\ answer' = answer
  OBVIOUS
<1>3. /\ Emitting(emitter', plain') /\ IsPrefix(committed', plain')
      /\ Shape(segment', committed')
      /\ segment'.refused = "too far" => emitter'.refused
      /\ segment'.refused = "no" =>
            IF emitter'.refused THEN ~Resolvable(segment'.marked, predecessor')
            ELSE Means(segment', committed', predecessor', plain')
  BY Zenon, <1>2 DEF GoingOn
<1>4. /\ committed' \in Seq(Bytewise) /\ answer' = "none"
      /\ IsEnd(predecessor', committed', Window, Bytewise)
  BY Zenon, <1>1, <1>2
<1>. QED
  BY <1>3, <1>4 DEF WindowInv

\* try_clean.
LEMMA CleanedGoesOn ==
    ASSUME NEW p, NEW e, NEW g, GoingOn(p, e, g), WindowOf(committed, predecessor)
    PROVE  GoingOn(p, e, Cleaned(g))
<1>1. Shape(g, committed)
  BY DEF GoingOn
<1>2. /\ Shape(Cleaned(g), committed)
      /\ Cleaned(g).refused = g.refused /\ Cleaned(g).marked = g.marked
      /\ Means(g, committed, predecessor, p) => Means(Cleaned(g), committed, predecessor, p)
  BY Zenon, <1>1, CleanedKeeps
<1>. QED
  BY Zenon, <1>2 DEF GoingOn

\* A literal, or the bytes of a stored block.
LEMMA BytesGoOn ==
    ASSUME WindowInv, NEW added \in Seq(Bytewise), DecodeBytes(added)
    PROVE  WindowInv'
<1>1. StreamGoesOn /\ UNCHANGED <<predecessor, committed, answer>>
  BY DEF DecodeBytes
<1>2. /\ GoingOn(plain, emitter, segment)
      /\ segment.refused = "no" /\ WindowOf(committed, predecessor) /\ plain \in Seq(Bytewise)
      /\ committed \in Seq(Bytewise) /\ emitter.refused \in BOOLEAN
  BY Zenon, <1>1, GoingOnIs
<1>3. /\ Emitting(emitter, plain) /\ IsPrefix(committed, plain) /\ Shape(segment, committed)
      /\ IF emitter.refused THEN ~Resolvable(segment.marked, predecessor)
         ELSE Means(segment, committed, predecessor, plain)
  BY Zenon, <1>2 DEF GoingOn
<1>4. /\ Shape(Grown(segment, added), committed)
      /\ Grown(segment, added).refused \in {"no", "too big"}
      /\ Grown(segment, added).refused = "no" =>
            (Resolvable(Grown(segment, added).marked, predecessor)
                <=> Resolvable(segment.marked, predecessor))
      /\ Grown(segment, added).refused = "no" /\ Means(segment, committed, predecessor, plain)
            => Means(Grown(segment, added), committed, predecessor, plain \o added)
  BY Zenon, <1>2, <1>3, GrownKeeps
<1>5. GoingOn(plain', emitter', Grown(segment, added))
  <2>1. CASE emitter.refused
    <3>1. plain' = plain /\ emitter' = emitter
      BY <2>1 DEF DecodeBytes
    <3>. QED
      BY Zenon, <2>1, <3>1, <1>3, <1>4 DEF GoingOn
  <2>2. CASE ~emitter.refused
    <3>1. plain' = plain \o added /\ emitter' = EmitBytes(emitter, added)
      BY <2>2 DEF DecodeBytes
    <3>2. Emitting(emitter', plain') /\ emitter'.refused = emitter.refused
      BY Zenon, <3>1, <1>3, EmitBytesKeeps
    <3>3. IsPrefix(committed, plain')
      BY Zenon, <3>1, <1>2, <1>3, PrefixGrows
    <3>4. Means(segment, committed, predecessor, plain) /\ ~emitter'.refused
      BY Zenon, <2>2, <1>3, <3>2
    <3>5. Grown(segment, added).refused # "too far"
      BY <1>4
    <3>. QED
      BY Zenon, <3>1, <3>2, <3>3, <3>4, <3>5, <1>4 DEF GoingOn
  <2>. QED
    BY <2>1, <2>2
<1>6. GoingOn(plain', emitter', Cleaned(Grown(segment, added)))
  BY Zenon, <1>5, <1>2, CleanedGoesOn
<1>7. segment' \in {Grown(segment, added), Cleaned(Grown(segment, added))}
  BY DEF DecodeBytes
<1>8. GoingOn(plain', emitter', segment')
  BY <1>5, <1>6, <1>7
<1>. QED
  BY Zenon, <1>1, <1>8, GoesOnStill

\* What stands in front of a match stays.
LEMMA MatchKeepsPrefix ==
    ASSUME NEW c \in Seq(Bytewise), NEW p \in Seq(Bytewise), IsPrefix(c, p),
           NEW distance \in 1..Len(p), NEW length \in Nat
    PROVE  IsPrefix(c, Repeated(p, distance, length))
<1>1. IsMatch(Repeated(p, distance, length), p, distance, length, Bytewise)
  BY Zenon, RepeatedIs
<1>2. Adds(Repeated(p, distance, length), p, length, Bytewise)
  BY Zenon, <1>1, MatchAdds
<1>3. PICK more \in Seq(Bytewise) : Repeated(p, distance, length) = p \o more
  BY Zenon, <1>2 DEF Adds
<1>. QED
  BY Zenon, <1>3, PrefixGrows

\* A match.
LEMMA MatchGoesOn ==
    ASSUME WindowInv, NEW distance \in 1..Window, NEW length \in MatchLengths,
           DecodeMatch(distance, length)
    PROVE  WindowInv'
<1>0. length \in Nat \ {0} /\ length \in Nat
  BY WindowAssumption
<1>1. StreamGoesOn /\ UNCHANGED <<predecessor, committed, answer>>
  BY DEF DecodeMatch
<1>2. /\ GoingOn(plain, emitter, segment)
      /\ segment.refused = "no" /\ WindowOf(committed, predecessor) /\ plain \in Seq(Bytewise)
      /\ committed \in Seq(Bytewise) /\ emitter.refused \in BOOLEAN /\ Len(plain) \in Nat
  BY Zenon, <1>1, GoingOnIs
<1>3. /\ Emitting(emitter, plain) /\ IsPrefix(committed, plain) /\ Shape(segment, committed)
      /\ IF emitter.refused THEN ~Resolvable(segment.marked, predecessor)
         ELSE Means(segment, committed, predecessor, plain)
  BY Zenon, <1>2 DEF GoingOn
<1>4. MatchMeans(Match(segment, distance, length), segment, committed, predecessor,
                 distance, length, plain)
  BY Zenon, <1>0, <1>2, <1>3, MatchKeeps
<1>5. segment' = Match(segment, distance, length)
  BY DEF DecodeMatch
<1>6. MatchMeans(segment', segment, committed, predecessor, distance, length, plain)
  BY Zenon, <1>4, <1>5
<1>7. GoingOn(plain', emitter', segment')
  <2>1. CASE emitter.refused
    <3>1. plain' = plain /\ emitter' = emitter
      BY <2>1 DEF DecodeMatch
    <3>. QED
      BY Zenon, <2>1, <3>1, <1>2, <1>3, <1>6 DEF GoingOn, MatchMeans
  <2>2. CASE ~emitter.refused /\ distance > Len(plain)
    <3>1. plain' = plain /\ emitter' = EmitMatch(emitter, distance, length)
      BY <2>2 DEF DecodeMatch
    <3>2. Emitting(emitter', plain') /\ emitter'.refused
      BY Zenon, <3>1, <2>2, <1>0, <1>3, EmitMatchKeeps
    <3>. QED
      BY Zenon, <2>2, <3>1, <3>2, <1>2, <1>3, <1>6 DEF GoingOn, MatchMeans
  <2>3. CASE ~emitter.refused /\ distance <= Len(plain)
    <3>1. /\ plain' = Repeated(plain, distance, length)
          /\ emitter' = EmitMatch(emitter, distance, length)
      BY <2>3, <1>2 DEF DecodeMatch
    <3>2. Emitting(emitter', plain') /\ emitter'.refused = emitter.refused
      BY Zenon, <3>1, <2>3, <1>0, <1>3, EmitMatchKeeps
    <3>3. distance \in 1..Len(plain)
      BY <2>3, <1>2
    <3>4. IsPrefix(committed, plain')
      BY Zenon, <3>1, <3>3, <1>0, <1>2, <1>3, MatchKeepsPrefix
    <3>5. /\ Shape(segment', committed) /\ segment'.refused # "too far"
          /\ segment'.refused = "no" => Means(segment', committed, predecessor, plain')
      BY Zenon, <2>3, <3>1, <1>3, <1>6 DEF MatchMeans
    <3>. QED
      BY Zenon, <2>3, <3>2, <3>4, <3>5 DEF GoingOn
  <2>. QED
    BY <2>1, <2>2, <2>3, <1>2
<1>. QED
  BY Zenon, <1>1, <1>7, GoesOnStill

\* The end of a block.
LEMMA BlockGoesOn ==
    ASSUME WindowInv, EndBlock
    PROVE  WindowInv'
<1>1. StreamGoesOn /\ UNCHANGED <<predecessor, committed, answer>>
  BY DEF EndBlock
<1>2. GoingOn(plain, emitter, segment) /\ WindowOf(committed, predecessor)
  BY Zenon, <1>1, GoingOnIs
<1>3. GoingOn(plain, emitter, Cleaned(segment))
  BY Zenon, <1>2, CleanedGoesOn
<1>4. plain' = plain /\ emitter' = emitter /\ segment' = Cleaned(segment)
  BY DEF EndBlock
<1>5. GoingOn(plain', emitter', segment')
  BY Zenon, <1>3, <1>4
<1>. QED
  BY Zenon, <1>1, <1>5, GoesOnStill

\* A segment that is right is completed and committed.
LEMMA SegmentCommits ==
    ASSUME WindowInv, EndSegment, Resolvable(Cleaned(segment).marked, predecessor)
    PROVE  WindowInv'
<1> DEFINE g == Cleaned(segment)
<1>1. StreamGoesOn /\ plain' = plain /\ emitter' = emitter
  BY DEF EndSegment
<1>2. GoingOn(plain, emitter, segment) /\ WindowOf(committed, predecessor)
      /\ segment.refused = "no" /\ answer = "none" /\ plain \in Seq(Bytewise)
  BY Zenon, <1>1, GoingOnIs
<1>3. GoingOn(plain, emitter, g) /\ Shape(segment, committed)
  BY Zenon, <1>2, CleanedGoesOn DEF GoingOn
<1>4. g.refused = "no"
  BY Zenon, <1>2, <1>3, CleanedKeeps
<1>5. /\ ~emitter.refused /\ Means(g, committed, predecessor, plain)
      /\ Shape(g, committed) /\ Emitting(emitter, plain)
  BY Zenon, <1>3, <1>4 DEF GoingOn
<1>6. /\ committed' = (committed \o ResolveSymbols(g.marked, predecessor)) \o CleanOutput(g)
      /\ predecessor' = SuccessorWindow(g, predecessor)
      /\ segment' = Fresh(FALSE) /\ answer' = answer
  BY DEF EndSegment
<1>7. committed' = plain
  BY Zenon, <1>5, <1>6 DEF Means, Meaning
<1>8. WindowOf(plain, predecessor')
  BY Zenon, <1>5, <1>6, <1>2, SuccessorKeeps
<1>9. /\ Shape(Fresh(FALSE), plain) /\ Means(Fresh(FALSE), plain, predecessor', plain)
      /\ Fresh(FALSE).refused = "no"
  BY Zenon, <1>8, FreshMeans
<1>10. IsPrefix(plain, plain)
  <2>1. <<>> \in Seq(Bytewise) /\ plain \o <<>> = plain
    BY <1>2
  <2>. QED
    BY Zenon, <2>1, <1>2, PrefixBefore
<1>11. IsEnd(predecessor', committed', Window, Bytewise) /\ committed' \in Seq(Bytewise)
  BY Zenon, <1>2, <1>7, <1>8 DEF WindowOf
<1>12. /\ Emitting(emitter', plain') /\ IsPrefix(committed', plain')
       /\ Shape(segment', committed') /\ segment'.refused = "no" /\ answer' = "none"
       /\ Means(segment', committed', predecessor', plain') /\ ~emitter'.refused
  BY Zenon, <1>1, <1>2, <1>5, <1>6, <1>7, <1>9, <1>10
<1>. QED
  BY <1>11, <1>12 DEF WindowInv

\* A segment that names what was never there is refused, as the serial decoder
\* has refused its match.
LEMMA SegmentRefused ==
    ASSUME WindowInv, EndSegment, ~Resolvable(Cleaned(segment).marked, predecessor)
    PROVE  WindowInv'
<1> DEFINE g == Cleaned(segment)
<1>1. StreamGoesOn
  BY DEF EndSegment
<1>2. GoingOn(plain, emitter, segment) /\ WindowOf(committed, predecessor)
      /\ segment.refused = "no"
  BY Zenon, <1>1, GoingOnIs
<1>3. GoingOn(plain, emitter, g) /\ Shape(segment, committed)
  BY Zenon, <1>2, CleanedGoesOn DEF GoingOn
<1>4. g.refused = "no"
  BY Zenon, <1>2, <1>3, CleanedKeeps
<1>5. emitter.refused
  BY Zenon, <1>3, <1>4 DEF GoingOn, Means
<1>6. /\ answer' = "too far"
      /\ plain' = plain /\ emitter' = emitter /\ segment' = segment
      /\ committed' = committed /\ predecessor' = predecessor
  BY DEF EndSegment
<1>. QED
  BY <1>5, <1>6 DEF WindowInv

\* A segment that failed ends the decoder.
LEMMA FailureEnds ==
    ASSUME WindowInv, DecodeFails
    PROVE  WindowInv'
<1>1. Shape(segment, committed)
  BY DEF WindowInv
<1>2. segment.refused \in {"no", "too big", "too far"} /\ segment.refused # "no"
  BY <1>1 DEF Shape, Segments, DecodeFails
<1>3. /\ answer' = segment.refused
      /\ plain' = plain /\ emitter' = emitter /\ segment' = segment
      /\ committed' = committed /\ predecessor' = predecessor
  BY DEF DecodeFails
<1>4. answer' \in {"none", "too big", "too far"}
      /\ (answer' = "too far" => segment.refused = "too far")
  BY <1>2, <1>3
<1>. QED
  BY Zenon, <1>3, <1>4 DEF WindowInv

\* Nothing has been decoded at first.
LEMMA WindowStarts ==
    ASSUME WindowInit
    PROVE  WindowInv
<1>0. <<>> \in Seq(Bytewise) /\ Len(<<>>) = 0
  OBVIOUS
<1>1. AtMostOf(0, Window) = 0
  BY WindowAssumption DEF AtMostOf
<1>2. IsEnd(<<>>, <<>>, Window, Bytewise) /\ Ends(<<>>, <<>>, Bytewise)
  BY <1>1 DEF IsEnd, Ends
<1>3. WindowOf(<<>>, <<>>)
  BY <1>0, <1>2 DEF WindowOf
<1>4. /\ Shape(Fresh(TRUE), <<>>) /\ Means(Fresh(TRUE), <<>>, <<>>, <<>>)
      /\ Fresh(TRUE).refused = "no"
  BY Zenon, <1>3, FreshMeans
<1> DEFINE e == [buffer |-> <<>>, historyLen |-> 0, decoded |-> 0, written |-> <<>>,
                 refused |-> FALSE]
<1>5. Emitting(e, <<>>) /\ e.refused = FALSE
  <2>1. e \in Emitters
    BY <1>0 DEF Emitters
  <2>2. SubSeq(<<>>, 1, 0) = <<>> /\ <<>> \o <<>> = <<>>
    OBVIOUS
  <2>3. e.written \o Pending(e) = <<>>
    BY <2>2 DEF Pending
  <2>. QED
    BY <1>0, <1>1, <1>2, <2>1, <2>3 DEF Emitting
<1>6. IsPrefix(<<>>, <<>>)
  <2>1. <<>> \o <<>> = <<>>
    OBVIOUS
  <2>. QED
    BY Zenon, <2>1, <1>0, PrefixBefore
<1>7. /\ plain = <<>> /\ emitter = e /\ segment = Fresh(TRUE) /\ predecessor = <<>>
      /\ committed = <<>> /\ answer = "none"
  BY DEF WindowInit
<1> HIDE DEF e
<1>8. /\ Emitting(emitter, plain) /\ emitter.refused = FALSE
      /\ Shape(segment, committed) /\ Means(segment, committed, predecessor, plain)
      /\ segment.refused = "no" /\ IsPrefix(committed, plain) /\ committed \in Seq(Bytewise)
      /\ IsEnd(predecessor, committed, Window, Bytewise) /\ answer = "none"
  BY Zenon, <1>0, <1>2, <1>4, <1>5, <1>6, <1>7
<1>. QED
  BY <1>8 DEF WindowInv

\* Every step keeps the invariant.
LEMMA WindowSteps ==
    ASSUME WindowInv, [WindowNext]_deflateWindow
    PROVE  WindowInv'
<1>1. ASSUME NEW byte \in Bytewise, DecodeBytes(<<byte>>)
      PROVE  WindowInv'
  <2>1. <<byte>> \in Seq(Bytewise)
    OBVIOUS
  <2>. QED
    BY Zenon, <1>1, <2>1, BytesGoOn
<1>2. ASSUME NEW size \in StoredSizes, NEW added \in [1..size -> Bytewise], DecodeBytes(added)
      PROVE  WindowInv'
  <2>1. size \in Nat
    BY WindowAssumption
  <2>2. added \in Seq(Bytewise)
    BY <2>1
  <2>. QED
    BY Zenon, <1>2, <2>2, BytesGoOn
<1>3. ASSUME NEW distance \in 1..Window, NEW length \in MatchLengths,
             DecodeMatch(distance, length)
      PROVE  WindowInv'
  BY Zenon, <1>3, MatchGoesOn
<1>4. ASSUME EndBlock PROVE WindowInv'
  BY Zenon, <1>4, BlockGoesOn
<1>5. ASSUME EndSegment PROVE WindowInv'
  BY Zenon, <1>5, SegmentCommits, SegmentRefused
<1>6. ASSUME DecodeFails PROVE WindowInv'
  BY Zenon, <1>6, FailureEnds
<1>7. ASSUME UNCHANGED deflateWindow PROVE WindowInv'
  <2>1. /\ plain' = plain /\ emitter' = emitter /\ segment' = segment
        /\ predecessor' = predecessor /\ committed' = committed /\ answer' = answer
    BY <1>7 DEF deflateWindow
  <2>. QED
    BY Zenon, <2>1 DEF WindowInv
<1>. QED
  BY Zenon, <1>1, <1>2, <1>3, <1>4, <1>5, <1>6, <1>7 DEF WindowNext

\* What the invariant says of a segment that has decoded nothing.
LEMMA EmptySegment ==
    ASSUME WindowInv, Decoded(segment) = 0, StreamGoesOn
    PROVE  committed = plain /\ ~emitter.refused
<1> DEFINE g == segment
<1>1. GoingOn(plain, emitter, g) /\ g.refused = "no" /\ committed \in Seq(Bytewise)
      /\ WindowOf(committed, predecessor)
  BY Zenon, GoingOnIs
<1>2. Shape(g, committed)
  BY <1>1 DEF GoingOn
<1>3. /\ g.marked \in Seq(Symbols) /\ g.clean \in Seq(Bytewise)
      /\ g.cleanStart \in 0..Len(g.clean) /\ CleanOutput(g) \in Seq(Bytewise)
      /\ Len(CleanOutput(g)) = Len(g.clean) - g.cleanStart
  BY Zenon, <1>2, ShapeIs
<1>4. Len(g.marked) + Len(g.clean) - g.cleanStart = 0
  BY DEF Decoded
<1>5. Len(g.marked) = 0 /\ Len(CleanOutput(g)) = 0
  BY <1>3, <1>4
<1>6. g.marked = <<>> /\ CleanOutput(g) = <<>>
  BY <1>3, <1>5
<1>7. Resolvable(<<>>, predecessor) /\ ResolveSymbols(<<>>, predecessor) = <<>>
  BY DEF Resolvable, ResolveSymbols
<1>8. ~emitter.refused /\ Means(g, committed, predecessor, plain)
  BY Zenon, <1>1, <1>6, <1>7 DEF GoingOn
<1>9. plain = (committed \o <<>>) \o <<>>
  BY Zenon, <1>6, <1>7, <1>8 DEF Means, Meaning
<1>10. committed \o <<>> = committed
  BY <1>1
<1>11. committed = plain
  BY <1>9, <1>10
<1>. QED
  BY Zenon, <1>8, <1>11

\* The invariant gives WindowResolves.
LEMMA InvResolves ==
    ASSUME WindowInv
    PROVE  WindowResolves
<1>1. Emitting(emitter, plain) /\ committed \in Seq(Bytewise) /\ IsPrefix(committed, plain)
      /\ IsEnd(predecessor, committed, Window, Bytewise)
      /\ (answer = "too far" => emitter.refused)
  BY DEF WindowInv
<1>2. emitter.written \o SubSeq(emitter.buffer, emitter.historyLen + 1, Len(emitter.buffer))
         = plain
  BY Zenon, <1>1 DEF Emitting, Pending
<1> DEFINE count == AtMostOf(Window, Len(committed))
<1>3. count = AtMostOf(Len(committed), Window) /\ Window \in Nat
  <2>0. committed \in Seq(Bytewise)
    BY Zenon, <1>1
  <2>1. Len(committed) \in Nat
    BY <2>0
  <2>2. Window \in Nat
    BY WindowAssumption
  <2>. QED
    BY <2>1, <2>2 DEF AtMostOf
<1> HIDE DEF count
<1>4. IsEnd(SubSeq(committed, Len(committed) - count + 1, Len(committed)), committed,
            Window, Bytewise)
  BY Zenon, <1>1, <1>3, EndIs
<1>5. predecessor = SubSeq(committed, Len(committed) - count + 1, Len(committed))
  BY Zenon, <1>1, <1>3, <1>4, EndUnique
<1>6. predecessor = Newest(committed, count)
  BY Zenon, <1>5 DEF Newest
<1>7. Decoded(segment) = 0 /\ StreamGoesOn => committed = plain /\ ~emitter.refused
  BY Zenon, EmptySegment
<1>. QED
  BY Zenon, <1>1, <1>2, <1>6, <1>7 DEF WindowResolves, count

\* Segments decoded without their history and completed later are the bytes the
\* stream means, as are those of the serial decoder, and both refuse the same
\* streams.
THEOREM WindowAlwaysResolves ==
    WindowSpec => []WindowResolves
<1>1. WindowInit => WindowInv
  BY Zenon, WindowStarts
<1>2. WindowInv /\ [WindowNext]_deflateWindow => WindowInv'
  BY Zenon, WindowSteps
<1>3. WindowInv => WindowResolves
  BY Zenon, InvResolves
<1>. QED
  BY <1>1, <1>2, <1>3, PTL DEF WindowSpec

------------------------------------------------------------------------------
(* Sums and orders of IndexedReader. *)

AddTable == [p \in Nat \X Nat |-> p[1] + p[2]]

\* Addition as a table.
LEMMA AddCloses ==
    /\ Steps(AddTable, Nat, Nat)
    /\ \A a \in Nat, b \in Nat : AddTable[<<a, b>>] = a + b
<1>1. ASSUME NEW a \in Nat, NEW b \in Nat
      PROVE  AddTable[<<a, b>>] = a + b /\ AddTable[<<a, b>>] \in Nat
  BY DEF AddTable
<1> QED BY <1>1 DEF Steps

\* A sum is the last value of its run.
IsSum(run, s) ==
    /\ run \in [0..Len(s) -> Nat]
    /\ run[0] = 0
    /\ \A n \in 1..Len(s) : run[n] = run[n - 1] + s[n]
    /\ SumOf(s) = run[Len(s)]

\* SumOf is the last value of a run.
LEMMA SumRun ==
    ASSUME NEW seq \in Seq(Nat)
    PROVE  \E run : IsSum(run, seq)
<1> DEFINE D == DOMAIN seq
           Recursive(g) == g = [s \in SUBSET D |->
               IF s = {} THEN 0 ELSE g[s \ {Max(s)}] + seq[Max(s)]]
           iter == CHOOSE g : Recursive(g)
<1>1. SumOf(seq) = iter[D]
  BY DEF SumOf, FoldLeft, MapThenFoldSet
<1>2. D = 1..Len(seq) /\ Len(seq) \in Nat
  OBVIOUS
<1>3. PICK t : IsFold(t, seq, Nat, 0, AddTable)
  BY AddCloses, FoldExists
<1> DEFINE run == RunOf(t, seq)
<1>4. /\ IsRun(run, 0, AddTable, seq)
      /\ \A n \in 0..Len(seq) : run[n] = t[1..n] /\ t[1..n] \in Nat
  BY <1>3, FoldRuns
<1>5. Recursive(t)
  <2> DEFINE u == [s \in SUBSET D |->
               IF s = {} THEN 0 ELSE t[s \ {Max(s)}] + seq[Max(s)]]
  <2>1. ASSUME NEW s \in SUBSET D
        PROVE  t[s] = IF s = {} THEN 0 ELSE t[s \ {Max(s)}] + seq[Max(s)]
    <3>1. s = {} => t[s] = 0
      BY <1>3, Zenon DEF IsFold
    <3>2. s # {} => /\ Max(s) \in D
                    /\ t[s] = AddTable[<<t[s \ {Max(s)}], seq[Max(s)]>>]
      BY <1>3, Zenon DEF IsFold
    <3>3. t[s \ {Max(s)}] \in Nat
      BY <1>3 DEF IsFold
    <3>4. Max(s) \in D => seq[Max(s)] \in Nat
      BY <1>2
    <3> QED BY <3>1, <3>2, <3>3, <3>4, AddCloses, Zenon
  <2>2. DOMAIN u = SUBSET D /\ u = [s \in DOMAIN u |-> u[s]]
    OBVIOUS
  <2>3. \A s \in SUBSET D : t[s] = u[s]
    BY <2>1, Zenon
  <2>4. t = [s \in SUBSET D |-> t[s]]
    BY <1>3 DEF IsFold
  <2> HIDE DEF u
  <2>5. t = u
    BY <2>2, <2>3, <2>4
  <2> QED BY <2>5 DEF u
<1>6. Recursive(iter)
  <2> HIDE DEF Recursive
  <2> QED BY <1>5, Zenon
<1>r. run \in [0..Len(seq) -> Nat]
  <2>1. run = [n \in 0..Len(seq) |-> t[1..n]]
    BY DEF RunOf
  <2>2. \A n \in 0..Len(seq) : t[1..n] \in Nat
    BY <1>4
  <2> QED BY <2>1, <2>2
<1> HIDE DEF iter, run
<1>7. ASSUME NEW s \in SUBSET D
      PROVE  iter[s] = IF s = {} THEN 0 ELSE iter[s \ {Max(s)}] + seq[Max(s)]
  BY <1>6, Zenon
<1>s. \A n \in 1..Len(seq) : run[n] = run[n - 1] + seq[n]
  <2>1. ASSUME NEW n \in 1..Len(seq)
        PROVE  run[n] = run[n - 1] + seq[n]
    <3>1. run[n] = AddTable[<<run[n - 1], seq[n]>>]
      BY <1>4 DEF IsRun
    <3>2. run[n - 1] \in Nat /\ seq[n] \in Nat
      BY <1>r
    <3> QED BY <3>1, <3>2, AddCloses, Zenon
  <2> QED BY <2>1
<1>8. \A n \in 0..Len(seq) : iter[1..n] = run[n]
  <2> DEFINE Same == {n \in 0..Len(seq) : iter[1..n] = run[n]}
  <2>1. 0 \in Same
    <3>1. 1..0 = {} /\ 0 \in 0..Len(seq) /\ 1..0 \in SUBSET D
      BY <1>2
    <3>2. iter[1..0] = 0
      BY <1>7, <3>1, Zenon
    <3> QED BY <1>4, <3>1, <3>2 DEF IsRun
  <2>2. ASSUME NEW n \in 1..Len(seq), n - 1 \in Same
        PROVE  n \in Same
    <3>1. n \in Nat \ {0} /\ n \in 0..Len(seq) /\ n - 1 \in 0..Len(seq) /\ 1..n \in SUBSET D
      BY <1>2
    <3>2. Max(1..n) = n /\ (1..n) \ {n} = 1..(n - 1) /\ 1..n # {}
      BY <3>1, IntervalEnds
    <3>3. iter[1..n] = iter[1..(n - 1)] + seq[n]
      BY <1>7, <3>1, <3>2, Zenon
    <3>7. iter[1..(n - 1)] = run[n - 1]
      BY <2>2
    <3>8. iter[1..n] = run[n]
      BY <1>s, <3>3, <3>7, Zenon
    <3> QED BY <3>1, <3>8
  <2>3. \A n \in 0..Len(seq) : n \in Same
    <3> HIDE DEF Same
    <3> QED BY <1>2, <2>1, <2>2, Climb
  <2> QED BY <2>3
<1>9. iter[D] = run[Len(seq)]
  <2>1. Len(seq) \in 0..Len(seq)
    BY <1>2
  <2> QED BY <1>2, <1>8, <2>1, Zenon
<1>10. IsSum(run, seq)
  BY <1>1, <1>r, <1>s, <1>4, <1>9 DEF IsSum, IsRun
<1> QED BY <1>10

RetainTable(number) ==
    [p \in Seq(Nat) \X Nat |-> IF p[2] = number THEN p[1] ELSE Append(p[1], p[2])]

\* Retaining all but one number, as a table.
LEMMA RetainCloses ==
    ASSUME NEW number
    PROVE  /\ Steps(RetainTable(number), Seq(Nat), Nat)
           /\ \A a \in Seq(Nat), b \in Nat :
                 RetainTable(number)[<<a, b>>] = IF b = number THEN a ELSE Append(a, b)
<1>1. ASSUME NEW a \in Seq(Nat), NEW b \in Nat
      PROVE  RetainTable(number)[<<a, b>>] = IF b = number THEN a ELSE Append(a, b)
  <2>1. <<a, b>> \in Seq(Nat) \X Nat /\ <<a, b>>[1] = a /\ <<a, b>>[2] = b
    OBVIOUS
  <2> QED BY <2>1, Zenon DEF RetainTable
<1>2. ASSUME NEW a \in Seq(Nat), NEW b \in Nat
      PROVE  RetainTable(number)[<<a, b>>] \in Seq(Nat)
  <2>1. Append(a, b) \in Seq(Nat)
    BY AppendProperties
  <2> QED BY <1>1, <2>1
<1> QED BY <1>1, <1>2 DEF Steps

\* Without is the last value of a run.
LEMMA RetainRun ==
    ASSUME NEW number, order \in Seq(Nat)
    PROVE  \E run : /\ run \in [0..Len(order) -> Seq(Nat)]
                    /\ run[0] = <<>>
                    /\ \A n \in 1..Len(order) :
                          run[n] = IF order[n] = number THEN run[n - 1]
                                   ELSE Append(run[n - 1], order[n])
                    /\ Without(number) = run[Len(order)]
<1> DEFINE D == DOMAIN order
           Next(kept, b) == IF b = number THEN kept ELSE Append(kept, b)
           Recursive(g) == g = [s \in SUBSET D |->
               IF s = {} THEN <<>> ELSE Next(g[s \ {Max(s)}], order[Max(s)])]
           iter == CHOOSE g : Recursive(g)
<1>1. Without(number) = iter[D]
  BY DEF Without, FoldLeft, MapThenFoldSet
<1>2. D = 1..Len(order) /\ Len(order) \in Nat
  OBVIOUS
<1>a. <<>> \in Seq(Nat)
  OBVIOUS
<1>3. PICK t : IsFold(t, order, Seq(Nat), <<>>, RetainTable(number))
  BY <1>a, RetainCloses, FoldExists
<1> DEFINE run == RunOf(t, order)
<1>4. /\ IsRun(run, <<>>, RetainTable(number), order)
      /\ \A n \in 0..Len(order) : run[n] = t[1..n] /\ t[1..n] \in Seq(Nat)
  BY <1>3, FoldRuns
<1>b. \A a \in Seq(Nat), b \in Nat : RetainTable(number)[<<a, b>>] = Next(a, b)
  BY RetainCloses
<1> HIDE DEF Next
<1>5. Recursive(t)
  <2> DEFINE u == [s \in SUBSET D |->
               IF s = {} THEN <<>> ELSE Next(t[s \ {Max(s)}], order[Max(s)])]
  <2>1. ASSUME NEW s \in SUBSET D
        PROVE  t[s] = IF s = {} THEN <<>> ELSE Next(t[s \ {Max(s)}], order[Max(s)])
    <3>1. s = {} => t[s] = <<>>
      BY <1>3, Zenon DEF IsFold
    <3>2. s # {} => /\ Max(s) \in D
                    /\ t[s] = RetainTable(number)[<<t[s \ {Max(s)}], order[Max(s)]>>]
      BY <1>3, Zenon DEF IsFold
    <3>3. t[s \ {Max(s)}] \in Seq(Nat)
      BY <1>3 DEF IsFold
    <3>4. Max(s) \in D => order[Max(s)] \in Nat
      BY <1>2
    <3> QED BY <1>b, <3>1, <3>2, <3>3, <3>4, Zenon
  <2>2. DOMAIN u = SUBSET D /\ u = [s \in DOMAIN u |-> u[s]]
    OBVIOUS
  <2>3. \A s \in SUBSET D : t[s] = u[s]
    BY <2>1, Zenon
  <2>4. t = [s \in SUBSET D |-> t[s]]
    BY <1>3 DEF IsFold
  <2> HIDE DEF u
  <2>5. t = u
    BY <2>2, <2>3, <2>4
  <2> QED BY <2>5 DEF u
<1>6. Recursive(iter)
  <2> HIDE DEF Recursive
  <2> QED BY <1>5, Zenon
<1>r. run \in [0..Len(order) -> Seq(Nat)]
  <2>1. run = [n \in 0..Len(order) |-> t[1..n]]
    BY DEF RunOf
  <2>2. \A n \in 0..Len(order) : t[1..n] \in Seq(Nat)
    BY <1>4
  <2> QED BY <2>1, <2>2
<1> HIDE DEF iter, run
<1>7. ASSUME NEW s \in SUBSET D
      PROVE  iter[s] = IF s = {} THEN <<>> ELSE Next(iter[s \ {Max(s)}], order[Max(s)])
  BY <1>6, Zenon
<1>s. \A n \in 1..Len(order) : run[n] = Next(run[n - 1], order[n])
  <2>1. ASSUME NEW n \in 1..Len(order)
        PROVE  run[n] = Next(run[n - 1], order[n])
    <3>1. run[n] = RetainTable(number)[<<run[n - 1], order[n]>>]
      BY <1>4 DEF IsRun
    <3>0. n - 1 \in 0..Len(order)
      BY <1>2
    <3>2. run[n - 1] \in Seq(Nat) /\ order[n] \in Nat
      <4>1. run[n - 1] \in Seq(Nat)
        BY <1>r, <3>0, Zenon
      <4>2. order[n] \in Nat
        OBVIOUS
      <4> QED BY <4>1, <4>2
    <3> QED BY <1>b, <3>1, <3>2, Zenon
  <2> QED BY <2>1
<1>8. \A n \in 0..Len(order) : iter[1..n] = run[n]
  <2> DEFINE Same == {n \in 0..Len(order) : iter[1..n] = run[n]}
  <2>1. 0 \in Same
    <3>1. 1..0 = {} /\ 0 \in 0..Len(order) /\ 1..0 \in SUBSET D
      BY <1>2
    <3>2. iter[1..0] = <<>>
      BY <1>7, <3>1, Zenon
    <3>3. run[0] = <<>>
      BY <1>4, Zenon DEF IsRun
    <3> QED BY <3>1, <3>2, <3>3
  <2>2. ASSUME NEW n \in 1..Len(order), n - 1 \in Same
        PROVE  n \in Same
    <3>1. n \in Nat \ {0} /\ n \in 0..Len(order) /\ n - 1 \in 0..Len(order) /\ 1..n \in SUBSET D
      BY <1>2
    <3>2. Max(1..n) = n /\ (1..n) \ {n} = 1..(n - 1) /\ 1..n # {}
      BY <3>1, IntervalEnds
    <3>3. iter[1..n] = Next(iter[1..(n - 1)], order[n])
      BY <1>7, <3>1, <3>2, Zenon
    <3>7. iter[1..(n - 1)] = run[n - 1]
      BY <2>2
    <3>8. iter[1..n] = run[n]
      BY <1>s, <3>3, <3>7, Zenon
    <3> QED BY <3>1, <3>8
  <2>3. \A n \in 0..Len(order) : n \in Same
    <3> HIDE DEF Same
    <3> QED BY <1>2, <2>1, <2>2, Climb
  <2> QED BY <2>3
<1>9. iter[D] = run[Len(order)]
  <2>1. Len(order) \in 0..Len(order)
    BY <1>2
  <2> QED BY <1>2, <1>8, <2>1, Zenon
<1>10. run[0] = <<>>
  BY <1>4, Zenon DEF IsRun
<1> QED BY <1>1, <1>r, <1>s, <1>9, <1>10, Zenon DEF Next

\* The sum of a longer prefix.
LEMMA SumExtends ==
    ASSUME NEW s \in Seq(Nat), NEW more \in Seq(Nat), NEW x,
           Extended(more, s, x)
    PROVE  SumOf(s) \in Nat /\ SumOf(more) = SumOf(s) + x
<1>1. PICK r : IsSum(r, s)
  BY SumRun
<1>2. PICK q : IsSum(q, more)
  BY SumRun
<1> DEFINE N == Len(s)
<1>3. /\ N \in Nat /\ Len(more) = N + 1
      /\ \A n \in 1..N : more[n] = s[n]
      /\ more[N + 1] = x
  BY DEF Extended
<1>4. /\ r \in [0..N -> Nat] /\ r[0] = 0 /\ SumOf(s) = r[N]
      /\ \A n \in 1..N : r[n] = r[n - 1] + s[n]
  BY <1>1 DEF IsSum
<1>5. /\ q[0] = 0 /\ SumOf(more) = q[N + 1]
      /\ \A n \in 1..(N + 1) : q[n] = q[n - 1] + more[n]
  BY <1>2, <1>3 DEF IsSum
<1> HIDE DEF N
<1>6. \A n \in 0..N : q[n] = r[n]
  <2> DEFINE Same == {n \in 0..N : q[n] = r[n]}
  <2>1. 0 \in Same
    BY <1>3, <1>4, <1>5
  <2>2. ASSUME NEW n \in 1..N, n - 1 \in Same
        PROVE  n \in Same
    <3>1. q[n] = q[n - 1] + more[n] /\ n \in 0..N /\ more[n] = s[n] /\ q[n - 1] = r[n - 1]
      BY <1>3, <1>5, <2>2
    <3>2. r[n] = r[n - 1] + s[n]
      BY <1>4
    <3> QED BY <3>1, <3>2
  <2>3. \A n \in 0..N : n \in Same
    <3> HIDE DEF Same
    <3> QED BY <1>3, <2>1, <2>2, Climb
  <2> QED BY <2>3
<1>7. q[N + 1] = q[N] + more[N + 1]
  <2> DEFINE k == N + 1
  <2>1. k \in 1..k /\ k - 1 = N
    BY <1>3
  <2>2. q[k] = q[k - 1] + more[k]
    BY <1>5, <2>1
  <2> QED BY <2>1, <2>2
<1>8. q[N] = r[N] /\ r[N] \in Nat
  BY <1>3, <1>4, <1>6
<1> QED BY <1>3, <1>4, <1>5, <1>7, <1>8

\* An empty sum.
LEMMA SumOfNothing ==
    ASSUME NEW s \in Seq(Nat), Len(s) = 0
    PROVE  SumOf(s) = 0
<1>1. PICK r : IsSum(r, s)
  BY SumRun
<1> QED BY <1>1, Zenon DEF IsSum

\* What an index promises, whatever its records are.
LEMMA Starts ==
    ASSUME lengths \in Seq(Nat)
    PROVE  /\ DecodedStart(1) = 0
           /\ \A b \in 1..(Len(lengths) + 1) : DecodedStart(b) \in Nat
           /\ \A b \in 1..Len(lengths) : DecodedStart(b + 1) = DecodedStart(b) + lengths[b]
<1> DEFINE N == Len(lengths)
           At(b) == SubSeq(lengths, 1, b - 1)
<1>1. ASSUME NEW b \in 1..(N + 1)
      PROVE  /\ At(b) \in Seq(Nat) /\ Len(At(b)) = b - 1
             /\ \A n \in 1..(b - 1) : At(b)[n] = lengths[n]
  OBVIOUS
<1>2. DecodedStart(1) = 0
  <2>1. 1 \in 1..(N + 1)
    OBVIOUS
  <2>2. At(1) \in Seq(Nat) /\ Len(At(1)) = 0
    BY <1>1, <2>1
  <2> HIDE DEF At
  <2>3. SumOf(At(1)) = 0
    BY <2>2, SumOfNothing
  <2> QED BY <2>3 DEF DecodedStart, At
<1>3. ASSUME NEW b \in 1..N
      PROVE  DecodedStart(b) \in Nat /\ DecodedStart(b + 1) = DecodedStart(b) + lengths[b]
  <2> DEFINE s == At(b)
             more == At(b + 1)
  <2>1. b \in 1..(N + 1) /\ b + 1 \in 1..(N + 1) /\ (b + 1) - 1 = b /\ b - 1 \in Nat /\ (b - 1) + 1 = b
    OBVIOUS
  <2>2. /\ s \in Seq(Nat) /\ Len(s) = b - 1 /\ \A n \in 1..(b - 1) : s[n] = lengths[n]
        /\ more \in Seq(Nat) /\ Len(more) = b /\ \A n \in 1..b : more[n] = lengths[n]
    BY <1>1, <2>1
  <2> HIDE DEF At, s, more
  <2>3. Extended(more, s, lengths[b])
    <3>1. Len(s) \in Nat /\ Len(more) = Len(s) + 1 /\ Len(s) + 1 = b
      BY <2>1, <2>2
    <3>2. ASSUME NEW n \in 1..Len(s)
          PROVE  more[n] = s[n]
      <4>1. n \in 1..(b - 1) /\ n \in 1..b
        BY <2>1, <2>2
      <4> QED BY <2>2, <4>1
    <3>3. b \in 1..b
      BY <2>1
    <3>4. more[Len(s) + 1] = lengths[b]
      BY <2>2, <3>1, <3>3
    <3> QED BY <3>1, <3>2, <3>4 DEF Extended
  <2>4. SumOf(s) \in Nat /\ SumOf(more) = SumOf(s) + lengths[b]
    BY <2>2, <2>3, SumExtends
  <2> QED BY <2>4 DEF DecodedStart, s, more, At
<1>4. DecodedStart(N + 1) \in Nat
  <2>1. CASE N = 0
    <3>1. N + 1 = 1
      BY <2>1
    <3> QED BY <1>2, <3>1
  <2>2. CASE N # 0
    <3>1. N \in 1..N /\ lengths[N] \in Nat
      BY <2>2
    <3>2. DecodedStart(N) \in Nat /\ DecodedStart(N + 1) = DecodedStart(N) + lengths[N]
      BY <1>3, <3>1
    <3> QED BY <3>1, <3>2
  <2> QED BY <2>1, <2>2
<1>5. ASSUME NEW b \in 1..(N + 1)
      PROVE  DecodedStart(b) \in Nat
  <2>1. CASE b = N + 1
    BY <1>4, <2>1
  <2>2. CASE b # N + 1
    <3>1. b \in 1..N
      BY <2>2
    <3> QED BY <1>3, <3>1
  <2> QED BY <2>1, <2>2
<1> QED BY <1>2, <1>3, <1>5

------------------------------------------------------------------------------
(* The places of an index. *)

\* No block begins behind the end.
LEMMA StartsClimb ==
    ASSUME lengths \in Seq(Nat)
    PROVE  \A b \in 1..(Len(lengths) + 1) : DecodedStart(b) <= DecodedLen
<1> DEFINE N == Len(lengths)
           D(b) == DecodedStart(b)
           Below == {n \in 0..N : D(N + 1 - n) <= D(N + 1)}
<1>1. /\ N \in Nat
      /\ \A b \in 1..(N + 1) : D(b) \in Nat
      /\ \A b \in 1..N : D(b + 1) = D(b) + lengths[b]
  BY Starts
<1> HIDE DEF D
<1>2. 0 \in Below
  <2>1. (N + 1) - 0 = N + 1 /\ N + 1 \in 1..(N + 1) /\ 0 \in 0..N
    BY <1>1
  <2>2. D(N + 1) <= D(N + 1)
    BY <1>1, <2>1
  <2> QED BY <2>1, <2>2
<1>3. ASSUME NEW n \in 1..N, n - 1 \in Below
      PROVE  n \in Below
  <2> DEFINE b == N + 1 - n
  <2>1. b \in 1..N /\ b + 1 = N + 1 - (n - 1) /\ n \in 0..N /\ b \in 1..(N + 1)
        /\ b + 1 \in 1..(N + 1) /\ N + 1 \in 1..(N + 1)
    BY <1>1
  <2>2. D(N + 1 - (n - 1)) <= D(N + 1)
    BY <1>3
  <2>3. D(b + 1) <= D(N + 1)
    BY <2>1, <2>2
  <2> HIDE DEF b
  <2>4. D(b + 1) = D(b) + lengths[b] /\ lengths[b] \in Nat /\ D(b) \in Nat /\ D(N + 1) \in Nat
    <3>1. lengths[b] \in Nat
      BY <2>1 DEF N
    <3> QED BY <1>1, <2>1, <3>1, Zenon
  <2>5. D(b) <= D(N + 1)
    BY <2>3, <2>4
  <2> QED BY <2>1, <2>5 DEF b
<1>4. \A n \in 0..N : n \in Below
  <2> HIDE DEF Below
  <2> QED BY <1>1, <1>2, <1>3, Climb
<1>5. ASSUME NEW b \in 1..(N + 1)
      PROVE  D(b) <= D(N + 1)
  <2> DEFINE n == N + 1 - b
  <2>1. n \in 0..N /\ N + 1 - n = b
    BY <1>1
  <2>2. D(N + 1 - n) <= D(N + 1)
    BY <1>4, <2>1
  <2> QED BY <2>1, <2>2
<1> QED BY <1>5 DEF D, DecodedLen

\* The block at a position in front of the end holds it.
LEMMA BlockHolds ==
    ASSUME lengths \in Seq(Nat), position \in Nat, position < DecodedLen
    PROVE  /\ BlockAtPosition \in 1..Len(lengths)
           /\ DecodedStart(BlockAtPosition) <= position
           /\ position < DecodedStart(BlockAtPosition) + lengths[BlockAtPosition]
<1> DEFINE N == Len(lengths)
           D(b) == DecodedStart(b)
           Past == {b \in DOMAIN lengths : D(b) + lengths[b] > position}
           here == BlockAtPosition
<1>1. /\ N \in Nat /\ D(1) = 0
      /\ \A b \in 1..(N + 1) : D(b) \in Nat
      /\ \A b \in 1..N : D(b + 1) = D(b) + lengths[b]
      /\ DOMAIN lengths = 1..N /\ \A b \in 1..N : lengths[b] \in Nat
  BY Starts
<1>2. position < D(N + 1)
  BY DEF DecodedLen
<1>3. here = Min(Past)
  BY DEF BlockAtPosition
<1> HIDE DEF D, here
<1>4. N \in Past
  <2>1. N # 0
    <3> SUFFICES ASSUME N = 0 PROVE FALSE
      OBVIOUS
    <3>1. N + 1 = 1
      OBVIOUS
    <3> QED BY <1>1, <1>2, <3>1
  <2>2. N \in 1..N
    BY <1>1, <2>1
  <2>3. D(N + 1) = D(N) + lengths[N]
    BY <1>1, <2>2
  <2>4. D(N) + lengths[N] > position
    BY <1>1, <1>2, <2>2, <2>3
  <2> QED BY <1>1, <2>2, <2>4
<1>5. here \in Past /\ \A b \in Past : here <= b
  <2>1. Past \subseteq Nat /\ Past # {}
    <3>1. Past \subseteq 1..N
      BY <1>1
    <3>2. 1..N \subseteq Nat
      OBVIOUS
    <3> HIDE DEF Past
    <3> QED BY <1>4, <3>1, <3>2
  <2> HIDE DEF Past
  <2>2. \E a \in Past : \A b \in Past : a <= b
    BY <2>1, LeastNat
  <2> QED BY <1>3, <2>2 DEF Min
<1>6. here \in 1..N /\ D(here) + lengths[here] > position
  BY <1>1, <1>5
<1>7. D(here) <= position
  <2>1. CASE here = 1
    BY <1>1, <2>1
  <2>2. CASE here # 1
    <3> DEFINE b == here - 1
    <3>1. b \in 1..N /\ b + 1 = here /\ ~(here <= b)
      BY <1>1, <1>6, <2>2
    <3> HIDE DEF b
    <3>2. b \notin Past
      BY <1>5, <3>1
    <3>3. ~(D(b) + lengths[b] > position)
      BY <1>1, <3>1, <3>2
    <3>4. D(here) = D(b) + lengths[b]
      BY <1>1, <3>1
    <3>5. b \in 1..(N + 1) /\ D(b) \in Nat /\ lengths[b] \in Nat
      BY <1>1, <3>1
    <3> QED BY <3>3, <3>4, <3>5
  <2> QED BY <2>1, <2>2
<1>8. here \in 1..N /\ D(here) <= position /\ position < D(here) + lengths[here]
  <2>1. here \in 1..(N + 1) /\ D(here) \in Nat /\ lengths[here] \in Nat
    BY <1>1, <1>6
  <2> QED BY <1>6, <1>7, <2>1
<1> QED BY <1>8 DEF D, here

\* What a read has copied: the bytes from where it began, the position behind.
Follows(out, from, at) ==
    /\ out \in Seq(Nat) /\ at = from + Len(out)
    /\ \A i \in 1..Len(out) : out[i] = from + i - 1

\* What has been copied and what comes next, copied behind it.
LEMMA FollowsMore ==
    ASSUME NEW from \in Nat, NEW out, NEW at \in Nat, Follows(out, from, at),
           NEW more \in Seq(Nat), \A i \in 1..Len(more) : more[i] = at + i - 1
    PROVE  Follows(out \o more, from, at + Len(more))
<1> DEFINE o == Len(out)
           m == Len(more)
           all == out \o more
<1>1. /\ out \in Seq(Nat) /\ o \in Nat /\ m \in Nat /\ at = from + o
      /\ \A i \in 1..o : out[i] = from + i - 1
  BY DEF Follows
<1>2. /\ all \in Seq(Nat) /\ Len(all) = o + m
      /\ \A i \in 1..(o + m) : all[i] = IF i <= o THEN out[i] ELSE more[i - o]
  BY <1>1, ConcatProperties
<1> HIDE DEF all, o, m
<1>3. ASSUME NEW i \in 1..(o + m)
      PROVE  all[i] = from + i - 1
  <2>0. i \in Nat /\ 1 <= i
    BY <1>1
  <2>1. CASE i <= o
    <3>1. i \in 1..o
      BY <1>1, <2>0, <2>1
    <3> QED BY <1>1, <1>2, <2>1, <3>1
  <2>2. CASE ~(i <= o)
    <3> DEFINE j == i - o
    <3>1. j \in 1..m /\ at + j - 1 = from + i - 1
      BY <1>1, <2>0, <2>2
    <3>2. all[i] = more[j]
      BY <1>2, <2>2
    <3> HIDE DEF j
    <3>3. more[j] = at + j - 1
      BY <3>1 DEF m
    <3> QED BY <3>1, <3>2, <3>3
  <2> QED BY <2>1, <2>2
<1>4. at + m = from + Len(all)
  BY <1>1, <1>2
<1>5. Follows(all, from, at + m)
  BY <1>2, <1>3, <1>4 DEF Follows
<1> QED BY <1>5 DEF all, m

\* What has been copied, as CachedReads says it.
LEMMA FollowsIs ==
    ASSUME NEW from, NEW out, NEW at, Follows(out, from, at)
    PROVE  /\ out = [i \in DOMAIN out |-> from + i - 1]
           /\ at = from + Len(out)
<1>1. /\ out \in Seq(Nat) /\ at = from + Len(out)
      /\ \A i \in 1..Len(out) : out[i] = from + i - 1
  BY DEF Follows
<1>2. DOMAIN out = 1..Len(out) /\ out = [i \in DOMAIN out |-> out[i]]
  BY <1>1
<1> QED BY <1>1, <1>2

\* The data of a block.
LEMMA DataIs ==
    ASSUME lengths \in Seq(Nat), NEW b \in 1..Len(lengths)
    PROVE  /\ DataOf(b) \in Seq(Nat) /\ Len(DataOf(b)) = lengths[b]
           /\ \A i \in 1..lengths[b] : DataOf(b)[i] = DecodedStart(b) + i - 1
<1> DEFINE d == DecodedStart(b)
           n == lengths[b]
           data == DataOf(b)
<1>1. b \in 1..(Len(lengths) + 1) /\ n \in Nat
  OBVIOUS
<1>2. d \in Nat
  BY <1>1, Starts
<1>3. data = [i \in 1..n |-> d + i - 1]
  BY DEF DataOf
<1> HIDE DEF d, n, data
<1>4. \A i \in 1..n : d + i - 1 \in Nat
  BY <1>1, <1>2
<1>5. data \in Seq(Nat) /\ Len(data) = n /\ \A i \in 1..n : data[i] = d + i - 1
  BY <1>1, <1>3, <1>4
<1> QED BY <1>5 DEF d, n, data

\* The part of the block at the position that a read still asks for.
Reading ==
    /\ lengths \in Seq(Nat) /\ position \in Nat /\ wanted \in Nat /\ began \in Nat
    /\ Follows(copied, began, position)
    /\ Len(copied) <= wanted
    /\ position <= DecodedLen

\* A part of the block at the position is the part that the read needs next.
LEMMA CopiesRead ==
    ASSUME Reading, Continues, NEW b, b = BlockAtPosition,
           Copies(DataOf(b), b), UNCHANGED <<lengths, wanted, began>>
    PROVE  Reading'
<1> DEFINE data == DataOf(b)
           d == DecodedStart(b)
           n == lengths[b]
           offset == position - d
           left == wanted - Len(copied)
           count == IF left < n - offset THEN left ELSE n - offset
           part == SubSeq(data, offset + 1, offset + count)
<1>1. /\ lengths \in Seq(Nat) /\ position \in Nat /\ wanted \in Nat /\ began \in Nat
      /\ Follows(copied, began, position) /\ Len(copied) <= wanted
      /\ copied \in Seq(Nat)
  BY DEF Reading, Follows
<1>2. left > 0 /\ position < DecodedLen /\ left \in Nat
  BY <1>1 DEF Continues, Rest
<1>3. b \in 1..Len(lengths) /\ d <= position /\ position < d + n
  BY <1>1, <1>2, BlockHolds
<1>4. b \in 1..(Len(lengths) + 1) /\ b + 1 \in 1..(Len(lengths) + 1) /\ n \in Nat
  BY <1>1, <1>3
<1>5. d \in Nat /\ d + n <= DecodedLen /\ DecodedLen \in Nat
  <2>1. d \in Nat /\ DecodedStart(b + 1) = d + n
    BY <1>1, <1>3, <1>4, Starts
  <2>2. DecodedStart(b + 1) <= DecodedLen
    BY <1>1, <1>4, StartsClimb
  <2>3. Len(lengths) + 1 \in 1..(Len(lengths) + 1)
    BY <1>1
  <2>4. DecodedLen \in Nat
    BY <1>1, <2>3, Starts DEF DecodedLen
  <2> QED BY <2>1, <2>2, <2>4
<1>6. /\ data \in Seq(Nat) /\ Len(data) = n
      /\ \A i \in 1..n : data[i] = d + i - 1
  BY <1>1, <1>3, DataIs
<1>7. copied' = copied \o part /\ position' = position + count
  BY <1>6, Zenon DEF Copies, Rest
<1> DEFINE c == Len(copied)
<1>8. c \in Nat
  BY <1>1
<1> HIDE DEF data, d, n, c
<1>9. /\ offset \in Nat /\ count \in Nat /\ offset + count <= n
      /\ c + count <= wanted
  BY <1>1, <1>2, <1>3, <1>4, <1>5, <1>8 DEF c
<1>10. /\ part \in Seq(Nat) /\ Len(part) = count
       /\ \A i \in 1..count : part[i] = data[i + offset]
  <2>1. part = SubSeq(data, offset + 1, offset + count)
    OBVIOUS
  <2> HIDE DEF offset, count, part
  <2>2. offset + count <= Len(data)
    BY <1>6, <1>9
  <2>3. IsCut(part, data, offset, count, Nat)
    BY <1>6, <1>9, <2>1, <2>2, CutIs
  <2> QED BY <2>3 DEF IsCut
<1> HIDE DEF part
<1>11. \A i \in 1..Len(part) : part[i] = position + i - 1
  <2>1. ASSUME NEW i \in 1..count
        PROVE  part[i] = position + i - 1
    <3> DEFINE j == i + offset
    <3>1. i \in Nat /\ 1 <= i /\ i <= count
      BY <1>9
    <3>2. j \in 1..n /\ d + j - 1 = position + i - 1
      <4>1. offset = position - d /\ position \in Nat /\ d \in Nat /\ n \in Nat
        BY <1>1, <1>4, <1>5 DEF d, n
      <4> HIDE DEF offset, count
      <4> QED BY <1>9, <3>1, <4>1
    <3>3. part[i] = data[j]
      BY <1>10
    <3> HIDE DEF j
    <3> QED BY <1>6, <3>2, <3>3
  <2> QED BY <1>10, <2>1
<1> HIDE DEF offset, count, left
<1>12. Follows(copied \o part, began, position + count)
  BY <1>1, <1>10, <1>11, FollowsMore
<1>13. Len(copied \o part) = c + count
  BY <1>1, <1>10, ConcatProperties DEF c
<1>14. position + count <= DecodedLen /\ position + count \in Nat
  BY <1>1, <1>3, <1>4, <1>5, <1>9 DEF offset
<1>15. DecodedLen' = DecodedLen
  BY DEF DecodedLen, DecodedStart
<1>16. /\ position' \in Nat /\ Follows(copied', began, position') /\ Len(copied') <= wanted
       /\ position' <= DecodedLen
  BY <1>7, <1>9, <1>12, <1>13, <1>14
<1> QED BY <1>1, <1>15, <1>16 DEF Reading

------------------------------------------------------------------------------
(* The cache. *)

\* Entries in an order: each once.
Ordered(s, D) ==
    /\ s \in Seq(Nat)
    /\ \A x : x \in D <=> \E i \in 1..Len(s) : s[i] = x
    /\ \A i, j \in 1..Len(s) : s[i] = s[j] => i = j

\* The order names the entries once each.
LEMMA OrderedIs ==
    ASSUME NEW s, NEW D
    PROVE  Ordered(s, D) <=> s \in Seq(Nat) /\ ToSet(s) = D /\ IsInjective(s)
<1>1. ASSUME s \in Seq(Nat)
      PROVE  Ordered(s, D) <=> ToSet(s) = D /\ IsInjective(s)
  <2>1. DOMAIN s = 1..Len(s)
    BY <1>1
  <2>2. ToSet(s) = D <=> \A x : x \in D <=> \E i \in 1..Len(s) : s[i] = x
    BY <2>1 DEF ToSet
  <2>3. IsInjective(s) <=> \A i, j \in 1..Len(s) : s[i] = s[j] => i = j
    BY <2>1 DEF IsInjective
  <2> QED BY <1>1, <2>2, <2>3, Zenon DEF Ordered
<1>2. Ordered(s, D) => s \in Seq(Nat)
  BY DEF Ordered
<1> QED BY <1>1, <1>2

\* A new entry at the end.
LEMMA OrderedAppend ==
    ASSUME NEW s, NEW D, Ordered(s, D), NEW x \in Nat \ D, NEW more, more = D \cup {x}
    PROVE  Ordered(Append(s, x), more)
<1> DEFINE n == Len(s)
           longer == Append(s, x)
<1>1. /\ s \in Seq(Nat) /\ n \in Nat
      /\ \A y : y \in D <=> \E i \in 1..n : s[i] = y
      /\ \A i, j \in 1..n : s[i] = s[j] => i = j
  BY DEF Ordered
<1>2. /\ longer \in Seq(Nat) /\ Len(longer) = n + 1
      /\ \A i \in 1..n : longer[i] = s[i]
      /\ longer[n + 1] = x
  BY <1>1, AppendProperties
<1> HIDE DEF longer, n
<1>3. \A i \in 1..(n + 1) : i \in 1..n \/ i = n + 1
  BY <1>1
<1>4. \A i \in 1..n : i \in 1..(n + 1) /\ i # n + 1 /\ s[i] # x
  BY <1>1
<1>5. n + 1 \in 1..(n + 1)
  BY <1>1
<1>6. \A y : y \in more <=> \E i \in 1..(n + 1) : longer[i] = y
  <2>1. \A y : y \in more <=> y \in D \/ y = x
    OBVIOUS
  <2>2. ASSUME NEW y \in more
        PROVE  \E i \in 1..(n + 1) : longer[i] = y
    <3>1. CASE y = x
      BY <1>2, <1>5, <3>1
    <3>2. CASE y \in D
      <4>1. PICK i \in 1..n : s[i] = y
        BY <1>1, <3>2
      <4>2. i \in 1..(n + 1) /\ longer[i] = y
        BY <1>2, <1>4, <4>1
      <4> QED BY <4>2
    <3> QED BY <2>1, <3>1, <3>2
  <2>3. ASSUME NEW i \in 1..(n + 1)
        PROVE  longer[i] \in more
    <3>1. CASE i \in 1..n
      BY <1>1, <1>2, <2>1, <3>1
    <3>2. CASE i = n + 1
      BY <1>2, <2>1, <3>2
    <3> QED BY <1>3, <3>1, <3>2
  <2> QED BY <2>2, <2>3
<1>7. \A i, j \in 1..(n + 1) : longer[i] = longer[j] => i = j
  BY <1>1, <1>2, <1>3, <1>4, <1>5, Zenon
<1>8. Ordered(longer, more)
  BY <1>2, <1>6, <1>7 DEF Ordered
<1> QED BY <1>8 DEF longer

\* BlockCache::get moves a block to the end of the order.
LEMMA Retained ==
    ASSUME NEW D, Ordered(order, D), NEW number
    PROVE  Ordered(Without(number), D \ {number})
<1> DEFINE N == Len(order)
           Upto(n) == {order[i] : i \in 1..n} \ {number}
<1>1. /\ order \in Seq(Nat) /\ N \in Nat
      /\ \A y : y \in D <=> \E i \in 1..N : order[i] = y
      /\ \A i, j \in 1..N : order[i] = order[j] => i = j
  BY DEF Ordered
<1>2. PICK run : /\ run \in [0..N -> Seq(Nat)]
                 /\ run[0] = <<>>
                 /\ \A n \in 1..N : run[n] = IF order[n] = number THEN run[n - 1]
                                             ELSE Append(run[n - 1], order[n])
                 /\ Without(number) = run[N]
  BY <1>1, RetainRun
<1>3. \A n \in 0..N : Ordered(run[n], Upto(n))
  <2> DEFINE Good == {n \in 0..N : Ordered(run[n], Upto(n))}
  <2>1. 0 \in Good
    <3>1. Upto(0) = {} /\ 0 \in 0..N
      BY <1>1
    <3>2. Ordered(<<>>, {})
      BY DEF Ordered
    <3> QED BY <1>2, <3>1, <3>2
  <2>2. ASSUME NEW n \in 1..N, n - 1 \in Good
        PROVE  n \in Good
    <3>1. n \in 0..N /\ Ordered(run[n - 1], Upto(n - 1)) /\ order[n] \in Nat
      BY <1>1, <2>2
    <3>2. \A i : i \in 1..n <=> i \in 1..(n - 1) \/ i = n
      BY <1>1
    <3>3. CASE order[n] = number
      <4>1. Upto(n) = Upto(n - 1)
        BY <3>2, <3>3
      <4>2. run[n] = run[n - 1]
        BY <1>2, <3>3
      <4> QED BY <3>1, <4>1, <4>2
    <3>4. CASE order[n] # number
      <4>1. Upto(n) = Upto(n - 1) \cup {order[n]}
        BY <3>2, <3>4
      <4>2. run[n] = Append(run[n - 1], order[n])
        BY <1>2, <3>4
      <4>3. order[n] \notin Upto(n - 1)
        <5>1. \A i \in 1..(n - 1) : i \in 1..N /\ i # n
          BY <1>1
        <5> QED BY <1>1, <5>1
      <4>4. Ordered(Append(run[n - 1], order[n]), Upto(n))
        <5> HIDE DEF Upto
        <5> QED BY <3>1, <4>1, <4>3, OrderedAppend
      <4>5. Ordered(run[n], Upto(n))
        <5> HIDE DEF Upto
        <5> QED BY <4>2, <4>4
      <4> QED BY <3>1, <4>5
    <3> QED BY <3>3, <3>4
  <2>3. \A n \in 0..N : n \in Good
    <3> HIDE DEF Good
    <3> QED BY <1>1, <2>1, <2>2, Climb
  <2> QED BY <2>3
<1>4. Upto(N) = D \ {number} /\ N \in 0..N
  BY <1>1
<1> QED BY <1>2, <1>3, <1>4, Zenon

\* What stays when the first entries go.
LEMMA OrderedSplit ==
    ASSUME NEW s, NEW D, Ordered(s, D), NEW n \in 0..Len(s)
    PROVE  /\ Ordered(SubSeq(s, 1, n), ToSet(SubSeq(s, 1, n)))
           /\ ToSet(SubSeq(s, 1, n)) \subseteq D
           /\ Ordered(SubSeq(s, n + 1, Len(s)), D \ ToSet(SubSeq(s, 1, n)))
<1> DEFINE N == Len(s)
           left == N - n
           front == SubSeq(s, 1, n)
           back == SubSeq(s, n + 1, N)
<1>1. /\ s \in Seq(Nat) /\ N \in Nat /\ n \in Nat /\ n <= N
      /\ \A x : x \in D <=> \E i \in 1..N : s[i] = x
      /\ \A i, j \in 1..N : s[i] = s[j] => i = j
  BY DEF Ordered
<1>2. front \in Seq(Nat) /\ Len(front) = n /\ \A i \in 1..n : front[i] = s[i]
  BY <1>1
<1>3. back \in Seq(Nat) /\ Len(back) = left /\ \A i \in 1..left : back[i] = s[i + n]
  <2>1. left \in Nat /\ n + left = N /\ n + left <= N
    BY <1>1
  <2>2. /\ SubSeq(s, n + 1, n + left) \in Seq(Nat) /\ Len(SubSeq(s, n + 1, n + left)) = left
        /\ \A i \in 1..left : SubSeq(s, n + 1, n + left)[i] = s[i + n]
    <3>1. s \in Seq(Nat) /\ n \in Nat /\ left \in Nat /\ n + left <= Len(s)
      BY <1>1, <2>1
    <3> HIDE DEF left, N
    <3> QED BY <3>1, SubSeqIs
  <2> QED BY <2>1, <2>2
<1> DEFINE gone == ToSet(front)
<1> HIDE DEF front, back, N
<1>4. \A x : x \in gone <=> \E i \in 1..n : s[i] = x
  <2>1. DOMAIN front = 1..n
    BY <1>2
  <2> QED BY <1>2, <2>1 DEF ToSet
<1>5. \A i \in 1..n : i \in 1..N
  BY <1>1
<1>6. gone \subseteq D
  BY <1>1, <1>4, <1>5
<1>7. Ordered(front, gone)
  <2>1. \A x : x \in gone <=> \E i \in 1..n : front[i] = x
    BY <1>2, <1>4
  <2>2. \A i, j \in 1..n : front[i] = front[j] => i = j
    BY <1>1, <1>2, <1>5
  <2> QED BY <1>2, <2>1, <2>2, Zenon DEF Ordered
<1>8. ASSUME NEW x
      PROVE  x \in D \ gone <=> \E i \in 1..left : back[i] = x
  <2>1. ASSUME x \in D \ gone
        PROVE  \E i \in 1..left : back[i] = x
    <3>1. PICK i \in 1..N : s[i] = x
      BY <1>1, <2>1
    <3>2. i \notin 1..n
      BY <1>4, <2>1, <3>1
    <3> DEFINE k == i - n
    <3>3. k \in 1..left /\ k + n = i
      BY <1>1, <3>1, <3>2
    <3> HIDE DEF k
    <3>4. back[k] = x
      BY <1>3, <3>1, <3>3
    <3> QED BY <3>3, <3>4
  <2>2. ASSUME NEW i \in 1..left, back[i] = x
        PROVE  x \in D \ gone
    <3> DEFINE k == i + n
    <3>1. k \in 1..N /\ k \notin 1..n
      BY <1>1
    <3>2. s[k] = x
      BY <1>3, <2>2
    <3> HIDE DEF k
    <3>3. \A j \in 1..n : s[j] # x
      BY <1>1, <1>5, <3>1, <3>2
    <3> QED BY <1>1, <1>4, <3>1, <3>2, <3>3
  <2> QED BY <2>1, <2>2
<1>9. ASSUME NEW i \in 1..left, NEW j \in 1..left, back[i] = back[j]
      PROVE  i = j
  <2> DEFINE k == i + n
             l == j + n
  <2>1. k \in 1..N /\ l \in 1..N /\ (k = l => i = j)
    BY <1>1
  <2>2. s[k] = s[l]
    BY <1>3, <1>9
  <2> HIDE DEF k, l
  <2> QED BY <1>1, <2>1, <2>2
<1>10. Ordered(back, D \ gone)
  BY <1>3, <1>8, <1>9 DEF Ordered
<1> QED BY <1>6, <1>7, <1>10 DEF front, back, N

Weights(e, D) == [x \in D |-> Len(e[x])]
Sizes(e, s) == [i \in DOMAIN s |-> Len(e[s[i]])]
Sized(e, D) == \A x \in D : Len(e[x]) \in Nat

\* No entries hold no bytes.
LEMMA NoWeights ==
    ASSUME NEW e
    PROVE  IsChargeMap(Weights(e, {})) /\ Total(Weights(e, {})) = 0
<1>1. DOMAIN Weights(e, {}) = {}
  BY DEF Weights
<1>2. IsChargeMap(Weights(e, {}))
  BY <1>1, FS_EmptySet DEF IsChargeMap
<1> QED BY <1>1, <1>2, TotalEmpty

\* One more entry holds its bytes more.
LEMMA OneWeight ==
    ASSUME NEW e, NEW D, IsChargeMap(Weights(e, D)), NEW x, x \notin D, Len(e[x]) \in Nat,
           NEW more, more = D \cup {x}
    PROVE  /\ IsChargeMap(Weights(e, more))
           /\ Total(Weights(e, more)) = Total(Weights(e, D)) + Len(e[x])
           /\ Total(Weights(e, D)) \in Nat
<1> DEFINE c == Weights(e, D)
           d == Weights(e, more)
<1>1. DOMAIN c = D /\ \A y \in D : c[y] = Len(e[y])
  BY DEF Weights
<1>2. d = Charged(c, x, Len(e[x]))
  BY <1>1 DEF Charged, Weights
<1> HIDE DEF c, d
<1>3. IsChargeMap(c) /\ x \notin DOMAIN c
  BY <1>1 DEF c
<1>4. IsChargeMap(d) /\ Total(d) = Total(c) + Len(e[x]) /\ Total(c) \in Nat
  BY <1>2, <1>3, TotalCharged
<1> QED BY <1>4 DEF c, d

\* What the cache counts does not depend on the order.
LEMMA HeldIsTotal ==
    ASSUME NEW e, NEW D, NEW s, Ordered(s, D), Sized(e, D)
    PROVE  /\ IsChargeMap(Weights(e, D))
           /\ SumOf(Sizes(e, s)) = Total(Weights(e, D))
<1> DEFINE N == Len(s)
           sizes == Sizes(e, s)
           Upto(n) == {s[i] : i \in 1..n}
<1>1. /\ s \in Seq(Nat) /\ N \in Nat
      /\ \A x : x \in D <=> \E i \in 1..N : s[i] = x
      /\ \A i, j \in 1..N : s[i] = s[j] => i = j
  BY DEF Ordered
<1>2. DOMAIN s = 1..N
  BY <1>1
<1>3. \A i \in 1..N : Len(e[s[i]]) \in Nat
  BY <1>1 DEF Sized
<1>4. sizes \in Seq(Nat) /\ Len(sizes) = N /\ \A i \in 1..N : sizes[i] = Len(e[s[i]])
  <2>1. sizes = [i \in 1..N |-> Len(e[s[i]])]
    BY <1>2 DEF Sizes
  <2> HIDE DEF sizes
  <2> QED BY <1>1, <1>3, <2>1
<1> HIDE DEF sizes
<1>5. PICK run : IsSum(run, sizes)
  BY <1>4, SumRun
<1>6. /\ run[0] = 0 /\ SumOf(sizes) = run[N]
      /\ \A n \in 1..N : run[n] = run[n - 1] + sizes[n]
  BY <1>4, <1>5, Zenon DEF IsSum
<1>7. \A n \in 0..N : IsChargeMap(Weights(e, Upto(n))) /\ Total(Weights(e, Upto(n))) = run[n]
  <2> DEFINE Good == {n \in 0..N : /\ IsChargeMap(Weights(e, Upto(n)))
                                   /\ Total(Weights(e, Upto(n))) = run[n]}
  <2>1. 0 \in Good
    <3>1. Upto(0) = {} /\ 0 \in 0..N
      BY <1>1
    <3> QED BY <1>6, <3>1, NoWeights
  <2>2. ASSUME NEW n \in 1..N, n - 1 \in Good
        PROVE  n \in Good
    <3> DEFINE before == Upto(n - 1)
               now == Upto(n)
               x == s[n]
    <3>1. \A i : i \in 1..n <=> i \in 1..(n - 1) \/ i = n
      BY <1>1
    <3>2. now = before \cup {x}
      BY <3>1
    <3>3. \A i \in 1..(n - 1) : i \in 1..N /\ i # n
      BY <1>1
    <3>4. x \notin before
      BY <1>1, <3>3
    <3>5. IsChargeMap(Weights(e, before)) /\ Total(Weights(e, before)) = run[n - 1] /\ n \in 0..N
      BY <2>2
    <3>6. Len(e[x]) \in Nat
      BY <1>3
    <3>7. run[n] = run[n - 1] + Len(e[x])
      BY <1>4, <1>6
    <3> HIDE DEF before, now, x
    <3>8. /\ IsChargeMap(Weights(e, now))
          /\ Total(Weights(e, now)) = Total(Weights(e, before)) + Len(e[x])
      BY <3>2, <3>4, <3>5, <3>6, OneWeight
    <3>9. IsChargeMap(Weights(e, now)) /\ Total(Weights(e, now)) = run[n]
      BY <3>5, <3>7, <3>8
    <3> QED BY <3>5, <3>9 DEF now
  <2>3. \A n \in 0..N : n \in Good
    <3> HIDE DEF Good
    <3> QED BY <1>1, <2>1, <2>2, Climb
  <2> QED BY <2>3
<1>8. Upto(N) = D /\ N \in 0..N
  BY <1>1
<1> HIDE DEF Upto
<1>9. IsChargeMap(Weights(e, D)) /\ Total(Weights(e, D)) = run[N]
  BY <1>7, <1>8, Zenon
<1> QED BY <1>6, <1>9 DEF sizes

\* Two parts of what is held.
LEMMA TotalOfParts ==
    ASSUME NEW e, NEW D, IsChargeMap(Weights(e, D)), NEW A, A \subseteq D
    PROVE  /\ IsChargeMap(Weights(e, A)) /\ IsChargeMap(Weights(e, D \ A))
           /\ Total(Weights(e, D)) = Total(Weights(e, A)) + Total(Weights(e, D \ A))
<1> DEFINE B == D \ A
           bytesOf(C) == Bytes(Weights(e, C))
<1>1. IsFiniteSet(D) /\ \A x \in D : Len(e[x]) \in Nat
  BY DEF IsChargeMap, Weights
<1>2. IsFiniteSet(A) /\ IsFiniteSet(B)
  BY <1>1, FS_Subset
<1>3. IsChargeMap(Weights(e, A)) /\ IsChargeMap(Weights(e, B))
  BY <1>1, <1>2 DEF IsChargeMap, Weights
<1>4. \A C : \A p : p \in bytesOf(C) <=> \E x \in C : p \in BytesOf(x, Len(e[x]))
  BY DEF Bytes, Weights
<1>5. bytesOf(D) = bytesOf(A) \cup bytesOf(B)
  <2> HIDE DEF bytesOf
  <2> QED BY <1>4
<1>6. bytesOf(A) \cap bytesOf(B) = {}
  <2>1. \A x, y : \A p : p \in BytesOf(x, Len(e[x])) /\ p \in BytesOf(y, Len(e[y])) => x = y
    BY DEF BytesOf
  <2>2. ASSUME NEW p \in bytesOf(A), p \in bytesOf(B)
        PROVE  FALSE
    <3> HIDE DEF bytesOf, B
    <3>1. PICK x \in A : p \in BytesOf(x, Len(e[x]))
      BY <1>4
    <3>2. PICK y \in B : p \in BytesOf(y, Len(e[y]))
      BY <1>4, <2>2
    <3>3. x = y
      BY <2>1, <3>1, <3>2
    <3> QED BY <3>3 DEF B
  <2> HIDE DEF bytesOf
  <2> QED BY <2>2
<1>7. IsFiniteSet(bytesOf(A)) /\ IsFiniteSet(bytesOf(B))
  BY <1>3, BytesFinite
<1> HIDE DEF bytesOf
<1>8. Cardinality(bytesOf(D)) = Cardinality(bytesOf(A)) + Cardinality(bytesOf(B))
  <2> DEFINE one == bytesOf(A)
             other == bytesOf(B)
  <2>1. Cardinality(one \cup other)
        = Cardinality(one) + Cardinality(other) - Cardinality(one \cap other)
    BY <1>7, FS_Union
  <2>2. Cardinality(one \cap other) = 0
    BY <1>6, FS_EmptySet
  <2>3. Cardinality(one) \in Nat /\ Cardinality(other) \in Nat
    BY <1>7, FS_CardinalityType
  <2> QED BY <1>5, <2>1, <2>2, <2>3
<1> QED BY <1>3, <1>8 DEF Total, bytesOf

Sound ==
    /\ lengths \in Seq(Nat)
    /\ Ordered(order, DOMAIN entries)
    /\ \A b \in DOMAIN entries :
          b \in 1..Len(lengths) /\ b \notin damaged /\ entries[b] = DataOf(b)
    /\ bytes = Held(order)
    /\ bytes <= CacheLimit

\* The blocks that are kept have sizes.
LEMMA SoundSizes ==
    ASSUME Sound
    PROVE  /\ Sized(entries, DOMAIN entries)
           /\ IsChargeMap(Weights(entries, DOMAIN entries))
           /\ bytes = Total(Weights(entries, DOMAIN entries))
           /\ bytes \in Nat
           /\ order \in Seq(Nat)
<1>1. Sized(entries, DOMAIN entries)
  <2>1. ASSUME NEW b \in DOMAIN entries
        PROVE  Len(entries[b]) \in Nat
    <3>1. lengths \in Seq(Nat) /\ b \in 1..Len(lengths) /\ entries[b] = DataOf(b)
      BY DEF Sound
    <3>2. DataOf(b) \in Seq(Nat)
      BY <3>1, DataIs
    <3> QED BY <3>1, <3>2
  <2> QED BY <2>1 DEF Sized
<1>2. Ordered(order, DOMAIN entries) /\ bytes = SumOf(Sizes(entries, order))
  BY DEF Sound, Held, Sizes
<1>3. /\ IsChargeMap(Weights(entries, DOMAIN entries))
      /\ bytes = Total(Weights(entries, DOMAIN entries))
  BY <1>1, <1>2, HeldIsTotal
<1> QED BY <1>1, <1>2, <1>3, TotalType DEF Ordered

\* BlockCache::get keeps the cache sound.
LEMMA ReadCachedKeeps ==
    ASSUME Sound, ReadCached, BlockAtPosition \in 1..Len(lengths)
    PROVE  Sound'
<1> DEFINE number == BlockAtPosition
           D == DOMAIN entries
<1>1. /\ number \in D /\ order' = Append(Without(number), number)
      /\ UNCHANGED <<lengths, damaged, entries, bytes>>
  BY DEF ReadCached
<1>2. Ordered(order, D) /\ number \in Nat
  BY DEF Sound
<1> HIDE DEF number
<1>3. Ordered(Without(number), D \ {number})
  BY <1>2, Retained
<1>4. Ordered(order', D)
  <2>1. number \in Nat \ (D \ {number}) /\ D = (D \ {number}) \cup {number}
    BY <1>1, <1>2
  <2> HIDE DEF D
  <2> QED BY <1>1, <1>3, <2>1, OrderedAppend
<1>5. bytes = Total(Weights(entries, D)) /\ Sized(entries, D)
  BY SoundSizes
<1>6. Held(order') = Total(Weights(entries, D))
  BY <1>4, <1>5, HeldIsTotal DEF Held, Sizes
<1>7. Held(order)' = Held(order')
  BY <1>1 DEF Held
<1>8. \A b : DataOf(b)' = DataOf(b)
  BY <1>1 DEF DataOf, DecodedStart
<1>9. lengths' = lengths /\ entries' = entries /\ bytes' = bytes /\ damaged' = damaged
  BY <1>1
<1>10. /\ lengths \in Seq(Nat) /\ bytes <= CacheLimit
       /\ \A b \in DOMAIN entries :
             b \in 1..Len(lengths) /\ b \notin damaged /\ entries[b] = DataOf(b)
  BY DEF Sound
<1>11. bytes' = Held(order)'
  BY <1>5, <1>6, <1>7, <1>9
<1> QED BY <1>4, <1>8, <1>9, <1>10, <1>11 DEF Sound

\* As many entries go as have to.
LEMMA EvictionsDo ==
    ASSUME Sound, NEW size \in Nat
    PROVE  /\ Evictions(size) \in 0..Len(order)
           /\ \/ bytes - Held(Evicted(Evictions(size))) + size <= CacheLimit
              \/ Evictions(size) = Len(order)
<1> DEFINE Enough(n) == bytes - Held(Evicted(n)) + size <= CacheLimit \/ n = Len(order)
           S == {n \in 0..Len(order) : Enough(n)}
<1>1. Evictions(size) = Min(S)
  BY DEF Evictions
<1>2. Len(order) \in Nat
  BY SoundSizes
<1>3. Len(order) \in S
  BY <1>2
<1>4. S \subseteq Nat
  OBVIOUS
<1>5. Min(S) \in S
  <2> HIDE DEF S
  <2>1. \E a \in S : \A b \in S : a <= b
    BY <1>3, <1>4, LeastNat
  <2> QED BY <2>1 DEF Min
<1> HIDE DEF Enough
<1>6. Evictions(size) \in 0..Len(order) /\ Enough(Evictions(size))
  BY <1>1, <1>5
<1> QED BY <1>6 DEF Enough

\* BlockCache::insert makes room and counts what goes and what comes.
LEMMA InsertKeeps ==
    ASSUME Sound, NEW number \in 1..Len(lengths), number \notin DOMAIN entries,
           number \notin damaged, Insert(number, DataOf(number)),
           UNCHANGED <<lengths, damaged>>
    PROVE  Sound'
<1> DEFINE D == DOMAIN entries
           data == DataOf(number)
           size == Len(data)
           count == Evictions(size)
           gone == ToSet(Evicted(count))
           kept == D \ gone
           more == kept \cup {number}
           back == SubSeq(order, count + 1, Len(order))
<1>1. /\ lengths \in Seq(Nat) /\ Ordered(order, D) /\ bytes <= CacheLimit
      /\ \A b \in D : b \in 1..Len(lengths) /\ b \notin damaged /\ entries[b] = DataOf(b)
  BY DEF Sound
<1>2. /\ Sized(entries, D) /\ IsChargeMap(Weights(entries, D))
      /\ bytes = Total(Weights(entries, D)) /\ bytes \in Nat
  BY SoundSizes
<1>3. size \in Nat
  BY <1>1, DataIs
<1>4. \A b : DataOf(b)' = DataOf(b)
  BY DEF DataOf, DecodedStart
<1>5. CASE size > CacheLimit
  <2>1. UNCHANGED cache
    BY <1>5 DEF Insert
  <2>2. entries' = entries /\ order' = order /\ bytes' = bytes
    BY <2>1 DEF cache
  <2>3. Held(order)' = Held(order)
    BY <2>2 DEF Held
  <2> QED BY <1>4, <2>2, <2>3 DEF Sound
<1>6. CASE ~(size > CacheLimit)
  <2>1. Keeps(count, number, data) /\ bytes' = bytes - Held(Evicted(count)) + size
    BY <1>6, Zenon DEF Insert
  <2>2. /\ entries' = [b \in more |-> IF b = number THEN data ELSE entries[b]]
        /\ order' = Append(back, number)
    BY <2>1, Zenon DEF Keeps
  <2>3. count \in 0..Len(order)
        /\ (bytes - Held(Evicted(count)) + size <= CacheLimit \/ count = Len(order))
    BY <1>3, EvictionsDo
  <2>4. /\ Ordered(Evicted(count), gone) /\ gone \subseteq D /\ Ordered(back, kept)
    BY <1>1, <2>3, OrderedSplit DEF Evicted
  <2> HIDE DEF data, size, count, gone, back
  <2>5. number \in Nat \ kept
    OBVIOUS
  <2>6. Ordered(order', more)
    <3> HIDE DEF kept
    <3> QED BY <2>2, <2>4, <2>5, OrderedAppend
  <2>7. /\ IsChargeMap(Weights(entries, kept)) /\ IsChargeMap(Weights(entries, gone))
        /\ bytes = Total(Weights(entries, gone)) + Total(Weights(entries, kept))
    BY <1>2, <2>4, TotalOfParts
  <2>8. Held(Evicted(count)) = Total(Weights(entries, gone))
    <3>1. Sized(entries, gone)
      BY <1>2, <2>4 DEF Sized
    <3> QED BY <2>4, <3>1, HeldIsTotal DEF Held, Sizes
  <2>9. /\ DOMAIN entries' = more /\ entries'[number] = data
        /\ \A b \in kept : entries'[b] = entries[b]
    BY <2>2, <2>5
  <2>10. Weights(entries', kept) = Weights(entries, kept)
    BY <2>9 DEF Weights
  <2>11. /\ IsChargeMap(Weights(entries', more))
         /\ Total(Weights(entries', more)) = Total(Weights(entries, kept)) + size
    <3>1. Len(entries'[number]) = size /\ number \notin kept
      BY <2>5, <2>9 DEF size
    <3>2. IsChargeMap(Weights(entries', kept))
      BY <2>7, <2>10
    <3> HIDE DEF kept, more
    <3>3. more = kept \cup {number}
      BY DEF more
    <3>4. /\ IsChargeMap(Weights(entries', more))
          /\ Total(Weights(entries', more)) = Total(Weights(entries', kept)) + Len(entries'[number])
      BY <1>3, <3>1, <3>2, <3>3, OneWeight
    <3> QED BY <2>10, <3>1, <3>4
  <2>12. \A b \in more : /\ b \in 1..Len(lengths) /\ b \notin damaged
                         /\ entries'[b] = DataOf(b)
    BY <1>1, <2>9 DEF data
  <2>13. Sized(entries', more)
    <3>1. \A b \in more : DataOf(b) \in Seq(Nat)
      BY <1>1, <2>12, DataIs
    <3> QED BY <2>12, <3>1 DEF Sized
  <2>14. SumOf(Sizes(entries', order')) = Total(Weights(entries', more))
    BY <2>6, <2>13, HeldIsTotal
  <2>15. Held(order)' = SumOf(Sizes(entries', order'))
    BY DEF Held, Sizes
  <2>16. Total(Weights(entries, gone)) \in Nat /\ Total(Weights(entries, kept)) \in Nat
    BY <2>7, TotalType
  <2> DEFINE out == Total(Weights(entries, gone))
             in == Total(Weights(entries, kept))
  <2>17. bytes' = in + size /\ Held(order)' = in + size
    <3> HIDE DEF out, in
    <3>1. bytes = out + in /\ out \in Nat /\ in \in Nat
      BY <2>7, <2>16 DEF out, in
    <3>2. bytes' = bytes - out + size
      BY <2>1, <2>8 DEF size, out, data
    <3>3. Held(order)' = in + size
      BY <2>11, <2>14, <2>15 DEF in
    <3> QED BY <1>3, <3>1, <3>2, <3>3 DEF size, data
  <2>18. bytes' <= CacheLimit
    <3>1. CASE bytes - Held(Evicted(count)) + size <= CacheLimit
      BY <2>1, <3>1
    <3>2. CASE count = Len(order)
      <4>1. kept = {}
        <5>1. Len(order) \in Nat
          BY <1>1 DEF Ordered
        <5>2. Evicted(count) = order
          BY <1>1, <3>2, <5>1 DEF Evicted, Ordered
        <5>3. gone = D
          BY <1>1, <5>2, OrderedIs DEF gone
        <5> QED BY <5>3
      <4>2. in = 0
        BY <4>1, NoWeights
      <4> HIDE DEF in, kept
      <4>3. bytes' = size
        BY <1>3, <2>17, <4>2 DEF size, data
      <4>4. CacheLimit \in Nat /\ size \in Nat
        BY <1>3, IndexAssumption DEF size, data
      <4> QED BY <1>6, <4>3, <4>4 DEF size, data
    <3> QED BY <2>3, <3>1, <3>2
  <2>19. Ordered(order', DOMAIN entries') /\ bytes' = Held(order)' /\ lengths' \in Seq(Nat)
    BY <1>1, <2>6, <2>9, <2>17
  <2>20. \A b \in DOMAIN entries' :
            b \in 1..Len(lengths') /\ b \notin damaged' /\ entries'[b] = DataOf(b)'
    BY <1>4, <2>9, <2>12
  <2> QED BY <2>18, <2>19, <2>20 DEF Sound
<1> QED BY <1>5, <1>6

------------------------------------------------------------------------------
(* IndexedReader. *)

IndexedInv ==
    /\ Sound
    /\ position \in Nat /\ position <= DecodedLen
    /\ reading # "no" => Reading
    /\ reading = "ok" =>
          Len(copied) = IF wanted < DecodedLen - began THEN wanted ELSE DecodedLen - began

\* The decoded length is a number.
LEMMA EndOfData ==
    ASSUME lengths \in Seq(Nat)
    PROVE  DecodedLen \in Nat
<1>1. Len(lengths) + 1 \in 1..(Len(lengths) + 1)
  OBVIOUS
<1> QED BY <1>1, Starts DEF DecodedLen

\* The reader of an index begins at 0 with an empty cache.
LEMMA IndexedInvInit == IndexedInit => IndexedInv
<1> SUFFICES ASSUME IndexedInit PROVE IndexedInv
  OBVIOUS
<1>1. /\ lengths \in Seq(Nat) /\ position = 0 /\ entries = <<>> /\ order = <<>> /\ bytes = 0
      /\ reading = "no"
  BY IndexAssumption DEF IndexedInit
<1>2. DOMAIN entries = {}
  BY <1>1
<1>3. Ordered(order, DOMAIN entries)
  BY <1>1, <1>2 DEF Ordered
<1>4. Held(order) = 0
  <2>1. Sized(entries, DOMAIN entries)
    BY <1>2 DEF Sized
  <2>2. SumOf(Sizes(entries, order)) = Total(Weights(entries, {}))
    BY <1>2, <1>3, <2>1, HeldIsTotal
  <2> QED BY <2>2, NoWeights DEF Held, Sizes
<1>5. bytes = Held(order) /\ bytes <= CacheLimit
  BY <1>1, <1>4, IndexAssumption
<1>6. Sound
  BY <1>1, <1>2, <1>3, <1>5 DEF Sound
<1>7. DecodedLen \in Nat
  BY <1>1, EndOfData
<1>8. position \in Nat /\ position <= DecodedLen /\ reading # "ok"
  BY <1>1, <1>7
<1> QED BY <1>1, <1>6, <1>8 DEF IndexedInv

\* What does not touch the cache.
LEMMA SoundStays ==
    ASSUME Sound, UNCHANGED <<lengths, damaged, cache>>
    PROVE  Sound' /\ DecodedLen' = DecodedLen
<1>1. UNCHANGED <<lengths, damaged, entries, order, bytes>>
  BY DEF cache
<1>2. Held(order)' = Held(order) /\ \A b : DataOf(b)' = DataOf(b)
  BY <1>1 DEF Held, DataOf, DecodedStart
<1> QED BY <1>1, <1>2 DEF Sound, DecodedLen, DecodedStart

\* A seek keeps the invariant, ...
LEMMA SeekFromKeeps ==
    ASSUME IndexedInv, NEW base, NEW offset, SeekFrom(base, offset)
    PROVE  IndexedInv'
<1>1. /\ Sound /\ position \in Nat /\ position <= DecodedLen /\ lengths \in Seq(Nat)
  BY DEF IndexedInv, Sound
<1>2. /\ position' = IF base + offset \in 0..DecodedLen THEN base + offset ELSE position
      /\ reading' = "no" /\ UNCHANGED <<lengths, damaged, cache>>
  BY DEF SeekFrom
<1>3. Sound' /\ DecodedLen' = DecodedLen
  BY <1>1, <1>2, SoundStays
<1>4. DecodedLen \in Nat
  BY <1>1, EndOfData
<1>5. position' \in Nat /\ position' <= DecodedLen
  <2>1. CASE base + offset \in 0..DecodedLen
    BY <1>2, <1>4, <2>1
  <2>2. CASE base + offset \notin 0..DecodedLen
    BY <1>1, <1>2, <2>2
  <2> QED BY <2>1, <2>2
<1> QED BY <1>2, <1>3, <1>5 DEF IndexedInv

\* ... the beginning of a read, ...
LEMMA BeginReadKeeps ==
    ASSUME IndexedInv, NEW count \in Nat, BeginRead(count)
    PROVE  IndexedInv'
<1>1. /\ Sound /\ position \in Nat /\ position <= DecodedLen /\ lengths \in Seq(Nat)
  BY DEF IndexedInv, Sound
<1>2. /\ began' = position /\ wanted' = count /\ copied' = <<>> /\ reading' = "yes"
      /\ UNCHANGED <<lengths, damaged, position, cache>>
  BY DEF BeginRead
<1>3. Sound' /\ DecodedLen' = DecodedLen /\ lengths' = lengths /\ position' = position
  BY <1>1, <1>2, SoundStays
<1>4. Follows(<<>>, position, position) /\ Len(<<>>) = 0
  BY <1>1 DEF Follows
<1>5. Reading'
  BY <1>1, <1>2, <1>3, <1>4 DEF Reading
<1>6. reading' # "ok"
  BY <1>2
<1> QED BY <1>1, <1>3, <1>5, <1>6 DEF IndexedInv

\* ... a part of it, from the cache or decoded, ...
LEMMA ReadPartKeeps ==
    ASSUME IndexedInv, ReadCached \/ ReadDecoded
    PROVE  IndexedInv'
<1> DEFINE number == BlockAtPosition
<1>1. Sound /\ position \in Nat /\ Continues /\ reading = "yes" /\ Reading /\ lengths \in Seq(Nat)
  <2>1. Continues
    BY DEF ReadCached, ReadDecoded
  <2>2. reading = "yes"
    BY <2>1 DEF Continues
  <2> QED BY <2>1, <2>2 DEF IndexedInv, Sound
<1>2. number \in 1..Len(lengths)
  BY <1>1, BlockHolds DEF Continues
<1>3. Copies(DataOf(number), number) /\ UNCHANGED <<lengths, damaged, began, wanted, reading>>
  <2>1. CASE ReadCached
    <3>1. entries[number] = DataOf(number)
      BY <1>1, <2>1 DEF ReadCached, Sound
    <3>2. Copies(entries[number], number) /\ UNCHANGED <<lengths, damaged, began, wanted, reading>>
      BY <2>1 DEF ReadCached
    <3> QED BY <3>1, <3>2
  <2>2. CASE ReadDecoded
    BY <2>2 DEF ReadDecoded
  <2> QED BY <2>1, <2>2
<1>4. Reading'
  BY <1>1, <1>3, CopiesRead
<1>5. Sound'
  <2>1. CASE ReadCached
    BY <1>1, <1>2, <2>1, ReadCachedKeeps
  <2>2. CASE ReadDecoded
    <3>1. number \notin DOMAIN entries /\ number \notin damaged /\ Insert(number, DataOf(number))
      BY <2>2 DEF ReadDecoded
    <3> HIDE DEF number
    <3> QED BY <1>1, <1>2, <1>3, <3>1, InsertKeeps
  <2> QED BY <2>1, <2>2
<1>6. reading' # "ok"
  BY <1>1, <1>3
<1> QED BY <1>4, <1>5, <1>6 DEF IndexedInv, Reading

\* ... and its end.
LEMMA ReadStopsKeeps ==
    ASSUME IndexedInv, ReadFails \/ EndRead
    PROVE  IndexedInv'
<1>1. /\ Sound /\ position \in Nat /\ position <= DecodedLen /\ lengths \in Seq(Nat)
  BY DEF IndexedInv, Sound
<1>2. /\ UNCHANGED <<lengths, damaged, position, cache, began, wanted, copied>>
      /\ reading = "yes" /\ reading' \in {"ok", "error"}
      /\ reading' = "ok" => ~Continues
  BY DEF ReadFails, EndRead, Continues
<1>3. Sound' /\ DecodedLen' = DecodedLen
  BY <1>1, <1>2, SoundStays
<1>4. Reading
  BY <1>2 DEF IndexedInv
<1>5. Reading'
  BY <1>2, <1>3, <1>4 DEF Reading
<1>6. ASSUME ~Continues
      PROVE  Len(copied) = IF wanted < DecodedLen - began THEN wanted ELSE DecodedLen - began
  <2> DEFINE c == Len(copied)
             end == DecodedLen
  <2>1. /\ wanted \in Nat /\ began \in Nat /\ c <= wanted /\ position <= end
        /\ position = began + c /\ c \in Nat
    BY <1>4 DEF Reading, Follows
  <2>2. end \in Nat
    BY <1>1, EndOfData
  <2>3. ~(wanted - c > 0) \/ ~(position < end)
    BY <1>2, <1>6 DEF Continues, Rest
  <2> HIDE DEF c, end
  <2>4. c = IF wanted < end - began THEN wanted ELSE end - began
    BY <2>1, <2>2, <2>3
  <2> QED BY <2>4 DEF c, end
<1> QED BY <1>1, <1>2, <1>3, <1>5, <1>6 DEF IndexedInv

\* Reads by an index are right whatever the cache keeps or evicts, and the cache
\* counts what it holds within its limit: for every index of a valid or damaged
\* file, every limit and every sequence of seeks and reads.
THEOREM CachedReadsHold == IndexedSpec => []CachedReads
<1>1. IndexedInit => IndexedInv
  BY IndexedInvInit
<1>2. IndexedInv /\ [IndexedNext]_indexedReader => IndexedInv'
  <2> SUFFICES ASSUME IndexedInv, [IndexedNext]_indexedReader PROVE IndexedInv'
    OBVIOUS
  <2>1. CASE UNCHANGED indexedReader
    <3>1. UNCHANGED <<lengths, damaged, position, cache, began, wanted, copied, reading>>
      BY <2>1 DEF indexedReader, oneRead
    <3>2. Sound' /\ DecodedLen' = DecodedLen
      BY <3>1, SoundStays DEF IndexedInv
    <3> QED BY <3>1, <3>2 DEF IndexedInv, Reading
  <2>2. ASSUME NEW base, NEW offset, SeekFrom(base, offset)
        PROVE  IndexedInv'
    BY <2>2, SeekFromKeeps
  <2>3. ASSUME NEW count \in 0..MaxRead, BeginRead(count)
        PROVE  IndexedInv'
    <3>1. count \in Nat
      BY IndexAssumption
    <3> QED BY <2>3, <3>1, BeginReadKeeps
  <2> QED BY <2>1, <2>2, <2>3, ReadPartKeeps, ReadStopsKeeps DEF IndexedNext
<1>3. IndexedInv => CachedReads
  <2> SUFFICES ASSUME IndexedInv PROVE CachedReads
    OBVIOUS
  <2>1. ASSUME reading # "no"
        PROVE  /\ copied = [i \in DOMAIN copied |-> began + i - 1]
               /\ position = began + Len(copied)
    <3>1. Follows(copied, began, position)
      BY <2>1 DEF IndexedInv, Reading
    <3> QED BY <3>1, FollowsIs
  <2>2. /\ \A b \in DOMAIN entries : b \notin damaged /\ entries[b] = DataOf(b)
        /\ bytes = Held(order) /\ bytes <= CacheLimit /\ Ordered(order, DOMAIN entries)
    BY DEF IndexedInv, Sound
  <2>3. ToSet(order) = DOMAIN entries /\ IsInjective(order)
    BY <2>2, OrderedIs
  <2>4. reading = "ok" =>
          Len(copied) = IF wanted < DecodedLen - began THEN wanted ELSE DecodedLen - began
    BY DEF IndexedInv
  <2> QED BY <2>1, <2>2, <2>3, <2>4 DEF CachedReads
<1> QED BY <1>1, <1>2, <1>3, PTL DEF IndexedSpec

------------------------------------------------------------------------------
(* Stretches of bytes. *)

\* A stretch has as many bytes as its ends are apart.
LEMMA StretchLen ==
    ASSUME NEW a \in Nat, NEW b \in Nat, a <= b
    PROVE  /\ Stretch(a, b) \in Seq(Nat)
           /\ Len(Stretch(a, b)) = b - a
           /\ \A i \in 1..(b - a) : Stretch(a, b)[i] = a + i
           /\ Stretch(a, b) = <<>> <=> a = b
<1>1. b - a \in Nat
  OBVIOUS
<1>2. Stretch(a, b) \in [1..(b - a) -> Nat]
  BY <1>1 DEF Stretch
<1>3. Stretch(a, b) \in Seq(Nat) /\ Len(Stretch(a, b)) = b - a
  BY <1>1, <1>2, SeqDef, LenProperties
<1>4. \A i \in 1..(b - a) : Stretch(a, b)[i] = a + i
  BY DEF Stretch
<1> QED BY <1>1, <1>3, <1>4, EmptySeq

\* Adjacent stretches make one.
LEMMA StretchConcat ==
    ASSUME NEW a \in Nat, NEW b \in Nat, NEW c \in Nat, a <= b, b <= c
    PROVE  Stretch(a, b) \o Stretch(b, c) = Stretch(a, c)
<1> DEFINE left == Stretch(a, b)
           right == Stretch(b, c)
           whole == Stretch(a, c)
<1>1. /\ left \in Seq(Nat) /\ Len(left) = b - a /\ \A i \in 1..(b - a) : left[i] = a + i
      /\ right \in Seq(Nat) /\ Len(right) = c - b /\ \A i \in 1..(c - b) : right[i] = b + i
      /\ whole \in Seq(Nat) /\ Len(whole) = c - a /\ \A i \in 1..(c - a) : whole[i] = a + i
  BY StretchLen, a <= c
<1> HIDE DEF left, right, whole
<1>2. /\ left \o right \in Seq(Nat)
      /\ Len(left \o right) = c - a
      /\ \A i \in 1..(c - a) :
            (left \o right)[i] = IF i <= b - a THEN left[i] ELSE right[i - (b - a)]
  <2>1. /\ left \o right \in Seq(Nat)
        /\ Len(left \o right) = Len(left) + Len(right)
        /\ \A i \in 1..Len(left) + Len(right) :
              (left \o right)[i] = IF i <= Len(left) THEN left[i] ELSE right[i - Len(left)]
    BY <1>1, ConcatProperties
  <2>2. Len(left) = b - a /\ Len(left) + Len(right) = c - a
    BY <1>1
  <2> QED BY <2>1, <2>2
<1>3. ASSUME NEW i \in 1..(c - a) PROVE (left \o right)[i] = whole[i]
  <2>1. whole[i] = a + i
    BY <1>1
  <2>2. CASE i <= b - a
    <3>1. i \in 1..(b - a)
      BY <2>2
    <3> QED BY <3>1, <2>1, <2>2, <1>1, <1>2
  <2>3. CASE ~(i <= b - a)
    <3>1. i - (b - a) \in 1..(c - b) /\ b + (i - (b - a)) = a + i
      BY <2>3
    <3>2. right[i - (b - a)] = a + i
      BY <3>1, <1>1
    <3> QED BY <3>2, <2>1, <2>3, <1>2
  <2> QED BY <2>2, <2>3
<1>4. left \o right = whole
  BY <1>1, <1>2, <1>3, SeqEqual
<1> QED BY <1>4 DEF left, right, whole

\* What a read takes of a stretch and what it leaves are stretches.
LEMMA StretchSplit ==
    ASSUME NEW a \in Nat, NEW b \in Nat, a < b, NEW room \in Nat \ {0}
    PROVE  \E m \in Nat :
              /\ a < m /\ m <= b
              /\ Taken(Stretch(a, b), room) = Stretch(a, m)
              /\ Left(Stretch(a, b), room) = Stretch(m, b)
<1> DEFINE s == Stretch(a, b)
           size == IF b - a < room THEN b - a ELSE room
           m == a + size
<1>1. s \in Seq(Nat) /\ Len(s) = b - a /\ \A i \in 1..(b - a) : s[i] = a + i
  BY StretchLen
<1> HIDE DEF s
<1>2. size \in 1..(b - a) /\ size <= room /\ (size = room \/ size = b - a)
  OBVIOUS
<1> HIDE DEF size
<1>3. m \in Nat /\ a < m /\ a <= m /\ m <= b /\ m - a = size /\ b - m = (b - a) - size
  BY <1>2
<1>4. /\ Stretch(a, m) \in Seq(Nat) /\ Len(Stretch(a, m)) = size
      /\ \A i \in 1..size : Stretch(a, m)[i] = a + i
      /\ Stretch(m, b) \in Seq(Nat) /\ Len(Stretch(m, b)) = b - m
      /\ \A i \in 1..(b - m) : Stretch(m, b)[i] = m + i
  <2> HIDE DEF m
  <2>1. /\ Stretch(a, m) \in Seq(Nat) /\ Len(Stretch(a, m)) = m - a
        /\ \A i \in 1..(m - a) : Stretch(a, m)[i] = a + i
    BY <1>3, StretchLen
  <2>2. /\ Stretch(m, b) \in Seq(Nat) /\ Len(Stretch(m, b)) = b - m
        /\ \A i \in 1..(b - m) : Stretch(m, b)[i] = m + i
    BY <1>3, StretchLen
  <2> QED BY <1>3, <2>1, <2>2
<1>5. Taken(s, room) = SubSeq(s, 1, size)
  BY <1>1 DEF Taken, size
<1>6. SubSeq(s, 1, size) = Stretch(a, m)
  <2>1. /\ SubSeq(s, 1, size) \in Seq(Nat)
        /\ Len(SubSeq(s, 1, size)) = size
        /\ \A i \in 1..size : SubSeq(s, 1, size)[i] = s[i]
    <3>1. \A i \in 1..size : s[i] \in Nat
      BY <1>1, <1>2
    <3> QED BY <3>1, <1>2, SubSeqProperties
  <2>2. \A i \in 1..size : SubSeq(s, 1, size)[i] = Stretch(a, m)[i]
    BY <2>1, <1>1, <1>2, <1>4
  <2> QED BY <2>1, <2>2, <1>4, SeqEqual
<1>7. Left(s, room) = Stretch(m, b)
  <2>1. Left(s, room) = SubSeq(s, room + 1, b - a)
    BY <1>1 DEF Left
  <2>2. CASE size = room
    <3>1. \A i \in (room + 1)..(b - a) : s[i] \in Nat
      BY <1>1
    <3>2. /\ SubSeq(s, room + 1, b - a) \in Seq(Nat)
          /\ Len(SubSeq(s, room + 1, b - a)) = b - m
          /\ \A i \in 1..(b - m) : SubSeq(s, room + 1, b - a)[i] = s[room + i]
      BY <3>1, <2>2, <1>2, <1>3, SubSeqProperties
    <3>3. \A i \in 1..(b - m) : SubSeq(s, room + 1, b - a)[i] = Stretch(m, b)[i]
      BY <3>2, <2>2, <1>1, <1>2, <1>3, <1>4
    <3> QED BY <2>1, <3>2, <3>3, <1>4, SeqEqual
  <2>3. CASE size = b - a
    <3>1. m = b /\ b - a < room + 1
      BY <2>3, <1>2
    <3>2. Left(s, room) = <<>>
      BY <2>1, <3>1, SubSeqEmpty
    <3> QED BY <3>1, <3>2, StretchLen
  <2> QED BY <2>2, <2>3, <1>2
<1>8. Taken(s, room) = Stretch(a, m)
  BY <1>5, <1>6
<1> HIDE DEF m
<1> QED BY <1>3, <1>7, <1>8 DEF s

------------------------------------------------------------------------------
(* The invariant. *)

\* What has been delivered and what is at hand are the bytes from the first
\* on, as far as the decoder has sent them.
Progress ==
    /\ delivered = Stretch(0, Len(delivered))
    /\ chunk = Stretch(Len(delivered), Len(delivered) + Len(chunk))
    /\ ~cancelled => Len(delivered) + Len(chunk) = Behind

\* How decoding ends is known of the stream, unless the pipe has been dropped.
Endings ==
    /\ decoder = "sending" => sent < Len(stream.ends) /\ Upcoming # <<>>
    /\ decoded \in {"ok", "bad", "panic"} =>
            sent = Len(stream.ends) /\ decoded = stream.outcome
    /\ decoded = "broken pipe" => cancelled
    /\ result # <<>> => decoder = "ended" /\ result = <<decoded>>
    /\ ~cancelled /\ decoder = "ended" /\ result = <<>> => decoded = "panic"

\* Where a call is tells what the reader has and has not.
Calls ==
    /\ cancelled <=> call \in {"joining", "dropping", "dropped"} \/ status # "open"
    /\ call \in {"receiving", "awaiting"} => status = "open" /\ chunk = <<>>
    /\ call = "awaiting" => decoder \in {"closed", "ended"}
    /\ call = "joining" =>
          /\ status = "open"
          /\ sent = Len(stream.ends)
          /\ verdict = stream.outcome
          /\ Len(delivered) = Behind

IInv == ReaderTypeOK /\ Progress /\ Endings /\ Calls

\* Chunks follow one another, and all of them are in the stream.
LEMMA BehindLemma ==
    ASSUME ReaderTypeOK
    PROVE  /\ Behind \in Nat
           /\ Promised!Size \in Nat
           /\ Behind <= Promised!Size
           /\ sent = Len(stream.ends) => Behind = Promised!Size
           /\ sent < Len(stream.ends) =>
                  /\ stream.ends[sent + 1] \in Nat
                  /\ Behind <= stream.ends[sent + 1]
                  /\ stream.ends[sent + 1] <= Promised!Size
<1> DEFINE ends == stream.ends
<1>1. stream \in Streams /\ sent \in 0..Len(ends)
  BY DEF ReaderTypeOK, PipeTypeOK
<1>2. ends \in Seq(Nat) /\ \A i, j \in 1..Len(ends) : i < j => ends[i] <= ends[j]
  BY <1>1, StreamsAssumption
<1>3. Len(ends) \in Nat /\ \A i \in 1..Len(ends) : ends[i] \in Nat
  BY <1>2, LenProperties, ElementOfSeq
<1>4. ends = <<>> <=> Len(ends) = 0
  BY <1>2, EmptySeq
<1>5. Promised!Size = IF Len(ends) = 0 THEN 0 ELSE ends[Len(ends)]
  BY <1>4 DEF Promised!Size
<1>6. Behind = IF sent = 0 THEN 0 ELSE ends[sent]
  BY DEF Behind
<1> HIDE DEF ends
<1>7. \A i, j \in 1..Len(ends) : i <= j => ends[i] <= ends[j]
  BY <1>2, <1>3
<1>8. Behind \in Nat /\ Promised!Size \in Nat /\ Behind <= Promised!Size
  BY <1>1, <1>3, <1>5, <1>6, <1>7
<1>9. sent = Len(ends) => Behind = Promised!Size
  BY <1>5, <1>6
<1>10. ASSUME sent < Len(ends)
       PROVE  /\ ends[sent + 1] \in Nat
              /\ Behind <= ends[sent + 1]
              /\ ends[sent + 1] <= Promised!Size
  BY <1>1, <1>3, <1>5, <1>6, <1>7, <1>10
<1> QED BY <1>8, <1>9, <1>10 DEF ends

\* The next chunk is what lies between the end of the last one and its own.
LEMMA UpcomingLemma ==
    ASSUME ReaderTypeOK, sent < Len(stream.ends)
    PROVE  /\ Upcoming = Stretch(Behind, stream.ends[sent + 1])
           /\ Upcoming = <<>> <=> Behind = stream.ends[sent + 1]
           /\ Upcoming # <<>> => Behind < stream.ends[sent + 1]
<1> DEFINE e == stream.ends[sent + 1]
<1>1. Behind \in Nat /\ e \in Nat /\ Behind <= e
  BY BehindLemma
<1>2. Upcoming = Stretch(Behind, e)
  BY DEF Upcoming
<1> HIDE DEF e
<1>3. Stretch(Behind, e) = <<>> <=> Behind = e
  BY <1>1, StretchLen
<1> QED BY <1>1, <1>2, <1>3 DEF e

\* A read that finds bytes d + 1 to e answers some of them, and leaves the rest.
LEMMA ReadLemma ==
    ASSUME NEW d \in Nat, NEW e \in Nat, d < e, NEW room \in Buffers
    PROVE  \E m \in Nat :
              /\ d < m /\ m <= e
              /\ Stretch(0, d) \o Taken(Stretch(d, e), room) = Stretch(0, m)
              /\ Left(Stretch(d, e), room) = Stretch(m, e)
              /\ Stretch(0, m) \in Seq(Nat) /\ Len(Stretch(0, m)) = m
              /\ Stretch(m, e) \in Seq(Nat) /\ Len(Stretch(m, e)) = e - m
<1>1. room \in Nat \ {0}
  BY BuffersAssumption
<1>2. PICK m \in Nat :
              /\ d < m /\ m <= e
              /\ Taken(Stretch(d, e), room) = Stretch(d, m)
              /\ Left(Stretch(d, e), room) = Stretch(m, e)
  BY <1>1, StretchSplit
<1>3. d <= m /\ 0 <= d /\ 0 <= m /\ m - 0 = m
  BY <1>2
<1>4. Stretch(0, d) \o Stretch(d, m) = Stretch(0, m)
  BY <1>3, StretchConcat
<1>5. Stretch(0, m) \in Seq(Nat) /\ Len(Stretch(0, m)) = m
  BY <1>3, StretchLen
<1>6. Stretch(m, e) \in Seq(Nat) /\ Len(Stretch(m, e)) = e - m
  BY <1>2, StretchLen
<1> QED BY <1>2, <1>4, <1>5, <1>6

LEMMA ReaderInitially == ReaderInit => IInv
<1> SUFFICES ASSUME ReaderInit PROVE IInv
  OBVIOUS
<1> USE DEF ReaderInit, PipeInit
<1>1. ReaderTypeOK
  <2>1. <<>> \in Seq(Nat) /\ stream.ends \in Seq(Nat)
    BY EmptySeq, StreamsAssumption
  <2>2. 0 \in 0..Len(stream.ends)
    BY <2>1, LenProperties
  <2> QED BY <2>1, <2>2 DEF ReaderTypeOK, PipeTypeOK
<1>2. Progress
  <2>1. Stretch(0, 0) = <<>> /\ Len(<<>>) = 0
    BY StretchLen, EmptySeq
  <2> QED BY <2>1 DEF Progress, Behind
<1>3. Endings
  BY DEF Endings
<1>4. Calls
  BY DEF Calls
<1> QED BY <1>1, <1>2, <1>3, <1>4 DEF IInv

------------------------------------------------------------------------------
(* The steps of the thread. *)

LEMMA WriteStep == IInv /\ Write /\ UNCHANGED <<result, call, verdict, status, delivered>> => IInv'
<1> SUFFICES ASSUME IInv, Write, UNCHANGED <<result, call, verdict, status, delivered>>
             PROVE  IInv'
  OBVIOUS
<1> USE DEF Write
<1>1. ReaderTypeOK /\ Progress /\ Endings /\ Calls
  BY DEF IInv
<1>2. sent \in 0..Len(stream.ends) /\ Len(stream.ends) \in Nat
  <2>1. stream.ends \in Seq(Nat)
    BY <1>1, StreamsAssumption DEF ReaderTypeOK, PipeTypeOK
  <2> QED BY <1>1, <2>1, LenProperties DEF ReaderTypeOK, PipeTypeOK
<1>3. ReaderTypeOK'
  <2>1. sent' \in 0..Len(stream.ends)
    BY <1>2
  <2> QED BY <1>1, <2>1 DEF ReaderTypeOK, PipeTypeOK
<1>4. CASE Upcoming = <<>>
  <2>1. Behind = stream.ends[sent + 1]
    BY <1>1, <1>4, UpcomingLemma
  <2>2. sent' # 0 /\ Behind' = Behind
    BY <1>2, <1>4, <2>1 DEF Behind
  <2>3. Progress'
    BY <1>1, <2>2 DEF Progress
  <2>4. Endings'
    BY <1>1, <1>4 DEF Endings, ReaderTypeOK, PipeTypeOK
  <2>5. Calls'
    BY <1>1, <1>2 DEF Calls
  <2> QED BY <1>3, <2>3, <2>4, <2>5 DEF IInv
<1>5. CASE Upcoming # <<>>
  <2>1. Progress'
    BY <1>1, <1>5 DEF Progress, Behind
  <2>2. Endings'
    BY <1>1, <1>5 DEF Endings, Upcoming, Behind, ReaderTypeOK, PipeTypeOK
  <2>3. Calls'
    BY <1>1, <1>2, <1>5 DEF Calls, Behind
  <2> QED BY <1>3, <2>1, <2>2, <2>3 DEF IInv
<1> QED BY <1>4, <1>5

\* Decoding ends as the stream does, or because nobody reads.
LEMMA StopStep ==
    ASSUME IInv, NEW how, StopDecoding(how), UNCHANGED <<result, call, verdict, status, delivered>>,
           decoder \in {"decoding", "sending"},
           \/ how = stream.outcome /\ sent = Len(stream.ends)
           \/ how = "broken pipe" /\ cancelled
    PROVE  IInv'
<1> USE DEF StopDecoding
<1>1. ReaderTypeOK /\ Progress /\ Endings /\ Calls
  BY DEF IInv
<1>2. stream.outcome \in {"ok", "bad", "panic"}
  BY <1>1, StreamsAssumption DEF ReaderTypeOK, PipeTypeOK
<1>3. decoded = "none" /\ result = <<>>
  <2>1. decoded = "none"
    BY <1>1 DEF ReaderTypeOK, PipeTypeOK
  <2> QED BY <1>1, <2>1 DEF Endings
<1>4. ReaderTypeOK'
  BY <1>1, <1>2 DEF ReaderTypeOK, PipeTypeOK
<1>5. Progress'
  BY <1>1 DEF Progress, Behind
<1>6. Endings'
  BY <1>1, <1>2, <1>3 DEF Endings
<1>7. Calls'
  BY <1>1 DEF Calls, Behind
<1> QED BY <1>4, <1>5, <1>6, <1>7 DEF IInv

LEMMA DropOutputStep ==
    IInv /\ DropOutput /\ UNCHANGED <<result, call, verdict, status, delivered>> => IInv'
<1> SUFFICES ASSUME IInv, DropOutput, UNCHANGED <<result, call, verdict, status, delivered>>
             PROVE  IInv'
  OBVIOUS
<1> USE DEF DropOutput
<1>1. ReaderTypeOK /\ Progress /\ Endings /\ Calls
  BY DEF IInv
<1>2. ReaderTypeOK'
  BY <1>1 DEF ReaderTypeOK, PipeTypeOK
<1>3. Progress'
  BY <1>1 DEF Progress, Behind
<1>4. Endings'
  BY <1>1 DEF Endings
<1>5. Calls'
  BY <1>1 DEF Calls, Behind
<1> QED BY <1>2, <1>3, <1>4, <1>5 DEF IInv

LEMMA ReportStep == IInv /\ Report => IInv'
<1> SUFFICES ASSUME IInv, Report PROVE IInv'
  OBVIOUS
<1> USE DEF Report
<1>1. ReaderTypeOK /\ Progress /\ Endings /\ Calls
  BY DEF IInv
<1>2. decoded \in {"ok", "bad", "panic", "broken pipe"}
  BY <1>1 DEF ReaderTypeOK, PipeTypeOK
<1>3. result = <<>>
  BY <1>1 DEF Endings
<1>4. IF decoded = "panic" \/ cancelled THEN result' = <<>> ELSE result' = <<decoded>>
  BY <1>3
<1>5. ReaderTypeOK'
  <2>1. result' \in {<<>>} \cup {<<end>> : end \in {"ok", "bad", "broken pipe"}}
    BY <1>2, <1>4
  <2>2. PipeTypeOK'
    BY <1>1 DEF ReaderTypeOK, PipeTypeOK
  <2> QED BY <1>1, <2>1, <2>2 DEF ReaderTypeOK
<1>6. Progress'
  BY <1>1 DEF Progress, Behind
<1>7. Endings'
  <2>1. <<decoded>> # <<>>
    OBVIOUS
  <2>2. decoded' = decoded /\ cancelled' = cancelled /\ decoder' = "ended"
    OBVIOUS
  <2>3. result' # <<>> => result' = <<decoded>>
    BY <1>4
  <2>4. ASSUME ~cancelled, result' = <<>> PROVE decoded = "panic"
    <3>1. CASE ~(decoded = "panic" \/ cancelled)
      <4>1. result' = <<decoded>>
        BY <3>1, <1>4
      <4> QED BY <4>1, <2>1, <2>4
    <3>2. CASE decoded = "panic"
      BY <3>2
    <3>3. CASE cancelled
      BY ONLY <3>3, <2>4
    <3> QED BY <3>1, <3>2, <3>3
  <2>5. /\ decoded \in {"ok", "bad", "panic"} => sent = Len(stream.ends) /\ decoded = stream.outcome
        /\ decoded = "broken pipe" => cancelled
    BY <1>1 DEF Endings
  <2>6. sent' = sent /\ stream' = stream
    OBVIOUS
  <2>7. decoded' \in {"ok", "bad", "panic"} =>
            sent' = Len(stream'.ends) /\ decoded' = stream'.outcome
    BY <2>2, <2>5, <2>6
  <2>8. ~cancelled' /\ decoder' = "ended" /\ result' = <<>> => decoded' = "panic"
    BY <2>2, <2>4
  <2>9. decoded' = "broken pipe" => cancelled'
    BY ONLY <2>2, <2>5, Zenon
  <2>10. result' # <<>> => decoder' = "ended" /\ result' = <<decoded'>>
    BY <2>2, <2>3
  <2> QED BY ONLY <2>2, <2>7, <2>8, <2>9, <2>10 DEF Endings
<1>8. Calls'
  BY <1>1 DEF Calls, Behind
<1> QED BY <1>5, <1>6, <1>7, <1>8 DEF IInv

------------------------------------------------------------------------------
(* The steps of the client's calls. *)

\* What a read leaves behind, given what it found.
LEMMA ReadAtHandStep == IInv /\ ReadAtHand => IInv' /\ Promised!Next
<1> SUFFICES ASSUME IInv, ReadAtHand PROVE IInv' /\ Promised!Next
  OBVIOUS
<1>1. ReaderTypeOK /\ Progress /\ Endings /\ Calls
  BY DEF IInv
<1> DEFINE d == Len(delivered)
           e == Len(delivered) + Len(chunk)
<1>2. PICK room \in Buffers : ReadChunk(room) /\ delivered' = delivered \o Taken(chunk, room)
  BY DEF ReadAtHand
<1>3. d \in Nat /\ e \in Nat /\ d < e
  <2>1. chunk # <<>> /\ chunk \in Seq(Nat) /\ delivered \in Seq(Nat)
    BY <1>1, <1>2 DEF ReadChunk, ReaderTypeOK, PipeTypeOK
  <2>2. Len(delivered) \in Nat /\ Len(chunk) \in Nat \ {0}
    BY <2>1, LenProperties, EmptySeq
  <2> QED BY <2>2
<1>4. delivered = Stretch(0, d) /\ chunk = Stretch(d, e)
  BY <1>1 DEF Progress
<1>5. call = "none" /\ status = "open" /\ UNCHANGED <<result, call, verdict, status>>
  BY DEF ReadAtHand
<1> HIDE DEF d, e
<1>6. PICK m \in Nat :
         /\ d < m /\ m <= e
         /\ delivered' = Stretch(0, m) /\ delivered' \in Seq(Nat) /\ Len(delivered') = m
         /\ chunk' = Stretch(m, e) /\ chunk' \in Seq(Nat) /\ Len(chunk') = e - m
  <2>1. PICK m \in Nat :
           /\ d < m /\ m <= e
           /\ Stretch(0, d) \o Taken(Stretch(d, e), room) = Stretch(0, m)
           /\ Left(Stretch(d, e), room) = Stretch(m, e)
           /\ Stretch(0, m) \in Seq(Nat) /\ Len(Stretch(0, m)) = m
           /\ Stretch(m, e) \in Seq(Nat) /\ Len(Stretch(m, e)) = e - m
    BY <1>3, ReadLemma
  <2>2. delivered' = Stretch(0, m)
    BY <1>2, <1>4, <2>1
  <2>3. chunk' = Stretch(m, e)
    BY <1>2, <1>4, <2>1 DEF ReadChunk
  <2> QED BY <2>1, <2>2, <2>3
<1>7. ReaderTypeOK'
  BY <1>1, <1>2, <1>5, <1>6 DEF ReadChunk, ReaderTypeOK, PipeTypeOK
<1>8. Len(chunk') + Len(delivered') = e /\ m + (e - m) = e
  <2>1. m \in Nat /\ Len(chunk') = e - m /\ Len(delivered') = m
    BY <1>6
  <2> QED BY <1>3, <2>1
<1>9. ~cancelled /\ e = Behind
  BY <1>1, <1>5 DEF Calls, Progress, e
<1>10. Progress'
  BY <1>2, <1>3, <1>6, <1>8, <1>9 DEF Progress, ReadChunk, Behind
<1>11. Endings'
  BY <1>1, <1>2, <1>5 DEF Endings, ReadChunk, Upcoming, Behind
<1>12. Calls'
  BY <1>1, <1>2, <1>5 DEF Calls, ReadChunk
<1>13. Promised!Next
  <2>1. Behind <= Promised!Size /\ Promised!Size \in Nat
    BY <1>1, BehindLemma
  <2>2. m - d \in 1..Promised!Size /\ d + (m - d) = m /\ m <= Promised!Size
    BY <2>1, <1>3, <1>6, <1>9
  <2>3. Promised!FirstBytes(m) = Stretch(0, m)
    BY <1>6 DEF Promised!FirstBytes, Stretch
  <2>4. Promised!Deliver(m - d)
    BY <2>2, <2>3, <1>2, <1>5, <1>6 DEF Promised!Deliver, ReadChunk, d
  <2> QED BY <2>2, <2>4 DEF Promised!Next
<1> QED BY <1>7, <1>10, <1>11, <1>12, <1>13 DEF IInv

LEMMA ReceiveStep == IInv /\ Receive => IInv' /\ Promised!Next
<1> SUFFICES ASSUME IInv, Receive PROVE IInv' /\ Promised!Next
  OBVIOUS
<1>1. ReaderTypeOK /\ Progress /\ Endings /\ Calls
  BY DEF IInv
<1> DEFINE d == Len(delivered)
           e == stream.ends[sent + 1]
<1>2. PICK room \in Buffers :
         ReceiveChunk(room) /\ delivered' = delivered \o Taken(Upcoming, room)
  BY DEF Receive
<1>3. call = "receiving" /\ call' = "none" /\ UNCHANGED <<result, verdict, status>>
  BY DEF Receive
<1>4. status = "open" /\ chunk = <<>> /\ ~cancelled
  BY <1>1, <1>3 DEF Calls
<1>5. sent < Len(stream.ends) /\ Upcoming # <<>>
  BY <1>1, <1>2 DEF Endings, ReceiveChunk
<1>6. d \in Nat /\ d = Behind
  <2>1. d \in Nat
    BY <1>1, LenProperties DEF ReaderTypeOK
  <2>2. Len(chunk) = 0
    BY <1>4, EmptySeq
  <2> QED BY <2>1, <2>2, <1>1, <1>4 DEF Progress
<1>7. e \in Nat /\ d < e /\ e <= Promised!Size /\ Promised!Size \in Nat
  BY <1>1, <1>5, <1>6, BehindLemma, UpcomingLemma
<1>8. delivered = Stretch(0, d) /\ Upcoming = Stretch(d, e)
  BY <1>1, <1>5, <1>6, UpcomingLemma DEF Progress
<1>9. sent \in Nat /\ Len(stream.ends) \in Nat /\ sent + 1 \in 0..Len(stream.ends)
  <2>1. stream.ends \in Seq(Nat) /\ sent \in 0..Len(stream.ends)
    BY <1>1, StreamsAssumption DEF ReaderTypeOK, PipeTypeOK
  <2>2. Len(stream.ends) \in Nat
    BY <2>1, LenProperties
  <2> QED BY <2>1, <2>2, <1>5
<1>10. Behind' = e
  BY <1>2, <1>9 DEF Behind, ReceiveChunk
<1> HIDE DEF d, e
<1>11. PICK m \in Nat :
         /\ d < m /\ m <= e
         /\ delivered' = Stretch(0, m) /\ delivered' \in Seq(Nat) /\ Len(delivered') = m
         /\ chunk' = Stretch(m, e) /\ chunk' \in Seq(Nat) /\ Len(chunk') = e - m
  <2>1. PICK m \in Nat :
           /\ d < m /\ m <= e
           /\ Stretch(0, d) \o Taken(Stretch(d, e), room) = Stretch(0, m)
           /\ Left(Stretch(d, e), room) = Stretch(m, e)
           /\ Stretch(0, m) \in Seq(Nat) /\ Len(Stretch(0, m)) = m
           /\ Stretch(m, e) \in Seq(Nat) /\ Len(Stretch(m, e)) = e - m
    BY <1>6, <1>7, ReadLemma
  <2>2. delivered' = Stretch(0, m)
    BY <1>2, <1>8, <2>1
  <2>3. chunk' = Stretch(m, e)
    BY <1>2, <1>8, <2>1 DEF ReceiveChunk
  <2> QED BY <2>1, <2>2, <2>3
<1>12. ReaderTypeOK'
  BY <1>1, <1>2, <1>3, <1>9, <1>11 DEF ReceiveChunk, ReaderTypeOK, PipeTypeOK
<1>13. m + (e - m) = e
  BY <1>7, <1>11
<1>14. Progress'
  BY <1>10, <1>11, <1>13 DEF Progress
<1>15. Endings'
  BY <1>1, <1>2, <1>3, <1>4 DEF Endings, ReceiveChunk, ReaderTypeOK, PipeTypeOK
<1>16. Calls'
  BY <1>1, <1>2, <1>3, <1>4 DEF Calls, ReceiveChunk
<1>17. Promised!Next
  <2>1. m - d \in 1..Promised!Size /\ d + (m - d) = m /\ m <= Promised!Size
    BY <1>6, <1>7, <1>11
  <2>2. Promised!FirstBytes(m) = Stretch(0, m)
    BY <1>11 DEF Promised!FirstBytes, Stretch
  <2>3. Promised!Deliver(m - d)
    BY <2>1, <2>2, <1>2, <1>3, <1>4, <1>11 DEF Promised!Deliver, ReceiveChunk, d
  <2> QED BY <2>1, <2>3 DEF Promised!Next
<1> QED BY <1>12, <1>14, <1>15, <1>16, <1>17 DEF IInv

LEMMA CallReadStep == IInv /\ CallRead => IInv'
<1> SUFFICES ASSUME IInv, CallRead PROVE IInv'
  OBVIOUS
<1> USE DEF CallRead, pipe
<1>1. ReaderTypeOK /\ Progress /\ Endings /\ Calls
  BY DEF IInv
<1>2. ReaderTypeOK'
  BY <1>1 DEF ReaderTypeOK, PipeTypeOK
<1>3. Progress'
  BY <1>1 DEF Progress, Behind
<1>4. Endings'
  BY <1>1 DEF Endings, Upcoming, Behind
<1>5. Calls'
  BY <1>1 DEF Calls
<1> QED BY <1>2, <1>3, <1>4, <1>5 DEF IInv

LEMMA PipeEndsStep == IInv /\ PipeEnds => IInv'
<1> SUFFICES ASSUME IInv, PipeEnds PROVE IInv'
  OBVIOUS
<1> USE DEF PipeEnds, pipe
<1>1. ReaderTypeOK /\ Progress /\ Endings /\ Calls
  BY DEF IInv
<1>2. ReaderTypeOK'
  BY <1>1 DEF ReaderTypeOK, PipeTypeOK
<1>3. Progress'
  BY <1>1 DEF Progress, Behind
<1>4. Endings'
  BY <1>1 DEF Endings, Upcoming, Behind
<1>5. Calls'
  BY <1>1 DEF Calls, WriterAlive, ReaderTypeOK, PipeTypeOK
<1> QED BY <1>2, <1>3, <1>4, <1>5 DEF IInv

\* However a reader learns how decoding has ended, it learns the truth.
LEMMA CloseStep ==
    ASSUME IInv, call = "awaiting", NEW how, Close(how),
           \/ result # <<>> /\ how = Head(result)
           \/ result = <<>> /\ decoder = "ended" /\ how = "panic"
    PROVE  IInv'
<1> USE DEF Close, DropPipe
<1>1. ReaderTypeOK /\ Progress /\ Endings /\ Calls
  BY DEF IInv
<1>2. ~cancelled /\ status = "open" /\ chunk = <<>>
  BY <1>1 DEF Calls
<1>3. how = decoded
  <2>1. CASE result # <<>>
    <3>1. result = <<decoded>>
      BY <1>1, <2>1 DEF Endings
    <3> QED BY <3>1, <2>1
  <2>2. CASE result = <<>>
    BY <1>1, <1>2, <2>2 DEF Endings
  <2> QED BY <2>1, <2>2
<1>4. decoder \in {"closed", "ended"}
  BY <1>1 DEF Calls
<1>5. decoded \in {"ok", "bad", "panic"}
  BY <1>1, <1>2, <1>4 DEF Endings, ReaderTypeOK, PipeTypeOK
<1>6. sent = Len(stream.ends) /\ how = stream.outcome
  BY <1>1, <1>3, <1>5 DEF Endings
<1>7. Len(delivered) = Behind /\ Len(delivered) \in Nat
  <2>1. Len(delivered) \in Nat /\ Len(chunk) = 0
    BY <1>1, <1>2, LenProperties, EmptySeq DEF ReaderTypeOK
  <2>2. Len(delivered) + Len(chunk) = Behind
    BY <1>1, <1>2 DEF Progress
  <2> QED BY <2>1, <2>2
<1>8. ReaderTypeOK'
  BY <1>1, <1>3, <1>5, EmptySeq DEF ReaderTypeOK, PipeTypeOK
<1>9. Progress'
  BY <1>1, <1>2 DEF Progress
<1>10. Endings'
  BY <1>1, <1>4 DEF Endings
<1>11. Calls'
  BY <1>2, <1>6, <1>7 DEF Calls, Behind
<1> QED BY <1>8, <1>9, <1>10, <1>11 DEF IInv

LEMMA FinishStep == IInv /\ Finish => IInv' /\ Promised!Next
<1> SUFFICES ASSUME IInv, Finish PROVE IInv' /\ Promised!Next
  OBVIOUS
<1> USE DEF Finish, pipe
<1>1. ReaderTypeOK /\ Progress /\ Endings /\ Calls
  BY DEF IInv
<1>2. /\ status = "open"
      /\ sent = Len(stream.ends)
      /\ verdict = stream.outcome
      /\ Len(delivered) = Behind
      /\ cancelled
  BY <1>1 DEF Calls
<1>3. stream.outcome \in {"ok", "bad", "panic"}
  BY <1>1, StreamsAssumption DEF ReaderTypeOK, PipeTypeOK
<1>4. status' \in {"eof", "bad", "panic"}
  BY <1>2, <1>3
<1>5. ReaderTypeOK'
  BY <1>1, <1>4 DEF ReaderTypeOK, PipeTypeOK
<1>6. Progress'
  BY <1>1 DEF Progress, Behind
<1>7. Endings'
  BY <1>1 DEF Endings, Upcoming, Behind
<1>8. Calls'
  BY <1>2, <1>4 DEF Calls
<1>9. Promised!Next
  <2>1. Behind = Promised!Size /\ Promised!Size \in Nat
    BY <1>1, <1>2, BehindLemma
  <2>2. delivered = Stretch(0, Promised!Size)
    BY <1>1, <1>2, <2>1 DEF Progress
  <2>3. Stretch(0, Promised!Size) = Promised!FirstBytes(Promised!Size)
    BY <2>1 DEF Promised!FirstBytes, Stretch
  <2>4. Promised!End
    BY <1>2, <2>2, <2>3 DEF Promised!End
  <2> QED BY <2>4 DEF Promised!Next
<1> QED BY <1>5, <1>6, <1>7, <1>8, <1>9 DEF IInv

LEMMA CallDropStep == IInv /\ CallDrop => IInv'
<1> SUFFICES ASSUME IInv, CallDrop PROVE IInv'
  OBVIOUS
<1> USE DEF CallDrop, DropPipe
<1>1. ReaderTypeOK /\ Progress /\ Endings /\ Calls
  BY DEF IInv
<1>2. ReaderTypeOK'
  BY <1>1, EmptySeq DEF ReaderTypeOK, PipeTypeOK
<1>3. Progress'
  <2>1. Len(delivered) \in Nat
    BY <1>1, LenProperties DEF ReaderTypeOK
  <2>2. Stretch(Len(delivered), Len(delivered)) = <<>> /\ Len(<<>>) = 0
    BY <2>1, StretchLen, EmptySeq
  <2> QED BY <1>1, <2>1, <2>2 DEF Progress
<1>4. Endings'
  BY <1>1 DEF Endings, Upcoming, Behind
<1>5. Calls'
  BY <1>1 DEF Calls
<1> QED BY <1>2, <1>3, <1>4, <1>5 DEF IInv

LEMMA JoinDroppedStep == IInv /\ JoinDropped => IInv'
<1> SUFFICES ASSUME IInv, JoinDropped PROVE IInv'
  OBVIOUS
<1> USE DEF JoinDropped, pipe
<1>1. ReaderTypeOK /\ Progress /\ Endings /\ Calls
  BY DEF IInv
<1>2. ReaderTypeOK'
  BY <1>1 DEF ReaderTypeOK, PipeTypeOK
<1>3. Progress'
  BY <1>1 DEF Progress, Behind
<1>4. Endings'
  BY <1>1 DEF Endings, Upcoming, Behind
<1>5. Calls'
  BY <1>1 DEF Calls
<1> QED BY <1>2, <1>3, <1>4, <1>5 DEF IInv

------------------------------------------------------------------------------
(* The theorems. *)

\* A step of the Reader is a step of the stream it promises, or changes
\* nothing that a client can see.
LEMMA ReaderStep == IInv /\ [ReaderNext]_readerVars => IInv' /\ [Promised!Next]_(Promised!vars)
<1> SUFFICES ASSUME IInv, [ReaderNext]_readerVars PROVE IInv' /\ [Promised!Next]_(Promised!vars)
  OBVIOUS
<1> DEFINE Unseen == UNCHANGED <<stream, delivered, status>>
<1>1. ASSUME Decoding, UNCHANGED <<result, call, verdict, status, delivered>>
      PROVE  IInv' /\ Unseen
  <2>1. CASE Write
    BY <1>1, <2>1, WriteStep DEF Write
  <2>2. CASE EndOfStream
    <3>1. decoder = "decoding" /\ sent = Len(stream.ends) /\ StopDecoding(stream.outcome)
      BY <2>2 DEF EndOfStream
    <3> QED BY <1>1, <3>1, StopStep DEF StopDecoding
  <2>3. CASE SendFails \/ SeesCancelled
    <3>1. decoder \in {"decoding", "sending"} /\ cancelled /\ StopDecoding("broken pipe")
      BY <2>3 DEF SendFails, SeesCancelled
    <3> QED BY <1>1, <3>1, StopStep DEF StopDecoding
  <2>4. CASE DropOutput
    BY <1>1, <2>4, DropOutputStep DEF DropOutput
  <2> QED BY <1>1, <2>1, <2>2, <2>3, <2>4 DEF Decoding
<1>2. CASE Report
  BY <1>2, ReportStep DEF Report, Promised!vars
<1>3. CASE ReadAtHand
  BY <1>3, ReadAtHandStep
<1>4. CASE CallRead
  BY <1>4, CallReadStep DEF CallRead, pipe, Promised!vars
<1>5. CASE CallDrop
  BY <1>5, CallDropStep DEF CallDrop, DropPipe, Promised!vars
<1>6. CASE Receive
  BY <1>6, ReceiveStep
<1>7. CASE PipeEnds
  BY <1>7, PipeEndsStep DEF PipeEnds, pipe, Promised!vars
<1>8. CASE TakeStatus
  <2>1. call = "awaiting" /\ result # <<>> /\ Close(Head(result))
    BY <1>8 DEF TakeStatus
  <2>2. IInv'
    BY <2>1, CloseStep
  <2> QED BY <2>1, <2>2 DEF Close, DropPipe, Promised!vars
<1>9. CASE Disconnected
  <2>1. call = "awaiting" /\ result = <<>> /\ decoder = "ended" /\ Close("panic")
    BY <1>9 DEF Disconnected
  <2>2. IInv'
    BY <2>1, CloseStep
  <2> QED BY <2>1, <2>2 DEF Close, DropPipe, Promised!vars
<1>10. CASE Finish
  BY <1>10, FinishStep
<1>11. CASE JoinDropped
  BY <1>11, JoinDroppedStep DEF JoinDropped, pipe, Promised!vars
<1>12. CASE UNCHANGED readerVars
  <2>1. UNCHANGED <<pipe, result, call, verdict, status, delivered>>
    BY <1>12 DEF readerVars
  <2>2. ReaderTypeOK'
    <3>1. ReaderTypeOK
      BY DEF IInv
    <3>2. PipeTypeOK'
      <4>1. UNCHANGED <<stream, sent, decoder, decoded, cancelled, chunk>>
        BY <2>1 DEF pipe
      <4>2. PipeTypeOK
        BY <3>1 DEF ReaderTypeOK
      <4> QED BY <4>1, <4>2 DEF PipeTypeOK
    <3>3. UNCHANGED <<result, call, verdict, status, delivered>>
      BY <2>1
    <3> QED BY <3>1, <3>2, <3>3 DEF ReaderTypeOK
  <2>3. Progress'
    BY <2>1 DEF IInv, pipe, Progress, Behind
  <2>4. Endings'
    BY <2>1 DEF IInv, pipe, Endings, Upcoming, Behind
  <2>5. Calls'
    BY <2>1 DEF IInv, pipe, Calls, Behind
  <2> QED BY <2>1, <2>2, <2>3, <2>4, <2>5 DEF IInv, pipe, Promised!vars
<1> QED BY <1>1, <1>2, <1>3, <1>4, <1>5, <1>6, <1>7, <1>8, <1>9, <1>10, <1>11, <1>12
       DEF ReaderNext, Thread, Client, InCall, Promised!vars

\* What the thread and the reader know of each other stays consistent.
THEOREM ReaderInvariant == ReaderSpec => []ReaderTypeOK
<1>1. ReaderInit => IInv
  BY ReaderInitially
<1>2. IInv /\ [ReaderNext]_readerVars => IInv'
  BY ReaderStep
<1>3. IInv => ReaderTypeOK
  BY DEF IInv
<1> QED BY <1>1, <1>2, <1>3, PTL DEF ReaderSpec

\* A client gets the stream from its beginning, the end only for one that has
\* been decoded with success, and an error only behind all that precedes it.
THEOREM ReaderReadsTheStream == ReaderSpec => ReadsTheStream
<1>1. ReaderInit => IInv
  BY ReaderInitially
<1>2. ReaderInit => Promised!Init
  BY DEF ReaderInit, PipeInit, Promised!Init
<1>3. IInv /\ [ReaderNext]_readerVars => IInv' /\ [Promised!Next]_(Promised!vars)
  BY ReaderStep
<1> QED BY <1>1, <1>2, <1>3, PTL DEF ReaderSpec, ReadsTheStream, Promised!Spec
==============================================================================
