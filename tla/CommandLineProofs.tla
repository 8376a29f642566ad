--------------------------- MODULE CommandLineProofs ---------------------------
(***************************************************************************)
(* The fbz program keeps the files that it finds, makes only whole ones,   *)
(* and removes its inputs last, for every set of paths, every archive and  *)
(* every list of inputs.                                                   *)
(***************************************************************************)
EXTENDS CommandLine, DataLemmas

------------------------------------------------------------------------------
(* Paths.                                                                   *)

LEMMA PathTypes ==
    ASSUME NEW p \in Paths
    PROVE  p \in Seq(STRING) /\ Len(p) \in Nat
BY PathsAssumption

LEMMA PrefixAt ==
    ASSUME NEW p \in Paths, NEW q \in Paths
    PROVE  IsPrefix(p, q) <=> Len(p) <= Len(q) /\ \A i \in 1..Len(p) : p[i] = q[i]
<1>1. p \in Seq(STRING) /\ q \in Seq(STRING) /\ Len(p) \in Nat /\ Len(q) \in Nat
  BY PathTypes
<1>2. SubSeq(p, 1, Len(p)) = p
  BY <1>1
<1>3. ASSUME Len(p) <= Len(q)
      PROVE  /\ SubSeq(q, 1, Len(p)) \in Seq(STRING)
             /\ Len(SubSeq(q, 1, Len(p))) = Len(p)
             /\ \A i \in 1..Len(p) : SubSeq(q, 1, Len(p))[i] = q[i]
  BY <1>1, <1>3
<1>4. ASSUME Len(p) <= Len(q), \A i \in 1..Len(p) : p[i] = q[i]
      PROVE  SubSeq(q, 1, Len(p)) = p
  BY <1>1, <1>3, <1>4, SeqEqual
<1> QED
  BY <1>1, <1>2, <1>3, <1>4 DEF IsPrefix

LEMMA PrefixReflexive ==
    ASSUME NEW p \in Paths
    PROVE  IsPrefix(p, p)
BY PrefixAt, PathTypes

LEMMA PrefixTransitive ==
    ASSUME NEW p \in Paths, NEW q \in Paths, NEW r \in Paths, IsPrefix(p, q), IsPrefix(q, r)
    PROVE  IsPrefix(p, r)
BY PrefixAt, PathTypes

LEMMA PrefixSameLength ==
    ASSUME NEW p \in Paths, NEW q \in Paths, IsPrefix(p, q), Len(q) <= Len(p)
    PROVE  p = q
<1>1. Len(p) = Len(q) /\ \A i \in 1..Len(p) : p[i] = q[i]
  BY PrefixAt, PathTypes
<1> QED
  BY <1>1, PathTypes, SeqEqual

LEMMA PrefixAntisymmetric ==
    ASSUME NEW p \in Paths, NEW q \in Paths, IsPrefix(p, q), IsPrefix(q, p)
    PROVE  p = q
BY PrefixAt, PathTypes, PrefixSameLength

\* Of two paths above the same one, one is above the other.
LEMMA PrefixComparable ==
    ASSUME NEW p \in Paths, NEW q \in Paths, NEW r \in Paths, IsPrefix(p, r), IsPrefix(q, r)
    PROVE  IsPrefix(p, q) \/ IsPrefix(q, p)
BY PrefixAt, PathTypes

LEMMA StrictTransitive ==
    ASSUME NEW p \in Paths, NEW q \in Paths, NEW r \in Paths,
           IsPrefix(p, q), IsPrefix(q, r), p # q \/ q # r
    PROVE  IsStrictPrefix(p, r)
BY PrefixTransitive, PrefixAntisymmetric DEF IsStrictPrefix

LEMMA RootAbove ==
    ASSUME NEW p \in Paths
    PROVE  /\ <<>> \in Paths
           /\ IsPrefix(<<>>, p)
           /\ IsPrefix(p, <<>>) => p = <<>>
<1>1. <<>> \in Paths /\ Len(<<>>) = 0
  BY PathsAssumption
<1>2. IsPrefix(<<>>, p)
  BY <1>1, PrefixAt, PathTypes
<1> QED
  BY <1>1, <1>2, PrefixAntisymmetric

\* The entry of a directory on the way to something below it.
LEMMA ChildToward ==
    ASSUME NEW p \in Paths, NEW q \in Paths, IsStrictPrefix(p, q)
    PROVE  \E c \in Paths : IsPrefix(p, c) /\ IsPrefix(c, q) /\ Len(c) = Len(p) + 1
<1>1. p \in Seq(STRING) /\ q \in Seq(STRING) /\ Len(p) \in Nat /\ Len(q) \in Nat
  BY PathTypes
<1>2. IsPrefix(p, q) /\ p # q
  BY DEF IsStrictPrefix
<1>3. Len(p) < Len(q)
  BY <1>1, <1>2, PrefixAt, PrefixSameLength
<1> DEFINE c == SubSeq(q, 1, Len(p) + 1)
<1>4. c \in Paths
  BY <1>1, <1>3, PathsAssumption
<1>5. Len(c) = Len(p) + 1 /\ \A i \in 1..(Len(p) + 1) : c[i] = q[i]
  BY <1>1, <1>3
<1> HIDE DEF c
<1>6. IsPrefix(c, q)
  BY <1>1, <1>3, <1>4, <1>5, PrefixAt
<1>7. IsPrefix(p, c)
  BY <1>1, <1>2, <1>4, <1>5, PrefixAt
<1> QED
  BY <1>4, <1>5, <1>6, <1>7

LEMMA FrontAbove ==
    ASSUME NEW p \in Paths, p # <<>>
    PROVE  /\ Front(p) \in Paths
           /\ IsStrictPrefix(Front(p), p)
           /\ \A r \in Paths : IsStrictPrefix(r, p) => IsPrefix(r, Front(p))
<1>1. p \in Seq(STRING) /\ Len(p) \in Nat /\ Len(p) # 0
  BY PathTypes
<1> DEFINE f == Front(p)
<1>2. f \in Paths
  BY <1>1, PathsAssumption DEF Front
<1>3. Len(f) = Len(p) - 1 /\ \A i \in 1..(Len(p) - 1) : f[i] = p[i]
  BY <1>1 DEF Front
<1> HIDE DEF f
<1>4. IsPrefix(f, p) /\ f # p
  BY <1>1, <1>2, <1>3, PrefixAt
<1>5. ASSUME NEW r \in Paths, IsStrictPrefix(r, p)
      PROVE  IsPrefix(r, f)
  <2>1. IsPrefix(r, p) /\ r # p /\ Len(r) \in Nat
    BY <1>5, PathTypes DEF IsStrictPrefix
  <2>2. Len(r) < Len(p)
    BY <1>1, <2>1, PrefixAt, PrefixSameLength
  <2> QED
    BY <1>1, <1>2, <1>3, <2>1, <2>2, PrefixAt
<1> QED
  BY <1>2, <1>4, <1>5 DEF f, IsStrictPrefix

------------------------------------------------------------------------------
(* Trees.                                                                   *)

\* What is at an entry's place, and something below it.
LEMMA TreeAbove ==
    ASSUME NEW t, IsTree(t), NEW p \in Paths, NEW q \in Paths, t[q] # "absent", IsPrefix(p, q)
    PROVE  t[p] # "absent" /\ (p # q => t[p] = "dir")
BY DEF IsTree, IsStrictPrefix

\* A directory has an entry on the way to everything below it.
LEMMA TreeChild ==
    ASSUME NEW t, IsTree(t), NEW p \in Paths, NEW q \in Paths, t[q] # "absent",
           IsStrictPrefix(p, q)
    PROVE  \E c \in Children(t, p) : IsPrefix(c, q)
<1>1. PICK c \in Paths : IsPrefix(p, c) /\ IsPrefix(c, q) /\ Len(c) = Len(p) + 1
  BY ChildToward
<1>2. t[c] # "absent"
  BY <1>1, TreeAbove
<1> QED
  BY <1>1, <1>2 DEF Children, Below

LEMMA ChildFacts ==
    ASSUME NEW t, NEW p \in Paths, NEW c \in Children(t, p)
    PROVE  /\ c \in Paths
           /\ c # <<>>
           /\ IsPrefix(p, c)
           /\ ~IsPrefix(c, p)
           /\ t[c] # "absent"
           /\ \A r \in Paths : IsStrictPrefix(r, c) => IsPrefix(r, p)
           /\ \A d \in Children(t, p) : IsPrefix(c, d) => c = d
<1>1. c \in Paths /\ IsPrefix(p, c) /\ Len(c) = Len(p) + 1 /\ t[c] # "absent" /\ Len(p) \in Nat
  BY PathTypes DEF Children, Below
<1>2. c # <<>>
  BY <1>1
<1>3. ~IsPrefix(c, p)
  BY <1>1, PrefixAt
<1>4. ASSUME NEW r \in Paths, IsStrictPrefix(r, c)
      PROVE  IsPrefix(r, p)
  <2>1. IsPrefix(r, p) \/ IsPrefix(p, r)
    BY <1>1, <1>4, PrefixComparable DEF IsStrictPrefix
  <2>2. Len(r) \in Nat /\ Len(r) < Len(c)
    BY <1>1, <1>4, PathTypes, PrefixAt, PrefixSameLength DEF IsStrictPrefix
  <2>3. IsPrefix(p, r) => p = r
    BY <1>1, <2>2, PrefixSameLength
  <2> QED
    BY <2>1, <2>3, PrefixReflexive
<1>5. ASSUME NEW d \in Children(t, p), IsPrefix(c, d)
      PROVE  c = d
  <2>1. d \in Paths /\ Len(d) = Len(p) + 1
    BY DEF Children, Below
  <2> QED
    BY <1>1, <1>5, <2>1, PrefixSameLength
<1> QED
  BY <1>1, <1>2, <1>3, <1>4, <1>5

LEMMA SetToSeqFacts ==
    ASSUME NEW S, IsFiniteSet(S)
    PROVE  /\ SetToSeq(S) \in Seq(S)
           /\ \A i, j \in 1..Len(SetToSeq(S)) : SetToSeq(S)[i] = SetToSeq(S)[j] => i = j
           /\ \A x \in S : \E i \in 1..Len(SetToSeq(S)) : SetToSeq(S)[i] = x
<1> DEFINE n == Cardinality(S)
           f == SetToSeq(S)
<1>1. n \in Nat /\ ExistsBijection(1..n, S)
  BY FS_CardinalityType
<1>2. \E g \in [1..n -> S] : IsInjective(g)
  BY <1>1 DEF ExistsBijection, Bijection, Injection, Surjection, IsInjective
<1>3. f \in [1..n -> S] /\ IsInjective(f)
  BY <1>2 DEF SetToSeq
<1> HIDE DEF f
<1>4. f \in Injection(1..n, S)
  BY <1>3 DEF Injection, IsInjective
<1>5. IsFiniteSet(1..n) /\ Cardinality(1..n) = n
  BY <1>1, FS_Interval
<1>6. f \in Surjection(1..n, S)
  BY <1>4, <1>5, FS_Injection
<1>7. f \in Seq(S) /\ Len(f) = n
  BY <1>1, <1>3
<1>8. \A i, j \in 1..n : f[i] = f[j] => i = j
  BY <1>3 DEF IsInjective
<1>9. \A x \in S : \E i \in 1..n : f[i] = x
  BY <1>6 DEF Surjection
<1> QED
  BY <1>7, <1>8, <1>9 DEF f

TaskSet == [op : {"check", "look", "rename", "remove_file", "remove_dir"}, at : Paths \ {<<>>}]

LEMMA TasksFacts ==
    ASSUME NEW op \in {"check", "look"}, NEW t, NEW p \in Paths
    PROVE  /\ Tasks(op, t, p) \in Seq(TaskSet)
           /\ \A i \in 1..Len(Tasks(op, t, p)) :
                 /\ Tasks(op, t, p)[i].op = op
                 /\ Tasks(op, t, p)[i].at \in Children(t, p)
           /\ \A i, j \in 1..Len(Tasks(op, t, p)) :
                 Tasks(op, t, p)[i].at = Tasks(op, t, p)[j].at => i = j
           /\ \A c \in Children(t, p) :
                 \E i \in 1..Len(Tasks(op, t, p)) : Tasks(op, t, p)[i].at = c
<1> DEFINE C == Children(t, p)
           S == {[op |-> op, at |-> q] : q \in C}
           f == SetToSeq(S)
<1>1. IsFiniteSet(C)
  BY PathsAssumption, FS_Subset DEF Children, Below
<1>2. C \subseteq Paths \ {<<>>}
  BY ChildFacts
<1> HIDE DEF C
<1>3. IsFiniteSet(S)
  <2> DEFINE g == [q \in C |-> [op |-> op, at |-> q]]
  <2>1. g \in Surjection(C, S)
    BY DEF Surjection
  <2> QED
    BY <1>1, <2>1, FS_Surjection
<1>4. S \subseteq TaskSet
  BY <1>2 DEF TaskSet
<1>5. \A x \in S : x.op = op /\ x.at \in C
  OBVIOUS
<1>6. \A x, y \in S : x.at = y.at => x = y
  OBVIOUS
<1>7. ASSUME NEW c \in C
      PROVE  \E x \in S : x.at = c
  <2>1. [op |-> op, at |-> c] \in S
    OBVIOUS
  <2> QED
    BY <2>1
<1>8. Tasks(op, t, p) = f
  BY DEF Tasks, C
<1> HIDE DEF S
<1>9. /\ f \in Seq(S)
      /\ \A i, j \in 1..Len(f) : f[i] = f[j] => i = j
      /\ \A x \in S : \E i \in 1..Len(f) : f[i] = x
  BY <1>3, SetToSeqFacts
<1> HIDE DEF f
<1>10. \A i \in 1..Len(f) : f[i] \in S
  BY <1>9
<1>11. f \in Seq(TaskSet)
  BY <1>4, <1>9, SeqMonotonic
<1>12. \A i \in 1..Len(f) : f[i].op = op /\ f[i].at \in C
  BY <1>5, <1>10
<1>13. \A i, j \in 1..Len(f) : f[i].at = f[j].at => i = j
  BY <1>6, <1>9, <1>10
<1>14. \A c \in C : \E i \in 1..Len(f) : f[i].at = c
  BY <1>7, <1>9
<1> QED
  BY <1>8, <1>11, <1>12, <1>13, <1>14 DEF C

------------------------------------------------------------------------------
(* Moving the tree: what is there at the destination (tr), what is staged   *)
(* (st), what is to be done (td), and the tree that was unpacked (g).       *)

Moves(task) == task.op \in {"look", "rename"}

\* Entries that are still to be moved are as they were unpacked, below a
\* directory, and none is below another or above a directory to be removed.
Movable(td, st, tr, g) ==
    /\ \A i \in 1..Len(td) : Moves(td[i]) =>
          /\ \A q \in Below(td[i].at) : st[q] = g[q]
          /\ \A r \in Paths : IsStrictPrefix(r, td[i].at) => tr[r] = "dir"
    /\ \A i, j \in 1..Len(td) :
          Moves(td[i]) /\ i # j /\ (Moves(td[j]) \/ td[j].op = "remove_dir") =>
              ~IsPrefix(td[i].at, td[j].at)

\* Only what has just been looked at is renamed: it replaces nothing, a file
\* with --force, or what has come since.
RenamesNext(td, tr, force) ==
    /\ \A i \in 1..Len(td) :
          /\ td[i].op = "rename" => i = 1 \/ (i = 2 /\ td[1].op = "remove_file")
          /\ td[i].op = "remove_file" =>
                /\ i = 1
                /\ force
                /\ 2 <= Len(td)
                /\ td[2] = [op |-> "rename", at |-> td[1].at]
                /\ tr[td[1].at] \in Files
    /\ td # <<>> /\ td[1].op = "rename" /\ ~force => tr[td[1].at] \in {"absent", "other"}

\* An entry is in its place.
Settled(p, tr, g) == g[p] # "absent" => tr[p] = g[p]

\* Everything is in its place or below what is to be moved.
Covered(td, tr, g) ==
    \A p \in Paths : Settled(p, tr, g) \/ \E i \in 1..Len(td) : Moves(td[i]) /\ IsPrefix(td[i].at, p)

Moving(td, st, tr, g, force) ==
    /\ \A i \in 1..Len(td) : td[i].op # "check"
    /\ Movable(td, st, tr, g)
    /\ RenamesNext(td, tr, force)
    /\ Covered(td, tr, g)

\* The tree that is unpacked: what has been asked for lies in a directory.
IsGoal(g) == IsTree(g) /\ g[<<>>] \in {"absent", "dir"}

\* Every task behind the first one is none to rename, once a look is next.
LEMMA LooksThenNoRename ==
    ASSUME NEW td \in Seq(TaskSet), NEW tr, NEW force, RenamesNext(td, tr, force),
           td # <<>>, td[1].op \notin {"remove_file"}
    PROVE  \A k \in 2..Len(td) : td[k].op \notin {"rename", "remove_file"}
BY DEF RenamesNext

LEMMA TaskTypes ==
    ASSUME NEW td \in Seq(TaskSet)
    PROVE  /\ Len(td) \in Nat
           /\ \A i \in 1..Len(td) : td[i].at \in Paths /\ td[i].at # <<>>
           /\ td # <<>> => 1 \in 1..Len(td) /\ Head(td) = td[1]
<1>1. Len(td) \in Nat /\ \A i \in 1..Len(td) : td[i] \in TaskSet
  OBVIOUS
<1>2. td # <<>> => Len(td) # 0 /\ Head(td) = td[1]
  OBVIOUS
<1>3. \A i \in 1..Len(td) : td[i].at \in Paths /\ td[i].at # <<>>
  BY <1>1 DEF TaskSet
<1> QED
  BY <1>1, <1>2, <1>3

\* The tasks after one task is replaced by others.
LEMMA Replaced ==
    ASSUME NEW td \in Seq(TaskSet), td # <<>>, NEW s \in Seq(TaskSet)
    PROVE  /\ s \o Tail(td) \in Seq(TaskSet)
           /\ Len(s \o Tail(td)) = Len(s) + Len(td) - 1
           /\ \A i \in 1..Len(s) : (s \o Tail(td))[i] = s[i]
           /\ \A i \in 1..Len(s \o Tail(td)) : i > Len(s) =>
                 /\ i - Len(s) + 1 \in 2..Len(td)
                 /\ (s \o Tail(td))[i] = td[i - Len(s) + 1]
           /\ \A k \in 2..Len(td) : 
                 /\ Len(s) + k - 1 \in 1..Len(s \o Tail(td))
                 /\ (s \o Tail(td))[Len(s) + k - 1] = td[k]
<1>1. /\ Tail(td) \in Seq(TaskSet) /\ Len(td) \in Nat /\ Len(s) \in Nat
      /\ Len(Tail(td)) = Len(td) - 1
      /\ \A i \in 1..Len(Tail(td)) : Tail(td)[i] = td[i + 1]
  BY HeadTailProperties
<1> DEFINE t == Tail(td)
           n == s \o t
<1>2. /\ n \in Seq(TaskSet) /\ Len(n) = Len(s) + Len(td) - 1
      /\ \A i \in 1..(Len(s) + Len(td) - 1) : n[i] = IF i <= Len(s) THEN s[i] ELSE t[i - Len(s)]
  BY <1>1, ConcatProperties
<1> HIDE DEF t, n
<1>3. ASSUME NEW i \in 1..Len(s)
      PROVE  n[i] = s[i]
  <2>1. Len(td) # 0
    BY EmptySeq
  <2>2. i \in 1..(Len(s) + Len(td) - 1) /\ i <= Len(s)
    BY <1>1, <2>1
  <2> QED BY <1>2, <2>2
<1>4. ASSUME NEW i \in 1..Len(n), i > Len(s)
      PROVE  /\ i - Len(s) + 1 \in 2..Len(td)
             /\ n[i] = td[i - Len(s) + 1]
  <2>1. i - Len(s) \in 1..(Len(td) - 1)
    BY <1>1, <1>2, <1>4
  <2>2. t[i - Len(s)] = td[i - Len(s) + 1]
    BY <1>1, <2>1 DEF t
  <2> QED
    BY <1>1, <1>2, <1>4, <2>1, <2>2
<1>5. ASSUME NEW k \in 2..Len(td)
      PROVE  /\ Len(s) + k - 1 \in 1..Len(n)
             /\ n[Len(s) + k - 1] = td[k]
  <2>1. Len(s) + k - 1 \in 1..Len(n) /\ Len(s) + k - 1 > Len(s)
        /\ (Len(s) + k - 1) - Len(s) + 1 = k
    BY <1>1, <1>2
  <2> QED
    BY <1>4, <2>1
<1> QED
  BY <1>2, <1>3, <1>4, <1>5 DEF n, t

\* preflight has passed, and nothing is moved yet.
LEMMA MovingStarts ==
    ASSUME NEW tr, NEW g, NEW force, IsTree(tr), tr[<<>>] = "dir", IsGoal(g)
    PROVE  Moving(Tasks("look", g, <<>>), g, tr, g, force)
<1> DEFINE td == Tasks("look", g, <<>>)
<1>1. <<>> \in Paths
  BY PathsAssumption
<1>2. /\ td \in Seq(TaskSet)
      /\ \A i \in 1..Len(td) : td[i].op = "look" /\ td[i].at \in Children(g, <<>>)
      /\ \A i, j \in 1..Len(td) : td[i].at = td[j].at => i = j
      /\ \A c \in Children(g, <<>>) : \E i \in 1..Len(td) : td[i].at = c
  BY <1>1, TasksFacts
<1> HIDE DEF td
<1>3. Movable(td, g, tr, g)
  <2>1. ASSUME NEW i \in 1..Len(td), NEW r \in Paths, IsStrictPrefix(r, td[i].at)
        PROVE  tr[r] = "dir"
    BY <1>1, <1>2, <2>1, ChildFacts, RootAbove
  <2>2. ASSUME NEW i \in 1..Len(td), NEW j \in 1..Len(td), i # j
        PROVE  ~IsPrefix(td[i].at, td[j].at)
    BY <1>1, <1>2, <2>2, ChildFacts
  <2> QED
    BY <2>1, <2>2 DEF Movable
<1>4. RenamesNext(td, tr, force)
  <2>1. td # <<>> => 1 \in 1..Len(td)
    BY <1>2, TaskTypes
  <2> QED
    BY <1>2, <2>1 DEF RenamesNext
<1>5. Covered(td, tr, g)
  <2> SUFFICES ASSUME NEW p \in Paths, ~Settled(p, tr, g)
               PROVE  \E i \in 1..Len(td) : Moves(td[i]) /\ IsPrefix(td[i].at, p)
    BY DEF Covered
  <2>1. g[p] # "absent" /\ tr[p] # g[p]
    BY DEF Settled
  <2>2. IsStrictPrefix(<<>>, p)
    BY <1>1, <2>1, RootAbove DEF IsGoal, IsStrictPrefix
  <2>3. PICK c \in Children(g, <<>>) : IsPrefix(c, p)
    BY <1>1, <2>1, <2>2, TreeChild DEF IsGoal
  <2> QED
    BY <1>2, <2>3 DEF Moves
<1> QED
  BY <1>2, <1>3, <1>4, <1>5 DEF Moving, td

\* Nothing left to do.
LEMMA MovingEnds ==
    ASSUME NEW st, NEW tr, NEW g, NEW force, Moving(<<>>, st, tr, g, force)
    PROVE  \A p \in Paths : Settled(p, tr, g)
BY DEF Moving, Covered

\* An entry is looked at, and is to be renamed next, perhaps after the file
\* that it replaces is removed.
LEMMA MovingLooked ==
    ASSUME NEW td \in Seq(TaskSet), td # <<>>, NEW st, NEW tr, NEW g, NEW force,
           Moving(td, st, tr, g, force), td[1].op = "look",
           NEW s \in Seq(TaskSet),
           \/ s = <<[op |-> "rename", at |-> td[1].at]>> /\ tr[td[1].at] = "absent"
           \/ /\ s = <<[op |-> "remove_file", at |-> td[1].at], [op |-> "rename", at |-> td[1].at]>>
              /\ tr[td[1].at] \in Files
              /\ force
    PROVE  Moving(s \o Tail(td), st, tr, g, force)
<1> DEFINE n == s \o Tail(td)
           a == td[1].at
<1>1. /\ n \in Seq(TaskSet) /\ Len(n) = Len(s) + Len(td) - 1
      /\ \A i \in 1..Len(s) : n[i] = s[i]
      /\ \A i \in 1..Len(n) : i > Len(s) =>
            i - Len(s) + 1 \in 2..Len(td) /\ n[i] = td[i - Len(s) + 1]
      /\ \A k \in 2..Len(td) : Len(s) + k - 1 \in 1..Len(n) /\ n[Len(s) + k - 1] = td[k]
  BY Replaced
<1> HIDE DEF n
<1>2. Len(td) \in Nat /\ 1 \in 1..Len(td) /\ Len(n) \in Nat /\ Len(s) \in 1..2
  BY <1>1, TaskTypes
<1>3. \A k \in 2..Len(td) : td[k].op \notin {"rename", "remove_file"}
  BY LooksThenNoRename DEF Moving
\* Where each task comes from.
<1>4. /\ Len(s) \in 1..Len(n) /\ n[Len(s)] = [op |-> "rename", at |-> a]
      /\ \A i \in 1..Len(n) :
            \/ i = Len(s)
            \/ i = 1 /\ Len(s) = 2 /\ n[i].op = "remove_file" /\ n[i].at = a /\ tr[a] \in Files /\ force
            \/ i > Len(s) /\ i - Len(s) + 1 \in 2..Len(td) /\ n[i] = td[i - Len(s) + 1]
  <2>1. CASE s = <<[op |-> "rename", at |-> a]>>
    <3>1. Len(s) = 1 /\ s[1] = [op |-> "rename", at |-> a]
      BY <2>1
    <3> QED
      BY <1>1, <1>2, <3>1
  <2>2. CASE /\ s = <<[op |-> "remove_file", at |-> a], [op |-> "rename", at |-> a]>>
             /\ tr[a] \in Files
             /\ force
    <3>1. Len(s) = 2 /\ s[1] = [op |-> "remove_file", at |-> a] /\ s[2] = [op |-> "rename", at |-> a]
      BY <2>2
    <3> QED
      BY <1>1, <1>2, <2>2, <3>1
  <2> QED
    BY <2>1, <2>2
\* ... when it moves something, from one that moves the same.
<1>5. ASSUME NEW i \in 1..Len(n), Moves(n[i]) \/ n[i].op = "remove_dir"
      PROVE  \E k \in 1..Len(td) :
                /\ n[i].at = td[k].at
                /\ k = IF i = Len(s) THEN 1 ELSE i - Len(s) + 1
                /\ i = Len(s) \/ i > Len(s)
                /\ Moves(td[k]) <=> Moves(n[i])
                /\ td[k].op = "remove_dir" <=> n[i].op = "remove_dir"
  <2>1. CASE i = Len(s)
    BY <1>2, <1>4, <2>1 DEF Moves
  <2>2. CASE i > Len(s) /\ i - Len(s) + 1 \in 2..Len(td) /\ n[i] = td[i - Len(s) + 1]
    <3>1. i # Len(s) /\ i - Len(s) + 1 \in 1..Len(td)
      BY <1>2, <2>2
    <3> QED
      BY <2>2, <3>1
  <2>3. n[i].op # "remove_file"
    BY <1>5 DEF Moves
  <2> QED
    BY <1>4, <2>1, <2>2, <2>3
<1>6. Movable(n, st, tr, g)
  <2>1. ASSUME NEW i \in 1..Len(n), Moves(n[i])
        PROVE  /\ \A q \in Below(n[i].at) : st[q] = g[q]
               /\ \A r \in Paths : IsStrictPrefix(r, n[i].at) => tr[r] = "dir"
    BY <1>5, <2>1 DEF Moving, Movable
  <2>2. ASSUME NEW i \in 1..Len(n), NEW j \in 1..Len(n), i # j,
               Moves(n[i]), Moves(n[j]) \/ n[j].op = "remove_dir"
        PROVE  ~IsPrefix(n[i].at, n[j].at)
    <3>1. PICK k \in 1..Len(td) : /\ n[i].at = td[k].at
                                  /\ k = IF i = Len(s) THEN 1 ELSE i - Len(s) + 1
                                  /\ i = Len(s) \/ i > Len(s)
                                  /\ Moves(td[k])
      BY <1>5, <2>2
    <3>2. PICK l \in 1..Len(td) : /\ n[j].at = td[l].at
                                  /\ l = IF j = Len(s) THEN 1 ELSE j - Len(s) + 1
                                  /\ j = Len(s) \/ j > Len(s)
                                  /\ Moves(td[l]) \/ td[l].op = "remove_dir"
      BY <1>5, <2>2
    <3>3. k # l
      BY <1>2, <2>2, <3>1, <3>2
    <3> QED
      BY <3>1, <3>2, <3>3 DEF Moving, Movable
  <2> QED
    BY <2>1, <2>2 DEF Movable
<1>7. RenamesNext(n, tr, force)
  <2>1. n # <<>> /\ 1 \in 1..Len(n)
    BY <1>1, <1>2
  <2>2. ASSUME NEW i \in 1..Len(n), n[i].op = "rename"
        PROVE  i = 1 \/ (i = 2 /\ n[1].op = "remove_file")
    <3>1. i = Len(s)
      BY <1>3, <1>4, <2>2
    <3> QED
      BY <1>1, <1>2, <3>1
  <2>3. ASSUME NEW i \in 1..Len(n), n[i].op = "remove_file"
        PROVE  /\ i = 1 /\ force /\ 2 <= Len(n)
               /\ n[2] = [op |-> "rename", at |-> n[1].at]
               /\ tr[n[1].at] \in Files
    <3>1. i = 1 /\ Len(s) = 2 /\ n[i].at = a /\ tr[a] \in Files /\ force
      <4>1. i # Len(s)
        BY <1>4, <2>3
      <4> QED
        BY <1>3, <1>4, <2>3, <4>1
    <3> QED
      BY <1>1, <1>2, <1>4, <3>1
  <2>4. n[1].op = "rename" /\ ~force => tr[n[1].at] \in {"absent", "other"}
    <3>1. CASE Len(s) = 1
      <4>1. (n[1] = s[1] /\ s[1].at = a /\ tr[a] = "absent") \/ force
        BY <1>1, <1>2, <3>1
      <4> QED
        BY <4>1
    <3>2. CASE Len(s) # 1
      <4>1. Len(s) = 2
        BY <1>2, <3>2
      <4>2. n[1].op = "remove_file"
        BY <1>4, <2>1, <4>1
      <4> QED
        BY <4>2
    <3> QED
      BY <3>1, <3>2
  <2> QED
    BY <2>1, <2>2, <2>3, <2>4 DEF RenamesNext
<1>8. Covered(n, tr, g)
  <2> SUFFICES ASSUME NEW p \in Paths, ~Settled(p, tr, g)
               PROVE  \E i \in 1..Len(n) : Moves(n[i]) /\ IsPrefix(n[i].at, p)
    BY DEF Covered
  <2>1. PICK k \in 1..Len(td) : Moves(td[k]) /\ IsPrefix(td[k].at, p)
    BY DEF Moving, Covered
  <2>2. CASE k = 1
    BY <1>4, <2>1, <2>2 DEF Moves
  <2>3. CASE k # 1
    BY <1>1, <1>2, <2>1, <2>3
  <2> QED
    BY <2>2, <2>3
<1>9. \A i \in 1..Len(n) : n[i].op # "check"
  <2>1. \A k \in 2..Len(td) : td[k].op # "check"
    BY <1>2 DEF Moving
  <2>2. n[Len(s)].op # "check"
    BY <1>4
  <2> QED
    BY <1>4, <2>1, <2>2
<1> QED
  BY <1>6, <1>7, <1>8, <1>9 DEF Moving, n

\* A directory that is in both trees is merged: its entries are looked at, and
\* it is removed from the staging directory after them.
LEMMA MovingMerged ==
    ASSUME NEW td \in Seq(TaskSet), td # <<>>, NEW st, NEW tr, NEW g, NEW force,
           Moving(td, st, tr, g, force), td[1].op = "look", IsGoal(g),
           st[td[1].at] = "dir", tr[td[1].at] = "dir",
           NEW s, s = Append(Tasks("look", st, td[1].at), [op |-> "remove_dir", at |-> td[1].at])
    PROVE  s \in Seq(TaskSet) /\ Moving(s \o Tail(td), st, tr, g, force)
<1> DEFINE a == td[1].at
           c == Tasks("look", st, a)
           n == s \o Tail(td)
<1>1. a \in Paths /\ a # <<>> /\ Len(td) \in Nat /\ 1 \in 1..Len(td)
  BY TaskTypes
<1>2. /\ c \in Seq(TaskSet)
      /\ \A i \in 1..Len(c) : c[i].op = "look" /\ c[i].at \in Children(st, a)
      /\ \A i, j \in 1..Len(c) : c[i].at = c[j].at => i = j
      /\ \A d \in Children(st, a) : \E i \in 1..Len(c) : c[i].at = d
  BY <1>1, TasksFacts
<1> HIDE DEF c
<1>3. [op |-> "remove_dir", at |-> a] \in TaskSet
  BY <1>1 DEF TaskSet
<1>4. /\ s \in Seq(TaskSet) /\ Len(c) \in Nat /\ Len(s) = Len(c) + 1
      /\ \A i \in 1..Len(c) : s[i] = c[i]
      /\ s[Len(s)] = [op |-> "remove_dir", at |-> a]
  BY <1>2, <1>3 DEF c
<1>5. /\ n \in Seq(TaskSet) /\ Len(n) = Len(s) + Len(td) - 1 /\ Len(n) \in Nat
      /\ \A i \in 1..Len(s) : n[i] = s[i]
      /\ \A i \in 1..Len(n) : i > Len(s) =>
            i - Len(s) + 1 \in 2..Len(td) /\ n[i] = td[i - Len(s) + 1]
      /\ \A k \in 2..Len(td) : Len(s) + k - 1 \in 1..Len(n) /\ n[Len(s) + k - 1] = td[k]
  BY <1>1, <1>4, Replaced
<1> HIDE DEF n
<1>6. \A k \in 2..Len(td) : td[k].op \notin {"rename", "remove_file", "check"}
  BY <1>1, LooksThenNoRename DEF Moving
<1>7. /\ Moves(td[1])
      /\ \A q \in Below(a) : st[q] = g[q]
      /\ \A r \in Paths : IsStrictPrefix(r, a) => tr[r] = "dir"
      /\ \A k \in 2..Len(td) : Moves(td[k]) \/ td[k].op = "remove_dir" => ~IsPrefix(a, td[k].at)
      /\ \A k \in 2..Len(td) : Moves(td[k]) => ~IsPrefix(td[k].at, a)
  BY <1>1 DEF Moving, Movable, Moves
\* Where each task comes from.
<1>8. \A i \in 1..Len(n) :
          \/ i \in 1..Len(c) /\ n[i].op = "look" /\ n[i].at = c[i].at /\ c[i].at \in Children(st, a)
          \/ i = Len(s) /\ n[i].op = "remove_dir" /\ n[i].at = a
          \/ i > Len(s) /\ i - Len(s) + 1 \in 2..Len(td) /\ n[i] = td[i - Len(s) + 1]
  <2> SUFFICES ASSUME NEW i \in 1..Len(n)
               PROVE  \/ i \in 1..Len(c) /\ n[i].op = "look" /\ n[i].at = c[i].at
                            /\ c[i].at \in Children(st, a)
                      \/ i = Len(s) /\ n[i].op = "remove_dir" /\ n[i].at = a
                      \/ i > Len(s) /\ i - Len(s) + 1 \in 2..Len(td) /\ n[i] = td[i - Len(s) + 1]
    OBVIOUS
  <2>1. CASE i \in 1..Len(c)
    <3>1. i \in 1..Len(s) /\ s[i] = c[i]
      BY ONLY <1>4, <2>1
    <3>2. n[i] = c[i]
      BY ONLY <1>5, <3>1
    <3> QED
      BY <1>2, <2>1, <3>2
  <2>2. CASE i = Len(s)
    <3>1. i \in 1..Len(s) /\ s[i] = [op |-> "remove_dir", at |-> a]
      BY ONLY <1>4, <2>2
    <3>2. n[i] = [op |-> "remove_dir", at |-> a]
      BY ONLY <1>5, <3>1
    <3> QED
      BY <2>2, <3>2
  <2>3. CASE i > Len(s)
    BY <1>5, <2>3
  <2>4. i \in 1..Len(c) \/ i = Len(s) \/ i > Len(s)
    BY <1>4, <1>5
  <2> QED
    BY <2>1, <2>2, <2>3, <2>4
<1>9. Movable(n, st, tr, g)
  <2>1. ASSUME NEW i \in 1..Len(n), Moves(n[i])
        PROVE  /\ \A q \in Below(n[i].at) : st[q] = g[q]
               /\ \A r \in Paths : IsStrictPrefix(r, n[i].at) => tr[r] = "dir"
    <3>1. CASE n[i].at \in Children(st, a)
      <4> DEFINE d == n[i].at
      <4>1. d \in Paths /\ IsPrefix(a, d) /\ \A r \in Paths : IsStrictPrefix(r, d) => IsPrefix(r, a)
        BY <1>1, <3>1, ChildFacts
      <4> HIDE DEF d
      <4>2. Below(d) \subseteq Below(a)
        BY <1>1, <4>1, PrefixTransitive DEF Below
      <4>3. \A r \in Paths : IsStrictPrefix(r, d) => tr[r] = "dir"
        BY <1>7, <4>1 DEF IsStrictPrefix
      <4> QED
        BY <1>7, <4>2, <4>3 DEF d
    <3>2. CASE i > Len(s) /\ i - Len(s) + 1 \in 2..Len(td) /\ n[i] = td[i - Len(s) + 1]
      <4>1. PICK k \in 1..Len(td) : n[i] = td[k]
        BY <1>1, <3>2
      <4> QED
        BY <2>1, <4>1 DEF Moving, Movable
    <3> QED
      BY <1>8, <2>1, <3>1, <3>2 DEF Moves
  <2>2. ASSUME NEW i \in 1..Len(n), NEW j \in 1..Len(n), i # j,
               Moves(n[i]), Moves(n[j]) \/ n[j].op = "remove_dir", IsPrefix(n[i].at, n[j].at)
        PROVE  FALSE
    <3>1. n[i].at \in Paths /\ n[j].at \in Paths
      BY <1>5, TaskTypes
    <3>2. CASE i \in 1..Len(c) /\ n[i].at = c[i].at /\ c[i].at \in Children(st, a)
      <4>1. IsPrefix(a, n[i].at) /\ ~IsPrefix(n[i].at, a)
        BY <1>1, <3>2, ChildFacts
      <4>2. CASE j \in 1..Len(c) /\ n[j].at = c[j].at /\ c[j].at \in Children(st, a)
        <5>1. n[i].at = n[j].at
          BY <1>1, <2>2, <3>2, <4>2, ChildFacts
        <5> QED
          BY <1>2, <2>2, <3>2, <4>2, <5>1
      <4>3. CASE n[j].at = a
        BY <2>2, <4>1, <4>3
      <4>4. CASE j - Len(s) + 1 \in 2..Len(td) /\ n[j] = td[j - Len(s) + 1]
        <5>1. PICK k \in 2..Len(td) : n[j] = td[k]
          BY <4>4
        <5>2. IsPrefix(a, n[j].at)
          BY <1>1, <2>2, <3>1, <4>1, PrefixTransitive
        <5> QED
          BY <1>7, <2>2, <5>1, <5>2
      <4> QED
        BY <1>8, <4>2, <4>3, <4>4
    <3>3. CASE i > Len(s) /\ i - Len(s) + 1 \in 2..Len(td) /\ n[i] = td[i - Len(s) + 1]
      <4>1. PICK k \in 2..Len(td) : n[i] = td[k] /\ k = i - Len(s) + 1
        BY <3>3
      <4>2. ~IsPrefix(n[i].at, a) /\ ~IsPrefix(a, n[i].at)
        BY <1>7, <2>2, <4>1
      <4>3. CASE n[j].at \in Children(st, a)
        <5>1. IsPrefix(a, n[j].at)
          BY <1>1, <4>3, ChildFacts
        <5> QED
          BY <1>1, <2>2, <3>1, <4>2, <5>1, PrefixComparable
      <4>4. CASE n[j].at = a
        BY <2>2, <4>2, <4>4
      <4>5. CASE j > Len(s) /\ j - Len(s) + 1 \in 2..Len(td) /\ n[j] = td[j - Len(s) + 1]
        <5>1. PICK l \in 2..Len(td) : n[j] = td[l] /\ l = j - Len(s) + 1
          BY <4>5
        <5>2. k # l /\ k \in 1..Len(td) /\ l \in 1..Len(td)
          <6>1. i # j /\ i \in Int /\ j \in Int /\ Len(s) \in Nat /\ Len(td) \in Nat
            BY <1>1, <1>4, <2>2
          <6> QED BY <4>1, <5>1, <6>1
        <5> HIDE DEF n
        <5>3. /\ Moves(td[k]) /\ IsPrefix(td[k].at, td[l].at)
              /\ Moves(td[l]) \/ td[l].op = "remove_dir"
          BY <2>2, <4>1, <5>1
        <5>4. \A x, y \in 1..Len(td) :
                 Moves(td[x]) /\ x # y /\ (Moves(td[y]) \/ td[y].op = "remove_dir") =>
                     ~IsPrefix(td[x].at, td[y].at)
          BY DEF Moving, Movable
        <5> QED BY <5>2, <5>3, <5>4
      <4> QED
        BY <1>8, <4>3, <4>4, <4>5
    <3>4. n[i].op # "remove_dir"
      BY <2>2 DEF Moves
    <3> QED
      BY <1>8, <3>2, <3>3, <3>4
  <2> QED
    BY <2>1, <2>2 DEF Movable
<1>10. \A i \in 1..Len(n) : n[i].op \notin {"rename", "remove_file", "check"}
  BY <1>6, <1>8
<1>11. RenamesNext(n, tr, force)
  <2>1. n # <<>> => 1 \in 1..Len(n)
    BY <1>5
  <2> QED
    BY <1>10, <2>1 DEF RenamesNext
<1>12. Covered(n, tr, g)
  <2> SUFFICES ASSUME NEW p \in Paths, ~Settled(p, tr, g)
               PROVE  \E i \in 1..Len(n) : Moves(n[i]) /\ IsPrefix(n[i].at, p)
    BY DEF Covered
  <2>1. PICK k \in 1..Len(td) : Moves(td[k]) /\ IsPrefix(td[k].at, p)
    BY DEF Moving, Covered
  <2>2. CASE k = 1
    <3>1. g[p] # "absent" /\ tr[p] # g[p]
      BY DEF Settled
    <3>2. p # a
      <4>1. a \in Below(a)
        BY <1>1, PrefixReflexive DEF Below
      <4> QED
        BY <1>7, <3>1, <4>1
    <3>3. st[p] = g[p] /\ IsStrictPrefix(a, p)
      BY <1>7, <2>1, <2>2, <3>2 DEF Below, IsStrictPrefix
    <3>4. PICK d \in Children(g, a) : IsPrefix(d, p)
      BY <1>1, <3>1, <3>3, TreeChild DEF IsGoal
    <3>5. d \in Children(st, a)
      BY <1>7, <3>4 DEF Children
    <3>6. PICK i \in 1..Len(c) : c[i].at = d
      BY <1>2, <3>5
    <3>7. i \in 1..Len(s) /\ s[i] = c[i]
      BY ONLY <1>4, <3>6
    <3>8. i \in 1..Len(n)
      BY ONLY <1>1, <1>4, <1>5, <3>7
    <3>9. n[i] = c[i]
      BY ONLY <1>5, <3>7
    <3>10. n[i].op = "look" /\ n[i].at = d
      BY ONLY <1>2, <3>6, <3>9
    <3> QED
      BY <3>4, <3>8, <3>10 DEF Moves
  <2>3. CASE k # 1
    <3>1. k \in 2..Len(td)
      BY <1>1, <2>3
    <3> QED
      BY <1>5, <2>1, <3>1
  <2> QED
    BY <2>2, <2>3
<1> QED
  BY <1>4, <1>9, <1>10, <1>11, <1>12 DEF Moving, n

\* The tasks after one task is done.
LEMMA OneLess ==
    ASSUME NEW td \in Seq(TaskSet), td # <<>>
    PROVE  /\ Tail(td) \in Seq(TaskSet)
           /\ Len(Tail(td)) = Len(td) - 1
           /\ \A i \in 1..Len(Tail(td)) : i + 1 \in 2..Len(td) /\ Tail(td)[i] = td[i + 1]
           /\ \A k \in 2..Len(td) : k - 1 \in 1..Len(Tail(td)) /\ Tail(td)[k - 1] = td[k]
<1>1. /\ Tail(td) \in Seq(TaskSet) /\ Len(Tail(td)) = Len(td) - 1 /\ Len(td) \in Nat
      /\ \A i \in 1..Len(Tail(td)) : Tail(td)[i] = td[i + 1]
  BY HeadTailProperties
<1>2. ASSUME NEW k \in 2..Len(td)
      PROVE  k - 1 \in 1..Len(Tail(td)) /\ Tail(td)[k - 1] = td[k]
  <2>1. k - 1 \in 1..Len(Tail(td)) /\ (k - 1) + 1 = k
    BY <1>1
  <2> QED
    BY <1>1, <2>1
<1> QED
  BY <1>1, <1>2

\* What is staged, and what is at the destination, after a rename.
Renamed(st, tr, a) == [q \in Paths |-> IF q \in Below(a) THEN st[q] ELSE tr[q]]
Gone(st, a) == [q \in Paths |-> IF q \in Below(a) THEN "absent" ELSE st[q]]

LEMMA RenamedTree ==
    ASSUME NEW a \in Paths, a # <<>>, NEW st, NEW tr, NEW g, IsTree(tr), IsGoal(g),
           \A q \in Below(a) : st[q] = g[q],
           \A r \in Paths : IsStrictPrefix(r, a) => tr[r] = "dir"
    PROVE  /\ IsTree(Renamed(st, tr, a))
           /\ Renamed(st, tr, a)[<<>>] = tr[<<>>]
<1> DEFINE t == Renamed(st, tr, a)
<1>1. /\ \A q \in Paths : q \in Below(a) => t[q] = g[q]
      /\ \A q \in Paths : q \notin Below(a) => t[q] = tr[q]
  BY DEF Renamed
<1>2. t \in [Paths -> {"absent", "dir"} \cup Files]
  <2>1. \A q \in Paths : t[q] \in {"absent", "dir"} \cup Files
    BY <1>1 DEF IsTree, IsGoal
  <2> QED
    BY <2>1 DEF Renamed
<1> HIDE DEF t
<1>3. ASSUME NEW p \in Paths, NEW q \in Paths, t[q] # "absent", IsStrictPrefix(p, q)
      PROVE  t[p] = "dir"
  <2>1. IsPrefix(p, q) /\ p # q
    BY <1>3 DEF IsStrictPrefix
  <2>2. CASE q \in Below(a) /\ p \in Below(a)
    BY <1>1, <1>3, <2>1, <2>2, TreeAbove DEF IsGoal
  <2>3. CASE q \in Below(a) /\ p \notin Below(a)
    <3>1. IsPrefix(a, q) /\ ~IsPrefix(a, p)
      BY <2>3 DEF Below
    <3>2. IsPrefix(p, a) /\ p # a
      BY <2>1, <3>1, PrefixComparable, PrefixReflexive
    <3> QED
      BY <1>1, <2>3, <3>2 DEF IsStrictPrefix
  <2>4. CASE q \notin Below(a)
    <3>1. p \notin Below(a)
      BY <2>1, <2>4, PrefixTransitive DEF Below
    <3> QED
      BY <1>1, <1>3, <2>1, <2>4, <3>1, TreeAbove
  <2> QED
    BY <2>2, <2>3, <2>4
<1>4. t[<<>>] = tr[<<>>]
  BY <1>1, RootAbove DEF Below
<1> QED
  BY <1>2, <1>3, <1>4 DEF IsTree, t

LEMMA MovingRenamed ==
    ASSUME NEW td \in Seq(TaskSet), td # <<>>, NEW st, NEW tr, NEW g, NEW force,
           Moving(td, st, tr, g, force), td[1].op = "rename"
    PROVE  LET a == td[1].at IN
           Moving(Tail(td), Gone(st, a), Renamed(st, tr, a), g, force)
<1> DEFINE a == td[1].at
           n == Tail(td)
           t == Renamed(st, tr, a)
           u == Gone(st, a)
<1>1. a \in Paths /\ a # <<>> /\ Len(td) \in Nat /\ 1 \in 1..Len(td) /\ Moves(td[1])
  BY TaskTypes DEF Moves
<1>2. /\ n \in Seq(TaskSet) /\ Len(n) = Len(td) - 1
      /\ \A i \in 1..Len(n) : i + 1 \in 2..Len(td) /\ n[i] = td[i + 1]
      /\ \A k \in 2..Len(td) : k - 1 \in 1..Len(n) /\ n[k - 1] = td[k]
  BY OneLess
<1>3. \A k \in 2..Len(td) : td[k].op \notin {"rename", "remove_file", "check"}
  BY <1>1, LooksThenNoRename DEF Moving
<1>4. /\ \A q \in Below(a) : st[q] = g[q]
      /\ \A k \in 2..Len(td) : Moves(td[k]) => ~IsPrefix(a, td[k].at) /\ ~IsPrefix(td[k].at, a)
  BY <1>1 DEF Moving, Movable
<1>5. /\ \A q \in Paths : q \in Below(a) => t[q] = st[q]
      /\ \A q \in Paths : q \notin Below(a) => t[q] = tr[q] /\ u[q] = st[q]
  BY DEF Renamed, Gone
<1> HIDE DEF n, t, u
<1>6. Movable(n, u, t, g)
  <2>1. ASSUME NEW i \in 1..Len(n), Moves(n[i])
        PROVE  /\ \A q \in Below(n[i].at) : u[q] = g[q]
               /\ \A r \in Paths : IsStrictPrefix(r, n[i].at) => t[r] = "dir"
    <3>1. PICK k \in 2..Len(td) : n[i] = td[k]
      BY <1>2
    <3>2. k \in 1..Len(td)
      BY <1>1
    <3> DEFINE b == td[k].at
    <3>3. /\ \A q \in Below(b) : st[q] = g[q]
          /\ \A r \in Paths : IsStrictPrefix(r, b) => tr[r] = "dir"
      BY <2>1, <3>1, <3>2 DEF Moving, Movable
    <3>4. b \in Paths /\ ~IsPrefix(a, b) /\ ~IsPrefix(b, a)
      BY <1>4, <2>1, <3>1, <3>2, TaskTypes
    <3> HIDE DEF b
    <3>5. ASSUME NEW q \in Below(b)
          PROVE  q \in Paths /\ q \notin Below(a)
      BY <1>1, <3>4, PrefixComparable DEF Below
    <3>6. ASSUME NEW r \in Paths, IsStrictPrefix(r, b)
          PROVE  r \notin Below(a)
      BY <1>1, <3>4, <3>6, PrefixTransitive DEF Below, IsStrictPrefix
    <3> QED
      BY <1>5, <3>1, <3>3, <3>5, <3>6 DEF b
  <2>2. ASSUME NEW i \in 1..Len(n), NEW j \in 1..Len(n), i # j,
               Moves(n[i]), Moves(n[j]) \/ n[j].op = "remove_dir"
        PROVE  ~IsPrefix(n[i].at, n[j].at)
    <3>1. i + 1 \in 1..Len(td) /\ j + 1 \in 1..Len(td) /\ i + 1 # j + 1
      BY <1>1, <1>2, <2>2
    <3>2. n[i] = td[i + 1] /\ n[j] = td[j + 1]
      BY <1>2
    <3> QED
      BY <2>2, <3>1, <3>2 DEF Moving, Movable
  <2> QED
    BY <2>1, <2>2 DEF Movable
<1>7. \A i \in 1..Len(n) : n[i].op \notin {"rename", "remove_file", "check"}
  BY <1>2, <1>3
<1>8. RenamesNext(n, t, force)
  <2>1. n # <<>> => 1 \in 1..Len(n)
    BY <1>2, TaskTypes
  <2> QED
    BY <1>7, <2>1 DEF RenamesNext
<1>9. Covered(n, t, g)
  <2> SUFFICES ASSUME NEW p \in Paths, ~Settled(p, t, g)
               PROVE  \E i \in 1..Len(n) : Moves(n[i]) /\ IsPrefix(n[i].at, p)
    BY DEF Covered
  <2>1. p \notin Below(a)
    BY <1>4, <1>5 DEF Settled
  <2>2. ~Settled(p, tr, g)
    BY <1>5, <2>1 DEF Settled
  <2>3. PICK k \in 1..Len(td) : Moves(td[k]) /\ IsPrefix(td[k].at, p)
    BY <2>2 DEF Moving, Covered
  <2>4. k \in 2..Len(td)
    BY <1>1, <2>1, <2>3 DEF Below
  <2> QED
    BY <1>2, <2>3, <2>4
<1> QED
  BY <1>6, <1>7, <1>8, <1>9 DEF Moving, n, t, u

\* A file is removed before another takes its place.
LEMMA FileRemovedTree ==
    ASSUME NEW a \in Paths, NEW tr, IsTree(tr), tr[a] \in Files
    PROVE  /\ IsTree([tr EXCEPT ![a] = "absent"])
           /\ tr[<<>>] = "dir" => [tr EXCEPT ![a] = "absent"][<<>>] = "dir"
<1> DEFINE t == [tr EXCEPT ![a] = "absent"]
<1>1. /\ t \in [Paths -> {"absent", "dir"} \cup Files]
      /\ \A q \in Paths : t[q] = IF q = a THEN "absent" ELSE tr[q]
  BY DEF IsTree
<1>2. tr[a] # "dir"
  BY DEF Files
<1>3. \A p, q \in Paths : t[q] # "absent" /\ IsStrictPrefix(p, q) => t[p] = "dir"
  BY <1>1, <1>2 DEF IsTree
<1>4. <<>> \in Paths
  BY PathsAssumption
<1> QED
  BY <1>1, <1>2, <1>3, <1>4 DEF IsTree

LEMMA MovingFileRemoved ==
    ASSUME NEW td \in Seq(TaskSet), td # <<>>, NEW st, NEW tr, NEW g, NEW force,
           Moving(td, st, tr, g, force), td[1].op = "remove_file", IsTree(tr)
    PROVE  Moving(Tail(td), st, [tr EXCEPT ![td[1].at] = "absent"], g, force)
<1> DEFINE a == td[1].at
           n == Tail(td)
           t == [tr EXCEPT ![a] = "absent"]
<1>1. a \in Paths /\ a # <<>> /\ Len(td) \in Nat /\ 1 \in 1..Len(td)
  BY TaskTypes
<1>2. /\ n \in Seq(TaskSet) /\ Len(n) = Len(td) - 1
      /\ \A i \in 1..Len(n) : i + 1 \in 2..Len(td) /\ n[i] = td[i + 1]
      /\ \A k \in 2..Len(td) : k - 1 \in 1..Len(n) /\ n[k - 1] = td[k]
  BY OneLess
<1>3. force /\ 2 <= Len(td) /\ td[2] = [op |-> "rename", at |-> a] /\ tr[a] \in Files
  BY <1>1 DEF Moving, RenamesNext
<1>4. \A q \in Paths : t[q] = IF q = a THEN "absent" ELSE tr[q]
  BY DEF IsTree
<1> HIDE DEF n, t
<1>5. Movable(n, st, t, g)
  <2>1. ASSUME NEW i \in 1..Len(n), Moves(n[i])
        PROVE  /\ \A q \in Below(n[i].at) : st[q] = g[q]
               /\ \A r \in Paths : IsStrictPrefix(r, n[i].at) => t[r] = "dir"
    <3>1. i + 1 \in 1..Len(td) /\ n[i] = td[i + 1]
      BY <1>1, <1>2
    <3>2. /\ \A q \in Below(n[i].at) : st[q] = g[q]
          /\ \A r \in Paths : IsStrictPrefix(r, n[i].at) => tr[r] = "dir"
      BY <2>1, <3>1 DEF Moving, Movable
    <3>3. tr[a] # "dir"
      BY <1>3 DEF Files
    <3> QED
      BY <1>4, <3>2, <3>3
  <2>2. ASSUME NEW i \in 1..Len(n), NEW j \in 1..Len(n), i # j,
               Moves(n[i]), Moves(n[j]) \/ n[j].op = "remove_dir"
        PROVE  ~IsPrefix(n[i].at, n[j].at)
    <3>1. i + 1 \in 1..Len(td) /\ j + 1 \in 1..Len(td) /\ i + 1 # j + 1
      BY <1>1, <1>2, <2>2
    <3>2. n[i] = td[i + 1] /\ n[j] = td[j + 1]
      BY <1>2
    <3> QED
      BY <2>2, <3>1, <3>2 DEF Moving, Movable
  <2> QED
    BY <2>1, <2>2 DEF Movable
<1>6. 1 \in 1..Len(n) /\ n[1] = [op |-> "rename", at |-> a]
  <2>1. 2 \in 2..Len(td) /\ 2 - 1 = 1
    BY <1>1, <1>3
  <2> QED
    BY <1>2, <1>3, <2>1
<1>7. RenamesNext(n, t, force)
  <2>1. ASSUME NEW i \in 1..Len(n)
        PROVE  (n[i].op = "rename" => i = 1) /\ n[i].op # "remove_file"
    <3>1. i + 1 \in 2..Len(td) /\ n[i] = td[i + 1]
      BY <1>2
    <3>2. i + 1 \in 1..Len(td) /\ i + 1 # 1
      BY <1>1, <3>1
    <3>3. i + 1 = 2 => i = 1
      BY <1>1, <3>1
    <3> QED
      BY <3>1, <3>2, <3>3 DEF Moving, RenamesNext
  <2> QED
    BY <1>3, <2>1 DEF RenamesNext
<1>8. Covered(n, t, g)
  <2> SUFFICES ASSUME NEW p \in Paths, ~Settled(p, t, g)
               PROVE  \E i \in 1..Len(n) : Moves(n[i]) /\ IsPrefix(n[i].at, p)
    BY DEF Covered
  <2>1. CASE p = a
    BY <1>1, <1>6, <2>1, PrefixReflexive DEF Moves
  <2>2. CASE p # a
    <3>1. ~Settled(p, tr, g)
      BY <1>4, <2>2 DEF Settled
    <3>2. PICK k \in 1..Len(td) : Moves(td[k]) /\ IsPrefix(td[k].at, p)
      BY <3>1 DEF Moving, Covered
    <3>3. k \in 2..Len(td)
      BY <1>1, <3>2 DEF Moves
    <3> QED
      BY <1>2, <3>2, <3>3
  <2> QED
    BY <2>1, <2>2
<1>9. \A i \in 1..Len(n) : n[i].op # "check"
  <2>1. \A k \in 2..Len(td) : td[k].op # "check"
    BY <1>1 DEF Moving
  <2> QED
    BY <1>2, <2>1
<1> QED
  BY <1>5, <1>7, <1>8, <1>9 DEF Moving, n, t

\* A directory whose entries have been moved is removed where it was staged.
LEMMA MovingDirectoryRemoved ==
    ASSUME NEW td \in Seq(TaskSet), td # <<>>, NEW st, DOMAIN st = Paths, NEW tr, NEW g, NEW force,
           Moving(td, st, tr, g, force), td[1].op = "remove_dir"
    PROVE  Moving(Tail(td), [st EXCEPT ![td[1].at] = "absent"], tr, g, force)
<1> DEFINE a == td[1].at
           n == Tail(td)
           u == [st EXCEPT ![a] = "absent"]
<1>1. a \in Paths /\ Len(td) \in Nat /\ 1 \in 1..Len(td)
  BY TaskTypes
<1>2. /\ n \in Seq(TaskSet) /\ Len(n) = Len(td) - 1
      /\ \A i \in 1..Len(n) : i + 1 \in 2..Len(td) /\ n[i] = td[i + 1]
      /\ \A k \in 2..Len(td) : k - 1 \in 1..Len(n) /\ n[k - 1] = td[k]
  BY OneLess
<1>3. \A k \in 2..Len(td) : td[k].op \notin {"rename", "remove_file", "check"}
  BY <1>1, LooksThenNoRename DEF Moving
<1>4. \A k \in 2..Len(td) : Moves(td[k]) => ~IsPrefix(td[k].at, a)
  BY <1>1 DEF Moving, Movable
<1>5. \A q \in Paths : q # a => u[q] = st[q]
  OBVIOUS
<1> HIDE DEF n, u
<1>6. Movable(n, u, tr, g)
  <2>1. ASSUME NEW i \in 1..Len(n), Moves(n[i])
        PROVE  /\ \A q \in Below(n[i].at) : u[q] = g[q]
               /\ \A r \in Paths : IsStrictPrefix(r, n[i].at) => tr[r] = "dir"
    <3>1. i + 1 \in 2..Len(td) /\ i + 1 \in 1..Len(td) /\ n[i] = td[i + 1]
      BY <1>1, <1>2
    <3>2. /\ \A q \in Below(n[i].at) : st[q] = g[q]
          /\ \A r \in Paths : IsStrictPrefix(r, n[i].at) => tr[r] = "dir"
      BY <2>1, <3>1 DEF Moving, Movable
    <3>3. a \notin Below(n[i].at)
      BY <1>4, <2>1, <3>1 DEF Below
    <3>4. \A q \in Below(n[i].at) : q \in Paths /\ q # a
      BY <3>3 DEF Below
    <3> QED
      BY <1>5, <3>2, <3>4
  <2>2. ASSUME NEW i \in 1..Len(n), NEW j \in 1..Len(n), i # j,
               Moves(n[i]), Moves(n[j]) \/ n[j].op = "remove_dir"
        PROVE  ~IsPrefix(n[i].at, n[j].at)
    <3>1. i + 1 \in 1..Len(td) /\ j + 1 \in 1..Len(td) /\ i + 1 # j + 1
      BY <1>1, <1>2, <2>2
    <3>2. n[i] = td[i + 1] /\ n[j] = td[j + 1]
      BY <1>2
    <3> QED
      BY <2>2, <3>1, <3>2 DEF Moving, Movable
  <2> QED
    BY <2>1, <2>2 DEF Movable
<1>7. \A i \in 1..Len(n) : n[i].op \notin {"rename", "remove_file", "check"}
  BY <1>2, <1>3
<1>8. RenamesNext(n, tr, force)
  <2>1. n # <<>> => 1 \in 1..Len(n)
    BY <1>2, TaskTypes
  <2> QED
    BY <1>7, <2>1 DEF RenamesNext
<1>9. Covered(n, tr, g)
  <2> SUFFICES ASSUME NEW p \in Paths, ~Settled(p, tr, g)
               PROVE  \E i \in 1..Len(n) : Moves(n[i]) /\ IsPrefix(n[i].at, p)
    BY DEF Covered
  <2>1. PICK k \in 1..Len(td) : Moves(td[k]) /\ IsPrefix(td[k].at, p)
    BY DEF Moving, Covered
  <2>2. k \in 2..Len(td)
    BY <1>1, <2>1 DEF Moves
  <2> QED
    BY <1>2, <2>1, <2>2
<1> QED
  BY <1>6, <1>7, <1>8, <1>9 DEF Moving, n, u

\* Another process makes a file where nothing is.
LEMMA OtherTree ==
    ASSUME NEW tr, IsTree(tr), NEW a \in Paths, a # <<>>, tr[a] = "absent", tr[Front(a)] = "dir"
    PROVE  /\ IsTree([tr EXCEPT ![a] = "other"])
           /\ \A p \in Paths : tr[p] # "absent" => [tr EXCEPT ![a] = "other"][p] = tr[p]
           /\ [tr EXCEPT ![a] = "other"][<<>>] = tr[<<>>]
<1> DEFINE t == [tr EXCEPT ![a] = "other"]
<1>1. /\ t \in [Paths -> {"absent", "dir"} \cup Files]
      /\ \A q \in Paths : t[q] = IF q = a THEN "other" ELSE tr[q]
  BY DEF IsTree, Files
<1>2. ASSUME NEW p \in Paths, NEW q \in Paths, t[q] # "absent", IsStrictPrefix(p, q)
      PROVE  t[p] = "dir"
  <2>1. CASE q = a
    <3>1. IsPrefix(p, Front(a)) /\ Front(a) \in Paths
      BY <1>2, <2>1, FrontAbove
    <3>2. tr[p] = "dir"
      BY <3>1, TreeAbove
    <3> QED
      BY <1>1, <3>2
  <2>2. CASE q # a
    BY <1>1, <1>2, <2>2 DEF IsTree
  <2> QED
    BY <2>1, <2>2
<1>3. <<>> \in Paths
  BY PathsAssumption
<1> QED
  BY <1>1, <1>2, <1>3 DEF IsTree

LEMMA MovingOther ==
    ASSUME NEW td \in Seq(TaskSet), NEW st, NEW tr, NEW g, NEW force,
           Moving(td, st, tr, g, force), NEW t,
           \A p \in Paths : tr[p] # "absent" => t[p] = tr[p],
           \A p \in Paths : tr[p] = "absent" => t[p] \in {"absent", "other"}
    PROVE  Moving(td, st, t, g, force)
<1>1. Movable(td, st, t, g)
  BY DEF Moving, Movable
<1>2. RenamesNext(td, t, force)
  <2>1. td # <<>> => 1 \in 1..Len(td) /\ td[1].at \in Paths
    BY TaskTypes
  <2>2. ASSUME NEW i \in 1..Len(td)
        PROVE  /\ td[i].op = "rename" => i = 1 \/ (i = 2 /\ td[1].op = "remove_file")
               /\ td[i].op = "remove_file" =>
                    /\ i = 1
                    /\ force
                    /\ 2 <= Len(td)
                    /\ td[2] = [op |-> "rename", at |-> td[1].at]
                    /\ t[td[1].at] \in Files
    <3>1. td # <<>>
      OBVIOUS
    <3> QED
      BY <2>1, <3>1 DEF Moving, RenamesNext, Files
  <2>3. ASSUME td # <<>>, td[1].op = "rename", ~force
        PROVE  t[td[1].at] \in {"absent", "other"}
    BY <2>1, <2>3 DEF Moving, RenamesNext
  <2> QED
    BY <2>2, <2>3 DEF RenamesNext
<1>3. Covered(td, t, g)
  <2>1. \A p \in Paths : Settled(p, tr, g) => Settled(p, t, g)
    BY DEF Settled
  <2> QED
    BY <2>1 DEF Moving, Covered
<1> QED
  BY <1>1, <1>2, <1>3 DEF Moving

------------------------------------------------------------------------------
(* The invariant of the program.                                            *)

Archives == {i \in 1..Len(run.inputs) : run.inputs[i].kind # "stream"}
Goal == [p \in Paths |-> Holds(p)]

Writing == stage \in {"creating", "coding", "persisting", "metadata", "removing"}

\* What contents are made of (the provers do not know a string when they see it).
Words == STRING \cup {"made", "other"}

StreamTypes ==
    /\ run \in Runs
    /\ turn \in Nat \ {0}
    /\ stage \in {"preparing", "next", "creating", "coding", "persisting", "metadata", "removing",
                  "extracting", "ended", "error"}
    /\ Writing \/ stage = "extracting" => turn <= Len(run.inputs)
    /\ DOMAIN files = DOMAIN run.files
    /\ \A n \in DOMAIN files : files[n] \in Seq(Words)
    /\ source \in Seq(Words)
    /\ size \in Nat
    /\ rm => run.command \in {"compress", "decompress"}

\* What is persisted is whole and within the limit.
WholeInv ==
    /\ ~Unlimited => size <= MaxOutput
    /\ Writing /\ stage # "removing" => Input.kind = "stream"
    /\ stage = "persisting" \/ (stage = "creating" /\ run.command = "index") =>
          Input.sound /\ size = Input.size

\* With --rm the input is there, unchanged and apart from the output, and when
\* its turn to be removed comes the output is in place.
RemovalInv ==
    rm /\ Writing /\ Input.kind = "stream" =>
        /\ ~Same
        /\ Input.path # "-" => Exists(Input.path) /\ files[Input.path] = source
        /\ stage \in {"metadata", "removing"} => files[Input.output] = Made(source)

\* One archive is unpacked, once, and nothing is committed before its verdict.
\* Its destination has been made before.
UnpackInv ==
    /\ archive = run.archive
    /\ stream = archive.stream
    /\ stream \in Streams
    /\ verdict # "none" <=> unpacker = "answered"
    /\ unpacker # "waiting" =>
          \E i \in Archives : i < turn \/ (i = turn /\ stage # "next")
    /\ stage = "extracting" => turn \in Archives /\ unpacker # "waiting"
    /\ stage = "removing" /\ turn \in Archives => verdict = "ok" /\ commit = "done"
    /\ commit # "waiting" => verdict = "ok"
    /\ stage = "preparing" => unpacker = "waiting"
    /\ stage \in {"preparing", "error"} \/ tree[<<>>] = "dir"

\* What the decoder of a tar archive has answered, and why the crate has failed.
TarInv ==
    "tar" \in Kinds =>
        /\ unpacker \in {"waiting", "staging", "extracting", "draining", "dropping", "joining",
                        "answered"}
        /\ sent \in 0..Len(stream.ends)
        /\ sent # 0 => stream.ends[sent] <= MaxOutput
        /\ decoder \in {"decoding", "sending", "finished", "closed", "ended"}
        /\ decoder = "sending" => sent < Len(stream.ends) /\ stream.ends[sent + 1] <= MaxOutput
        /\ decoded = "none" <=> decoder \in {"decoding", "sending"}
        /\ decoded # "none" =>
              \/ decoded = stream.outcome /\ sent = Len(stream.ends)
              \/ decoded = "broken pipe" /\ cancelled
              \/ decoded = "bad" /\ ~Fits(stream.ends)
        /\ cancelled \in BOOLEAN
        /\ cancelled <=> unpacker = "joining" \/ (unpacker = "answered" /\ extracted # "none")
        /\ extracted \in {"none", "ok", "archive", "io"}
        /\ unpacker \in {"waiting", "staging", "extracting"} => extracted = "none"
        /\ unpacker \in {"draining", "dropping", "joining"} => extracted # "none"
        /\ unpacker = "draining" => extracted = "ok"
        /\ extracted = "ok" /\ unpacker # "draining" =>
              decoder \in {"closed", "ended"} /\ decoded # "broken pipe"
        /\ extracted = "archive" =>
              \/ archive.ends = "archive"
              \/ /\ decoded \notin {"none", "broken pipe"}
                 /\ decoded = "ok" => Last(stream.ends) < archive.reads
        /\ extracted = "ok" /\ commit = "waiting" => staged = archive.holds

\* An entry of a ZIP archive that has something at its place.
Created(i) ==
    \/ Entries[i].kind = "file" /\ work[i] \notin {"waiting", "unmade"}
    \/ Entries[i].kind = "link" /\ work[i] = "done"

ZipTree ==
    [p \in Paths |->
        IF Prepared[p] = "dir" THEN "dir"
        ELSE IF \E i \in DOMAIN Entries : Entries[i].path = p /\ Created(i) THEN "entry"
        ELSE "absent"]

\* What is staged is what has been created; the data of an entry is found wrong
\* only when it is; and no entry is in another's way.
States == {"waiting", "decoding", "done", "failed", "blamed", "unmade", "unfinished"}

ZipInv ==
    "zip" \in Kinds =>
        /\ unpacker \in {"waiting", "parsing", "within", "across", "answered"}
        /\ DOMAIN work = DOMAIN Entries
        /\ DOMAIN written = DOMAIN Entries
        /\ \A i \in DOMAIN Entries :
              /\ work[i] \in States
              /\ written[i] \in Nat
              /\ work[i] = "decoding" =>
                    Entries[i].kind # "dir" /\ unpacker \in {"within", "across"}
              /\ work[i] = "decoding" /\ unpacker = "within" => Entries[i].large = TRUE
              /\ work[i] = "done" /\ Entries[i].kind # "dir" =>
                    Entries[i].sound /\ Entries[i].decodes = Entries[i].size
              /\ work[i] = "failed" => ~Valid
              /\ unpacker \in {"waiting", "parsing"} => work[i] = "waiting"
        /\ unpacker \in {"within", "across"} \/ verdict = "ok" => Accepted
        /\ unpacker = "across" => AllDone(TRUE)
        /\ verdict = "ok" => AllDone(TRUE) /\ AllDone(FALSE)
        /\ unpacker \in {"within", "across"} \/ (verdict = "ok" /\ commit = "waiting") =>
              staged = ZipTree

CommitInv ==
    /\ IsTree(tree)
    /\ DOMAIN staged = Paths
    /\ unpacker # "waiting" => tree[<<>>] = "dir"
    /\ commit \in {"checking", "moving", "done"} => tree[<<>>] = "dir"
    /\ verdict = "ok" /\ commit \in {"waiting", "checking"} => staged = Goal
    /\ todo \in Seq(TaskSet)
    /\ commit = "checking" => \A i \in 1..Len(todo) : todo[i].op = "check"
    /\ commit = "moving" => Moving(todo, staged, tree, Goal, overwrite)
    /\ commit = "done" => \A p \in Paths : Settled(p, tree, Goal)

CIInv ==
    /\ StreamTypes
    /\ WholeInv
    /\ RemovalInv
    /\ UnpackInv
    /\ BlameTruthful
    /\ TarInv
    /\ ZipInv
    /\ CommitInv

------------------------------------------------------------------------------
(* What is fixed with the run.                                              *)

LEMMA Fixed ==
    ASSUME UNCHANGED <<run, archive>>
    PROVE  /\ Archives' = Archives /\ Kinds' = Kinds /\ Entries' = Entries
           /\ Prepared' = Prepared /\ Goal' = Goal
           /\ Accepted' <=> Accepted
<1>1. Archives' = Archives /\ Kinds' = Kinds /\ Entries' = Entries
  BY DEF Archives, Kinds, Entries
<1>2. Prepared' = Prepared
  BY <1>1 DEF Prepared
<1>3. Goal' = Goal
  BY <1>1, <1>2 DEF Goal, Holds
<1>4. Accepted' <=> Accepted
  BY <1>1 DEF Accepted, ValidLayout, Declared
<1> QED
  BY <1>1, <1>2, <1>3, <1>4

LEMMA FixedValid ==
    ASSUME UNCHANGED <<run, archive, stream>>
    PROVE  Valid' <=> Valid
BY DEF Valid, Entries, Fits

LEMMA InputFacts ==
    ASSUME StreamTypes, turn <= Len(run.inputs)
    PROVE  /\ Input.path \in DOMAIN files /\ Input.output \in DOMAIN files
           /\ Input.size \in Nat
           /\ Input.kind \in {"stream", "tar", "zip"}
           /\ turn \in 1..Len(run.inputs)
           /\ turn \in Archives <=> Input.kind # "stream"
           /\ Input.kind \in Kinds
           /\ run.command \in {"compress", "create", "decompress", "index"}
           /\ "-" \in DOMAIN files
           /\ MaxOutput \in Nat
<1>1. Len(run.inputs) \in Nat /\ turn \in 1..Len(run.inputs)
  BY RunsAssumption DEF StreamTypes
<1> QED
  BY <1>1, RunsAssumption DEF StreamTypes, Input, Archives, Kinds

\* Bound: there is one archive, of one kind.
LEMMA OneArchive ==
    ASSUME run \in Runs
    PROVE  /\ \A i, j \in Archives : i = j
           /\ ~("tar" \in Kinds /\ "zip" \in Kinds)
           /\ \A i \in Archives : run.inputs[i].kind \in Kinds
           /\ Archives # {} => "tar" \in Kinds \/ "zip" \in Kinds
<1>1. \A i, j \in Archives : i = j
  BY RunsAssumption DEF Archives
<1>2. \A i \in Archives : run.inputs[i].kind \in Kinds /\ run.inputs[i].kind \in {"tar", "zip"}
  BY RunsAssumption DEF Archives, Kinds
<1>3. ~("tar" \in Kinds /\ "zip" \in Kinds)
  <2> SUFFICES ASSUME "tar" \in Kinds, "zip" \in Kinds
               PROVE  FALSE
    OBVIOUS
  <2>1. PICK i \in 1..Len(run.inputs) : run.inputs[i].kind = "tar"
    BY DEF Kinds
  <2>2. PICK j \in 1..Len(run.inputs) : run.inputs[j].kind = "zip"
    BY DEF Kinds
  <2> QED
    BY <1>1, <2>1, <2>2 DEF Archives
<1>4. Archives # {} => "tar" \in Kinds \/ "zip" \in Kinds
  <2> SUFFICES ASSUME NEW i \in Archives
               PROVE  "tar" \in Kinds \/ "zip" \in Kinds
    OBVIOUS
  <2> QED
    BY <1>2
<1> QED
  BY <1>1, <1>2, <1>3, <1>4

LEMMA EntryFacts ==
    ASSUME run \in Runs, archive = run.archive
    PROVE  /\ \A i \in DOMAIN Entries :
                 /\ Entries[i].path \in Paths
                 /\ Entries[i].kind \in {"dir", "file", "link"}
                 /\ Entries[i].large \in BOOLEAN
                 /\ Entries[i].stored \in BOOLEAN
                 /\ Entries[i].size \in Nat /\ Entries[i].decodes \in Nat
           /\ "tar" \in Kinds =>
                 /\ Entries = <<>>
                 /\ archive.stream.ends # <<>>
                 /\ archive.ends \in {"ok", "archive"}
                 /\ IsGoal(archive.holds)
           /\ "zip" \in Kinds => archive.stream = [ends |-> <<>>, outcome |-> "ok"]
BY RunsAssumption DEF Entries, Kinds, IsGoal

LEMMA TarGoal ==
    ASSUME run \in Runs, archive = run.archive, "tar" \in Kinds
    PROVE  Goal = archive.holds /\ IsGoal(Goal)
<1>1. IsGoal(archive.holds)
  BY EntryFacts
<1>2. archive.holds = [p \in Paths |-> archive.holds[p]]
  BY <1>1 DEF IsGoal, IsTree
<1> QED
  BY <1>1, <1>2 DEF Goal, Holds

LEMMA PreparedAt ==
    ASSUME NEW p \in Paths
    PROVE  /\ Prepared[p] \in {"dir", "absent"}
           /\ Prepared[p] = "dir" <=>
                 \E i \in DOMAIN Entries :
                     IF Entries[i].kind = "dir" THEN IsPrefix(p, Entries[i].path)
                                                ELSE IsStrictPrefix(p, Entries[i].path)
BY DEF Prepared

LEMMA ZipGoal ==
    ASSUME run \in Runs, archive = run.archive, "zip" \in Kinds, Accepted
    PROVE  IsGoal(Goal)
<1>1. "tar" \notin Kinds
  BY OneArchive
<1>2. \A p \in Paths : Goal[p] = IF Prepared[p] = "dir" THEN "dir"
                                 ELSE IF \E i \in DOMAIN Entries : Entries[i].path = p
                                      THEN "entry" ELSE "absent"
  BY <1>1 DEF Goal, Holds
<1>3. Goal \in [Paths -> {"absent", "dir"} \cup Files]
  <2>1. \A p \in Paths : Goal[p] \in {"absent", "dir"} \cup Files
    BY <1>2 DEF Files
  <2> QED
    BY <2>1 DEF Goal
<1>4. ASSUME NEW p \in Paths, NEW q \in Paths, Goal[q] # "absent", IsStrictPrefix(p, q)
      PROVE  Goal[p] = "dir"
  <2>1. PICK i \in DOMAIN Entries : IsPrefix(q, Entries[i].path)
    BY <1>2, <1>4, PreparedAt, EntryFacts, PrefixReflexive DEF IsStrictPrefix
  <2>2. IsStrictPrefix(p, Entries[i].path)
    BY <1>4, <2>1, EntryFacts, StrictTransitive DEF IsStrictPrefix
  <2>3. Prepared[p] = "dir"
    BY <2>2, PreparedAt DEF IsStrictPrefix
  <2> QED
    BY <1>2, <2>3
<1>5. Goal[<<>>] \in {"absent", "dir"}
  BY <1>2, PathsAssumption DEF Accepted
<1> QED
  BY <1>3, <1>4, <1>5 DEF IsGoal, IsTree

\* What is committed is the tree of an archive.
LEMMA CommittedGoal ==
    ASSUME CIInv, verdict = "ok"
    PROVE  IsGoal(Goal)
<1>1. run \in Runs /\ archive = run.archive
  BY DEF CIInv, StreamTypes, UnpackInv
<1>2. unpacker = "answered"
  BY DEF CIInv, UnpackInv
<1>3. "tar" \in Kinds \/ "zip" \in Kinds
  <2>1. Archives # {}
    BY <1>2 DEF CIInv, UnpackInv
  <2> QED
    BY <1>1, <2>1, OneArchive
<1>4. "zip" \in Kinds => Accepted
  BY DEF CIInv, ZipInv
<1> QED
  BY <1>1, <1>3, <1>4, TarGoal, ZipGoal

------------------------------------------------------------------------------
(* Steps of the streams, and of the other processes at the files.           *)

\* Nothing of the archive is touched.
ArchiveInv == BlameTruthful /\ TarInv /\ ZipInv /\ CommitInv

LEMMA ArchiveFrame ==
    ASSUME ArchiveInv, UNCHANGED <<options, extractVars>>
    PROVE  ArchiveInv'
<1> USE DEF options, extractVars, tarVars, pipe
<1>1. /\ Kinds' = Kinds /\ Goal' = Goal /\ Entries' = Entries /\ Prepared' = Prepared
      /\ (Accepted' <=> Accepted) /\ (Valid' <=> Valid)
  BY Fixed, FixedValid
<1>2. BlameTruthful'
  BY <1>1 DEF ArchiveInv, BlameTruthful, Misblamed
<1>3. TarInv'
  BY <1>1 DEF ArchiveInv, TarInv
<1>4. ZipInv'
  <2>1. ZipTree' = ZipTree
    BY <1>1 DEF ZipTree, Created
  <2>2. (AllDone(TRUE)' <=> AllDone(TRUE)) /\ (AllDone(FALSE)' <=> AllDone(FALSE))
    BY <1>1 DEF AllDone
  <2> QED
    BY <1>1, <2>1, <2>2 DEF ArchiveInv, ZipInv
<1>5. CommitInv'
  BY <1>1 DEF ArchiveInv, CommitInv
<1> QED
  BY <1>2, <1>3, <1>4, <1>5 DEF ArchiveInv

\* The input at hand stays, and the archives behind it are where they were.
LEMMA UnpackFrame ==
    ASSUME StreamTypes, UnpackInv, UNCHANGED <<options, extractVars>>,
           stage \notin {"preparing", "error"}, stage' # "preparing",
           \/ turn' = turn /\ stage # "next" /\ stage' # "next"
           \/ turn' = turn /\ stage = "next"
           \/ turn' = turn + 1,
           stage' = "extracting" => turn' = turn /\ stage = "extracting",
           stage' = "removing" /\ turn' \in Archives =>
                turn' = turn /\ (stage = "removing" \/ (verdict = "ok" /\ commit = "done"))
    PROVE  UnpackInv'
<1> USE DEF options, extractVars, tarVars, pipe
<1>1. Archives' = Archives
  BY Fixed
<1>2. \A i \in Archives : i \in Nat
  BY DEF Archives
<1>3. turn \in Nat
  BY DEF StreamTypes
<1>4. unpacker' # "waiting" => \E i \in Archives : i < turn' \/ (i = turn' /\ stage' # "next")
  BY <1>2, <1>3 DEF UnpackInv
<1> QED
  BY <1>1, <1>4 DEF UnpackInv

StreamInv == StreamTypes /\ WholeInv /\ RemovalInv

LEMMA MadeFacts ==
    ASSUME NEW s \in Seq(Words)
    PROVE  Made(s) \in Seq(Words) /\ Made(s) # <<>>
<1>1. "made" \in Words
  BY DEF Words
<1>2. Made(s) \in Seq(Words) /\ Len(Made(s)) = Len(s) + 1 /\ Len(s) \in Nat
  BY <1>1 DEF Made
<1> QED
  BY <1>2

LEMMA GoesOn ==
    ASSUME StreamInv, UNCHANGED options, NEW next, GoOn(next), turn <= Len(run.inputs),
           next \in {"coding", "removing", "error", "ended", "extracting", "creating", "persisting"},
           next = "coding" => stage = "creating",
           next = "creating" => stage = "coding" /\ ~Standard /\ Input.sound /\ size = Input.size,
           next = "persisting" =>
                /\ \/ stage = "coding" /\ Input.sound /\ size = Input.size
                   \/ stage = "creating" /\ run.command = "index",
           next = "removing" => stage \in {"metadata", "removing"} \/ Input.kind # "stream"
    PROVE  StreamInv'
<1>1. UNCHANGED <<files, turn, source, size, run, rm>> /\ stage' = next /\ Input' = Input
  BY DEF GoOn, options, Input
<1>2. StreamTypes'
  BY <1>1 DEF StreamInv, StreamTypes, Writing
<1>3. WholeInv'
  BY <1>1 DEF StreamInv, WholeInv, Writing, Unlimited
<1>4. RemovalInv'
  BY <1>1 DEF StreamInv, RemovalInv, Writing, Same, Standard, Exists, Made
<1> QED
  BY <1>2, <1>3, <1>4 DEF StreamInv

LEMMA NextGoesOn ==
    ASSUME StreamInv, UNCHANGED options, turn' = turn + 1, stage' = "next",
           UNCHANGED <<source, size>>, DOMAIN files' = DOMAIN files,
           \A n \in DOMAIN files : files'[n] \in Seq(Words)
    PROVE  StreamInv'
<1>1. StreamTypes'
  BY DEF StreamInv, StreamTypes, Writing, options
<1>2. WholeInv'
  BY DEF StreamInv, WholeInv, Writing, Unlimited, options
<1>3. RemovalInv'
  BY DEF RemovalInv, Writing
<1> QED
  BY <1>1, <1>2, <1>3 DEF StreamInv

\* The output appears.
LEMMA OutputAppears ==
    ASSUME StreamInv, UNCHANGED options, Writing, Input.kind = "stream",
           NEW n \in DOMAIN files, n = Input.output,
           files' = [files EXCEPT ![n] = Made(source)],
           stage' \in {"metadata", "removing"},
           UNCHANGED <<turn, source, size>>
    PROVE  StreamInv'
<1>1. Input' = Input /\ UNCHANGED <<run, rm>> /\ turn <= Len(run.inputs)
  BY DEF options, Input, StreamInv, StreamTypes
<1>2. Made(source) \in Seq(Words)
  BY MadeFacts DEF StreamInv, StreamTypes
<1>3. StreamTypes'
  BY <1>1, <1>2 DEF StreamInv, StreamTypes, Writing
<1>4. WholeInv'
  BY <1>1 DEF StreamInv, WholeInv, Writing, Unlimited
<1>5. RemovalInv'
  <2> SUFFICES ASSUME rm
               PROVE  /\ ~Same'
                      /\ Input.path # "-" => Exists(Input.path)' /\ files'[Input.path] = source
                      /\ files'[Input.output] = Made(source)'
    BY <1>1 DEF RemovalInv
  <2>1. ~Same /\ (Input.path # "-" => Exists(Input.path) /\ files[Input.path] = source)
    BY DEF StreamInv, RemovalInv
  <2>2. ~Same'
    BY <1>1, <2>1 DEF Same, Standard
  <2>3. Input.path # "-" => Input.path # n
    BY <2>1 DEF Same, Standard
  <2>4. Input.path \in DOMAIN files
    BY <1>1, InputFacts DEF StreamInv
  <2> QED
    BY <1>1, <2>1, <2>2, <2>3, <2>4 DEF Exists, Made
<1> QED
  BY <1>3, <1>4, <1>5 DEF StreamInv

LEMMA StreamingKeeps ==
    ASSUME CIInv, Streaming
    PROVE  CIInv'
<1> USE DEF CIInv, StreamInv
<1>1. UNCHANGED <<options, extractVars>>
  BY DEF Streaming
<1>2. ArchiveInv'
  BY <1>1, ArchiveFrame DEF ArchiveInv
<1>3. StreamInv' /\ UnpackInv'
  <2>1. CASE Open
    <3>1. turn <= Len(run.inputs) /\ stage = "next" /\ Input.kind = "stream" /\ turn \notin Archives
      BY <2>1, InputFacts DEF Open
    <3>2. CASE GoOn("error")
      BY <1>1, <3>1, <3>2, GoesOn, UnpackFrame DEF GoOn
    <3>3. CASE NextInput
      BY <1>1, <3>1, <3>3, NextGoesOn, UnpackFrame DEF NextInput, StreamTypes
    <3>4. CASE /\ ~(run.command \in {"decompress", "create"} /\ Same)
               /\ ~((run.command = "compress" /\ Same) \/ ~Exists(Input.path))
               /\ source' = files[Input.path]
               /\ size' = 0
               /\ stage' = IF run.command = "index" \/ Standard THEN "coding" ELSE "creating"
               /\ UNCHANGED <<files, turn>>
      <4>1. /\ Input.path \in DOMAIN files /\ MaxOutput \in Nat
            /\ UNCHANGED <<run, rm>> /\ Input' = Input
        BY <1>1, <3>1, <3>4, InputFacts DEF options, Input
      <4>2. StreamTypes'
        BY <3>1, <3>4, <4>1 DEF StreamTypes, Writing
      <4>3. WholeInv'
        BY <3>1, <3>4, <4>1 DEF WholeInv, Writing, Unlimited
      <4>4. RemovalInv'
        BY <3>1, <3>4, <4>1 DEF StreamTypes, RemovalInv, Writing, Same, Standard, Exists
      <4>5. UnpackInv'
        BY <1>1, <3>1, <3>4, UnpackFrame
      <4> QED
        BY <4>2, <4>3, <4>4, <4>5
    <3> QED
      BY <2>1, <3>2, <3>3, <3>4 DEF Open
  <2>2. CASE BeginWrite
    <3>1. turn <= Len(run.inputs) /\ stage = "creating"
      BY <2>2 DEF BeginWrite, StreamTypes, Writing
    <3>2. PICK next \in {"error", "persisting", "coding"} :
              GoOn(next) /\ (next = "persisting" => run.command = "index")
      BY <2>2 DEF BeginWrite
    <3> QED
      BY <1>1, <3>1, <3>2, GoesOn, UnpackFrame DEF GoOn
  <2>3. CASE WriteByte
    <3>1. /\ turn <= Len(run.inputs) /\ stage = "coding" /\ Input.kind = "stream" /\ size \in Nat
          /\ size < Input.size
      BY <2>3 DEF WriteByte, StreamTypes, WholeInv, Writing
    <3>2. CASE GoOn("error")
      BY <1>1, <3>1, <3>2, GoesOn, UnpackFrame DEF GoOn
    <3>3. CASE /\ Unlimited \/ Admits(size, 1, MaxOutput)
               /\ size' = size + 1 /\ UNCHANGED <<files, turn, stage, source>>
      <4>1. UNCHANGED <<run, rm>> /\ Input' = Input
        BY <1>1, <3>3 DEF options, Input
      <4>2. StreamTypes'
        BY <3>1, <3>3, <4>1 DEF StreamTypes, Writing
      <4>3. WholeInv'
        BY <3>1, <3>3, <4>1 DEF WholeInv, Writing, Unlimited, Admits
      <4>4. RemovalInv'
        BY <3>1, <3>3, <4>1 DEF RemovalInv, Writing, Same, Standard, Exists, Made
      <4>5. UnpackInv'
        BY <1>1, <3>1, <3>3, UnpackFrame
      <4> QED
        BY <4>2, <4>3, <4>4, <4>5
    <3> QED
      BY <2>3, <3>2, <3>3 DEF WriteByte
  <2>4. CASE CodingEnds
    <3>1. /\ turn <= Len(run.inputs) /\ stage = "coding" /\ Input.kind = "stream"
          /\ size = Input.size /\ turn \notin Archives
      BY <2>4, InputFacts DEF CodingEnds, StreamTypes, WholeInv, Writing
    <3>2. CASE GoOn("error")
      BY <1>1, <3>1, <3>2, GoesOn, UnpackFrame DEF GoOn
    <3>3. CASE /\ Standard
               /\ files' = [files EXCEPT !["-"] = Made(source)]
               /\ stage' = "removing"
               /\ UNCHANGED <<turn, source, size>>
      <4>1. StreamInv'
        BY <1>1, <3>1, <3>3, OutputAppears, InputFacts DEF Writing, Standard
      <4>2. UnpackInv'
        <5>1. Archives' = Archives
          BY <1>1, Fixed DEF options, extractVars, tarVars
        <5> QED
          BY <1>1, <3>1, <3>3, <5>1, UnpackFrame
      <4> QED
        BY <4>1, <4>2
    <3>4. CASE Input.sound /\ ~Standard /\ GoOn(IF run.command = "index" THEN "creating" ELSE "persisting")
      <4>1. PICK next \in {"creating", "persisting"} : GoOn(next)
        BY <3>4
      <4> QED
        BY <1>1, <3>1, <3>4, <4>1, GoesOn, UnpackFrame DEF GoOn
    <3> QED
      BY <2>4, <3>2, <3>3, <3>4 DEF CodingEnds
  <2>5. CASE Persist
    <3>1. /\ turn <= Len(run.inputs) /\ stage = "persisting" /\ Input.kind = "stream"
          /\ turn \notin Archives
      BY <2>5, InputFacts DEF Persist, StreamTypes, WholeInv, Writing
    <3>2. CASE GoOn("error")
      BY <1>1, <3>1, <3>2, GoesOn, UnpackFrame DEF GoOn
    <3>3. CASE /\ files' = [files EXCEPT ![Input.output] = Made(source)]
               /\ stage' = IF run.command \in {"index", "create"} THEN "removing" ELSE "metadata"
               /\ UNCHANGED <<turn, source, size>>
      <4>1. PICK n \in DOMAIN files : n = Input.output
        BY <3>1, InputFacts
      <4>2. StreamInv'
        BY <1>1, <3>1, <3>3, <4>1, OutputAppears DEF Writing
      <4>3. UnpackInv'
        <5>1. Archives' = Archives
          BY <1>1, Fixed DEF options, extractVars, tarVars
        <5> QED
          BY <1>1, <3>1, <3>3, <5>1, UnpackFrame
      <4> QED
        BY <4>2, <4>3
    <3> QED
      BY <2>5, <3>2, <3>3 DEF Persist
  <2>6. CASE PreserveMetadata
    <3>1. /\ turn <= Len(run.inputs) /\ stage = "metadata" /\ Input.kind = "stream"
          /\ turn \notin Archives
      BY <2>6, InputFacts DEF PreserveMetadata, StreamTypes, WholeInv, Writing
    <3>2. PICK next \in {"removing", "error"} : GoOn(next)
      BY <2>6 DEF PreserveMetadata
    <3>3. Archives' = Archives
      BY <1>1, Fixed DEF options, extractVars, tarVars
    <3> QED
      BY <1>1, <3>1, <3>2, <3>3, GoesOn, UnpackFrame DEF GoOn
  <2>7. CASE RemoveInput
    <3>1. turn <= Len(run.inputs) /\ stage = "removing"
      BY <2>7 DEF RemoveInput, StreamTypes, Writing
    <3>2. CASE NextInput
      BY <1>1, <3>1, <3>2, NextGoesOn, UnpackFrame DEF NextInput, StreamTypes
    <3>3. CASE /\ files' = [files EXCEPT ![Input.path] = <<>>]
               /\ turn' = turn + 1
               /\ stage' = "next"
               /\ UNCHANGED <<source, size>>
      <4>1. PICK n \in DOMAIN files : n = Input.path
        BY <3>1, InputFacts
      <4>2. \A m \in DOMAIN files : files'[m] \in Seq(Words)
        BY <3>3, <4>1, EmptySeq DEF StreamTypes
      <4> QED
        BY <1>1, <3>1, <3>3, <4>2, NextGoesOn, UnpackFrame DEF StreamTypes
    <3> QED
      BY <2>7, <3>2, <3>3 DEF RemoveInput
  <2>8. CASE Fails
    <3>1. /\ turn <= Len(run.inputs) /\ stage \notin {"preparing", "next", "error"}
          /\ GoOn("error")
      BY <2>8 DEF Fails, StreamTypes, Writing
    <3> QED
      BY <1>1, <3>1, GoesOn, UnpackFrame DEF GoOn
  <2>9. CASE Ends
    <3>1. stage = "next" /\ GoOn("ended")
      BY <2>9 DEF Ends
    <3>2. UNCHANGED <<files, turn, source, size, run, rm>> /\ stage' = "ended" /\ Input' = Input
      BY <1>1, <3>1 DEF GoOn, options, Input
    <3>3. StreamTypes'
      BY <3>2 DEF StreamTypes, Writing
    <3>4. WholeInv' /\ RemovalInv'
      BY <3>2 DEF WholeInv, RemovalInv, Writing, Unlimited
    <3>5. UnpackInv'
      BY <1>1, <3>1, <3>2, UnpackFrame
    <3> QED
      BY <3>3, <3>4, <3>5
  <2> QED
    BY <2>1, <2>2, <2>3, <2>4, <2>5, <2>6, <2>7, <2>8, <2>9 DEF Streaming
<1> QED
  BY <1>2, <1>3 DEF ArchiveInv

------------------------------------------------------------------------------
(* The destination is made.                                                 *)

LEMMA MakeDirectoryKeeps ==
    ASSUME CIInv, MakeDirectory
    PROVE  CIInv'
<1> USE DEF CIInv, StreamInv
<1>1. /\ stage = "preparing" /\ stage' \in {"next", "error"} /\ UNCHANGED <<files, turn, source, size>>
      /\ UNCHANGED <<options, run, overwrite, rm, staged, todo, commit, tarVars, work, written>>
  BY DEF MakeDirectory, GoOn, options
<1>2. UNCHANGED <<pipe, stream, sent, decoder, decoded, cancelled, archive, unpacker, extracted, verdict>>
  BY <1>1 DEF tarVars, pipe
<1>3. unpacker = "waiting" /\ verdict = "none" /\ commit = "waiting"
  BY <1>1 DEF UnpackInv
<1>4. IsTree(tree') /\ (stage' = "error" \/ tree'[<<>>] = "dir")
  <2>1. CASE UNCHANGED tree /\ stage' = "error"
    BY <2>1 DEF CommitInv, IsTree
  <2>2. CASE tree[<<>>] \notin Files /\ tree' = [tree EXCEPT ![<<>>] = "dir"]
    <3>1. IsTree(tree) /\ <<>> \in Paths /\ tree[<<>>] \in {"absent", "dir"}
      BY <2>2, PathsAssumption DEF CommitInv, IsTree
    <3>2. /\ tree' \in [Paths -> {"absent", "dir"} \cup Files] /\ tree'[<<>>] = "dir"
          /\ \A q \in Paths : q # <<>> => tree'[q] = tree[q]
      BY <2>2, <3>1 DEF IsTree
    <3>3. ASSUME NEW p \in Paths, NEW q \in Paths, tree'[q] # "absent", IsStrictPrefix(p, q)
          PROVE  tree'[p] = "dir"
      <4>1. q # <<>>
        BY <3>3, RootAbove DEF IsStrictPrefix
      <4> QED
        BY <3>1, <3>2, <3>3, <4>1 DEF IsTree
    <3> QED
      BY <3>2, <3>3 DEF IsTree
  <2> QED
    BY <2>1, <2>2 DEF MakeDirectory, GoOn
<1>5. /\ Kinds' = Kinds /\ Archives' = Archives /\ Goal' = Goal /\ Entries' = Entries
      /\ Prepared' = Prepared /\ (Accepted' <=> Accepted) /\ (Valid' <=> Valid)
  BY <1>1, <1>2, Fixed, FixedValid
<1>6. StreamInv'
  <2>1. Input' = Input
    BY <1>1 DEF Input
  <2>2. StreamTypes'
    BY <1>1 DEF StreamTypes, Writing
  <2>3. WholeInv' /\ RemovalInv'
    BY <1>1, <2>1 DEF WholeInv, RemovalInv, Writing, Unlimited
  <2> QED
    BY <2>2, <2>3
<1>7. UnpackInv'
  BY <1>1, <1>2, <1>3, <1>4, <1>5 DEF UnpackInv
<1>8. BlameTruthful'
  BY <1>1, <1>2, <1>3, <1>5 DEF BlameTruthful
<1>9. TarInv'
  BY <1>1, <1>2, <1>5 DEF TarInv, Fits
<1>10. ZipInv'
  BY <1>1, <1>2, <1>3, <1>5 DEF ZipInv
<1>11. CommitInv'
  BY <1>1, <1>2, <1>3, <1>4, <1>5 DEF CommitInv
<1> QED
  BY <1>6, <1>7, <1>8, <1>9, <1>10, <1>11

------------------------------------------------------------------------------
(* The archive: its extraction begins ...                                   *)

LEMMA Unbegun ==
    ASSUME StreamTypes, UnpackInv, stage = "next", turn \in Archives
    PROVE  unpacker = "waiting" /\ verdict = "none" /\ commit = "waiting"
<1>1. \A i \in Archives : i = turn
  BY OneArchive DEF StreamTypes
<1>2. unpacker = "waiting"
  BY <1>1, RunsAssumption DEF StreamTypes, UnpackInv, Archives
<1> QED
  BY <1>2 DEF UnpackInv

LEMMA StartExtractKeeps ==
    ASSUME CIInv, StartExtract
    PROVE  CIInv'
<1> USE DEF CIInv, StreamInv
<1>1. /\ UNCHANGED <<options, files, turn, source, size, staged, tree, todo, commit, pipe, archive,
                     extracted, verdict, work, written>>
      /\ stage = "next" /\ turn <= Len(run.inputs) /\ Input.kind # "stream" /\ turn \in Archives
  BY InputFacts DEF StartExtract, GoOn
<1>2. /\ unpacker = "waiting" /\ verdict = "none" /\ commit = "waiting"
      /\ Input.kind \in Kinds
  BY <1>1, Unbegun, InputFacts
<1>3. Input.kind \in {"tar", "zip"} /\ Kinds' = Kinds /\ Archives' = Archives /\ Goal' = Goal
      /\ Prepared' = Prepared /\ Entries' = Entries
      /\ (Accepted' <=> Accepted) /\ (Valid' <=> Valid)
  BY <1>1, InputFacts, Fixed, FixedValid DEF options, pipe
<1>4. CASE GoOn("error") /\ UNCHANGED unpacker
  <2>1. UNCHANGED <<options, extractVars>>
    BY <1>1, <1>4 DEF extractVars, tarVars
  <2> QED
    BY <1>1, <1>4, <2>1, GoesOn, UnpackFrame, ArchiveFrame DEF GoOn, ArchiveInv
<1>5. CASE /\ GoOn("extracting")
           /\ unpacker' = IF Input.kind = "tar" THEN "staging" ELSE "parsing"
  <2>1. StreamInv'
    BY <1>1, <1>5, GoesOn DEF GoOn
  <2>2. UnpackInv'
    BY <1>1, <1>2, <1>3, <1>5 DEF UnpackInv, GoOn, options, pipe
  <2>3. BlameTruthful'
    BY <1>1, <1>2, <1>3 DEF BlameTruthful
  <2>4. TarInv'
    <3>1. "tar" \in Kinds => Input.kind = "tar"
      BY <1>2, <1>3, OneArchive DEF StreamTypes
    <3> QED
      BY <1>1, <1>2, <1>3, <1>5, <3>1 DEF TarInv, pipe
  <2>5. ZipInv'
    <3>1. "zip" \in Kinds => Input.kind = "zip"
      BY <1>2, <1>3, OneArchive DEF StreamTypes
    <3> QED
      BY <1>1, <1>2, <1>3, <1>5, <3>1 DEF ZipInv
  <2>6. CommitInv'
    <3>1. tree[<<>>] = "dir"
      BY <1>1 DEF UnpackInv
    <3> QED
      BY <1>1, <1>2, <3>1 DEF CommitInv
  <2> QED
    BY <2>1, <2>2, <2>3, <2>4, <2>5, <2>6
<1> QED
  BY <1>4, <1>5 DEF StartExtract

\* ... and ends.
LEMMA ExtractEndsKeeps ==
    ASSUME CIInv, ExtractEnds
    PROVE  CIInv'
<1> USE DEF CIInv, StreamInv
<1>1. UNCHANGED <<options, extractVars>> /\ stage = "extracting" /\ turn <= Len(run.inputs)
  BY DEF ExtractEnds, StreamTypes
<1>2. PICK next \in {"removing", "error"} :
          GoOn(next) /\ (next = "removing" => verdict = "ok" /\ commit = "done")
  BY DEF ExtractEnds
<1>3. Input.kind # "stream"
  BY <1>1, InputFacts DEF UnpackInv
<1> QED
  BY <1>1, <1>2, <1>3, GoesOn, UnpackFrame, ArchiveFrame DEF GoOn, ArchiveInv

------------------------------------------------------------------------------
(* The commit.                                                              *)

\* Nothing but the two trees and what is to be done changes.
LEMMA CommitFrame ==
    ASSUME CIInv, verdict = "ok",
           UNCHANGED <<run, skip, rm, overwrite, files, turn, stage, source, size, tarVars, work, written>>,
           commit = "done" => commit' = "done",
           commit' # "waiting", tree'[<<>>] = "dir"
    PROVE  /\ StreamInv' /\ UnpackInv' /\ BlameTruthful' /\ TarInv' /\ ZipInv'
           /\ Goal' = Goal
<1> USE DEF CIInv, tarVars, pipe
<1>1. /\ Kinds' = Kinds /\ Archives' = Archives /\ Goal' = Goal /\ Entries' = Entries
      /\ Prepared' = Prepared /\ (Accepted' <=> Accepted) /\ (Valid' <=> Valid)
  BY Fixed, FixedValid
<1>2. StreamInv'
  BY DEF StreamInv, StreamTypes, WholeInv, RemovalInv, Writing, Unlimited, Same, Standard, Exists,
         Made, Input
<1>3. UnpackInv'
  BY <1>1 DEF UnpackInv
<1>4. BlameTruthful'
  BY <1>1 DEF BlameTruthful, Misblamed
<1>5. TarInv'
  BY <1>1 DEF TarInv, Fits
<1>6. ZipInv'
  <2>1. unpacker = "answered"
    BY DEF UnpackInv
  <2>2. (AllDone(TRUE)' <=> AllDone(TRUE)) /\ (AllDone(FALSE)' <=> AllDone(FALSE))
    BY <1>1 DEF AllDone
  <2> QED
    BY <1>1, <2>1, <2>2 DEF ZipInv
<1> QED
  BY <1>1, <1>2, <1>3, <1>4, <1>5, <1>6

LEMMA CommitKeeps ==
    ASSUME CIInv, Commit
    PROVE  CIInv'
<1>1. /\ verdict = "ok" /\ unpacker = "answered" /\ UNCHANGED <<overwrite, unpacker, verdict>>
      /\ UNCHANGED <<run, skip, rm, overwrite, files, turn, stage, source, size, tarVars, work, written>>
  BY DEF Commit, CommitStep, CIInv, UnpackInv, tarVars
<1>2. IsGoal(Goal)
  BY <1>1, CommittedGoal
<1>3. IsTree(tree) /\ tree[<<>>] = "dir" /\ DOMAIN staged = Paths /\ todo \in Seq(TaskSet)
  BY <1>1 DEF CIInv, CommitInv
<1>4. <<>> \in Paths
  BY PathsAssumption
\* Every step of the commit, with what it leaves.
<1>5. SUFFICES /\ commit = "done" => commit' = "done"
               /\ commit' # "waiting"
               /\ tree'[<<>>] = "dir"
               /\ Goal' = Goal => CommitInv'
  BY <1>1, CommitFrame DEF CIInv, StreamInv
<1>6. CASE BeginCommit
  <2>1. /\ commit = "waiting" /\ commit' = "checking" /\ staged' = staged
        /\ todo' = Tasks("check", staged, <<>>) /\ staged = Goal
    BY <1>1, <1>6 DEF BeginCommit, CIInv, CommitInv
  <2>2. todo' \in Seq(TaskSet) /\ \A i \in 1..Len(todo') : todo'[i].op = "check"
    BY <1>4, <2>1, TasksFacts
  <2>3. tree' = tree
    BY <1>6 DEF BeginCommit
  <2> QED
    BY <1>3, <2>1, <2>2, <2>3 DEF CommitInv
\* A step that ends the commit with an error.
<1>7. CASE \E error \in {"collision", "exists", "failed"} : Stop(error) /\ commit # "done"
  BY <1>3, <1>7 DEF Stop, CommitInv
<1>8. CASE Preflight /\ UNCHANGED <<commit, tree, staged>>
  <2>1. Task("check") /\ commit = "checking" /\ todo # <<>>
    BY <1>8, TaskTypes, <1>3 DEF Preflight, Task, CIInv, CommitInv, Moving
  <2>2. Path \in Paths
    BY <1>3, <2>1, TaskTypes DEF Path
  <2>3. PICK s \in Seq(TaskSet) : Instead(s) /\ \A i \in 1..Len(s) : s[i].op = "check"
    <3>1. CASE Instead(<<>>)
      <4>1. <<>> \in Seq(TaskSet) /\ \A i \in 1..Len(<<>>) : <<>>[i].op = "check"
        OBVIOUS
      <4> QED
        BY <3>1, <4>1
    <3>2. CASE Instead(Tasks("check", staged, Path))
      BY <2>2, <3>2, TasksFacts
    <3> QED
      BY <1>8, <2>1, <3>1, <3>2 DEF Preflight, Stop
  <2>4. todo' \in Seq(TaskSet) /\ \A i \in 1..Len(todo') : todo'[i].op = "check"
    <3> DEFINE n == s \o Tail(todo)
    <3>1. /\ n \in Seq(TaskSet) /\ Len(n) \in Nat /\ Len(s) \in Nat /\ Len(todo) \in Nat
          /\ \A i \in 1..Len(s) : n[i] = s[i]
          /\ \A i \in 1..Len(n) : i > Len(s) =>
                i - Len(s) + 1 \in 2..Len(todo) /\ n[i] = todo[i - Len(s) + 1]
      BY <1>3, <2>1, Replaced
    <3> HIDE DEF n
    <3>2. \A k \in 2..Len(todo) : todo[k].op = "check"
      BY <2>1, <3>1 DEF CIInv, CommitInv
    <3>3. \A i \in 1..Len(n) : n[i].op = "check"
      BY <2>3, <3>1, <3>2
    <3> QED
      BY <2>3, <3>1, <3>3 DEF Instead, n
  <2> QED
    BY <1>1, <1>3, <1>8, <2>1, <2>4 DEF CIInv, CommitInv
<1>9. CASE Checked
  <2>1. /\ commit = "checking" /\ commit' = "moving" /\ UNCHANGED <<tree, staged>>
        /\ todo' = Tasks("look", Goal, <<>>) /\ staged = Goal /\ tree[<<>>] = "dir"
    BY <1>1, <1>9 DEF Checked, CIInv, CommitInv
  <2>2. todo' \in Seq(TaskSet)
    BY <1>4, <2>1, TasksFacts
  <2>3. Moving(todo', staged', tree', Goal, overwrite')
    BY <1>1, <1>2, <1>3, <2>1, MovingStarts
  <2> QED
    BY <1>3, <2>1, <2>2, <2>3 DEF CommitInv
\* The steps that move.
<1>10. ASSUME commit = "moving", commit' = "moving", todo # <<>>,
              IsTree(tree'), tree'[<<>>] = "dir", DOMAIN staged' = Paths, todo' \in Seq(TaskSet),
              Moving(todo', staged', tree', Goal, overwrite)
       PROVE  Goal' = Goal => CommitInv'
  BY <1>1, <1>10 DEF CommitInv
<1>11. ASSUME \E op \in {"look", "rename", "remove_file", "remove_dir"} : Task(op)
       PROVE  /\ commit = "moving" /\ todo # <<>> /\ Head(todo) = todo[1] /\ 1 \in 1..Len(todo)
              /\ Path = todo[1].at /\ Path \in Paths /\ Path # <<>>
              /\ Moving(todo, staged, tree, Goal, overwrite) /\ tree[<<>>] = "dir"
  BY <1>3, <1>11, TaskTypes DEF Task, Path, CIInv, CommitInv
<1>12. CASE Look /\ UNCHANGED <<commit, tree, staged>>
  <2>1. Task("look")
    BY <1>12 DEF Look
  <2>2. todo[1].op = "look"
    BY <1>11, <2>1 DEF Task
  <2>3. CASE tree[Path] = "absent" /\ Instead(<<[op |-> "rename", at |-> Path]>>)
    <3>1. <<[op |-> "rename", at |-> Path]>> \in Seq(TaskSet)
      BY <1>11, <2>1 DEF TaskSet
    <3>2. Moving(todo', staged, tree, Goal, overwrite) /\ todo' \in Seq(TaskSet)
      BY <1>3, <1>11, <2>1, <2>2, <2>3, <3>1, MovingLooked, Replaced DEF Instead
    <3> QED
      BY <1>3, <1>10, <1>11, <1>12, <2>1, <3>2
  <2>4. CASE /\ BothDirectories(Path)
             /\ Instead(Append(Tasks("look", staged, Path), [op |-> "remove_dir", at |-> Path]))
    <3>1. Moving(todo', staged, tree, Goal, overwrite) /\ todo' \in Seq(TaskSet)
      BY <1>2, <1>3, <1>11, <2>1, <2>2, <2>4, MovingMerged, Replaced DEF Instead, BothDirectories
    <3> QED
      BY <1>3, <1>10, <1>11, <1>12, <2>1, <3>1
  <2>5. CASE /\ tree[Path] \in Files /\ overwrite
             /\ Instead(<<[op |-> "remove_file", at |-> Path], [op |-> "rename", at |-> Path]>>)
    <3>1. <<[op |-> "remove_file", at |-> Path], [op |-> "rename", at |-> Path]>> \in Seq(TaskSet)
      BY <1>11, <2>1 DEF TaskSet
    <3>2. Moving(todo', staged, tree, Goal, overwrite) /\ todo' \in Seq(TaskSet)
      BY <1>3, <1>11, <2>1, <2>2, <2>5, <3>1, MovingLooked, Replaced DEF Instead
    <3> QED
      BY <1>3, <1>10, <1>11, <1>12, <2>1, <3>2
  <2> QED
    BY <1>11, <1>12, <2>1, <2>3, <2>4, <2>5 DEF Look, Stop
<1>13. CASE Rename /\ MayRename(Path)
  <2>1. Task("rename")
    BY <1>13 DEF Rename
  <2>2. /\ tree' = Renamed(staged, tree, Path) /\ staged' = Gone(staged, Path)
        /\ todo' = Tail(todo) /\ commit' = commit /\ todo[1].op = "rename"
    BY <1>11, <1>13, <2>1 DEF Rename, Renamed, Gone, Task
  <2>3. /\ \A q \in Below(Path) : staged[q] = Goal[q]
        /\ \A r \in Paths : IsStrictPrefix(r, Path) => tree[r] = "dir"
    BY <1>11, <2>1, <2>2 DEF Moving, Movable, Moves
  <2>4. IsTree(tree') /\ tree'[<<>>] = "dir"
    BY <1>2, <1>3, <1>11, <2>1, <2>2, <2>3, RenamedTree
  <2>5. Moving(todo', staged', tree', Goal, overwrite)
    BY <1>3, <1>11, <2>1, <2>2, MovingRenamed
  <2>6. DOMAIN staged' = Paths /\ todo' \in Seq(TaskSet)
    BY <1>3, <1>11, <2>1, <2>2, OneLess DEF Gone
  <2> QED
    BY <1>10, <1>11, <2>1, <2>2, <2>4, <2>5, <2>6
<1>14. CASE RemoveFile
  <2>1. Task("remove_file")
    BY <1>14 DEF RemoveFile
  <2>2. /\ tree' = [tree EXCEPT ![Path] = "absent"] /\ UNCHANGED <<staged, commit>>
        /\ todo' = Tail(todo) /\ todo[1].op = "remove_file"
    BY <1>11, <1>14, <2>1 DEF RemoveFile, Task
  <2>3. tree[Path] \in Files
    BY <1>11, <2>1, <2>2 DEF Moving, RenamesNext
  <2>4. IsTree(tree') /\ tree'[<<>>] = "dir"
    BY <1>3, <1>11, <2>1, <2>2, <2>3, FileRemovedTree
  <2>5. Moving(todo', staged', tree', Goal, overwrite) /\ todo' \in Seq(TaskSet)
    BY <1>3, <1>11, <2>1, <2>2, MovingFileRemoved, OneLess
  <2> QED
    BY <1>3, <1>10, <1>11, <2>1, <2>2, <2>4, <2>5
<1>15. CASE RemoveDirectory
  <2>1. Task("remove_dir")
    BY <1>15 DEF RemoveDirectory
  <2>2. /\ staged' = [staged EXCEPT ![Path] = "absent"] /\ UNCHANGED <<tree, commit>>
        /\ todo' = Tail(todo) /\ todo[1].op = "remove_dir"
    BY <1>11, <1>15, <2>1 DEF RemoveDirectory, Task
  <2>3. Moving(todo', staged', tree', Goal, overwrite) /\ todo' \in Seq(TaskSet)
    BY <1>3, <1>11, <2>1, <2>2, MovingDirectoryRemoved, OneLess
  <2> QED
    BY <1>3, <1>10, <1>11, <2>1, <2>2, <2>3
<1>16. CASE CommitDone
  <2>1. /\ commit = "moving" /\ todo = <<>> /\ commit' = "done" /\ UNCHANGED <<tree, staged, todo>>
        /\ Moving(<<>>, staged, tree, Goal, overwrite) /\ tree[<<>>] = "dir"
    BY <1>16 DEF CommitDone, CIInv, CommitInv
  <2>2. \A p \in Paths : Settled(p, tree, Goal)
    BY <2>1, MovingEnds
  <2> QED
    BY <1>1, <1>3, <2>1, <2>2 DEF CommitInv
<1> QED
  BY <1>6, <1>7, <1>8, <1>9, <1>12, <1>13, <1>14, <1>15, <1>16
     DEF Commit, CommitStep, Preflight, Look, Rename, CallFails, Stop, Instead, Task

------------------------------------------------------------------------------
(* Unpacking: what both kinds leave alone.                                  *)

LEMMA UnpackStream ==
    ASSUME CIInv, stage = "extracting", UNCHANGED <<options, files, turn, stage, source, size>>
    PROVE  StreamInv'
<1>1. Input' = Input /\ UNCHANGED <<run, rm>>
  BY DEF Input, options
<1>2. StreamTypes'
  BY <1>1 DEF CIInv, StreamTypes, Writing
<1>3. WholeInv'
  BY <1>1 DEF CIInv, WholeInv, Writing, Unlimited
<1>4. RemovalInv'
  BY DEF RemovalInv, Writing
<1> QED
  BY <1>2, <1>3, <1>4 DEF StreamInv

\* How unpacking goes on with the promise that concerns the other kind.
LEMMA UnpackVerdict ==
    ASSUME CIInv, stage = "extracting",
           UNCHANGED <<options, files, turn, stage, source, size, tree, todo, commit, archive, stream>>,
           unpacker # "answered", unpacker' # "waiting",
           verdict' # "none" <=> unpacker' = "answered"
    PROVE  UnpackInv' /\ commit = "waiting" /\ verdict = "none" /\ Goal' = Goal
           /\ Kinds' = Kinds /\ Entries' = Entries /\ Prepared' = Prepared
           /\ (Accepted' <=> Accepted) /\ (Valid' <=> Valid)
<1>1. /\ Kinds' = Kinds /\ Archives' = Archives /\ Goal' = Goal
      /\ Entries' = Entries /\ Prepared' = Prepared
      /\ (Accepted' <=> Accepted) /\ (Valid' <=> Valid)
  BY Fixed, FixedValid DEF options
<1>2. commit = "waiting" /\ verdict = "none"
  BY DEF CIInv, UnpackInv
<1>3. UnpackInv'
  BY <1>1, <1>2 DEF CIInv, UnpackInv, options
<1> QED
  BY <1>1, <1>2, <1>3

------------------------------------------------------------------------------
(* tar.                                                                     *)

LEMMA StretchBytes ==
    ASSUME NEW a \in Nat, NEW b \in Nat, a <= b
    PROVE  Len(Stretch(a, b)) = b - a /\ (Stretch(a, b) = <<>> => a = b)
<1>1. b - a \in Nat
  OBVIOUS
<1>2. Stretch(a, b) \in [1..(b - a) -> Nat]
  BY <1>1 DEF Stretch
<1>3. Stretch(a, b) \in Seq(Nat) /\ Len(Stretch(a, b)) = b - a
  BY <1>1, <1>2, SeqDef, LenProperties
<1> QED
  BY <1>1, <1>3, EmptySeq

\* What the decoder writes next, and that it does not exceed the limit.
LEMMA UpcomingLimited ==
    ASSUME stream \in Streams, sent \in 0..Len(stream.ends), sent < Len(stream.ends),
           MaxOutput \in Nat
    PROVE  /\ stream.ends[sent + 1] \in Nat
           /\ Admits(Behind, Len(Upcoming), MaxOutput) <=> stream.ends[sent + 1] <= MaxOutput
<1>1. stream.ends \in Seq(Nat) /\ Len(stream.ends) \in Nat /\ sent + 1 \in 1..Len(stream.ends)
  BY StreamsAssumption
<1> DEFINE last == stream.ends[sent + 1]
<1>2. last \in Nat
  BY <1>1
<1>3. Behind \in Nat /\ Behind <= last
  <2>1. CASE sent = 0
    BY <1>2, <2>1 DEF Behind
  <2>2. CASE sent # 0
    <3>1. sent \in 1..Len(stream.ends) /\ sent < sent + 1
      BY <1>1, <2>2
    <3> QED
      BY <1>1, <2>2, <3>1, StreamsAssumption DEF Behind
  <2> QED
    BY <2>1, <2>2
<1>4. Len(Upcoming) = last - Behind
  BY <1>2, <1>3, StretchBytes DEF Upcoming
<1> QED
  BY <1>2, <1>3, <1>4 DEF Admits

\* A stream with a chunk over the limit does not fit.
LEMMA OverLimit ==
    ASSUME stream \in Streams, NEW n \in 1..Len(stream.ends), MaxOutput \in Nat,
           ~(stream.ends[n] <= MaxOutput)
    PROVE  ~Fits(stream.ends)
<1>1. stream.ends \in Seq(Nat) /\ Len(stream.ends) \in Nat /\ Len(stream.ends) \in 1..Len(stream.ends)
  BY StreamsAssumption
<1>2. stream.ends[n] <= stream.ends[Len(stream.ends)]
  BY <1>1, StreamsAssumption
<1>3. Last(stream.ends) = stream.ends[Len(stream.ends)] /\ stream.ends # <<>>
  BY <1>1 DEF Last
<1>4. stream.ends[n] \in Nat /\ stream.ends[Len(stream.ends)] \in Nat
  BY <1>1
<1> QED
  BY <1>2, <1>3, <1>4 DEF Fits

\* Steps of the decoder.
Deciding == WriteLimited \/ EndOfStream \/ SendFails \/ SeesCancelled \/ DropOutput \/ ThreadEnds

LEMMA DecodingKeeps ==
    ASSUME CIInv, "tar" \in Kinds, UNCHANGED <<run, archive, commit, staged, unpacker, extracted>>,
           Deciding
    PROVE  TarInv' /\ UNCHANGED stream
<1>1. Kinds' = Kinds /\ UNCHANGED stream
  BY Fixed DEF Deciding, WriteLimited, Write, EndOfStream, SendFails, SeesCancelled, DropOutput,
               ThreadEnds, StopDecoding
<1>2. /\ stream = archive.stream /\ stream.ends \in Seq(Nat) /\ Len(stream.ends) \in Nat
      /\ stream.outcome \in {"ok", "bad", "panic"} /\ stream \in Streams /\ MaxOutput \in Nat
  BY StreamsAssumption, RunsAssumption DEF CIInv, UnpackInv, StreamTypes
<1>3. TarInv
  BY DEF CIInv
<1>4. Fits(stream.ends)' <=> Fits(stream.ends)
  BY <1>1 DEF Fits
<1> USE <1>1, <1>2, <1>3, <1>4
<1>5. CASE WriteLimited
  <2>1. /\ decoder = "decoding" /\ sent < Len(stream.ends) /\ sent \in 0..Len(stream.ends)
        /\ sent + 1 \in 1..Len(stream.ends)
    BY <1>5 DEF WriteLimited, TarInv
  <2>2. CASE Admits(Behind, Len(Upcoming), MaxOutput) /\ Write
    <3>1. stream.ends[sent + 1] <= MaxOutput
      BY <2>1, <2>2, UpcomingLimited
    <3>2. CASE sent' = sent + 1 /\ UNCHANGED decoder
      BY <2>1, <2>2, <3>1, <3>2 DEF Write, TarInv
    <3>3. CASE decoder' = "sending" /\ UNCHANGED sent
      BY <2>1, <2>2, <3>1, <3>3 DEF Write, TarInv
    <3> QED
      BY <2>2, <3>2, <3>3 DEF Write
  <2>3. CASE ~Admits(Behind, Len(Upcoming), MaxOutput) /\ StopDecoding("bad")
    <3>1. ~Fits(stream.ends)
      BY <2>1, <2>3, UpcomingLimited, OverLimit
    <3> QED
      BY <2>1, <2>3, <3>1 DEF StopDecoding, TarInv
  <2> QED
    BY <1>5, <2>2, <2>3 DEF WriteLimited
<1>6. CASE EndOfStream
  BY <1>6 DEF EndOfStream, StopDecoding, TarInv
<1>7. CASE SendFails
  BY <1>7 DEF SendFails, StopDecoding, TarInv
<1>8. CASE SeesCancelled
  BY <1>8 DEF SeesCancelled, StopDecoding, TarInv
<1>9. CASE DropOutput
  BY <1>9 DEF DropOutput, TarInv
<1>10. CASE ThreadEnds
  BY <1>10 DEF ThreadEnds, TarInv
<1> QED
  BY <1>5, <1>6, <1>7, <1>8, <1>9, <1>10 DEF Deciding

\* Steps of the crate that receive.
LEMMA ReceiveKeeps ==
    ASSUME CIInv, "tar" \in Kinds, UNCHANGED <<run, archive, commit, staged, unpacker, extracted>>,
           NEW room, Receive(room)
    PROVE  TarInv'
<1>1. Kinds' = Kinds
  BY Fixed
<1>2. Len(stream.ends) \in Nat
  BY StreamsAssumption DEF CIInv, UnpackInv
<1>3. TarInv
  BY DEF CIInv
<1>4. CASE ReadChunk(room)
  BY <1>1, <1>3, <1>4 DEF ReadChunk, TarInv, Fits
<1>5. CASE ReceiveChunk(room)
  BY <1>1, <1>2, <1>3, <1>5 DEF ReceiveChunk, TarInv, Fits
<1> QED
  BY <1>4, <1>5 DEF Receive

LEMMA TarKeeps ==
    ASSUME CIInv, Unpack, Input.kind = "tar", TarStep, UNCHANGED <<work, written>>
    PROVE  CIInv'
<1>1. /\ stage = "extracting" /\ turn <= Len(run.inputs)
      /\ UNCHANGED <<options, run, overwrite, files, turn, stage, source, size, tree, todo, commit>>
  BY DEF Unpack, CIInv, StreamTypes, options
<1>2. /\ "tar" \in Kinds /\ "zip" \notin Kinds /\ unpacker # "waiting"
  BY <1>1, InputFacts, OneArchive DEF CIInv, UnpackInv, StreamTypes
<1>3. /\ stream = archive.stream /\ stream.ends \in Seq(Nat) /\ Len(stream.ends) \in Nat
      /\ stream.outcome \in {"ok", "bad", "panic"} /\ stream.ends # <<>> /\ stream \in Streams
      /\ archive.ends \in {"ok", "archive"} /\ IsGoal(archive.holds) /\ Goal = archive.holds
      /\ Entries = <<>> /\ DOMAIN Entries = {}
  BY <1>2, StreamsAssumption, EntryFacts, TarGoal DEF CIInv, UnpackInv, StreamTypes
<1>4. TarInv /\ CommitInv /\ BlameTruthful
  BY DEF CIInv
\* What every step leaves.
<1>5. ASSUME UNCHANGED <<archive, stream>>
      PROVE  /\ Kinds' = Kinds /\ Entries' = Entries /\ (Valid' <=> Valid)
             /\ Fits(stream.ends)' <=> Fits(stream.ends)
             /\ Last(stream.ends)' = Last(stream.ends)
  BY <1>1, <1>5, Fixed, FixedValid DEF Fits
\* A step before the verdict, with what it leaves.
<1>6. ASSUME TarInv', UNCHANGED <<archive, stream, verdict>>,
             unpacker # "answered", unpacker' \notin {"waiting", "answered"}, DOMAIN staged' = Paths
      PROVE  CIInv'
  <2>1. StreamInv'
    BY <1>1, UnpackStream
  <2>2. /\ UnpackInv' /\ commit = "waiting" /\ verdict = "none" /\ Goal' = Goal /\ Kinds' = Kinds
        /\ (Accepted' <=> Accepted) /\ (Valid' <=> Valid) /\ Entries' = Entries
    BY <1>1, <1>6, UnpackVerdict DEF CIInv, UnpackInv
  <2>3. BlameTruthful'
    BY <1>3, <1>6, <2>2 DEF BlameTruthful
  <2>4. ZipInv'
    BY <1>2, <2>2 DEF ZipInv
  <2>5. CommitInv'
    BY <1>1, <1>2, <1>4, <1>6, <2>2 DEF CommitInv
  <2> QED
    BY <1>6, <2>1, <2>2, <2>3, <2>4, <2>5 DEF CIInv, StreamInv
\* The verdict, with what it leaves.
<1>7. ASSUME TarInv', UNCHANGED <<archive, stream, staged>>, unpacker # "answered",
             unpacker' = "answered", verdict' \in {"ok", "bad", "panic", "archive", "io"},
             verdict' = "ok" => Valid /\ staged = Goal,
             verdict' = "bad" => ~Valid,
             verdict' = "panic" => stream.outcome = "panic",
             verdict' = "archive" =>
                \/ archive.ends = "archive"
                \/ stream.outcome = "ok" /\ Last(stream.ends) < archive.reads
      PROVE  CIInv'
  <2>1. /\ UnpackInv' /\ commit = "waiting" /\ verdict = "none" /\ Goal' = Goal /\ Kinds' = Kinds
        /\ (Accepted' <=> Accepted) /\ (Valid' <=> Valid) /\ Entries' = Entries
    BY <1>1, <1>7, UnpackVerdict
  <2>2. BlameTruthful'
    BY <1>3, <1>5, <1>7, <2>1 DEF BlameTruthful
  <2>3. ZipInv'
    BY <1>2, <2>1 DEF ZipInv
  <2>4. CommitInv'
    BY <1>1, <1>2, <1>4, <1>7, <2>1 DEF CommitInv
  <2>5. StreamInv'
    BY <1>1, UnpackStream
  <2> QED
    BY <1>7, <2>1, <2>2, <2>3, <2>4, <2>5 DEF CIInv, StreamInv
<1>8. DOMAIN staged = Paths /\ DOMAIN archive.holds = Paths
  BY <1>3, <1>4 DEF CommitInv, IsGoal, IsTree
<1>9. CASE Stage
  <2>1. unpacker = "staging" /\ UNCHANGED <<pipe, archive, extracted, staged>>
    BY <1>9 DEF Stage
  <2>2. CASE unpacker' = "extracting" /\ UNCHANGED verdict
    <3>1. TarInv'
      BY <1>1, <1>4, <1>5, <2>1, <2>2 DEF TarInv, pipe
    <3> QED
      BY <1>6, <1>8, <2>1, <2>2, <3>1 DEF pipe
  <2>3. CASE unpacker' = "answered" /\ verdict' = "io"
    <3>1. TarInv'
      BY <1>1, <1>2, <1>4, <1>5, <2>1, <2>3 DEF TarInv, pipe
    <3> QED
      BY <1>7, <2>1, <2>3, <3>1 DEF pipe
  <2> QED
    BY <1>9, <2>2, <2>3 DEF Stage
<1>10. CASE DecoderStep
  <2>1. /\ Deciding /\ unpacker \notin {"staging", "answered"}
        /\ UNCHANGED <<unpacker, archive, verdict, staged, extracted>>
    BY <1>10 DEF DecoderStep, Deciding, tarRest
  <2>2. TarInv' /\ UNCHANGED stream
    BY <1>1, <1>2, <2>1, DecodingKeeps
  <2> QED
    BY <1>2, <1>6, <1>8, <2>1, <2>2
<1>11. CASE \E room : Receive(room) /\ UNCHANGED <<unpacker, tarRest>>
                /\ unpacker \in {"extracting", "draining"}
  <2>1. UNCHANGED <<archive, stream, verdict, staged, extracted>>
    BY <1>11 DEF tarRest, Receive, ReadChunk, ReceiveChunk
  <2>2. TarInv'
    BY <1>1, <1>2, <1>11, <2>1, ReceiveKeeps
  <2> QED
    BY <1>6, <1>8, <1>11, <2>1, <2>2
\* The crate comes to an end.
<1>12. ASSUME NEW how \in {"ok", "archive", "io"}, ExtractionEnds(how), unpacker = "extracting",
              how = "archive" =>
                 \/ archive.ends = "archive"
                 \/ /\ decoded \notin {"none", "broken pipe"}
                    /\ decoded = "ok" => Last(stream.ends) < archive.reads
       PROVE  CIInv'
  <2>1. /\ UNCHANGED <<pipe, archive, verdict, stream>> /\ extracted' = how
        /\ unpacker' = (IF how = "ok" THEN "draining" ELSE "dropping")
        /\ staged' = (IF how = "ok" THEN archive.holds ELSE staged)
    BY <1>12 DEF ExtractionEnds, pipe
  <2>2. TarInv'
    BY <1>1, <1>4, <1>5, <1>12, <2>1 DEF TarInv, pipe
  <2> QED
    BY <1>6, <1>8, <1>12, <2>1, <2>2
<1>13. CASE ExtractWhole
  BY <1>3, <1>12, <1>13 DEF ExtractWhole
<1>14. CASE ExtractCut
  <2>1. PICK how \in {"ok", "archive"} : ExtractionEnds(how)
    BY <1>14 DEF ExtractCut
  <2>2. /\ unpacker = "extracting" /\ decoder \in {"closed", "ended"} /\ chunk = <<>>
        /\ Position < archive.reads
    BY <1>14 DEF ExtractCut, PipeEnded
  <2>3. ~cancelled /\ decoded \notin {"none", "broken pipe"}
        /\ (decoded = "ok" => sent = Len(stream.ends))
    BY <1>2, <1>3, <1>4, <2>2 DEF TarInv
  <2>4. decoded = "ok" => Last(stream.ends) < archive.reads
    <3> SUFFICES ASSUME decoded = "ok"
                 PROVE  Last(stream.ends) < archive.reads
      OBVIOUS
    <3>1. Len(stream.ends) # 0 /\ stream.ends[Len(stream.ends)] \in Nat
      BY <1>3
    <3>2. Behind = stream.ends[Len(stream.ends)] /\ Len(chunk) = 0
      BY <2>2, <2>3, <3>1 DEF Behind
    <3>3. Last(stream.ends) = stream.ends[Len(stream.ends)]
      BY <1>3 DEF Last
    <3> QED
      BY <2>2, <3>1, <3>2, <3>3 DEF Position
  <2> QED
    BY <1>12, <2>1, <2>2, <2>3, <2>4
<1>15. CASE ExtractFails
  BY <1>12, <1>15 DEF ExtractFails
<1>16. CASE Drained
  <2>1. /\ unpacker = "draining" /\ unpacker' = "dropping" /\ UNCHANGED <<pipe, tarRest>>
        /\ decoder \in {"closed", "ended"}
    BY <1>16 DEF Drained, PipeEnded
  <2>2. TarInv'
    <3>1. extracted = "ok" /\ ~cancelled /\ decoded # "broken pipe"
      BY <1>2, <1>3, <1>4, <2>1 DEF TarInv
    <3> QED
      BY <1>1, <1>2, <1>4, <1>5, <2>1, <3>1 DEF TarInv, tarRest, pipe
  <2> QED
    BY <1>6, <1>8, <2>1, <2>2 DEF tarRest, pipe
<1>17. CASE DropReader
  <2>1. /\ unpacker = "dropping" /\ unpacker' = "joining" /\ DropPipe /\ UNCHANGED tarRest
    BY <1>17 DEF DropReader
  <2>2. TarInv'
    BY <1>1, <1>2, <1>4, <1>5, <2>1 DEF TarInv, tarRest, DropPipe
  <2> QED
    BY <1>6, <1>8, <2>1, <2>2 DEF tarRest, DropPipe
<1>18. CASE JoinDecoder
  <2>1. /\ unpacker = "joining" /\ decoder = "ended" /\ unpacker' = "answered"
        /\ verdict' = Blame /\ UNCHANGED <<pipe, archive, extracted, staged>>
    BY <1>18 DEF JoinDecoder
  <2>2. /\ extracted \in {"ok", "archive", "io"} /\ decoded \in {"ok", "bad", "panic", "broken pipe"}
        /\ decoded = "broken pipe" => extracted # "ok"
        /\ decoded = "ok" => stream.outcome = "ok" /\ sent = Len(stream.ends)
        /\ decoded = "bad" => stream.outcome = "bad" \/ ~Fits(stream.ends)
        /\ decoded = "panic" => stream.outcome = "panic"
    BY <1>2, <1>3, <1>4, <2>1 DEF TarInv
  <2>3. /\ Blame = "ok" => decoded = "ok" /\ extracted = "ok"
        /\ Blame = "panic" => decoded = "panic"
        /\ Blame = "archive" => extracted = "archive" /\ decoded \in {"ok", "broken pipe"}
        /\ Blame = "bad" => decoded = "bad"
        /\ Blame \in {"ok", "bad", "panic", "archive", "io"}
    BY <2>2 DEF Blame
  <2>4. TarInv'
    BY <1>1, <1>2, <1>4, <1>5, <2>1, <2>2 DEF TarInv, pipe
  <2>5. decoded = "ok" => Valid
    <3> SUFFICES ASSUME decoded = "ok"
                 PROVE  Valid
      OBVIOUS
    <3>1. sent # 0 /\ stream.ends[sent] <= MaxOutput /\ Last(stream.ends) = stream.ends[sent]
      BY <1>2, <1>3, <1>4, <2>2 DEF TarInv, Last
    <3> QED
      BY <1>3, <2>2, <3>1 DEF Valid, Fits
  <2>6. decoded = "bad" => ~Valid
    BY <2>2 DEF Valid
  <2>7. extracted = "ok" => staged = Goal
    BY <1>1, <1>2, <1>3, <1>4, <2>1 DEF TarInv, CIInv, UnpackInv
  <2>8. Blame = "archive" =>
            \/ archive.ends = "archive"
            \/ stream.outcome = "ok" /\ Last(stream.ends) < archive.reads
    BY <1>2, <1>4, <2>2, <2>3 DEF TarInv
  <2> QED
    BY <1>7, <2>1, <2>2, <2>3, <2>4, <2>5, <2>6, <2>7, <2>8 DEF pipe
<1>19. CASE Extract
  <2>1. PICK room \in 1..(archive.reads - Position) : Receive(room)
    BY <1>19 DEF Extract
  <2> QED
    BY <1>11, <1>19, <2>1 DEF Extract
<1>20. CASE Drain
  BY <1>11, <1>20 DEF Drain
<1> QED
  BY <1>9, <1>10, <1>13, <1>14, <1>15, <1>16, <1>17, <1>18, <1>19, <1>20 DEF TarStep

------------------------------------------------------------------------------
(* ZIP.                                                                     *)

\* An entry that is next to be created finds its place free.
LEMMA PlaceIsFree ==
    ASSUME CIInv, "zip" \in Kinds, unpacker \in {"within", "across"},
           NEW i \in DOMAIN Entries, Entries[i].kind # "dir", ~Created(i)
    PROVE  Free(Entries[i].path) /\ Prepared[Entries[i].path] # "dir"
<1>1. Accepted /\ staged = ZipTree
  BY DEF CIInv, ZipInv
<1>2. /\ \A j \in DOMAIN Entries :
            /\ Entries[j].path \in Paths
            /\ Entries[j].kind \in {"dir", "file", "link"}
            /\ Entries[j].path # <<>>
            /\ i # j => /\ Entries[i].path # Entries[j].path
                        /\ ~IsStrictPrefix(Entries[i].path, Entries[j].path)
  BY <1>1, EntryFacts DEF CIInv, StreamTypes, UnpackInv, Accepted, ValidLayout
<1> DEFINE p == Entries[i].path
<1>3. p \in Paths /\ p # <<>>
  BY <1>2
<1>4. Prepared[p] # "dir"
  <2> SUFFICES ASSUME NEW j \in DOMAIN Entries,
                      IF Entries[j].kind = "dir" THEN IsPrefix(p, Entries[j].path)
                                                 ELSE IsStrictPrefix(p, Entries[j].path)
               PROVE  FALSE
    BY <1>3, PreparedAt
  <2> QED
    BY <1>2 DEF IsStrictPrefix
<1>5. staged[p] = "absent"
  <2>1. ~\E j \in DOMAIN Entries : Entries[j].path = p /\ Created(j)
    BY <1>2
  <2> QED
    BY <1>1, <1>3, <1>4, <2>1 DEF ZipTree
<1>6. staged[Front(p)] = "dir"
  <2>1. Front(p) \in Paths /\ IsStrictPrefix(Front(p), p)
    BY <1>3, FrontAbove
  <2>2. Prepared[Front(p)] = "dir"
    BY <2>1, PreparedAt
  <2> QED
    BY <1>1, <2>1, <2>2 DEF ZipTree
<1> QED
  BY <1>4, <1>5, <1>6 DEF Free

LEMMA ZipKeeps ==
    ASSUME CIInv, Unpack, Input.kind = "zip", ZipStep
    PROVE  CIInv'
<1>1. /\ stage = "extracting" /\ turn <= Len(run.inputs)
      /\ UNCHANGED <<options, run, overwrite, files, turn, stage, source, size, tree, todo, commit>>
      /\ UNCHANGED <<pipe, stream, archive>>
  BY DEF Unpack, CIInv, StreamTypes, options, ZipStep, pipe
<1>2. /\ "zip" \in Kinds /\ "tar" \notin Kinds /\ unpacker # "waiting"
  BY <1>1, InputFacts, OneArchive DEF CIInv, UnpackInv, StreamTypes
<1>3. /\ stream.outcome = "ok" /\ Fits(stream.ends)
      /\ \A i \in DOMAIN Entries :
            /\ Entries[i].path \in Paths
            /\ Entries[i].kind \in {"dir", "file", "link"}
            /\ Entries[i].large \in BOOLEAN
            /\ Entries[i].size \in Nat /\ Entries[i].decodes \in Nat
  BY <1>2, EntryFacts DEF CIInv, UnpackInv, StreamTypes, Fits
<1>4. ZipInv /\ CommitInv /\ BlameTruthful
  BY DEF CIInv
<1>5. /\ Kinds' = Kinds /\ Goal' = Goal /\ Entries' = Entries /\ Prepared' = Prepared
      /\ (Accepted' <=> Accepted) /\ (Valid' <=> Valid)
  BY <1>1, Fixed, FixedValid
<1>6. TarInv' /\ StreamInv'
  BY <1>1, <1>2, <1>5, UnpackStream DEF TarInv
\* A step without a verdict, with what it leaves.
<1>7. ASSUME ZipInv', verdict' = verdict, unpacker # "answered",
             unpacker' \notin {"waiting", "answered"}, DOMAIN staged' = Paths
      PROVE  CIInv'
  <2>1. UnpackInv' /\ verdict = "none" /\ commit = "waiting"
    BY <1>1, <1>7, UnpackVerdict DEF CIInv, UnpackInv
  <2>2. BlameTruthful'
    <3>1. \A i \in DOMAIN Entries : work'[i] \in States
      BY <1>2, <1>5, <1>7 DEF ZipInv
    <3> QED
      BY <1>5, <1>7, <2>1, <3>1 DEF BlameTruthful, States
  <2>3. CommitInv'
    BY <1>1, <1>2, <1>4, <1>5, <1>7, <2>1 DEF CommitInv
  <2> QED
    BY <1>6, <1>7, <2>1, <2>2, <2>3 DEF CIInv, StreamInv
\* A step with a verdict.
<1>8. ASSUME unpacker # "answered", unpacker' = "answered", verdict' \in {"ok", "bad", "io"},
             verdict' = "bad" =>
                \/ ~(Valid /\ Accepted)
                \/ extracted' = "no pool"
                \/ \E i \in DOMAIN Entries : work[i] = "blamed",
             verdict' = "ok" =>
                /\ Accepted /\ AllDone(TRUE) /\ AllDone(FALSE)
                /\ staged = ZipTree
                /\ UNCHANGED <<work, written>>,
             \A i \in DOMAIN Entries : work[i] # "decoding",
             UNCHANGED <<staged, work, written>>
      PROVE  CIInv'
  <2>1. UnpackInv' /\ verdict = "none" /\ commit = "waiting"
    BY <1>1, <1>8, UnpackVerdict DEF CIInv, UnpackInv
  <2>2. verdict' = "ok" => \A i \in DOMAIN Entries : work[i] = "done"
    BY <1>3, <1>8 DEF AllDone
  <2>3. verdict' = "ok" => Valid
    BY <1>2, <1>3, <1>4, <2>2 DEF Valid, ZipInv
  <2>4. BlameTruthful'
    <3>1. \A i \in DOMAIN Entries : work[i] \in States
      BY <1>2, <1>4 DEF ZipInv
    <3>2. verdict' = "bad" => ~(Valid /\ Accepted) \/ Misblamed'
      BY <1>5, <1>8 DEF Misblamed
    <3> QED
      BY <1>1, <1>5, <1>8, <2>3, <3>1, <3>2 DEF BlameTruthful, States
  <2>5. ZipInv'
    <3>1. ZipTree' = ZipTree
      BY <1>5, <1>8 DEF ZipTree, Created
    <3>2. (AllDone(TRUE)' <=> AllDone(TRUE)) /\ (AllDone(FALSE)' <=> AllDone(FALSE))
      BY <1>5, <1>8 DEF AllDone
    <3> QED
      BY <1>1, <1>2, <1>4, <1>5, <1>8, <3>1, <3>2 DEF ZipInv
  <2>6. verdict' = "ok" => staged = Goal
    <3> SUFFICES ASSUME verdict' = "ok"
                 PROVE  staged = Goal
      OBVIOUS
    <3>1. \A i \in DOMAIN Entries : Entries[i].kind # "dir" => Created(i)
      BY <1>3, <2>2 DEF Created
    <3>2. \A i \in DOMAIN Entries : Entries[i].kind = "dir" => Prepared[Entries[i].path] = "dir"
      BY <1>3, PreparedAt, PrefixReflexive
    <3>3. \A p \in Paths : ZipTree[p] = Holds(p)
      BY <1>2, <3>1, <3>2 DEF ZipTree, Holds
    <3>4. ZipTree = [p \in Paths |-> ZipTree[p]]
      BY DEF ZipTree
    <3> QED
      BY <1>8, <3>3, <3>4 DEF Goal
  <2>7. CommitInv'
    BY <1>1, <1>2, <1>4, <1>5, <1>8, <2>1, <2>6 DEF CommitInv
  <2> QED
    BY <1>6, <2>1, <2>4, <2>5, <2>7 DEF CIInv, StreamInv
<1>9. DOMAIN staged = Paths
  BY <1>4 DEF CommitInv
<1>10. CASE Parse /\ Accepted /\ unpacker' = "within"
  <2>1. /\ unpacker = "parsing" /\ staged' = Prepared /\ unpacker' = "within"
        /\ UNCHANGED <<verdict, work, written>>
    BY <1>10 DEF Parse, Answer
  <2>2. \A i \in DOMAIN Entries : work[i] = "waiting"
    BY <1>2, <1>4, <2>1 DEF ZipInv
  <2>3. ZipTree' = Prepared
    <3>1. \A i \in DOMAIN Entries : ~Created(i)'
      BY <1>5, <2>1, <2>2 DEF Created
    <3>2. ZipTree' = [p \in Paths |-> IF Prepared[p] = "dir" THEN "dir" ELSE "absent"]
      BY <1>5, <3>1 DEF ZipTree
    <3>3. \A p \in Paths : Prepared[p] \in {"dir", "absent"}
      BY PreparedAt
    <3>4. Prepared = [p \in Paths |-> Prepared[p]]
      BY DEF Prepared
    <3> QED
      BY <3>2, <3>3, <3>4
  <2>4. verdict = "none"
    BY <2>1 DEF CIInv, UnpackInv
  <2>5. ZipInv'
    BY <1>2, <1>4, <1>5, <1>10, <2>1, <2>2, <2>3, <2>4 DEF ZipInv
  <2> QED
    BY <1>7, <2>1, <2>5 DEF Prepared
<1>11. CASE Parse /\ unpacker' = "answered"
  <2>1. /\ unpacker = "parsing" /\ unpacker' = "answered" /\ verdict' \in {"bad", "io"}
        /\ verdict' = "bad" => ~Accepted
        /\ UNCHANGED <<staged, work, written>>
    BY <1>11 DEF Parse, Answer
  <2>2. \A i \in DOMAIN Entries : work[i] = "waiting"
    BY <1>2, <1>4, <2>1 DEF ZipInv
  <2> QED
    BY <1>8, <1>11, <2>1, <2>2
<1>12. CASE RunAcross /\ unpacker' = "across"
  <2>1. /\ unpacker = "within" /\ unpacker' = "across" /\ AllDone(TRUE)
        /\ UNCHANGED <<staged, work, written, verdict>>
    BY <1>12 DEF RunAcross, Answer
  <2>2. ZipInv'
    <3>1. ZipTree' = ZipTree
      BY <1>5, <2>1 DEF ZipTree, Created
    <3>2. (AllDone(TRUE)' <=> AllDone(TRUE)) /\ (AllDone(FALSE)' <=> AllDone(FALSE))
      BY <1>5, <2>1 DEF AllDone
    <3>3. verdict = "none"
      BY <2>1 DEF CIInv, UnpackInv
    <3> QED
      BY <1>2, <1>4, <1>5, <2>1, <3>1, <3>2, <3>3 DEF ZipInv
  <2> QED
    BY <1>7, <1>9, <2>1, <2>2
\* No entry that runs alone is under way when the pool is to begin.
<1>13. CASE RunAcross /\ unpacker' = "answered"
  <2>1. /\ unpacker = "within" /\ AllDone(TRUE) /\ verdict' = "bad" /\ extracted' = "no pool"
        /\ UNCHANGED <<staged, work, written>>
    BY <1>13 DEF RunAcross, Answer
  <2>2. \A i \in DOMAIN Entries : work[i] # "decoding"
    BY <1>2, <1>3, <1>4, <2>1 DEF ZipInv, AllDone
  <2> QED
    BY <1>8, <1>13, <2>1, <2>2
<1>14. CASE RunEnds
  <2>1. /\ unpacker \in {"within", "across"} /\ Running = {} /\ unpacker' = "answered"
        /\ \/ \E i \in DOMAIN Entries : work[i] \in Faults /\ verdict' = Report(i)
           \/ unpacker = "across" /\ AllDone(FALSE) /\ verdict' \in {"ok", "io"}
        /\ UNCHANGED <<staged, work, written>>
    BY <1>14 DEF RunEnds, Answer
  <2>2. \A i \in DOMAIN Entries : work[i] # "decoding"
    BY <2>1 DEF Running
  <2>3. CASE \E i \in DOMAIN Entries : work[i] \in Faults /\ verdict' = Report(i)
    <3>1. PICK i \in DOMAIN Entries : work[i] \in Faults /\ verdict' = Report(i)
      BY <2>3
    <3>2. work[i] = "failed" => ~Valid
      BY <1>2, <1>4 DEF ZipInv
    <3>3. verdict' \in {"bad", "io"} /\ (verdict' = "bad" => work[i] \in {"failed", "blamed"})
      BY <3>1 DEF Report
    <3> QED
      BY <1>8, <2>1, <2>2, <3>2, <3>3
  <2>4. CASE unpacker = "across" /\ AllDone(FALSE) /\ verdict' \in {"ok", "io"}
    <3>1. Accepted /\ AllDone(TRUE) /\ staged = ZipTree
      BY <1>2, <1>4, <2>4 DEF ZipInv
    <3> QED
      BY <1>8, <2>1, <2>2, <2>4, <3>1
  <2> QED
    BY <2>1, <2>3, <2>4
\* An entry goes on to another state, and what it creates is there.
<1>15. ASSUME NEW i \in DOMAIN Entries, NEW state \in States \ {"waiting"},
              unpacker \in {"within", "across"},
              work[i] \in {"waiting", "decoding"},
              work' = [work EXCEPT ![i] = state],
              UNCHANGED <<unpacker, verdict, extracted, written>>,
              state = "decoding" => Entries[i].kind # "dir",
              state = "decoding" /\ unpacker = "within" => Entries[i].large = TRUE,
              state = "done" /\ Entries[i].kind # "dir" =>
                    Entries[i].sound /\ Entries[i].decodes = Entries[i].size,
              state = "failed" => ~Valid,
              \/ staged' = staged /\ (Created(i)' <=> Created(i))
              \/ /\ staged' = [staged EXCEPT ![Entries[i].path] = "entry"]
                 /\ Created(i)' /\ Prepared[Entries[i].path] # "dir"
       PROVE  CIInv'
  <2>1. /\ DOMAIN work = DOMAIN Entries /\ work'[i] = state
        /\ \A j \in DOMAIN Entries : j # i => work'[j] = work[j]
    BY <1>2, <1>4, <1>15 DEF ZipInv
  <2>2. \A j \in DOMAIN Entries : j # i => (Created(j)' <=> Created(j))
    BY <1>5, <2>1 DEF Created
  <2>3. staged = ZipTree
    BY <1>2, <1>4, <1>15 DEF ZipInv
  <2>4. staged' = ZipTree'
    <3>1. CASE staged' = staged /\ (Created(i)' <=> Created(i))
      <4>1. \A j \in DOMAIN Entries : Created(j)' <=> Created(j)
        BY <2>2, <3>1
      <4>2. ZipTree' = ZipTree
        BY <1>5, <4>1 DEF ZipTree
      <4> QED
        BY <2>3, <3>1, <4>2
    <3>2. CASE /\ staged' = [staged EXCEPT ![Entries[i].path] = "entry"]
               /\ Created(i)' /\ Prepared[Entries[i].path] # "dir"
      <4>1. DOMAIN staged' = Paths /\ staged' = [p \in Paths |-> staged'[p]]
        BY <1>9, <3>2
      <4>2. ASSUME NEW p \in Paths
            PROVE  ZipTree'[p] = staged'[p]
        <5>1. CASE p = Entries[i].path
          <6>1. staged'[p] = "entry"
            BY <1>9, <3>2, <5>1
          <6>2. ZipTree'[p] = "entry"
            BY <1>5, <3>2, <5>1 DEF ZipTree
          <6> QED
            BY <6>1, <6>2
        <5>2. CASE p # Entries[i].path
          <6>1. staged'[p] = ZipTree[p]
            BY <1>9, <2>3, <3>2, <5>2
          <6>2. (\E j \in DOMAIN Entries : Entries[j].path = p /\ Created(j)') <=>
                (\E j \in DOMAIN Entries : Entries[j].path = p /\ Created(j))
            BY <2>2, <5>2
          <6>3. ZipTree'[p] = ZipTree[p]
            BY <1>5, <6>2 DEF ZipTree
          <6> QED
            BY <6>1, <6>3
        <5> QED
          BY <5>1, <5>2
      <4>3. ZipTree' = [p \in Paths |-> ZipTree'[p]]
        BY DEF ZipTree
      <4> QED
        BY <4>1, <4>2, <4>3
    <3> QED
      BY <1>15, <3>1, <3>2
  <2>5. verdict = "none"
    BY <1>15 DEF CIInv, UnpackInv
  <2>6. AllDone(TRUE) => AllDone(TRUE)'
    BY <1>5, <1>15, <2>1 DEF AllDone
  <2>7. \A j \in DOMAIN Entries :
              /\ work'[j] \in States
              /\ written[j] \in Nat
              /\ work'[j] = "decoding" =>
                    Entries[j].kind # "dir" /\ unpacker \in {"within", "across"}
              /\ work'[j] = "decoding" /\ unpacker = "within" => Entries[j].large = TRUE
              /\ work'[j] = "done" /\ Entries[j].kind # "dir" =>
                    Entries[j].sound /\ Entries[j].decodes = Entries[j].size
              /\ work'[j] = "failed" => ~Valid
    BY <1>2, <1>4, <1>15, <2>1 DEF ZipInv
  <2>8. DOMAIN work' = DOMAIN Entries
    BY <1>15, <2>1
  <2>9. ZipInv'
    BY <1>2, <1>4, <1>5, <1>15, <2>4, <2>5, <2>6, <2>7, <2>8 DEF ZipInv
  <2>10. DOMAIN staged' = Paths
    BY <2>4 DEF ZipTree
  <2> QED
    BY <1>7, <1>15, <2>9, <2>10
<1>16. ASSUME NEW i \in DOMAIN Entries
       PROVE  /\ work[i] \in States
              /\ written[i] \in Nat
              /\ work[i] = "decoding" =>
                    Entries[i].kind # "dir" /\ unpacker \in {"within", "across"}
  BY <1>2, <1>4 DEF ZipInv
<1>17. ASSUME NEW i \in DOMAIN Entries, StartEntry(i)
       PROVE  CIInv'
  <2>1. /\ work[i] = "waiting" /\ unpacker \in {"within", "across"}
        /\ unpacker = "within" => Entries[i].large = TRUE
        /\ UNCHANGED <<extracted, written>>
    BY <1>17, <1>3 DEF StartEntry, MayStart
  <2>2. CASE Entries[i].kind = "dir" /\ Becomes(i, "done") /\ UNCHANGED staged
    BY <1>5, <1>15, <2>1, <2>2 DEF Becomes, Created, States
  <2>3. CASE Entries[i].kind = "link" /\ Becomes(i, "decoding") /\ UNCHANGED staged
    <3>1. DOMAIN work = DOMAIN Entries
      BY <1>2, <1>4 DEF ZipInv
    <3>2. ~Created(i) /\ ~Created(i)'
      BY <1>5, <2>1, <2>3, <3>1 DEF Becomes, Created
    <3> QED
      BY <1>15, <2>1, <2>3, <3>2 DEF Becomes, States
  <2>4. CASE /\ Entries[i].kind = "file"
             /\ IF Free(Entries[i].path)
                THEN Create(Entries[i].path) /\ Becomes(i, "decoding")
                ELSE Becomes(i, "clash") /\ UNCHANGED staged
    <3>1. DOMAIN work = DOMAIN Entries
      BY <1>2, <1>4 DEF ZipInv
    <3>2. Free(Entries[i].path) /\ Prepared[Entries[i].path] # "dir"
      BY <1>2, <2>1, <2>4, PlaceIsFree DEF Created
    <3>3. Created(i)'
      BY <1>5, <2>4, <3>1, <3>2 DEF Becomes, Created
    <3> QED
      BY <1>15, <2>1, <2>4, <3>2, <3>3 DEF Becomes, Create, States
  <2>5. CASE Entries[i].kind = "file" /\ Becomes(i, "unmade") /\ UNCHANGED staged
    <3>1. DOMAIN work = DOMAIN Entries
      BY <1>2, <1>4 DEF ZipInv
    <3>2. Created(i)' <=> Created(i)
      BY <1>5, <2>1, <2>5, <3>1 DEF Becomes, Created
    <3> QED
      BY <1>15, <2>1, <2>5, <3>2 DEF Becomes, States
  <2> QED
    BY <1>17, <2>2, <2>3, <2>4, <2>5 DEF StartEntry
<1>18. ASSUME NEW i \in DOMAIN Entries, WriteEntry(i)
       PROVE  CIInv'
  <2>1. /\ work[i] = "decoding" /\ unpacker \in {"within", "across"} /\ Entries[i].kind # "dir"
        /\ written[i] \in Nat /\ written[i] < Entries[i].decodes /\ UNCHANGED <<extracted, staged>>
        /\ DOMAIN work = DOMAIN Entries
    BY <1>2, <1>4, <1>16, <1>18 DEF WriteEntry, ZipInv
  <2>2. CASE written' = [written EXCEPT ![i] = @ + 1] /\ UNCHANGED <<work, unpacker, verdict>>
    <3>1. verdict = "none"
      BY <2>1 DEF CIInv, UnpackInv
    <3>2. DOMAIN written' = DOMAIN Entries /\ \A j \in DOMAIN Entries : written'[j] \in Nat
      BY <1>2, <1>4, <2>1, <2>2 DEF ZipInv
    <3>3. ZipTree' = ZipTree
      BY <1>5, <2>2 DEF ZipTree, Created
    <3>4. AllDone(TRUE)' <=> AllDone(TRUE)
      BY <1>5, <2>2 DEF AllDone
    <3>5. ZipInv'
      BY <1>1, <1>2, <1>4, <1>5, <2>1, <2>2, <3>1, <3>2, <3>3, <3>4 DEF ZipInv
    <3> QED
      BY <1>7, <1>9, <2>1, <2>2, <3>5
  <2>3. CASE Refuses(i) /\ Becomes(i, "failed") /\ UNCHANGED written
    <3>1. Entries[i].decodes # Entries[i].size
      BY <1>3, <2>1, <2>3 DEF Refuses, Admits
    <3>2. ~Valid
      BY <2>1, <3>1 DEF Valid
    <3>3. Created(i)' <=> Created(i)
      BY <1>5, <2>1, <2>3 DEF Created, Becomes
    <3> QED
      BY <1>15, <2>1, <2>3, <3>2, <3>3 DEF Becomes, States
  <2>4. CASE \E state \in {"unfinished", "blamed"} :
                Entries[i].kind = "file" /\ Becomes(i, state) /\ UNCHANGED written
    <3>1. PICK state \in {"unfinished", "blamed"} : Becomes(i, state)
      BY <2>4
    <3>2. Created(i)' <=> Created(i)
      BY <1>5, <2>1, <2>4, <3>1 DEF Created, Becomes
    <3> QED
      BY <1>15, <2>1, <2>4, <3>1, <3>2 DEF Becomes, States
  <2> QED
    BY <1>18, <2>2, <2>3, <2>4 DEF WriteEntry
<1>19. ASSUME NEW i \in DOMAIN Entries, FinishEntry(i)
       PROVE  CIInv'
  <2>1. /\ work[i] = "decoding" /\ unpacker \in {"within", "across"} /\ Entries[i].kind # "dir"
        /\ written[i] = Entries[i].decodes /\ UNCHANGED <<extracted, written>>
        /\ DOMAIN work = DOMAIN Entries
    BY <1>2, <1>4, <1>16, <1>19 DEF FinishEntry, ZipInv
  <2>2. CASE ~Whole(i) /\ Becomes(i, "failed") /\ UNCHANGED staged
    <3>1. ~Valid
      BY <2>1, <2>2 DEF Valid, Whole
    <3>2. Created(i)' <=> Created(i)
      BY <1>5, <2>1, <2>2 DEF Created, Becomes
    <3> QED
      BY <1>15, <2>1, <2>2, <3>1, <3>2 DEF Becomes, States
  <2>3. CASE Whole(i) /\ Entries[i].kind = "link" /\ CreateLink(i)
    <3>1. Free(Entries[i].path) /\ Prepared[Entries[i].path] # "dir"
      BY <1>2, <2>1, <2>3, PlaceIsFree DEF Created
    <3>2. Create(Entries[i].path) /\ Becomes(i, "done")
      BY <2>3, <3>1 DEF CreateLink
    <3>3. Created(i)'
      BY <1>5, <2>1, <2>3, <3>2 DEF Becomes, Created
    <3> QED
      BY <1>15, <2>1, <2>3, <3>1, <3>2, <3>3 DEF Becomes, Create, Whole, States
  <2>4. CASE Whole(i) /\ Entries[i].kind = "file" /\ Becomes(i, "done") /\ UNCHANGED staged
    <3>1. Created(i)' <=> Created(i)
      BY <1>5, <2>1, <2>4 DEF Created, Becomes
    <3> QED
      BY <1>15, <2>1, <2>4, <3>1 DEF Becomes, Whole, States
  <2>5. CASE Whole(i) /\ Becomes(i, "unfinished") /\ UNCHANGED staged
    <3>1. Created(i)' <=> Created(i)
      BY <1>5, <2>1, <2>5 DEF Created, Becomes
    <3> QED
      BY <1>15, <2>1, <2>5, <3>1 DEF Becomes, States
  <2> QED
    BY <1>19, <2>2, <2>3, <2>4, <2>5 DEF FinishEntry
<1>20. DOMAIN work = DOMAIN Entries
  BY <1>2, <1>4 DEF ZipInv
<1> QED
  BY <1>10, <1>11, <1>12, <1>13, <1>14, <1>17, <1>18, <1>19, <1>20
     DEF ZipStep, Parse, RunAcross, Answer

------------------------------------------------------------------------------
(* The other processes, and the theorems.                                   *)

LEMMA OthersKeep ==
    ASSUME CIInv, Others
    PROVE  CIInv'
<1> USE DEF CIInv, StreamInv
<1>1. CASE /\ \E n \in DOMAIN files \ {"-"} :
                 ~Exists(n) /\ files' = [files EXCEPT ![n] = <<"other">>]
           /\ UNCHANGED <<options, turn, stage, source, size, extractVars>>
  <2>1. PICK n \in DOMAIN files \ {"-"} : ~Exists(n) /\ files' = [files EXCEPT ![n] = <<"other">>]
    BY <1>1
  <2>2. Input' = Input /\ UNCHANGED <<run, rm>>
    BY <1>1 DEF Input, options
  <2>3. StreamTypes'
    <3>1. <<"other">> \in Seq(Words)
      BY DEF Words
    <3> QED
      BY <1>1, <2>1, <2>2, <3>1 DEF StreamTypes, Writing
  <2>4. WholeInv'
    BY <1>1, <2>2 DEF WholeInv, Writing, Unlimited
  <2>5. RemovalInv'
    <3> SUFFICES ASSUME rm, Writing, Input.kind = "stream"
                 PROVE  /\ ~Same'
                        /\ Input.path # "-" => Exists(Input.path)' /\ files'[Input.path] = source
                        /\ stage \in {"metadata", "removing"} => files'[Input.output] = Made(source)'
      BY <1>1, <2>2 DEF RemovalInv, Writing
    <3>1. /\ ~Same
          /\ Input.path # "-" => Exists(Input.path) /\ files[Input.path] = source
          /\ stage \in {"metadata", "removing"} => files[Input.output] = Made(source)
      BY DEF RemovalInv
    <3>2. Made(source) # <<>> /\ Input.path \in DOMAIN files /\ Input.output \in DOMAIN files
      BY MadeFacts, InputFacts DEF StreamTypes
    <3>3. Input.path # "-" => Input.path # n
      BY <2>1, <3>1
    <3>4. stage \in {"metadata", "removing"} => Input.output # n
      BY <2>1, <3>1, <3>2 DEF Exists
    <3>5. ~Same' /\ Made(source)' = Made(source)
      BY <1>1, <2>2, <3>1 DEF Same, Standard, Made
    <3>6. Input.path # "-" => files'[Input.path] = files[Input.path]
      BY <2>1, <3>2, <3>3
    <3>7. stage \in {"metadata", "removing"} => files'[Input.output] = files[Input.output]
      BY <2>1, <3>2, <3>4
    <3>8. Input.path # "-" => Exists(Input.path)'
      BY <2>2, <3>1, <3>6 DEF Exists
    <3> QED
      BY <3>1, <3>5, <3>6, <3>7, <3>8
  <2>6. UnpackInv'
    <3>1. Archives' = Archives
      BY <1>1, Fixed DEF options, extractVars, tarVars
    <3> QED
      BY <1>1, <3>1 DEF UnpackInv, options, extractVars, tarVars, pipe
  <2>7. ArchiveInv'
    BY <1>1, ArchiveFrame DEF ArchiveInv
  <2> QED
    BY <2>3, <2>4, <2>5, <2>6, <2>7 DEF ArchiveInv
<1>2. CASE /\ \E p \in Paths : OthersWrite(p)
           /\ UNCHANGED <<run, skip, rm, files, turn, stage, source, size, tarVars, work, written>>
  <2>1. PICK a \in Paths : OthersWrite(a)
    BY <1>2
  <2>2. /\ a # <<>> /\ tree[a] = "absent" /\ tree[Front(a)] = "dir"
        /\ tree' = [tree EXCEPT ![a] = "other"]
        /\ UNCHANGED <<overwrite, staged, todo, commit>>
    BY <2>1 DEF OthersWrite
  <2>3. UNCHANGED <<run, skip, rm, overwrite, archive, pipe, stream, unpacker, extracted, verdict>>
    BY <1>2, <2>2 DEF tarVars, pipe
  <2>4. /\ Kinds' = Kinds /\ Archives' = Archives /\ Goal' = Goal /\ Entries' = Entries
        /\ Prepared' = Prepared /\ (Accepted' <=> Accepted) /\ (Valid' <=> Valid)
    BY <2>3, Fixed, FixedValid
  <2>5. StreamInv'
    <3>1. Input' = Input
      BY <1>2 DEF Input
    <3>2. StreamTypes'
      BY <1>2 DEF StreamTypes, Writing
    <3>3. WholeInv'
      BY <1>2, <3>1 DEF WholeInv, Writing, Unlimited
    <3>4. RemovalInv'
      BY <1>2, <3>1 DEF RemovalInv, Writing, Same, Standard, Exists, Made
    <3> QED
      BY <3>2, <3>3, <3>4
  <2>6. UnpackInv' /\ BlameTruthful'
    <3>1. IsTree(tree)
      BY DEF CommitInv
    <3>2. tree'[<<>>] = tree[<<>>]
      BY <2>2, <3>1, OtherTree
    <3>3. UnpackInv'
      BY <1>2, <2>2, <2>3, <2>4, <3>2 DEF UnpackInv
    <3> QED
      BY <1>2, <2>3, <2>4, <3>3 DEF BlameTruthful, Misblamed
  <2>7. TarInv'
    BY <2>2, <2>3, <2>4 DEF TarInv, pipe, Fits
  <2>8. ZipInv'
    <3>1. ZipTree' = ZipTree
      BY <1>2, <2>4 DEF ZipTree, Created
    <3>2. (AllDone(TRUE)' <=> AllDone(TRUE)) /\ (AllDone(FALSE)' <=> AllDone(FALSE))
      BY <1>2, <2>4 DEF AllDone
    <3> QED
      BY <1>2, <2>2, <2>3, <2>4, <3>1, <3>2 DEF ZipInv
  <2>9. CommitInv'
    <3>1. IsTree(tree) /\ todo \in Seq(TaskSet)
      BY DEF CommitInv
    <3>2. /\ IsTree(tree') /\ tree'[<<>>] = tree[<<>>]
          /\ \A p \in Paths : tree[p] # "absent" => tree'[p] = tree[p]
      BY <2>2, <3>1, OtherTree
    <3>3. \A p \in Paths : tree[p] = "absent" => tree'[p] \in {"absent", "other"}
      BY <2>2, <3>1 DEF IsTree
    <3>4. commit = "moving" => Moving(todo, staged, tree', Goal, overwrite)
      BY <3>1, <3>2, <3>3, MovingOther DEF CommitInv
    <3>5. commit = "done" => \A p \in Paths : Settled(p, tree', Goal)
      BY <3>2 DEF CommitInv, Settled
    <3> QED
      BY <2>2, <2>3, <2>4, <3>1, <3>2, <3>4, <3>5 DEF CommitInv
  <2> QED
    BY <2>5, <2>6, <2>7, <2>8, <2>9
<1> QED
  BY <1>1, <1>2 DEF Others

LEMMA CommandInitial ==
    ASSUME CommandInit
    PROVE  CIInv
<1>1. /\ run \in Runs /\ turn = 1 /\ stage = (IF run.into THEN "preparing" ELSE "next") /\ source = <<>> /\ size = 0
      /\ files = run.files /\ (rm => run.command \in {"compress", "decompress"})
      /\ tree = run.tree /\ staged = Nothing /\ todo = <<>> /\ commit = "waiting"
      /\ archive = run.archive /\ stream = archive.stream /\ stream \in Streams
      /\ sent = 0 /\ decoder = "decoding" /\ decoded = "none" /\ cancelled = FALSE
      /\ unpacker = "waiting" /\ extracted = "none" /\ verdict = "none"
      /\ work = [i \in DOMAIN Entries |-> "waiting"]
      /\ written = [i \in DOMAIN Entries |-> 0]
  BY DEF CommandInit, CommitInit, PipeInit
<1>2. StreamTypes
  <2>1. \A n \in DOMAIN files : files[n] \in Seq(Words)
    <3>1. \A n \in DOMAIN files : files[n] \in Seq(STRING)
      BY <1>1, RunsAssumption
    <3>2. STRING \subseteq Words
      BY DEF Words
    <3> QED
      BY <3>1, <3>2, SeqMonotonic
  <2> QED
    BY <1>1, <2>1, EmptySeq DEF StreamTypes, Writing
<1>3. WholeInv /\ RemovalInv
  BY <1>1, RunsAssumption DEF WholeInv, RemovalInv, Writing
<1>4. UnpackInv
  BY <1>1, RunsAssumption DEF UnpackInv
<1>5. BlameTruthful
  BY <1>1 DEF BlameTruthful
<1>6. TarInv
  <2>1. Len(stream.ends) \in Nat
    BY <1>1, StreamsAssumption
  <2>2. sent \in 0..Len(stream.ends) /\ cancelled \in BOOLEAN /\ ~cancelled
    <3>1. sent = 0 /\ cancelled = FALSE
      BY <1>1
    <3>2. sent \in 0..Len(stream.ends)
      BY ONLY <2>1, <3>1
    <3> QED
      BY ONLY <3>1, <3>2
  <2>3. /\ decoder = "decoding" /\ decoded = "none" /\ unpacker = "waiting" /\ extracted = "none"
        /\ sent = 0
    BY <1>1
  <2> QED
    BY <2>2, <2>3 DEF TarInv
<1>7. ZipInv
  <2>1. /\ unpacker = "waiting" /\ verdict = "none"
        /\ DOMAIN work = DOMAIN Entries /\ DOMAIN written = DOMAIN Entries
        /\ \A i \in DOMAIN Entries : work[i] = "waiting" /\ written[i] = 0
    BY <1>1
  <2> QED
    BY <2>1 DEF ZipInv, States
<1>8. CommitInv
  <2>1. IsTree(tree)
    BY <1>1, RunsAssumption
  <2> QED
    BY <1>1, <2>1, EmptySeq DEF CommitInv, Nothing
<1> QED
  BY <1>2, <1>3, <1>4, <1>5, <1>6, <1>7, <1>8 DEF CIInv

\* Every reachable state: what is staged is what has been unpacked, the two
\* trees together hold the archive while it is moved, an input that is removed
\* has its output in place (main, extract_input, commit of src/bin/fbz).
THEOREM CommandInvariant == Spec => []CIInv
<1>1. CommandInit => CIInv
  BY CommandInitial
<1>2. CIInv /\ [Next]_vars => CIInv'
  <2> SUFFICES ASSUME CIInv, [Next]_vars
               PROVE  CIInv'
    OBVIOUS
  <2>1. CASE Streaming
    BY <2>1, StreamingKeeps
  <2>8. CASE MakeDirectory
    BY <2>8, MakeDirectoryKeeps
  <2>2. CASE StartExtract
    BY <2>2, StartExtractKeeps
  <2>3. CASE Unpack
    BY <2>3, TarKeeps, ZipKeeps DEF Unpack
  <2>4. CASE Commit
    BY <2>4, CommitKeeps
  <2>5. CASE ExtractEnds
    BY <2>5, ExtractEndsKeeps
  <2>6. CASE Others
    BY <2>6, OthersKeep
  <2>7. CASE UNCHANGED vars
    <3>1. UNCHANGED <<options, extractVars>> /\ UNCHANGED <<files, turn, stage, source, size>>
      BY <2>7 DEF vars
    <3>2. ArchiveInv'
      BY <3>1, ArchiveFrame DEF CIInv, ArchiveInv
    <3>3. StreamTypes' /\ WholeInv' /\ RemovalInv'
      BY <3>1 DEF CIInv, StreamTypes, WholeInv, RemovalInv, Writing, Unlimited, Same, Standard,
                  Exists, Made, Input, options
    <3>4. UnpackInv'
      <4>1. Archives' = Archives
        BY <3>1, Fixed DEF options, extractVars, tarVars
      <4> QED
        BY <3>1, <4>1 DEF CIInv, UnpackInv, options, extractVars, tarVars, pipe
    <3> QED
      BY <3>2, <3>3, <3>4 DEF CIInv, ArchiveInv
  <2> QED
    BY <2>1, <2>2, <2>3, <2>4, <2>5, <2>6, <2>7, <2>8 DEF Next, Program
<1> QED
  BY <1>1, <1>2, PTL DEF Spec

\* The calls that change a file.
LEMMA FilesStep ==
    ASSUME CIInv, [Next]_vars
    PROVE  \/ files' = files
           \/ /\ stage \in {"coding", "persisting"} /\ Input.sound /\ size = Input.size
              /\ Input.kind = "stream"
              /\ \E n \in DOMAIN files :
                    /\ n = "-" \/ overwrite \/ ~Exists(n)
                    /\ files' = [files EXCEPT ![n] = Made(source)]
           \/ /\ stage = "removing" /\ rm /\ turn <= Len(run.inputs) /\ Input.path # "-"
              /\ files' = [files EXCEPT ![Input.path] = <<>>]
           \/ \E n \in DOMAIN files \ {"-"} : ~Exists(n) /\ files' = [files EXCEPT ![n] = <<"other">>]
<1>1. StreamTypes /\ WholeInv
  BY DEF CIInv
<1>2. CASE Streaming
  <2>1. CASE CodingEnds
    <3>1. CASE GoOn("error") \/ GoOn(IF run.command = "index" THEN "creating" ELSE "persisting")
      BY <3>1 DEF GoOn
    <3>2. CASE Input.sound /\ files' = [files EXCEPT !["-"] = Made(source)]
      <4>1. stage = "coding" /\ size = Input.size /\ Input.kind = "stream" /\ turn <= Len(run.inputs)
        BY <1>1, <2>1 DEF CodingEnds, StreamTypes, WholeInv, Writing
      <4>2. "-" \in DOMAIN files
        BY <1>1, <4>1, InputFacts
      <4> QED
        BY <3>2, <4>1, <4>2
    <3> QED
      BY <2>1, <3>1, <3>2 DEF CodingEnds
  <2>2. CASE Persist
    <3>1. CASE GoOn("error")
      BY <3>1 DEF GoOn
    <3>2. CASE /\ overwrite \/ ~Exists(Input.output)
               /\ files' = [files EXCEPT ![Input.output] = Made(source)]
      <4>1. /\ stage = "persisting" /\ size = Input.size /\ Input.sound
            /\ Input.kind = "stream" /\ turn <= Len(run.inputs)
        BY <1>1, <2>2 DEF Persist, StreamTypes, WholeInv, Writing
      <4>2. PICK n \in DOMAIN files : n = Input.output
        BY <1>1, <4>1, InputFacts
      <4> QED
        BY <3>2, <4>1, <4>2
    <3> QED
      BY <2>2, <3>1, <3>2 DEF Persist
  <2>3. CASE RemoveInput
    BY <1>1, <2>3 DEF RemoveInput, NextInput, StreamTypes, Writing
  <2>4. CASE Open \/ BeginWrite \/ WriteByte \/ PreserveMetadata \/ Fails \/ Ends
    BY <2>4 DEF Open, BeginWrite, WriteByte, PreserveMetadata, Fails, Ends, GoOn, NextInput
  <2> QED
    BY <1>2, <2>1, <2>2, <2>3, <2>4 DEF Streaming
<1>3. CASE MakeDirectory \/ StartExtract \/ Unpack \/ Commit \/ ExtractEnds \/ UNCHANGED vars
  BY <1>3 DEF MakeDirectory, StartExtract, Unpack, Commit, ExtractEnds, GoOn, vars
<1>4. CASE Others
  BY <1>4 DEF Others
<1> QED
  BY <1>2, <1>3, <1>4 DEF Next, Program

\* The calls that change something in the destination.
LEMMA TreeStep ==
    ASSUME CIInv, [Next]_vars
    PROVE  \/ tree' = tree
           \/ tree[<<>>] \notin Files /\ tree' = [tree EXCEPT ![<<>>] = "dir"]
           \/ verdict = "ok" /\ Task("rename") /\ tree' = Renamed(staged, tree, Path)
           \/ /\ verdict = "ok" /\ Task("remove_file") /\ UNCHANGED staged
              /\ tree' = [tree EXCEPT ![Path] = "absent"]
           \/ \E p \in Paths : tree[p] = "absent" /\ tree' = [tree EXCEPT ![p] = "other"]
<1>1. CASE Streaming \/ StartExtract \/ Unpack \/ ExtractEnds \/ UNCHANGED vars
  BY <1>1 DEF Streaming, StartExtract, Unpack, ExtractEnds, vars, extractVars
<1>2. CASE Commit
  <2>1. verdict = "ok"
    BY <1>2 DEF Commit
  <2>2. CASE BeginCommit
    BY <2>2 DEF BeginCommit
  <2>3. CASE Preflight \/ Checked \/ Look \/ RemoveDirectory \/ CallFails \/ CommitDone
    BY <2>3 DEF Preflight, Checked, Look, RemoveDirectory, CallFails, CommitDone, Stop, Instead
  <2>4. CASE Rename
    BY <2>1, <2>4 DEF Rename, Renamed, Stop
  <2>5. CASE RemoveFile
    BY <2>1, <2>5 DEF RemoveFile
  <2> QED
    BY <1>2, <2>2, <2>3, <2>4, <2>5 DEF Commit, CommitStep
<1>3. CASE Others
  BY <1>3 DEF Others, OthersWrite, extractVars
<1>4. CASE MakeDirectory
  BY <1>4 DEF MakeDirectory
<1> QED
  BY <1>1, <1>2, <1>3, <1>4 DEF Next, Program

\* What is next to be renamed or removed in the destination.
LEMMA NextTask ==
    ASSUME CIInv, NEW op \in {"rename", "remove_file"}, Task(op)
    PROVE  /\ Path \in Paths /\ Path # <<>>
           /\ IsTree(tree)
           /\ op = "rename" /\ ~overwrite => tree[Path] \in {"absent", "other"}
           /\ op = "remove_file" => overwrite
           /\ \A q \in Below(Path) : staged[q] = Holds(q)
<1>1. /\ IsTree(tree) /\ todo \in Seq(TaskSet) /\ todo # <<>>
      /\ commit \in {"checking", "moving"} /\ Head(todo).op = op
  BY DEF CIInv, CommitInv, Task
<1>2. 1 \in 1..Len(todo) /\ Head(todo) = todo[1] /\ todo[1].at \in Paths /\ todo[1].at # <<>>
  BY <1>1, TaskTypes
<1>3. RenamesNext(todo, tree, overwrite) /\ Movable(todo, staged, tree, Goal)
  BY <1>1, <1>2 DEF CIInv, CommitInv, Moving
<1>4. \E i \in 1..Len(todo) : todo[i].op = "rename" /\ todo[i].at = Path
  BY <1>1, <1>2, <1>3, TaskTypes DEF Path, RenamesNext
<1>5. \A q \in Below(Path) : staged[q] = Holds(q)
  BY <1>3, <1>4 DEF Movable, Moves, Goal, Below
<1> QED
  BY <1>1, <1>2, <1>3, <1>5 DEF Path, RenamesNext

\* An error, and the verdict that lets extraction go on to its commit, are the
\* ones that are there, whichever calls of the file system fail (unpack of
\* tar_extract.rs and zip_extract.rs): it is valid what is committed, nobody but a
\* decoder that panics answers a panic, the archive is blamed only when the crate
\* has found it bad or cut short, an archive in which nothing is wrong is called
\* invalid only for a deflated entry that could not be written or a pool that could
\* not be made (entry_error, run_entries), and the entries of an accepted ZIP
\* archive never clash.
THEOREM CommandBlames == Spec => []BlameTruthful
<1>1. CIInv => BlameTruthful
  BY DEF CIInv
<1> QED
  BY <1>1, CommandInvariant, PTL

LEMMA FoundKeptStep ==
    ASSUME CIInv, [Next]_vars, ~overwrite
    PROVE  /\ \A n \in DOMAIN files \ {"-"} : Exists(n) => files'[n] \in {files[n], <<>>}
           /\ \A p \in Paths : tree[p] \in Files => tree'[p] = tree[p] \/ Racing(p)
<1>1. ASSUME NEW n \in DOMAIN files \ {"-"}, Exists(n)
      PROVE  files'[n] \in {files[n], <<>>}
  BY <1>1, FilesStep
<1>2. ASSUME NEW p \in Paths, tree[p] \in Files, tree'[p] # tree[p]
      PROVE  Racing(p)
  <2>1. tree[p] # "absent" /\ tree[p] # "dir"
    BY <1>2 DEF Files
  <2>2. CASE Task("rename") /\ tree' = Renamed(staged, tree, Path)
    <3>1. Path \in Paths /\ IsTree(tree) /\ tree[Path] \in {"absent", "other"}
      BY <2>2, NextTask
    <3>2. p \in Below(Path)
      BY <1>2, <2>2 DEF Renamed
    <3>3. p = Path
      BY <2>1, <3>1, <3>2, TreeAbove DEF Below
    <3> QED
      BY <2>1, <2>2, <3>1, <3>2, <3>3 DEF Racing, Task
  <2>3. CASE Task("remove_file")
    BY <2>3, NextTask
  <2>4. CASE tree[<<>>] \notin Files /\ tree' = [tree EXCEPT ![<<>>] = "dir"]
    BY <1>2, <2>1, <2>4
  <2>5. CASE \E q \in Paths : tree[q] = "absent" /\ tree' = [tree EXCEPT ![q] = "other"]
    BY <1>2, <2>1, <2>5
  <2> QED
    BY <1>2, <2>2, <2>3, <2>4, <2>5, TreeStep
<1> QED
  BY <1>1, <1>2

\* Without --force no file is replaced that was there, or that another process
\* has made meanwhile, at the name of an output or in the destination of an
\* archive, but one that comes between commit_entry's look and its rename
\* (atomic_write, preflight and commit_entry).
THEOREM CommandKeepsFound == Spec => FoundKept
<1>1. CIInv /\ [Next]_vars =>
          [~overwrite =>
             /\ \A n \in DOMAIN files \ {"-"} : Exists(n) => files'[n] \in {files[n], <<>>}
             /\ \A p \in Paths : tree[p] \in Files => tree'[p] = tree[p] \/ Racing(p)]_vars
  BY FoundKeptStep
<1> QED
  BY <1>1, CommandInvariant, PTL DEF Spec, FoundKept

LEMMA OutputsWholeStep ==
    ASSUME CIInv, [Next]_vars
    PROVE  /\ \A n \in DOMAIN files :
                 files'[n] \notin {files[n], <<>>, <<"other">>} =>
                     /\ files'[n] = Made(source)
                     /\ Input.sound
                     /\ ~Unlimited => Input.size <= MaxOutput
           /\ \A p \in Paths \ {<<>>} :
                 tree'[p] \notin {tree[p], "other"} =>
                     Valid /\ Holds(p) \in {tree'[p], staged'[p]}
<1>1. ASSUME NEW n \in DOMAIN files, files'[n] \notin {files[n], <<>>, <<"other">>}
      PROVE  /\ files'[n] = Made(source)
             /\ Input.sound
             /\ ~Unlimited => Input.size <= MaxOutput
  <2>1. ~Unlimited => size <= MaxOutput
    BY DEF CIInv, WholeInv
  <2> QED
    BY <1>1, <2>1, FilesStep
<1>2. ASSUME NEW p \in Paths \ {<<>>}, tree'[p] \notin {tree[p], "other"}
      PROVE  Valid /\ Holds(p) \in {tree'[p], staged'[p]}
  <2>1. DOMAIN tree = Paths
    BY DEF CIInv, CommitInv, IsTree
  <2>2. CASE verdict = "ok" /\ Task("rename") /\ tree' = Renamed(staged, tree, Path)
    <3>1. p \in Below(Path) /\ tree'[p] = staged[p]
      BY <1>2, <2>2 DEF Renamed
    <3> QED
      BY <2>2, <3>1, NextTask DEF CIInv, BlameTruthful
  <2>3. CASE /\ verdict = "ok" /\ Task("remove_file") /\ UNCHANGED staged
             /\ tree' = [tree EXCEPT ![Path] = "absent"]
    <3>1. p = Path /\ p \in Below(Path)
      BY <1>2, <2>1, <2>3, PrefixReflexive DEF Below
    <3> QED
      BY <2>3, <3>1, NextTask DEF CIInv, BlameTruthful
  <2>4. CASE tree' = [tree EXCEPT ![<<>>] = "dir"]
    BY <1>2, <2>1, <2>4
  <2>5. CASE \E q \in Paths : tree' = [tree EXCEPT ![q] = "other"]
    BY <1>2, <2>1, <2>5
  <2> QED
    BY <1>2, <2>2, <2>3, <2>4, <2>5, TreeStep
<1> QED
  BY <1>1, <1>2

\* What appears at the name of an output, or below the destination, is whole: it
\* comes from an input that has been decoded to its end, with success and
\* within the limit (atomic_write, the staging directory of extract_input), and
\* nothing is taken away below it but what the archive, still staged, replaces
\* (commit_entry).
THEOREM CommandWritesWhole == Spec => OutputsWhole
<1>1. CIInv /\ [Next]_vars =>
          [/\ \A n \in DOMAIN files :
                 files'[n] \notin {files[n], <<>>, <<"other">>} =>
                     /\ files'[n] = Made(source)
                     /\ Input.sound
                     /\ ~Unlimited => Input.size <= MaxOutput
           /\ \A p \in Paths \ {<<>>} :
                 tree'[p] \notin {tree[p], "other"} =>
                     Valid /\ Holds(p) \in {tree'[p], staged'[p]}]_vars
  BY OutputsWholeStep
<1> QED
  BY <1>1, CommandInvariant, PTL DEF Spec, OutputsWhole

LEMMA RemovedStep ==
    ASSUME CIInv, [Next]_vars, NEW n \in DOMAIN files, Exists(n), ~Exists(n)'
    PROVE  IF Input.kind = "stream"
           THEN \E m \in DOMAIN files \ {n} : files[m] = Made(files[n])
           ELSE \A p \in Paths : Holds(p) # "absent" => tree[p] = Holds(p)
<1>1. files[n] # <<>> /\ files'[n] = <<>>
  BY DEF Exists
<1>2. Made(source) # <<>> /\ <<"other">> # <<>>
  BY MadeFacts DEF CIInv, StreamTypes
<1>3. /\ stage = "removing" /\ rm /\ turn <= Len(run.inputs) /\ Input.path # "-"
      /\ files' = [files EXCEPT ![Input.path] = <<>>]
  BY <1>1, <1>2, FilesStep
<1>4. n = Input.path
  BY <1>1, <1>3
<1>5. CASE Input.kind = "stream"
  <2>1. ~Same /\ files[n] = source /\ files[Input.output] = Made(source)
    BY <1>3, <1>4, <1>5 DEF CIInv, RemovalInv, Writing
  <2>2. Input.output \in DOMAIN files
    BY <1>3, InputFacts DEF CIInv
  <2>3. Input.output # n
    BY <1>3, <1>4, <2>1 DEF Same, Standard
  <2> QED
    BY <1>5, <2>1, <2>2, <2>3
<1>6. CASE Input.kind # "stream"
  <2>1. turn \in Archives
    BY <1>3, <1>6, InputFacts DEF CIInv
  <2>2. commit = "done"
    BY <1>3, <2>1 DEF CIInv, UnpackInv
  <2>3. \A p \in Paths : Settled(p, tree, Goal)
    BY <2>2 DEF CIInv, CommitInv
  <2> QED
    BY <1>6, <2>3 DEF Settled, Goal
<1> QED
  BY <1>5, <1>6

\* --rm removes an input only when what has been made of it is in place
\* (remove_input, called last by compress_streams, run_decode and extract_input).
THEOREM CommandRemovesLast == Spec => RemovedCommitted
<1>1. CIInv /\ [Next]_vars =>
          [\A n \in DOMAIN files :
             Exists(n) /\ ~Exists(n)' =>
                 IF Input.kind = "stream"
                 THEN \E m \in DOMAIN files \ {n} : files[m] = Made(files[n])
                 ELSE \A p \in Paths : Holds(p) # "absent" => tree[p] = Holds(p)]_vars
  BY RemovedStep
<1> QED
  BY <1>1, CommandInvariant, PTL DEF Spec, RemovedCommitted
------------------------------------------------------------------------------
(* Sums.                                                                    *)

\* The folds of the library sum up as Charges counts.
LEMMA SumIsTotal ==
    ASSUME NEW f, IsChargeMap(f)
    PROVE  SumFunction(f) = Total(f)
<1> DEFINE D == DOMAIN f
           pick(s) == CHOOSE x \in s : TRUE
           part(s) == [x \in s |-> f[x]]
           Recursive(g) ==
               g = [s \in SUBSET D |-> IF s = {} THEN 0 ELSE f[pick(s)] + g[s \ {pick(s)}]]
           iter == CHOOSE g : Recursive(g)
           total == [s \in SUBSET D |-> Total(part(s))]
<1>1. SumFunction(f) = iter[D]
  BY DEF SumFunction, SumFunctionOnSet, FoldFunctionOnSet, MapThenFoldSet
<1>2. ASSUME NEW s \in SUBSET D
      PROVE  /\ IsFiniteSet(s) /\ Cardinality(s) \in Nat
             /\ IsChargeMap(part(s))
  BY FS_Subset, FS_CardinalityType DEF IsChargeMap
<1>3. ASSUME NEW s \in SUBSET D, s # {}
      PROVE  /\ pick(s) \in s /\ s \ {pick(s)} \in SUBSET D
             /\ Total(part(s)) = f[pick(s)] + Total(part(s \ {pick(s)}))
             /\ Cardinality(s \ {pick(s)}) < Cardinality(s)
  <2>1. pick(s) \in s
    BY <1>3
  <2> HIDE DEF pick
  <2>2. Uncharged(part(s), pick(s)) = part(s \ {pick(s)})
    BY <2>1 DEF Uncharged
  <2>3. part(s)[pick(s)] = f[pick(s)] /\ pick(s) \in DOMAIN part(s)
    BY <2>1
  <2>4. /\ Total(part(s)) = Total(part(s \ {pick(s)})) + f[pick(s)]
        /\ Total(part(s \ {pick(s)})) \in Nat /\ f[pick(s)] \in Nat
    <3> HIDE DEF part
    <3>1. /\ Total(part(s)) = Total(Uncharged(part(s), pick(s))) + part(s)[pick(s)]
          /\ Total(Uncharged(part(s), pick(s))) \in Nat
      BY <1>2, <2>3, TotalUncharged
    <3>2. f[pick(s)] \in Nat
      BY <2>1 DEF IsChargeMap
    <3> QED BY <2>2, <2>3, <3>1, <3>2
  <2>5. Cardinality(s \ {pick(s)}) = Cardinality(s) - 1
    BY <1>2, <2>1, FS_RemoveElement
  <2> QED BY <1>2, <2>1, <2>4, <2>5
<1>4. Total(part({})) = 0
  BY TotalEmpty
<1> HIDE DEF pick, part
<1>5. Recursive(total)
  <2>1. ASSUME NEW s \in SUBSET D
        PROVE  total[s] = IF s = {} THEN 0 ELSE f[pick(s)] + total[s \ {pick(s)}]
    BY <1>3, <1>4
  <2> QED BY <2>1
<1>6. Recursive(iter)
  <2> HIDE DEF Recursive
  <2> QED BY <1>5
<1> HIDE DEF iter
<1>7. \A s \in SUBSET D : iter[s] = total[s]
  <2> DEFINE Wrong == {s \in SUBSET D : iter[s] # total[s]}
  <2> SUFFICES ASSUME Wrong # {} PROVE FALSE
    OBVIOUS
  <2> DEFINE Sizes == {Cardinality(s) : s \in Wrong}
  <2>1. Sizes \subseteq Nat /\ Sizes # {}
    BY <1>2
  <2>2. PICK n \in Sizes : \A m \in Sizes : n <= m
    BY <2>1, LeastNat
  <2>3. PICK s \in Wrong : n = Cardinality(s)
    BY <2>2
  <2>4. s # {}
    BY <1>4, <1>6, <2>3
  <2>5. iter[s] = f[pick(s)] + iter[s \ {pick(s)}] /\ total[s] = f[pick(s)] + total[s \ {pick(s)}]
    BY <1>3, <1>6, <2>3, <2>4
  <2>6. s \ {pick(s)} \in Wrong
    BY <1>3, <2>3, <2>4, <2>5
  <2>7. Cardinality(s \ {pick(s)}) \in Sizes /\ Cardinality(s \ {pick(s)}) < n
    BY <1>3, <2>3, <2>4, <2>6
  <2>8. PICK m \in Sizes : m < n
    BY <2>7
  <2> HIDE DEF Sizes
  <2> QED BY <2>1, <2>2, <2>8
<1>8. Total(part(D)) = Total(f)
  BY DEF part, Total, Bytes
<1> QED BY <1>1, <1>7, <1>8

\* What is bounded one by one is bounded in sum.
LEMMA SumGrows ==
    ASSUME NEW f, NEW g, IsChargeMap(f), IsChargeMap(g), DOMAIN f = DOMAIN g,
           \A x \in DOMAIN f : f[x] <= g[x]
    PROVE  SumFunction(f) <= SumFunction(g) /\ SumFunction(f) \in Nat
<1>1. Bytes(f) \subseteq Bytes(g)
  <2>1. \A x \in DOMAIN f : BytesOf(x, f[x]) \subseteq BytesOf(x, g[x])
    BY DEF BytesOf, IsChargeMap
  <2> QED BY <2>1 DEF Bytes
<1>2. Total(f) <= Total(g)
  BY <1>1, BytesFinite, FS_Subset DEF Total
<1> QED BY <1>2, SumIsTotal, TotalType

------------------------------------------------------------------------------
(* The limit of the output.                                                 *)

\* No entry writes more than it declares, and none writes anything before what
\* all of them declare has been held against the limit.  What is behind the
\* decoder of a tar archive is in TarInv.
LimitInv ==
    /\ DOMAIN written = DOMAIN Entries
    /\ \A i \in DOMAIN Entries : written[i] \in Nat /\ written[i] <= Entries[i].size
    /\ (\E i \in DOMAIN Entries : written[i] # 0) => Accepted
    /\ sent # 0 => "tar" \in Kinds

LEMMA LimitSuffices ==
    ASSUME CIInv, LimitInv
    PROVE  WithinMaxOutput
<1>1. /\ run \in Runs /\ archive = run.archive /\ MaxOutput \in Nat
      /\ IsFiniteSet(DOMAIN Entries)
      /\ \A i \in DOMAIN Entries : Entries[i].size \in Nat
  BY RunsAssumption DEF CIInv, StreamTypes, UnpackInv, Entries
<1> DEFINE sizes == [i \in DOMAIN Entries |-> Entries[i].size]
<1>2. IsChargeMap(written) /\ IsChargeMap(sizes)
  BY <1>1 DEF LimitInv, IsChargeMap
<1>5. Behind <= MaxOutput
  <2>1. sent # 0 => stream.ends[sent] <= MaxOutput
    BY DEF CIInv, TarInv, LimitInv
  <2> QED
    BY ONLY <1>1, <2>1 DEF Behind
<1>3. CASE Accepted
  <2>1. SumFunction(sizes) <= MaxOutput
    BY <1>3 DEF Accepted, Declared
  <2>2. SumFunction(written) <= SumFunction(sizes)
    BY <1>2, SumGrows DEF LimitInv
  <2>3. SumFunction(written) \in Nat /\ SumFunction(sizes) \in Nat
    BY <1>2, SumIsTotal, TotalType
  <2> HIDE DEF sizes
  <2>4. SumFunction(written) <= MaxOutput
    BY <1>1, <2>1, <2>2, <2>3
  <2> QED BY <1>5, <2>4 DEF WithinMaxOutput, CIInv, WholeInv
<1>4. CASE ~Accepted
  <2>1. \A i \in DOMAIN written : written[i] = 0
    BY <1>4 DEF LimitInv
  <2>2. Bytes(written) = {}
    BY <2>1 DEF Bytes, BytesOf
  <2>3. SumFunction(written) = 0
    BY <1>2, <2>2, SumIsTotal, FS_EmptySet DEF Total
  <2> QED BY <1>1, <1>5, <2>3 DEF WithinMaxOutput, CIInv, WholeInv
<1> QED BY <1>3, <1>4

LEMMA LimitKept ==
    ASSUME CIInv, LimitInv, [Next]_vars
    PROVE  LimitInv'
<1>1. CASE UNCHANGED <<run, archive, written>> /\ (UNCHANGED sent \/ "tar" \in Kinds)
  <2>1. Kinds' = Kinds /\ Entries' = Entries /\ (Accepted' <=> Accepted)
    BY <1>1, Fixed
  <2> QED BY <1>1, <2>1 DEF LimitInv
<1>2. ASSUME Input.kind = "zip", ZipStep, stage = "extracting", UNCHANGED run
      PROVE  LimitInv'
  <2>1. turn \in Archives /\ "zip" \in Kinds
    BY <1>2, InputFacts DEF CIInv, UnpackInv, StreamTypes
  <2>2. DOMAIN work = DOMAIN Entries /\ ZipInv
    BY <2>1 DEF CIInv, ZipInv
  <2>3. UNCHANGED <<archive, sent>>
    BY <1>2 DEF ZipStep, pipe
  <2>4. CASE \E i \in DOMAIN work : WriteEntry(i)
    <3>1. PICK i \in DOMAIN Entries : WriteEntry(i)
      BY <2>2, <2>4
    <3>2. CASE UNCHANGED written
      BY <1>1, <1>2, <2>3, <3>2
    <3>3. CASE ~Refuses(i) /\ written' = [written EXCEPT ![i] = @ + 1]
      <4>1. Kinds' = Kinds /\ Entries' = Entries /\ (Accepted' <=> Accepted)
        BY <1>2, <2>3, Fixed
      <4>2. Accepted
        BY <2>1, <2>2, <3>1 DEF ZipInv, WriteEntry
      <4> QED BY <2>3, <3>3, <4>1, <4>2 DEF LimitInv, Admits, Refuses
    <3> QED BY <3>1, <3>2, <3>3 DEF WriteEntry
  <2>5. CASE UNCHANGED written
    BY <1>1, <1>2, <2>3, <2>5
  <2> QED
    BY <1>2, <2>4, <2>5
       DEF ZipStep, Parse, RunAcross, RunEnds, StartEntry, FinishEntry
<1>3. ASSUME Input.kind = "tar", TarStep, stage = "extracting", UNCHANGED <<run, written>>
      PROVE  LimitInv'
  <2>1. "tar" \in Kinds
    BY <1>3, InputFacts DEF CIInv, UnpackInv, StreamTypes
  <2>2. UNCHANGED archive
    BY <1>3
       DEF TarStep, Stage, DecoderStep, Extract, ExtractWhole, ExtractCut, ExtractFails,
           ExtractionEnds, Drain, Drained, DropReader, JoinDecoder, tarRest
  <2> QED
    BY <1>1, <1>3, <2>1, <2>2
<1>4. CASE Unpack
  BY <1>2, <1>3, <1>4 DEF Unpack, options
<1> QED
  BY <1>1, <1>4
     DEF Next, Program, MakeDirectory, Others, Streaming, StartExtract, Commit, ExtractEnds, vars,
         options, extractVars, tarVars, pipe

\* --max-output is never exceeded, by a stream, by what is decoded of a tar
\* archive, or by the entries of a ZIP archive together, whatever they declare and
\* whatever they decode to (LimitedOutput of fbz.rs, parse and ExpectedOutput of
\* zip_extract.rs).
THEOREM CommandWithinLimit == Spec => []WithinMaxOutput
<1>1. CommandInit => LimitInv
  <2>1. ASSUME CommandInit
        PROVE  /\ written = [i \in DOMAIN Entries |-> 0]
               /\ \A i \in DOMAIN Entries : Entries[i].size \in Nat
               /\ sent = 0
    BY <2>1, RunsAssumption DEF CommandInit, PipeInit, Entries
  <2> QED BY <2>1 DEF LimitInv
<1>2. CIInv /\ LimitInv /\ [Next]_vars => LimitInv'
  BY LimitKept
<1>3. Spec => []LimitInv
  BY <1>1, <1>2, CommandInvariant, PTL DEF Spec
<1>4. CIInv /\ LimitInv => WithinMaxOutput
  BY LimitSuffices
<1> QED BY <1>3, <1>4, CommandInvariant, PTL
==============================================================================
