------------------------------ MODULE EncodeProofs ------------------------------
(***************************************************************************)
(* The encoders write what they were given: the sums of the trailer cover  *)
(* the blocks or segments written, every block expands to its plaintext    *)
(* within its limit, and every segment has the window before it as its     *)
(* dictionary, for every input, every length of the writes and every       *)
(* failure, in both formats.                                               *)
(*                                                                         *)
(* The definitions that describe data are folds; the first part shows that *)
(* each is the last value of a run, and the others use only that.          *)
(*                                                                         *)
(* The last part is about the archives of ZipWriter: a finished one is     *)
(* read back entry by entry, whatever needs 64 bits.                       *)
(***************************************************************************)
EXTENDS Encode, ZipWriter, DataLemmas

------------------------------------------------------------------------------
(* The folds of the encoder: Expanding, Plaintext and the serial loop. *)

\* The decoder of run lengths, as a table that FoldLeft goes through.
States == [out : Seq(Nat), byte : Nat, count : Nat]
Fresh == [out |-> <<>>, byte |-> 0, count |-> 0]
Expanding(bytes) == FoldLeft(ExpandByte, Fresh, bytes)
ExpandTable == [p \in States \X Nat |-> ExpandByte(p[1], p[2])]

\* A run of one byte.
LEMMA CopiesType ==
    ASSUME NEW byte \in Nat, NEW n \in Nat
    PROVE  Copies(byte, n) \in Seq(Nat) /\ Len(Copies(byte, n)) = n
BY DEF Copies

\* The decoder of run lengths (ExpandByte) stays among its states.
LEMMA ExpandCloses ==
    /\ Fresh \in States
    /\ Steps(ExpandTable, States, Nat)
    /\ \A s \in States : \A x \in Nat : ExpandTable[<<s, x>>] = ExpandByte(s, x)
<1>1. Fresh \in States
  BY DEF Fresh, States
<1>2. ASSUME NEW s \in States, NEW x \in Nat
      PROVE  ExpandByte(s, x) \in States
  <2>1. s.out \in Seq(Nat) /\ s.byte \in Nat /\ s.count \in Nat /\ Repeats \in Nat
    BY RunLengthAssumption DEF States
  <2>2. s.out \o Copies(s.byte, x) \in Seq(Nat)
    BY <2>1, CopiesType
  <2> QED BY <2>1, <2>2 DEF ExpandByte, States
<1>3. ASSUME NEW s \in States, NEW x \in Nat
      PROVE  ExpandTable[<<s, x>>] = ExpandByte(s, x)
  BY DEF ExpandTable
<1> QED BY <1>1, <1>2, <1>3 DEF Steps

\* Expanding is the last value of a run: its fold chooses a recursion that
\* exists, and any such recursion is the run on the intervals from 1.
LEMMA ExpandRun ==
    ASSUME NEW seq \in Seq(Nat)
    PROVE  \E run : /\ IsRun(run, Fresh, ExpandTable, seq)
                    /\ Expanding(seq) = run[Len(seq)]
                    /\ Expanding(seq) \in States
<1> DEFINE D == DOMAIN seq
           Recursive(g) == g = [s \in SUBSET D |->
               IF s = {} THEN Fresh ELSE ExpandByte(g[s \ {Max(s)}], seq[Max(s)])]
           iter == CHOOSE g : Recursive(g)
<1>1. Expanding(seq) = iter[D]
  BY DEF Expanding, FoldLeft, MapThenFoldSet
<1>2. D = 1..Len(seq) /\ Len(seq) \in Nat
  OBVIOUS
<1>3. PICK t : IsFold(t, seq, States, Fresh, ExpandTable)
  BY ExpandCloses, FoldExists
<1> DEFINE run == RunOf(t, seq)
<1>4. /\ IsRun(run, Fresh, ExpandTable, seq)
      /\ \A n \in 0..Len(seq) : run[n] = t[1..n] /\ t[1..n] \in States
  BY <1>3, FoldRuns
<1>5. Recursive(t)
  <2> DEFINE u == [s \in SUBSET D |->
               IF s = {} THEN Fresh ELSE ExpandByte(t[s \ {Max(s)}], seq[Max(s)])]
  <2>1. ASSUME NEW s \in SUBSET D
        PROVE  t[s] = IF s = {} THEN Fresh ELSE ExpandByte(t[s \ {Max(s)}], seq[Max(s)])
    <3>1. s = {} => t[s] = Fresh
      BY <1>3, Zenon DEF IsFold
    <3>2. s # {} => /\ Max(s) \in D
                    /\ t[s] = ExpandTable[<<t[s \ {Max(s)}], seq[Max(s)]>>]
      BY <1>3, Zenon DEF IsFold
    <3>3. t[s \ {Max(s)}] \in States
      BY <1>3 DEF IsFold
    <3>4. Max(s) \in D => seq[Max(s)] \in Nat
      BY <1>2
    <3> QED BY <3>1, <3>2, <3>3, <3>4, ExpandCloses, Zenon
  <2>2. DOMAIN u = SUBSET D /\ u = [s \in DOMAIN u |-> u[s]]
    OBVIOUS
  <2>3. \A s \in SUBSET D : t[s] = u[s]
    BY <2>1, Zenon
  <2>4. t = [s \in SUBSET D |-> t[s]]
    BY <1>3 DEF IsFold
  <2> HIDE DEF u
  <2>5. t = u
    BY <2>2, <2>3, <2>4
  <2> QED BY <2>5 DEF u
<1>6. Recursive(iter)
  <2> HIDE DEF Recursive
  <2> QED BY <1>5, Zenon
<1> HIDE DEF iter, run
<1>7. ASSUME NEW s \in SUBSET D
      PROVE  iter[s] = IF s = {} THEN Fresh ELSE ExpandByte(iter[s \ {Max(s)}], seq[Max(s)])
  BY <1>6, Zenon
<1>8. \A n \in 0..Len(seq) : iter[1..n] = run[n]
  <2> DEFINE Same == {n \in 0..Len(seq) : iter[1..n] = run[n]}
  <2>1. 0 \in Same
    <3>1. 1..0 = {} /\ 0 \in 0..Len(seq) /\ 1..0 \in SUBSET D
      BY <1>2
    <3>2. iter[1..0] = Fresh
      BY <1>7, <3>1, Zenon
    <3> QED BY <1>4, <3>1, <3>2 DEF IsRun
  <2>2. ASSUME NEW n \in 1..Len(seq), n - 1 \in Same
        PROVE  n \in Same
    <3>1. n \in Nat \ {0} /\ n \in 0..Len(seq) /\ n - 1 \in 0..Len(seq) /\ 1..n \in SUBSET D
      BY <1>2
    <3>2. Max(1..n) = n /\ (1..n) \ {n} = 1..(n - 1) /\ 1..n # {}
      BY <3>1, IntervalEnds
    <3>3. iter[1..n] = ExpandByte(iter[1..(n - 1)], seq[n])
      BY <1>7, <3>1, <3>2, Zenon
    <3>4. run[n] = ExpandTable[<<run[n - 1], seq[n]>>]
      BY <1>4 DEF IsRun
    <3>5. run[n - 1] \in States
      BY <1>4, <3>1, Zenon
    <3>6. seq[n] \in Nat
      BY <1>2
    <3>7. iter[1..(n - 1)] = run[n - 1]
      BY <2>2
    <3>8. iter[1..n] = run[n]
      BY <3>3, <3>4, <3>5, <3>6, <3>7, ExpandCloses, Zenon
    <3> QED BY <3>1, <3>8
  <2>3. \A n \in 0..Len(seq) : n \in Same
    <3> HIDE DEF Same
    <3> QED BY <1>2, <2>1, <2>2, Climb
  <2> QED BY <2>3
<1>9. iter[D] = run[Len(seq)] /\ run[Len(seq)] \in States
  <2>1. Len(seq) \in 0..Len(seq)
    BY <1>2
  <2> QED BY <1>2, <1>4, <1>8, <2>1
<1> QED BY <1>1, <1>4, <1>9

\* One more byte is one more step of the decoder.
LEMMA ExpandAppend ==
    ASSUME NEW seq \in Seq(Nat), NEW x \in Nat
    PROVE  /\ Expanding(seq) \in States
           /\ Expanding(Append(seq, x)) = ExpandByte(Expanding(seq), x)
<1>1. PICK r : /\ IsRun(r, Fresh, ExpandTable, seq)
               /\ Expanding(seq) = r[Len(seq)]
               /\ Expanding(seq) \in States
  BY ExpandRun
<1>2. Append(seq, x) \in Seq(Nat) /\ Extended(Append(seq, x), seq, x)
  BY AppendProperties DEF Extended
<1>3. PICK q : /\ IsRun(q, Fresh, ExpandTable, Append(seq, x))
               /\ Expanding(Append(seq, x)) = q[Len(Append(seq, x))]
  BY <1>2, ExpandRun
<1>4. LongerRun(q, Append(seq, x), ExpandTable, r, seq, x)
  BY <1>1, <1>2, <1>3, RunsAgree
<1>5. Expanding(Append(seq, x)) = ExpandTable[<<Expanding(seq), x>>]
  BY <1>1, <1>3, <1>4, Zenon DEF LongerRun
<1> QED BY <1>1, <1>5, ExpandCloses

\* The jobs of the two encoders, and the plaintext they stand for.
Jobs == [rle : Seq(Nat), plain : Seq(Nat)] \cup [dict : Seq(Nat), plain : Seq(Nat)]
NoBytes == <<>>
JoinTable == [p \in Seq(Nat) \X Jobs |-> p[1] \o p[2].plain]

\* Joining plaintexts stays among the sequences of bytes.
LEMMA JoinCloses ==
    /\ NoBytes \in Seq(Nat)
    /\ Steps(JoinTable, Seq(Nat), Jobs)
    /\ \A s \in Seq(Nat) : \A x \in Jobs : JoinTable[<<s, x>>] = s \o x.plain
<1>1. NoBytes \in Seq(Nat)
  BY DEF NoBytes
<1>2. ASSUME NEW s \in Seq(Nat), NEW x \in Jobs
      PROVE  x.plain \in Seq(Nat) /\ s \o x.plain \in Seq(Nat)
  BY DEF Jobs
<1>3. ASSUME NEW s \in Seq(Nat), NEW x \in Jobs
      PROVE  JoinTable[<<s, x>>] = s \o x.plain
  BY DEF JoinTable
<1> QED BY <1>1, <1>2, <1>3 DEF Steps

\* Plaintext is the last value of a run.
LEMMA JoinRun ==
    ASSUME NEW seq \in Seq(Jobs)
    PROVE  \E run : /\ IsRun(run, NoBytes, JoinTable, seq)
                    /\ Plaintext(seq) = run[Len(seq)]
                    /\ Plaintext(seq) \in Seq(Nat)
<1> DEFINE D == DOMAIN seq
           Recursive(g) == g = [s \in SUBSET D |->
               IF s = {} THEN NoBytes ELSE g[s \ {Max(s)}] \o seq[Max(s)].plain]
           iter == CHOOSE g : Recursive(g)
<1>1. Plaintext(seq) = iter[D]
  BY DEF Plaintext, NoBytes, FoldLeft, MapThenFoldSet
<1>2. D = 1..Len(seq) /\ Len(seq) \in Nat
  OBVIOUS
<1>3. PICK t : IsFold(t, seq, Seq(Nat), NoBytes, JoinTable)
  BY JoinCloses, FoldExists
<1> DEFINE run == RunOf(t, seq)
<1>4. /\ IsRun(run, NoBytes, JoinTable, seq)
      /\ \A n \in 0..Len(seq) : run[n] = t[1..n] /\ t[1..n] \in Seq(Nat)
  BY <1>3, FoldRuns
<1>5. Recursive(t)
  <2> DEFINE u == [s \in SUBSET D |->
               IF s = {} THEN NoBytes ELSE t[s \ {Max(s)}] \o seq[Max(s)].plain]
  <2>1. ASSUME NEW s \in SUBSET D
        PROVE  t[s] = IF s = {} THEN NoBytes ELSE t[s \ {Max(s)}] \o seq[Max(s)].plain
    <3>1. s = {} => t[s] = NoBytes
      BY <1>3, Zenon DEF IsFold
    <3>2. s # {} => /\ Max(s) \in D
                    /\ t[s] = JoinTable[<<t[s \ {Max(s)}], seq[Max(s)]>>]
      BY <1>3, Zenon DEF IsFold
    <3>3. t[s \ {Max(s)}] \in Seq(Nat)
      BY <1>3 DEF IsFold
    <3>4. Max(s) \in D => seq[Max(s)] \in Jobs
      BY <1>2
    <3> QED BY <3>1, <3>2, <3>3, <3>4, JoinCloses, Zenon
  <2>2. DOMAIN u = SUBSET D /\ u = [s \in DOMAIN u |-> u[s]]
    OBVIOUS
  <2>3. \A s \in SUBSET D : t[s] = u[s]
    BY <2>1, Zenon
  <2>4. t = [s \in SUBSET D |-> t[s]]
    BY <1>3 DEF IsFold
  <2> HIDE DEF u
  <2>5. t = u
    BY <2>2, <2>3, <2>4
  <2> QED BY <2>5 DEF u
<1>6. Recursive(iter)
  <2> HIDE DEF Recursive
  <2> QED BY <1>5, Zenon
<1> HIDE DEF iter, run
<1>7. ASSUME NEW s \in SUBSET D
      PROVE  iter[s] = IF s = {} THEN NoBytes ELSE iter[s \ {Max(s)}] \o seq[Max(s)].plain
  BY <1>6, Zenon
<1>8. \A n \in 0..Len(seq) : iter[1..n] = run[n]
  <2> DEFINE Same == {n \in 0..Len(seq) : iter[1..n] = run[n]}
  <2>1. 0 \in Same
    <3>1. 1..0 = {} /\ 0 \in 0..Len(seq) /\ 1..0 \in SUBSET D
      BY <1>2
    <3>2. iter[1..0] = NoBytes
      BY <1>7, <3>1, Zenon
    <3> QED BY <1>4, <3>1, <3>2 DEF IsRun
  <2>2. ASSUME NEW n \in 1..Len(seq), n - 1 \in Same
        PROVE  n \in Same
    <3>1. n \in Nat \ {0} /\ n \in 0..Len(seq) /\ n - 1 \in 0..Len(seq) /\ 1..n \in SUBSET D
      BY <1>2
    <3>2. Max(1..n) = n /\ (1..n) \ {n} = 1..(n - 1) /\ 1..n # {}
      BY <3>1, IntervalEnds
    <3>3. iter[1..n] = iter[1..(n - 1)] \o seq[n].plain
      BY <1>7, <3>1, <3>2, Zenon
    <3>4. run[n] = JoinTable[<<run[n - 1], seq[n]>>]
      BY <1>4 DEF IsRun
    <3>5. run[n - 1] \in Seq(Nat)
      BY <1>4, <3>1, Zenon
    <3>6. seq[n] \in Jobs
      BY <1>2
    <3>7. iter[1..(n - 1)] = run[n - 1]
      BY <2>2
    <3>8. iter[1..n] = run[n]
      BY <3>3, <3>4, <3>5, <3>6, <3>7, JoinCloses, Zenon
    <3> QED BY <3>1, <3>8
  <2>3. \A n \in 0..Len(seq) : n \in Same
    <3> HIDE DEF Same
    <3> QED BY <1>2, <2>1, <2>2, Climb
  <2> QED BY <2>3
<1>9. iter[D] = run[Len(seq)] /\ run[Len(seq)] \in Seq(Nat)
  <2>1. Len(seq) \in 0..Len(seq)
    BY <1>2
  <2> QED BY <1>2, <1>4, <1>8, <2>1
<1> QED BY <1>1, <1>4, <1>9

\* One more job adds its plaintext.
LEMMA JoinAppend ==
    ASSUME NEW seq \in Seq(Jobs), NEW x \in Jobs
    PROVE  /\ Plaintext(seq) \in Seq(Nat)
           /\ Plaintext(Append(seq, x)) = Plaintext(seq) \o x.plain
<1>1. PICK r : /\ IsRun(r, NoBytes, JoinTable, seq)
               /\ Plaintext(seq) = r[Len(seq)]
               /\ Plaintext(seq) \in Seq(Nat)
  BY JoinRun
<1>2. Append(seq, x) \in Seq(Jobs) /\ Extended(Append(seq, x), seq, x)
  BY AppendProperties DEF Extended
<1>3. PICK q : /\ IsRun(q, NoBytes, JoinTable, Append(seq, x))
               /\ Plaintext(Append(seq, x)) = q[Len(Append(seq, x))]
  BY <1>2, JoinRun
<1>4. LongerRun(q, Append(seq, x), JoinTable, r, seq, x)
  BY <1>1, <1>2, <1>3, RunsAgree
<1>5. Plaintext(Append(seq, x)) = JoinTable[<<Plaintext(seq), x>>]
  BY <1>1, <1>3, <1>4, Zenon DEF LongerRun
<1> QED BY <1>1, <1>5, JoinCloses

\* The loop of compress_bytes_serial: the jobs so far and the window behind them.
Turns == [jobs : Seq(Jobs), previous : Seq(Nat)]
FirstTurn == [jobs |-> <<>>, previous |-> <<>>]
Turn(done, chunk) ==
    [jobs |-> Append(done.jobs, [dict |-> done.previous, plain |-> chunk]),
     previous |-> Previous(done.previous, chunk)]
TurnTable == [p \in Turns \X Seq(Nat) |-> Turn(p[1], p[2])]
TurnsOver(chunks) == FoldLeft(Turn, FirstTurn, chunks)

\* A window of bytes is a sequence of bytes.
LEMMA LastOfType ==
    ASSUME NEW bytes \in Seq(Nat), NEW n \in Nat
    PROVE  LastOf(n, bytes) \in Seq(Nat)
  BY DEF LastOf

\* A turn of the loop of compress_bytes_serial stays among its states.
LEMMA TurnCloses ==
    /\ FirstTurn \in Turns
    /\ Steps(TurnTable, Turns, Seq(Nat))
    /\ \A s \in Turns : \A x \in Seq(Nat) : TurnTable[<<s, x>>] = Turn(s, x)
<1>1. FirstTurn \in Turns
  BY DEF FirstTurn, Turns
<1>2. ASSUME NEW s \in Turns, NEW x \in Seq(Nat)
      PROVE  Turn(s, x) \in Turns
  <2>1. s.jobs \in Seq(Jobs) /\ s.previous \in Seq(Nat) /\ Window \in Nat
    BY DeflateAssumption DEF Turns
  <2>2. [dict |-> s.previous, plain |-> x] \in Jobs
    BY <2>1 DEF Jobs
  <2>3. Previous(s.previous, x) \in Seq(Nat)
    <3>1. s.previous \o x \in Seq(Nat)
      BY <2>1
    <3> QED BY <2>1, <3>1, LastOfType DEF Previous
  <2> QED BY <2>1, <2>2, <2>3 DEF Turn, Turns
<1>3. ASSUME NEW s \in Turns, NEW x \in Seq(Nat)
      PROVE  TurnTable[<<s, x>>] = Turn(s, x)
  BY DEF TurnTable
<1> QED BY <1>1, <1>2, <1>3 DEF Steps

\* The loop over the chunks is the last value of a run.
LEMMA TurnRun ==
    ASSUME NEW seq \in Seq(Seq(Nat))
    PROVE  \E run : /\ IsRun(run, FirstTurn, TurnTable, seq)
                    /\ TurnsOver(seq) = run[Len(seq)]
                    /\ TurnsOver(seq) \in Turns
<1> DEFINE D == DOMAIN seq
           Recursive(g) == g = [s \in SUBSET D |->
               IF s = {} THEN FirstTurn ELSE Turn(g[s \ {Max(s)}], seq[Max(s)])]
           iter == CHOOSE g : Recursive(g)
<1>1. TurnsOver(seq) = iter[D]
  BY DEF TurnsOver, FoldLeft, MapThenFoldSet
<1>2. D = 1..Len(seq) /\ Len(seq) \in Nat
  OBVIOUS
<1>3. PICK t : IsFold(t, seq, Turns, FirstTurn, TurnTable)
  BY TurnCloses, FoldExists
<1> DEFINE run == RunOf(t, seq)
<1>4. /\ IsRun(run, FirstTurn, TurnTable, seq)
      /\ \A n \in 0..Len(seq) : run[n] = t[1..n] /\ t[1..n] \in Turns
  BY <1>3, FoldRuns
<1>5. Recursive(t)
  <2> DEFINE u == [s \in SUBSET D |->
               IF s = {} THEN FirstTurn ELSE Turn(t[s \ {Max(s)}], seq[Max(s)])]
  <2>1. ASSUME NEW s \in SUBSET D
        PROVE  t[s] = IF s = {} THEN FirstTurn ELSE Turn(t[s \ {Max(s)}], seq[Max(s)])
    <3>1. s = {} => t[s] = FirstTurn
      BY <1>3, Zenon DEF IsFold
    <3>2. s # {} => /\ Max(s) \in D
                    /\ t[s] = TurnTable[<<t[s \ {Max(s)}], seq[Max(s)]>>]
      BY <1>3, Zenon DEF IsFold
    <3>3. t[s \ {Max(s)}] \in Turns
      BY <1>3 DEF IsFold
    <3>4. Max(s) \in D => seq[Max(s)] \in Seq(Nat)
      BY <1>2
    <3> QED BY <3>1, <3>2, <3>3, <3>4, TurnCloses, Zenon
  <2>2. DOMAIN u = SUBSET D /\ u = [s \in DOMAIN u |-> u[s]]
    OBVIOUS
  <2>3. \A s \in SUBSET D : t[s] = u[s]
    BY <2>1, Zenon
  <2>4. t = [s \in SUBSET D |-> t[s]]
    BY <1>3 DEF IsFold
  <2> HIDE DEF u
  <2>5. t = u
    BY <2>2, <2>3, <2>4
  <2> QED BY <2>5 DEF u
<1>6. Recursive(iter)
  <2> HIDE DEF Recursive
  <2> QED BY <1>5, Zenon
<1> HIDE DEF iter, run
<1>7. ASSUME NEW s \in SUBSET D
      PROVE  iter[s] = IF s = {} THEN FirstTurn ELSE Turn(iter[s \ {Max(s)}], seq[Max(s)])
  BY <1>6, Zenon
<1>8. \A n \in 0..Len(seq) : iter[1..n] = run[n]
  <2> DEFINE Same == {n \in 0..Len(seq) : iter[1..n] = run[n]}
  <2>1. 0 \in Same
    <3>1. 1..0 = {} /\ 0 \in 0..Len(seq) /\ 1..0 \in SUBSET D
      BY <1>2
    <3>2. iter[1..0] = FirstTurn
      BY <1>7, <3>1, Zenon
    <3> QED BY <1>4, <3>1, <3>2 DEF IsRun
  <2>2. ASSUME NEW n \in 1..Len(seq), n - 1 \in Same
        PROVE  n \in Same
    <3>1. n \in Nat \ {0} /\ n \in 0..Len(seq) /\ n - 1 \in 0..Len(seq) /\ 1..n \in SUBSET D
      BY <1>2
    <3>2. Max(1..n) = n /\ (1..n) \ {n} = 1..(n - 1) /\ 1..n # {}
      BY <3>1, IntervalEnds
    <3>3. iter[1..n] = Turn(iter[1..(n - 1)], seq[n])
      BY <1>7, <3>1, <3>2, Zenon
    <3>4. run[n] = TurnTable[<<run[n - 1], seq[n]>>]
      BY <1>4 DEF IsRun
    <3>5. run[n - 1] \in Turns
      BY <1>4, <3>1, Zenon
    <3>6. seq[n] \in Seq(Nat)
      BY <1>2
    <3>7. iter[1..(n - 1)] = run[n - 1]
      BY <2>2
    <3>8. iter[1..n] = run[n]
      BY <3>3, <3>4, <3>5, <3>6, <3>7, TurnCloses, Zenon
    <3> QED BY <3>1, <3>8
  <2>3. \A n \in 0..Len(seq) : n \in Same
    <3> HIDE DEF Same
    <3> QED BY <1>2, <2>1, <2>2, Climb
  <2> QED BY <2>3
<1>9. iter[D] = run[Len(seq)] /\ run[Len(seq)] \in Turns
  <2>1. Len(seq) \in 0..Len(seq)
    BY <1>2
  <2> QED BY <1>2, <1>4, <1>8, <2>1
<1> QED BY <1>1, <1>4, <1>9

------------------------------------------------------------------------------
(* Runs and groups. *)

\* Of nothing the decoder makes nothing.
LEMMA ExpandNothing == Expanding(<<>>) = Fresh
<1>1. <<>> \in Seq(Nat) /\ Len(<<>>) = 0
  OBVIOUS
<1>2. PICK run : /\ IsRun(run, Fresh, ExpandTable, <<>>)
                 /\ Expanding(<<>>) = run[Len(<<>>)]
  BY <1>1, ExpandRun
<1> QED BY <1>1, <1>2, Zenon DEF IsRun

\* No job, no plaintext.
LEMMA JoinNothing == Plaintext(<<>>) = <<>>
<1>1. <<>> \in Seq(Jobs) /\ Len(<<>>) = 0
  OBVIOUS
<1>2. PICK run : /\ IsRun(run, NoBytes, JoinTable, <<>>)
                 /\ Plaintext(<<>>) = run[Len(<<>>)]
  BY <1>1, JoinRun
<1>3. Plaintext(<<>>) = NoBytes
  BY <1>1, <1>2, Zenon DEF IsRun
<1> QED BY <1>3 DEF NoBytes

\* A run grows at its end.
LEMMA CopiesGrow ==
    ASSUME NEW x \in Nat, NEW n \in Nat \ {0}
    PROVE  Copies(x, n) = Append(Copies(x, n - 1), x)
  BY DEF Copies

\* Two runs of a byte are one.
LEMMA CopiesAdd ==
    ASSUME NEW x \in Nat, NEW m \in Nat, NEW n \in Nat
    PROVE  Copies(x, m) \o Copies(x, n) = Copies(x, m + n)
  BY DEF Copies

\* A byte that differs from the decoder's last begins a group.
Apart(done, byte) == done.count = 0 \/ done.byte # byte

\* A run of n bytes behind what was there before.
Repeated(before, byte, n) ==
    [out |-> before.out \o Copies(byte, n), byte |-> byte, count |-> n]

\* What goes behind a when b gets one more.
OneMore(a, b, c, x) == a \o c = Append(a \o b, x) /\ a \o b \in Seq(Nat)

\* What is appended to the second of two joined sequences is appended to both.
LEMMA BehindOne ==
    ASSUME NEW a \in Seq(Nat), NEW b \in Seq(Nat), NEW x \in Nat,
           NEW c, c = Append(b, x)
    PROVE  OneMore(a, b, c, x)
<1>1. c = b \o <<x>> /\ <<x>> \in Seq(Nat)
  BY AppendIsConcat
<1>2. Associates(a, b, <<x>>)
  BY <1>1, JoinsAssociate
<1> DEFINE j == a \o b
<1>3. j \in Seq(Nat)
  BY ConcatProperties
<1>4. a \o c = j \o <<x>>
  BY <1>1, <1>2 DEF Associates
<1> HIDE DEF j
<1>5. Append(j, x) = j \o <<x>>
  BY <1>3, AppendIsConcat
<1> QED BY <1>3, <1>4, <1>5 DEF OneMore, j

\* Up to four equal bytes that begin a group are copied and counted.
LEMMA ExpandCopies ==
    ASSUME NEW bytes \in Seq(Nat), NEW x \in Nat, Apart(Expanding(bytes), x),
           Expanding(bytes).count < Repeats, NEW n \in 1..Repeats
    PROVE  Expanding(bytes \o Copies(x, n)) = Repeated(Expanding(bytes), x, n)
<1> DEFINE done == Expanding(bytes)
           after(i) == Expanding(bytes \o Copies(x, i))
           Good == {i \in 0..Repeats : i = 0 \/ after(i) = Repeated(done, x, i)}
<1>1. /\ Repeats \in Nat /\ done \in States
      /\ done.count < Repeats /\ (done.count = 0 \/ done.byte # x)
  BY RunLengthAssumption, ExpandAppend DEF Apart
<1> HIDE DEF done
<1>2. 0 \in Good
  BY <1>1
<1>3. ASSUME NEW i \in 1..Repeats, i - 1 \in Good
      PROVE  i \in Good
  <2>1. i \in Nat \ {0} /\ i - 1 \in Nat
    BY <1>1
  <2>2. Copies(x, i) = Append(Copies(x, i - 1), x) /\ Copies(x, i - 1) \in Seq(Nat)
    BY <2>1, CopiesGrow, CopiesType
  <2>3. /\ bytes \o Copies(x, i) = Append(bytes \o Copies(x, i - 1), x)
        /\ bytes \o Copies(x, i - 1) \in Seq(Nat)
    <3>1. OneMore(bytes, Copies(x, i - 1), Copies(x, i), x)
      BY <2>2, BehindOne
    <3> QED BY <3>1 DEF OneMore
  <2>4. after(i) = ExpandByte(after(i - 1), x)
    BY <2>3, ExpandAppend
  <2>5. done.out \in Seq(Nat) /\ done.out \o Copies(x, i) = Append(done.out \o Copies(x, i - 1), x)
    <3>1. done.out \in Seq(Nat)
      BY <1>1 DEF States
    <3>2. OneMore(done.out, Copies(x, i - 1), Copies(x, i), x)
      BY <2>2, <3>1, BehindOne
    <3> QED BY <3>1, <3>2 DEF OneMore
  <2>6. CASE i = 1
    <3>1. Copies(x, 0) = <<>>
      BY DEF Copies
    <3>2. after(0) = done /\ done.out \o Copies(x, 0) = done.out
      BY <2>5, <3>1, ConcatEmptySeq, Zenon DEF done
    <3>3. done.out \o Copies(x, 1) = Append(done.out, x)
      BY <2>5, <2>6, <3>2
    <3>4. done.count # Repeats /\ ~(done.count > 0 /\ x = done.byte)
      BY <1>1 DEF States
    <3>5. ExpandByte(done, x) = Repeated(done, x, 1)
      BY <3>3, <3>4 DEF ExpandByte, Repeated
    <3> QED BY <2>4, <2>6, <3>2, <3>5
  <2>7. CASE i # 1
    <3>1. after(i - 1) = Repeated(done, x, i - 1)
      BY <1>3, <2>7
    <3>2. i - 1 # Repeats /\ i - 1 > 0 /\ i - 1 + 1 = i
      BY <1>1, <2>1, <2>7
    <3>3. ExpandByte(Repeated(done, x, i - 1), x) = Repeated(done, x, i)
      BY <2>5, <3>2 DEF ExpandByte, Repeated
    <3> QED BY <2>4, <3>1, <3>3
  <2> QED BY <2>6, <2>7
<1>4. \A i \in 0..Repeats : i \in Good
  <2> HIDE DEF Good
  <2> QED BY <1>1, <1>2, <1>3, Climb
<1>5. n \in Good /\ n # 0
  BY <1>1, <1>4
<1> QED BY <1>5 DEF done

\* The groups of the splitter.
Groups == [byte : Nat, len : 0..MaxRun]
CopiesOf(g) == Copies(g.byte, g.len)

\* A group as it is encoded: its length, and the count byte, which is not cut.
LEMMA GroupType ==
    ASSUME NEW g \in Groups
    PROVE  /\ g.byte \in Nat /\ g.len \in Nat /\ g.len <= MaxRun
           /\ CopiesOf(g) \in Seq(Nat)
           /\ Encoded(g) \in Seq(Nat)
           /\ Len(Encoded(g)) = EncodedLen(g)
           /\ g.len > 0 => EncodedLen(g) \in 1..BlockLimit
           /\ g.len = 0 => EncodedLen(g) = 0 /\ Encoded(g) = <<>> /\ CopiesOf(g) = <<>>
           /\ g.len >= Repeats => (g.len - Repeats) % ByteSize = g.len - Repeats
<1>1. /\ g.byte \in Nat /\ g.len \in Nat /\ g.len <= MaxRun
      /\ Repeats \in Nat \ {0} /\ MaxRun \in Nat /\ ByteSize \in Nat
      /\ MaxRun - Repeats \in 0..(ByteSize - 1)
      /\ BlockLimit \in Nat /\ BlockLimit > Repeats
  BY RunLengthAssumption, BlockLimitAssumption DEF Groups
<1>2. CopiesOf(g) \in Seq(Nat) /\ Len(CopiesOf(g)) = g.len
  BY <1>1, CopiesType DEF CopiesOf
<1>3. Copies(g.byte, Repeats) \in Seq(Nat) /\ Len(Copies(g.byte, Repeats)) = Repeats
  BY <1>1, CopiesType
<1>4. ASSUME g.len >= Repeats
      PROVE  (g.len - Repeats) % ByteSize = g.len - Repeats
  <2> DEFINE n == g.len - Repeats
  <2>1. n \in Nat /\ n < ByteSize
    BY <1>1, <1>4
  <2> HIDE DEF n
  <2>2. n % ByteSize = n
    BY <1>1, <2>1
  <2> QED BY <2>2 DEF n
<1>5. CASE g.len >= Repeats
  <2>1. Encoded(g) = Append(Copies(g.byte, Repeats), g.len - Repeats)
    BY <1>4, <1>5 DEF Encoded
  <2>2. Encoded(g) \in Seq(Nat) /\ Len(Encoded(g)) = Repeats + 1
    BY <1>1, <1>3, <1>5, <2>1
  <2> QED BY <1>1, <1>2, <1>4, <1>5, <2>2 DEF EncodedLen
<1>6. CASE g.len < Repeats
  <2>1. Encoded(g) = CopiesOf(g)
    BY <1>1, <1>6 DEF Encoded, CopiesOf
  <2>2. g.len = 0 => CopiesOf(g) = <<>>
    BY <1>2
  <2> QED BY <1>1, <1>2, <1>6, <2>1, <2>2 DEF EncodedLen
<1> QED BY <1>1, <1>5, <1>6

\* The decoder expands an encoded group to its copies, and a group that is not
\* closed by a count byte leaves its own byte as the last.
LEMMA ExpandGroup ==
    ASSUME NEW bytes \in Seq(Nat), NEW g \in Groups, g.len > 0,
           Apart(Expanding(bytes), g.byte), Expanding(bytes).count < Repeats
    PROVE  /\ Expanding(bytes \o Encoded(g)).out = Expanding(bytes).out \o CopiesOf(g)
           /\ Expanding(bytes \o Encoded(g)).count < Repeats
           /\ \/ Expanding(bytes \o Encoded(g)).count = 0
              \/ g.len < Repeats /\ Expanding(bytes \o Encoded(g)).byte = g.byte
<1> DEFINE done == Expanding(bytes)
<1>1. /\ g.byte \in Nat /\ g.len \in Nat /\ Repeats \in Nat \ {0}
      /\ done.out \in Seq(Nat)
  BY GroupType, RunLengthAssumption, ExpandAppend DEF States
<1> HIDE DEF done
<1>2. CASE g.len < Repeats
  <2>1. Encoded(g) = Copies(g.byte, g.len) /\ g.len \in 1..Repeats
    BY <1>1, <1>2 DEF Encoded
  <2>2. Expanding(bytes \o Encoded(g)) = Repeated(done, g.byte, g.len)
    BY <1>1, <2>1, ExpandCopies DEF done
  <2>3. /\ Expanding(bytes \o Encoded(g)).out = done.out \o CopiesOf(g)
        /\ Expanding(bytes \o Encoded(g)).count = g.len
        /\ Expanding(bytes \o Encoded(g)).byte = g.byte
    <3> DEFINE after == Expanding(bytes \o Encoded(g))
    <3>1. after = Repeated(done, g.byte, g.len)
      BY <2>2
    <3> HIDE DEF after
    <3>2. /\ after.out = done.out \o CopiesOf(g)
          /\ after.count = g.len
          /\ after.byte = g.byte
      BY <3>1 DEF Repeated, CopiesOf
    <3> QED BY <3>2 DEF after
  <2> QED BY <1>2, <2>3 DEF done
<1>3. CASE g.len >= Repeats
  <2> DEFINE full == bytes \o Copies(g.byte, Repeats)
             n == g.len - Repeats
  <2>1. n \in Nat /\ Repeats \in 1..Repeats
    BY <1>1, <1>3
  <2>2. Copies(g.byte, Repeats) \in Seq(Nat) /\ Copies(g.byte, n) \in Seq(Nat)
    BY <1>1, <2>1, CopiesType
  <2>3. Expanding(full) = Repeated(done, g.byte, Repeats)
    BY <1>1, <2>1, ExpandCopies DEF done
  <2>4. Encoded(g) = Append(Copies(g.byte, Repeats), n)
    BY <1>3, GroupType DEF Encoded
  <2>5. full \in Seq(Nat) /\ bytes \o Encoded(g) = Append(full, n)
    BY <2>1, <2>2, <2>4
  <2>6. Expanding(bytes \o Encoded(g)) = ExpandByte(Repeated(done, g.byte, Repeats), n)
    BY <2>1, <2>3, <2>5, ExpandAppend
  <2> HIDE DEF full, n
  <2>7. Expanding(bytes \o Encoded(g))
        = [out |-> (done.out \o Copies(g.byte, Repeats)) \o Copies(g.byte, n),
           byte |-> 0, count |-> 0]
    BY <2>6 DEF ExpandByte, Repeated
  <2>8. (done.out \o Copies(g.byte, Repeats)) \o Copies(g.byte, n)
        = done.out \o (Copies(g.byte, Repeats) \o Copies(g.byte, n))
    <3>1. Associates(done.out, Copies(g.byte, Repeats), Copies(g.byte, n))
      BY <1>1, <2>2, JoinsAssociate
    <3> QED BY <3>1 DEF Associates
  <2>9. Copies(g.byte, Repeats) \o Copies(g.byte, n) = CopiesOf(g)
    <3>1. Repeats + n = g.len
      BY <1>1 DEF n
    <3>2. Copies(g.byte, Repeats) \o Copies(g.byte, n) = Copies(g.byte, Repeats + n)
      <4>1. Repeats \in Nat
        BY <1>1
      <4> QED BY <1>1, <2>1, <4>1, CopiesAdd, Zenon
    <3> QED BY <3>1, <3>2 DEF CopiesOf
  <2>10. /\ Expanding(bytes \o Encoded(g)).out = done.out \o CopiesOf(g)
         /\ Expanding(bytes \o Encoded(g)).count = 0
    BY <2>7, <2>8, <2>9
  <2> QED BY <1>1, <2>10 DEF done
<1> QED BY <1>1, <1>2, <1>3 DEF done

------------------------------------------------------------------------------
(* The invariant. *)

\* The stages of a call.
Stages == {"idle", "writing", "ending", "grouping", "submitting", "draining", "closing", "gone"}

\* What the variables hold.
EncodeTypes ==
    /\ format \in {"bzip2", "gzip"}
    /\ stage \in Stages
    /\ given \in Seq(Nat) /\ todo \in Seq(Nat)
    /\ combined \in Seq(Nat)
    /\ jobs \in Seq(Jobs) /\ written \in Seq(Jobs)
    /\ nextSubmit = Len(jobs)
    /\ nextTake \in 0..nextSubmit
    /\ reported \in BOOLEAN

\* The bzip2 encoder holds two groups and a block.
Bzip2Types ==
    /\ runs \in Groups /\ group \in Groups
    /\ block \in Seq(Nat) /\ blockCrc \in Seq(Nat)

\* The DEFLATE encoder holds a dictionary and a segment that is not too long.
DeflateTypes ==
    /\ buffer \in Seq(Nat)
    /\ prefixLen \in 0..Len(buffer)
    /\ Used <= SegmentSize

Types == EncodeTypes /\ Bzip2Types /\ DeflateTypes

\* What a client writes is bytes.
LEMMA PiecesType ==
    ASSUME EncodeTypes, NEW piece \in Pieces
    PROVE  piece \in Seq(Nat)
<1>1. Len(given) \in Nat /\ MaxWrite \in Nat
  BY WriteAssumption DEF EncodeTypes
<1>2. CASE format = "bzip2"
  <2>1. piece \in BoundedSeq(ByteValues, MaxWrite)
    BY <1>2 DEF Pieces
  <2>2. PICK m \in 0..MaxWrite : piece \in [1..m -> ByteValues]
    BY <2>1, <1>1 DEF BoundedSeq, SeqOf
  <2>3. ByteValues \subseteq Nat
    BY ByteValuesAssumption, RunLengthAssumption
  <2>4. piece = [i \in 1..m |-> piece[i]] /\ \A i \in 1..m : piece[i] \in Nat
    BY <2>2, <2>3
  <2>5. m \in Nat
    BY <1>1
  <2> QED BY <2>4, <2>5
<1>3. CASE format # "bzip2"
  <2>1. PICK n \in 0..MaxWrite : piece = [i \in 1..n |-> Len(given) + i]
    BY <1>3 DEF Pieces
  <2>2. n \in Nat /\ \A i \in 1..n : Len(given) + i \in Nat
    BY <1>1
  <2>3. piece \in [1..n -> Nat]
    BY <2>1, <2>2
  <2> QED BY <2>2, <2>3
<1> QED BY <1>2, <1>3

\* What leaving a call changes.
LEMMA LeaveType ==
    ASSUME EncodeTypes, NEW answer, Leave(answer)
    PROVE  /\ stage' \in {"gone", "idle"}
           /\ UNCHANGED <<given, call, nextSubmit, nextTake>>
           /\ result' = answer
           /\ call = "finish" <=> stage' = "gone"
  BY DEF Leave, Close, queue

\* What the return of a call changes.
LEMMA ReturnType ==
    ASSUME EncodeTypes, ReturnOk \/ ReturnError
    PROVE  /\ stage' \in {"gone", "idle"}
           /\ UNCHANGED <<given, call, nextSubmit, nextTake, todo, jobs, written, combined, inputLen>>
           /\ reported' = reported \/ reported' = TRUE
           /\ call = "finish" <=> stage' = "gone"
  BY LeaveType DEF ReturnOk, ReturnError, sums

\* A job is submitted behind the others.
LEMMA SubmitType ==
    ASSUME EncodeTypes, NEW job \in Jobs, SubmitJob(job)
    PROVE  /\ jobs' = Append(jobs, job) /\ jobs' \in Seq(Jobs)
           /\ nextSubmit' = Len(jobs')
           /\ nextTake' = nextTake /\ nextTake \in 0..nextSubmit'
  BY DEF EncodeTypes, SubmitJob, Submit

\* The next result is that of a job submitted.
LEMMA TakeType ==
    ASSUME EncodeTypes, Take
    PROVE  /\ nextTake' = nextTake + 1 /\ nextSubmit' = nextSubmit
           /\ nextTake + 1 \in 1..Len(jobs)
           /\ jobs[nextTake + 1] \in Jobs
           /\ jobs[nextTake + 1].plain \in Seq(Nat)
  BY DEF EncodeTypes, Take, HasPending, Jobs

\* Committing a result keeps the types of the shared state.
LEMMA CommitType ==
    ASSUME EncodeTypes, CommitNext, UNCHANGED format
    PROVE  /\ EncodeTypes'
           /\ UNCHANGED <<given, todo, call, stage, result, reported, jobs>>
<1>1. /\ nextTake' = nextTake + 1 /\ nextSubmit' = nextSubmit
      /\ nextTake + 1 \in 1..Len(jobs)
      /\ jobs[nextTake + 1] \in Jobs
      /\ jobs[nextTake + 1].plain \in Seq(Nat)
  BY TakeType DEF CommitNext
<1>2. /\ written' = Append(written, jobs[nextTake + 1])
      /\ combined' = combined \o jobs[nextTake + 1].plain
      /\ UNCHANGED <<given, todo, call, stage, result, reported, jobs, format>>
  BY DEF CommitNext, caller
<1>3. written' \in Seq(Jobs) /\ combined' \in Seq(Nat)
  BY <1>1, <1>2 DEF EncodeTypes
<1> QED BY <1>1, <1>2, <1>3 DEF EncodeTypes

\* An error that loses a result ends the call and is reported.
LEMMA LoseType ==
    ASSUME EncodeTypes, LoseNext, UNCHANGED format
    PROVE  /\ EncodeTypes'
           /\ todo' = <<>> /\ reported'
           /\ stage' \in {"closing", "idle"}
           /\ call = "finish" <=> stage' = "closing"
           /\ UNCHANGED <<given, call, jobs, written, combined, inputLen>>
<1>1. /\ nextTake' = nextTake + 1 /\ nextSubmit' = nextSubmit
      /\ nextTake + 1 \in 1..Len(jobs)
  BY TakeType DEF LoseNext
<1>2. /\ todo' = <<>> /\ reported' = TRUE
      /\ stage' = IF call = "finish" THEN "closing" ELSE "idle"
      /\ UNCHANGED <<given, call, jobs, written, combined, inputLen, format>>
  BY DEF LoseNext, sums
<1> QED BY <1>1, <1>2 DEF EncodeTypes, Stages

\* The types hold at the start, ...
LEMMA TypesInit == EncodeInit => Types
<1> SUFFICES ASSUME EncodeInit PROVE Types
  OBVIOUS
<1>1. NoGroup \in Groups
  BY RunLengthAssumption DEF NoGroup, Groups
<1>2. EncodeTypes
  <2>1. /\ format \in {"bzip2", "gzip"} /\ stage = "idle" /\ reported = FALSE
        /\ nextSubmit = 0 /\ nextTake = 0
        /\ given = <<>> /\ todo = <<>> /\ combined = <<>> /\ jobs = <<>> /\ written = <<>>
    BY DEF EncodeInit, CallsInit, QueueInit
  <2>2. <<>> \in Seq(Nat) /\ <<>> \in Seq(Jobs) /\ Len(<<>>) = 0
    OBVIOUS
  <2>3. Len(jobs) = 0 /\ jobs \in Seq(Jobs) /\ written \in Seq(Jobs)
    BY <2>1, <2>2, Zenon
  <2>4. given \in Seq(Nat) /\ todo \in Seq(Nat) /\ combined \in Seq(Nat)
    BY <2>1, <2>2, Zenon
  <2>5. stage \in Stages /\ nextSubmit = Len(jobs) /\ nextTake \in 0..nextSubmit
    BY <2>1, <2>3 DEF Stages
  <2> QED BY <2>1, <2>3, <2>4, <2>5 DEF EncodeTypes
<1>3. Bzip2Types
  BY <1>1 DEF EncodeInit, Bzip2Init, Bzip2Types
<1>4. DeflateTypes
  BY DeflateAssumption DEF EncodeInit, DeflateInit, DeflateTypes, Used
<1> QED BY <1>2, <1>3, <1>4 DEF Types

\* ... after a step of the client, ...
LEMMA TypesClient ==
    ASSUME Types, Client
    PROVE  Types'
<1> USE DEF Types, Stages
<1>1. CASE Write
  <2>1. PICK piece \in Pieces : CallWrite(piece)
    BY <1>1 DEF Write
  <2>2. piece \in Seq(Nat) /\ given \o piece \in Seq(Nat)
    BY PiecesType DEF EncodeTypes
  <2>3. EncodeTypes'
    BY <2>1, <2>2 DEF Client, CallWrite, EncodeTypes, queue, sums
  <2> QED BY <2>3 DEF Client, bz2, deflate, Bzip2Types, DeflateTypes, Used
<1>2. CASE \E name \in {"flush", "finish"} : CallEnd(name)
  <2>1. EncodeTypes'
    BY <1>2 DEF Client, CallEnd, EncodeTypes, queue, sums
  <2> QED BY <2>1 DEF Client, bz2, deflate, Bzip2Types, DeflateTypes, Used
<1>3. CASE DropEncoder \/ Consumed
  <2>1. EncodeTypes'
    BY <1>3 DEF Client, DropEncoder, Consumed, Close, EncodeTypes, queue, sums, caller
  <2> QED BY <2>1 DEF Client, bz2, deflate, Bzip2Types, DeflateTypes, Used
<1> QED BY <1>1, <1>2, <1>3 DEF Client

\* ... (a splitter that takes a byte has a group) ...
LEMMA PushedType ==
    ASSUME NEW run \in Groups, NEW byte \in Nat
    PROVE  Pushed(run, byte) \in Groups /\ Pushed(run, byte).len > 0
<1>1. /\ run.byte \in Nat /\ run.len \in 0..MaxRun
      /\ MaxRun \in Nat /\ MaxRun >= 1
  BY RunLengthAssumption DEF Groups
<1>2. Extends(run, byte) => run.len + 1 \in 0..MaxRun
  BY <1>1 DEF Extends
<1> QED BY <1>1, <1>2 DEF Pushed, Groups

\* ... after one of the bzip2 encoder, ...
LEMMA TypesBzip2 ==
    ASSUME Types, Bzip2Step, UNCHANGED <<deflate, format>>
    PROVE  Types'
<1> USE DEF Types, Stages
<1>d. DeflateTypes'
  BY DEF deflate, DeflateTypes, Used
<1>r. ASSUME ReturnOk \/ ReturnError, UNCHANGED bz2
      PROVE  Types'
  <2>1. EncodeTypes'
    BY <1>r, ReturnType DEF EncodeTypes
  <2> QED BY <2>1, <1>d, <1>r DEF bz2, Bzip2Types
<1>1. CASE PushByte
  <2>1. Head(todo) \in Nat /\ Tail(todo) \in Seq(Nat)
    BY <1>1 DEF PushByte, EncodeTypes
  <2>2. Pushed(runs, Head(todo)) \in Groups
    BY <2>1, PushedType DEF Bzip2Types
  <2>3. EncodeTypes'
    BY <1>1, <2>1 DEF PushByte, EncodeTypes, queue, sums, caller
  <2>4. Bzip2Types'
    BY <1>1, <2>2 DEF PushByte, Bzip2Types
  <2> QED BY <1>d, <2>3, <2>4
<1>2. CASE WriteEnds
  BY <1>r, <1>2 DEF WriteEnds
<1>3. CASE LastGroup
  <2>1. NoGroup \in Groups
    BY RunLengthAssumption DEF NoGroup, Groups
  <2>2. EncodeTypes'
    BY <1>3 DEF LastGroup, EncodeTypes, queue, sums, caller
  <2>3. Bzip2Types'
    BY <1>3, <2>1 DEF LastGroup, Bzip2Types
  <2> QED BY <1>d, <2>2, <2>3
<1>4. CASE FlushEnds
  BY <1>r, <1>4 DEF FlushEnds
<1>5. CASE PlaceGroup
  <2>1. NoGroup \in Groups
    BY RunLengthAssumption DEF NoGroup, Groups
  <2>2. EncodeTypes'
    BY <1>5 DEF PlaceGroup, EncodeTypes, queue, sums, caller
  <2>3. block \o Encoded(group) \in Seq(Nat) /\ blockCrc \o Copies(group.byte, group.len) \in Seq(Nat)
    BY GroupType DEF Bzip2Types, CopiesOf
  <2>4. Bzip2Types'
    BY <1>5, <2>1, <2>3 DEF PlaceGroup, Bzip2Types
  <2> QED BY <1>d, <2>2, <2>4
<1>6. CASE SubmitBlock
  <2>1. [rle |-> block, plain |-> blockCrc] \in Jobs
    BY DEF Jobs, Bzip2Types
  <2>2. EncodeTypes'
    BY <1>6, <2>1, SubmitType DEF SubmitBlock, EncodeTypes, sums, caller
  <2>3. Bzip2Types'
    BY <1>6 DEF SubmitBlock, Bzip2Types
  <2> QED BY <1>d, <2>2, <2>3
<1>7. CASE CommitBlock
  <2>1. EncodeTypes'
    BY <1>7, CommitType DEF CommitBlock
  <2> QED BY <1>7, <1>d, <2>1 DEF CommitBlock, bz2, Bzip2Types
<1>8. CASE LoseBlock
  <2>1. NoGroup \in Groups
    BY RunLengthAssumption DEF NoGroup, Groups
  <2>2. EncodeTypes'
    BY <1>8, LoseType DEF LoseBlock
  <2> QED BY <1>8, <1>d, <2>1, <2>2 DEF LoseBlock, Bzip2Types
<1>9. CASE WriteTrailer
  BY <1>r, <1>9 DEF WriteTrailer
<1> QED BY <1>1, <1>2, <1>3, <1>4, <1>5, <1>6, <1>7, <1>8, <1>9 DEF Bzip2Step

\* ... (the last bytes, one by one) ...
LEMMA LastOfIs ==
    ASSUME NEW bytes \in Seq(Nat), NEW n \in Nat
    PROVE  /\ LastOf(n, bytes) \in Seq(Nat)
           /\ Len(LastOf(n, bytes)) = IF Len(bytes) <= n THEN Len(bytes) ELSE n
           /\ \A i \in 1..Len(LastOf(n, bytes)) :
                 LastOf(n, bytes)[i] = bytes[i + (Len(bytes) - Len(LastOf(n, bytes)))]
<1>1. CASE Len(bytes) <= n
  BY <1>1 DEF LastOf
<1>2. CASE Len(bytes) > n
  <2>1. LastOf(n, bytes) = SubSeq(bytes, Len(bytes) - n + 1, Len(bytes))
    BY <1>2 DEF LastOf
  <2> QED BY <1>2, <2>1
<1> QED BY <1>1, <1>2

\* ... after one of the DEFLATE encoder, ...
LEMMA TypesDeflate ==
    ASSUME Types, DeflateStep, UNCHANGED <<bz2, format>>
    PROVE  Types'
<1> USE DEF Types, Stages
<1>d. Bzip2Types'
  BY DEF bz2, Bzip2Types
<1>r. ASSUME ReturnOk \/ ReturnError, UNCHANGED deflate
      PROVE  Types'
  <2>1. EncodeTypes'
    BY <1>r, ReturnType DEF EncodeTypes
  <2> QED BY <2>1, <1>d, <1>r DEF deflate, DeflateTypes, Used
<1>t. /\ Window \in Nat \ {0} /\ SegmentSize \in Nat
      /\ buffer \in Seq(Nat) /\ todo \in Seq(Nat) /\ prefixLen \in 0..Len(buffer)
      /\ Used = Len(buffer) - prefixLen /\ Used \in 0..SegmentSize
  BY DeflateAssumption DEF DeflateTypes, EncodeTypes, Used
<1>1. CASE FillBuffer
  <2> DEFINE take == IF Len(todo) < SegmentSize - Used THEN Len(todo) ELSE SegmentSize - Used
  <2>1. take \in 0..Len(todo) /\ Used + take <= SegmentSize
    BY <1>t
  <2>2. /\ buffer' = buffer \o SubSeq(todo, 1, take)
        /\ todo' = SubSeq(todo, take + 1, Len(todo))
        /\ stage' \in {"submitting", "writing"}
        /\ UNCHANGED <<queue, caller, jobs, sums, prefixLen>>
    BY <1>1 DEF FillBuffer
  <2> HIDE DEF take
  <2>3. /\ SubSeq(todo, 1, take) \in Seq(Nat) /\ Len(SubSeq(todo, 1, take)) = take
        /\ SubSeq(todo, take + 1, Len(todo)) \in Seq(Nat)
    BY <1>t, <2>1
  <2>4. buffer' \in Seq(Nat) /\ Len(buffer') = Len(buffer) + take
    BY <1>t, <2>2, <2>3
  <2>5. EncodeTypes'
    BY <2>2, <2>3 DEF EncodeTypes, queue, sums, caller
  <2>6. DeflateTypes'
    BY <1>t, <2>1, <2>2, <2>4 DEF DeflateTypes, Used
  <2> QED BY <1>d, <2>5, <2>6
<1>2. CASE FillEnds
  BY <1>r, <1>2 DEF FillEnds
<1>3. CASE FlushSegments \/ NothingBuffered
  <2>1. EncodeTypes'
    BY <1>3 DEF FlushSegments, NothingBuffered, AfterSubmit, EncodeTypes, queue, sums, caller
  <2>2. DeflateTypes'
    BY <1>3 DEF FlushSegments, NothingBuffered, DeflateTypes, Used, deflate
  <2> QED BY <1>d, <2>1, <2>2
<1>4. CASE SubmitBuffer
  <2> DEFINE job == [dict |-> SubSeq(buffer, 1, prefixLen),
                     plain |-> SubSeq(buffer, prefixLen + 1, Len(buffer))]
  <2>1. SubSeq(buffer, 1, prefixLen) \in Seq(Nat) /\ SubSeq(buffer, prefixLen + 1, Len(buffer)) \in Seq(Nat)
    BY <1>t
  <2>2. job \in Jobs
    BY <2>1 DEF Jobs
  <2>3. /\ SubmitJob(job)
        /\ buffer' = LastOf(Window, buffer) /\ prefixLen' = Len(buffer')
        /\ stage' = AfterSubmit /\ UNCHANGED <<caller, todo, sums>>
    BY <1>4 DEF SubmitBuffer
  <2> HIDE DEF job
  <2>4. EncodeTypes'
    BY <2>2, <2>3, SubmitType DEF AfterSubmit, EncodeTypes, sums, caller
  <2>5. buffer' \in Seq(Nat)
    BY <1>t, <2>3, LastOfIs
  <2>6. DeflateTypes'
    BY <1>t, <2>3, <2>5 DEF DeflateTypes, Used
  <2> QED BY <1>d, <2>4, <2>6
<1>5. CASE CommitSegment
  <2>1. EncodeTypes'
    BY <1>5, CommitType, LoseType DEF CommitSegment
  <2> QED BY <1>5, <1>d, <2>1 DEF CommitSegment, deflate, DeflateTypes, Used
<1>6. CASE SegmentsEnd
  BY <1>r, <1>6 DEF SegmentsEnd
<1> QED BY <1>1, <1>2, <1>3, <1>4, <1>5, <1>6 DEF DeflateStep

\* ... and so after every step.
LEMMA TypesStep == Types /\ [EncodeNext]_encode => Types'
<1> SUFFICES ASSUME Types, [EncodeNext]_encode PROVE Types'
  OBVIOUS
<1>1. CASE UNCHANGED encode
  BY <1>1 DEF encode, client, caller, sums, queue, bz2, deflate,
              Types, EncodeTypes, Bzip2Types, DeflateTypes, Used
<1> QED BY <1>1, TypesClient, TypesBzip2, TypesDeflate DEF EncodeNext

------------------------------------------------------------------------------
(* Calls and sums. *)

\* A call is over when its bytes are consumed, or after an error.
CallsEnd ==
    /\ stage = "idle" \/ call # "write" => todo = <<>>
    /\ call = "finish" => stage \notin {"idle", "writing"}
    /\ stage = "closing" => reported

\* Calls end as CallsEnd says, given what Grouping and Draining say of the stages.
LEMMA CallsEndStep ==
    ASSUME Types, CallsEnd, [EncodeNext]_encode,
           format = "bzip2" /\ stage = "submitting" => call = "finish",
           stage = "draining" => call # "write"
    PROVE  CallsEnd'
<1> USE DEF CallsEnd
<1>r. ASSUME ReturnOk \/ ReturnError, call = "write" => todo = <<>>
      PROVE  CallsEnd'
  BY <1>r, ReturnType DEF Types
<1>1. CASE Write
  BY <1>1 DEF Write, CallWrite
<1>2. CASE \E name \in {"flush", "finish"} : CallEnd(name)
  BY <1>2 DEF CallEnd
<1>3. CASE DropEncoder \/ Consumed
  BY <1>3 DEF DropEncoder, Consumed, caller
<1>4. CASE Bzip2Step /\ format = "bzip2"
  <2>1. CASE PushByte \/ LastGroup \/ PlaceGroup \/ SubmitBlock
    <3>1. CASE PushByte
      BY <3>1 DEF PushByte, caller
    <3>2. CASE LastGroup \/ PlaceGroup \/ SubmitBlock
      BY <3>2 DEF LastGroup, PlaceGroup, SubmitBlock, MustSubmit, caller
    <3> QED BY <2>1, <3>1, <3>2
  <2>2. CASE WriteEnds \/ FlushEnds \/ WriteTrailer
    BY <1>4, <1>r, <2>2 DEF WriteEnds, FlushEnds, WriteTrailer
  <2>3. CASE CommitBlock
    BY <2>3 DEF CommitBlock, CommitNext, caller
  <2>4. CASE LoseBlock
    BY <2>4 DEF LoseBlock, LoseNext
  <2> QED BY <1>4, <2>1, <2>2, <2>3, <2>4 DEF Bzip2Step
<1>5. CASE DeflateStep
  <2>1. CASE FillBuffer
    <3>1. call = "write" /\ todo # <<>>
      BY <2>1 DEF FillBuffer
    <3> QED BY <2>1, <3>1 DEF FillBuffer, caller
  <2>2. CASE FlushSegments \/ NothingBuffered \/ SubmitBuffer
    BY <2>2 DEF FlushSegments, NothingBuffered, SubmitBuffer, AfterSubmit, caller
  <2>3. CASE FillEnds \/ SegmentsEnd
    BY <1>r, <2>3 DEF FillEnds, SegmentsEnd
  <2>4. CASE CommitSegment
    BY <2>4 DEF CommitSegment, CommitNext, LoseNext, caller
  <2> QED BY <1>5, <2>1, <2>2, <2>3, <2>4 DEF DeflateStep
<1>6. CASE UNCHANGED encode
  BY <1>6 DEF encode, client, caller
<1> QED BY <1>1, <1>2, <1>3, <1>4, <1>5, <1>6 DEF EncodeNext, Client

\* The sums are those of what was written; without an error nothing that was
\* taken is missing.
SumsFollow ==
    /\ combined = Plaintext(written)
    /\ inputLen = Len(combined)
    /\ ~reported => written = SubSeq(jobs, 1, nextTake)

\* A prefix does not see what is appended, ...
LEMMA SubSeqStays ==
    ASSUME NEW S, NEW s \in Seq(S), NEW x \in S, NEW n \in 0..Len(s)
    PROVE  SubSeq(Append(s, x), 1, n) = SubSeq(s, 1, n)
OBVIOUS

\* ... and grows by the next element.
LEMMA SubSeqGrows ==
    ASSUME NEW S, NEW s \in Seq(S), NEW n \in 0..(Len(s) - 1)
    PROVE  SubSeq(s, 1, n + 1) = Append(SubSeq(s, 1, n), s[n + 1])
OBVIOUS

\* The sums follow what is written: commit_next adds behind the write.
LEMMA SumsFollowStep ==
    ASSUME Types, SumsFollow, [EncodeNext]_encode
    PROVE  SumsFollow'
<1> USE DEF SumsFollow
<1>k. ASSUME UNCHANGED <<combined, written, inputLen, jobs, nextTake>>, reported' = reported \/ reported'
      PROVE  SumsFollow'
  BY <1>k
<1>s. ASSUME NEW job \in Jobs, SubmitJob(job), UNCHANGED <<combined, written, inputLen, reported>>
      PROVE  SumsFollow'
  <2>1. jobs' = Append(jobs, job) /\ nextTake' = nextTake
    BY <1>s, SubmitType DEF Types
  <2>2. SubSeq(jobs', 1, nextTake') = SubSeq(jobs, 1, nextTake)
    BY <2>1, SubSeqStays DEF Types, EncodeTypes
  <2> QED BY <1>s, <2>2
<1>c. ASSUME CommitNext
      PROVE  SumsFollow'
  <2> DEFINE job == jobs[nextTake + 1]
  <2>1. job \in Jobs /\ job.plain \in Seq(Nat) /\ nextTake' = nextTake + 1 /\ nextTake \in 0..(Len(jobs) - 1)
    BY <1>c, TakeType DEF CommitNext, Types, EncodeTypes
  <2>2. /\ written' = Append(written, job)
        /\ combined' = combined \o job.plain
        /\ inputLen' = inputLen + Len(job.plain)
        /\ UNCHANGED <<jobs, reported>>
    BY <1>c DEF CommitNext, caller
  <2> HIDE DEF job
  <2>3. Plaintext(written') = Plaintext(written) \o job.plain
    BY <2>1, <2>2, JoinAppend DEF Types, EncodeTypes
  <2>4. inputLen' = Len(combined')
    BY <2>1, <2>2 DEF Types, EncodeTypes
  <2>5. SubSeq(jobs, 1, nextTake + 1) = Append(SubSeq(jobs, 1, nextTake), job)
    BY <2>1, SubSeqGrows DEF Types, EncodeTypes, job
  <2> QED BY <2>1, <2>2, <2>3, <2>4, <2>5
<1>l. ASSUME LoseNext
      PROVE  SumsFollow'
  BY <1>l DEF LoseNext, sums
<1>r. ASSUME ReturnOk \/ ReturnError
      PROVE  SumsFollow'
  BY <1>r, <1>k, ReturnType DEF Types
<1>1. CASE Client
  <2>1. UNCHANGED <<combined, written, inputLen, jobs, nextTake, reported>>
    BY <1>1 DEF Client, Write, CallWrite, CallEnd, DropEncoder, Consumed, Close, queue, sums, caller
  <2> QED BY <2>1, <1>k
<1>2. CASE Bzip2Step
  <2>1. CASE PushByte \/ LastGroup \/ PlaceGroup
    BY <2>1, <1>k DEF PushByte, LastGroup, PlaceGroup, queue, sums, caller
  <2>2. CASE SubmitBlock
    <3>1. [rle |-> block, plain |-> blockCrc] \in Jobs
      BY DEF Jobs, Types, Bzip2Types
    <3> QED BY <2>2, <3>1, <1>s DEF SubmitBlock, sums, caller
  <2> QED BY <1>2, <1>c, <1>l, <1>r, <2>1, <2>2
          DEF Bzip2Step, WriteEnds, FlushEnds, WriteTrailer, CommitBlock, LoseBlock
<1>3. CASE DeflateStep
  <2>1. CASE FillBuffer \/ FlushSegments \/ NothingBuffered
    BY <2>1, <1>k DEF FillBuffer, FlushSegments, NothingBuffered, queue, sums, caller
  <2>2. CASE SubmitBuffer
    <3> DEFINE job == [dict |-> SubSeq(buffer, 1, prefixLen),
                       plain |-> SubSeq(buffer, prefixLen + 1, Len(buffer))]
    <3>1. job \in Jobs
      BY DEF Jobs, Types, DeflateTypes
    <3>2. SubmitJob(job) /\ UNCHANGED <<combined, written, inputLen, reported>>
      BY <2>2 DEF SubmitBuffer, sums, caller
    <3> HIDE DEF job
    <3> QED BY <3>1, <3>2, <1>s
  <2> QED BY <1>3, <1>c, <1>l, <1>r, <2>1, <2>2
          DEF DeflateStep, FillEnds, SegmentsEnd, CommitSegment
<1>4. CASE UNCHANGED encode
  BY <1>4, <1>k DEF encode, client, caller, sums, queue
<1> QED BY <1>1, <1>2, <1>3, <1>4 DEF EncodeNext

------------------------------------------------------------------------------
(* The bzip2 encoder. *)

\* The splitter, the group and the block in the stages of a call.
Grouping ==
    /\ group.len > 0 => stage = "grouping"
    /\ stage = "submitting" => call = "finish"
    /\ call = "finish" /\ stage # "ending" => runs.len = 0
    /\ call # "finish" /\ runs.len = 0 => block = <<>> /\ stage # "grouping"
    /\ stage # "draining"

\* The stages of the bzip2 encoder.
LEMMA GroupingStep ==
    ASSUME Types, CallsEnd, Grouping, [EncodeNext]_encode, format = "bzip2"
    PROVE  Grouping'
<1> USE DEF Grouping, CallsEnd
<1>t. /\ runs \in Groups /\ group \in Groups
      /\ NoGroup.len = 0
      /\ \A g \in Groups : g.len \in Nat
  BY RunLengthAssumption DEF Types, Bzip2Types, Groups, NoGroup
<1>r. ASSUME ReturnOk \/ ReturnError, UNCHANGED bz2, stage # "grouping",
             call = "finish" => stage = "submitting"
      PROVE  Grouping'
  BY <1>r, <1>t, ReturnType DEF Types, bz2
<1>1. CASE Client
  <2>1. CASE Write
    BY <1>1, <1>t, <2>1 DEF Client, Write, CallWrite, bz2
  <2>2. CASE \E name \in {"flush", "finish"} : CallEnd(name)
    BY <1>1, <1>t, <2>2 DEF Client, CallEnd, bz2
  <2>3. CASE DropEncoder
    BY <1>1, <1>t, <2>3 DEF Client, DropEncoder, bz2, caller
  <2>4. CASE Consumed
    BY <1>1, <1>t, <2>4 DEF Client, Consumed, bz2, caller
  <2> QED BY <1>1, <2>1, <2>2, <2>3, <2>4 DEF Client
<1>2. CASE Bzip2Step
  <2>1. CASE PushByte
    <3>1. Head(todo) \in Nat
      BY <2>1 DEF PushByte, Types, EncodeTypes
    <3>2. Pushed(runs, Head(todo)).len > 0
      BY <1>t, <3>1, PushedType
    <3> QED BY <1>t, <2>1, <3>2 DEF PushByte, caller
  <2>2. CASE LastGroup
    BY <1>t, <2>2 DEF LastGroup, caller
  <2>3. CASE PlaceGroup
    BY <1>t, <2>3 DEF PlaceGroup, caller
  <2>4. CASE SubmitBlock
    BY <1>t, <2>4 DEF SubmitBlock, MustSubmit, caller
  <2>5. CASE CommitBlock
    BY <1>t, <2>5 DEF CommitBlock, CommitNext, bz2, caller
  <2>6. CASE LoseBlock
    BY <1>t, <2>6 DEF LoseBlock, MustCommit, MustSubmit, LoseNext
  <2>7. CASE WriteEnds \/ FlushEnds \/ WriteTrailer
    BY <1>r, <2>7 DEF WriteEnds, FlushEnds, WriteTrailer
  <2> QED BY <1>2, <2>1, <2>2, <2>3, <2>4, <2>5, <2>6, <2>7 DEF Bzip2Step
<1>3. CASE UNCHANGED encode
  BY <1>3 DEF encode, client, caller, bz2
<1> QED BY <1>1, <1>2, <1>3 DEF EncodeNext

\* Everywhere but in these actions, block and jobs stay as they are.
LEMMA BlockStays ==
    ASSUME Types, [EncodeNext]_encode, format = "bzip2", ~PlaceGroup, ~SubmitBlock
    PROVE  UNCHANGED <<block, blockCrc, jobs>> /\ (reported => reported')
<1>1. CASE Client
  BY <1>1 DEF Client, Write, CallWrite, CallEnd, DropEncoder, Consumed, bz2, caller
<1>2. CASE Bzip2Step
  <2>1. CASE PushByte \/ LastGroup
    BY <2>1 DEF PushByte, LastGroup, caller
  <2>2. CASE WriteEnds \/ FlushEnds \/ WriteTrailer
    BY <2>2, ReturnType DEF WriteEnds, FlushEnds, WriteTrailer, bz2, Types, EncodeTypes
  <2>3. CASE CommitBlock \/ LoseBlock
    BY <2>3 DEF CommitBlock, LoseBlock, CommitNext, LoseNext, bz2, caller
  <2> QED BY <1>2, <2>1, <2>2, <2>3 DEF Bzip2Step
<1>3. CASE UNCHANGED encode
  BY <1>3 DEF encode, client, caller, bz2
<1> QED BY <1>1, <1>2, <1>3 DEF EncodeNext

\* A block has room for its groups.
BlocksFit ==
    /\ Len(block) <= BlockLimit
    /\ \A k \in DOMAIN jobs : Len(jobs[k].rle) \in 1..BlockLimit

\* A group is placed only where it fits, and only a block with a group is submitted.
LEMMA BlocksFitStep ==
    ASSUME Types, BlocksFit, [EncodeNext]_encode, format = "bzip2"
    PROVE  BlocksFit'
<1> USE DEF BlocksFit
<1>t. group \in Groups /\ block \in Seq(Nat) /\ BlockLimit \in Nat /\ jobs \in Seq(Jobs)
  BY BlockLimitAssumption DEF Types, EncodeTypes, Bzip2Types
<1>1. CASE PlaceGroup
  <2>0. /\ group.len \in Nat
        /\ group.len > 0 => EncodedLen(group) \in 1..BlockLimit
        /\ group.len = 0 => EncodedLen(group) = 0
    BY <1>t, GroupType
  <2>1. /\ block' = block \o Encoded(group)
        /\ Encoded(group) \in Seq(Nat) /\ Len(Encoded(group)) = EncodedLen(group)
        /\ EncodedLen(group) \in 0..BlockLimit
    BY <1>1, <1>t, <2>0, GroupType DEF PlaceGroup
  <2>2. Len(block') = Len(block) + EncodedLen(group)
    <3> DEFINE code == Encoded(group)
    <3> HIDE DEF code
    <3>1. block' = block \o code /\ code \in Seq(Nat) /\ Len(code) = EncodedLen(group)
      BY <2>1 DEF code
    <3>2. block \in Seq(Nat) /\ code \in Seq(Nat)
      BY <1>t, <3>1
    <3>3. Len(block \o code) = Len(block) + Len(code)
      BY <3>2, ConcatProperties
    <3> QED BY <3>1, <3>3
  <2>3. Len(block') <= BlockLimit
    BY <1>1, <1>t, <2>1, <2>2 DEF PlaceGroup, Overflows
  <2> QED BY <1>1, <2>3 DEF PlaceGroup
<1>2. CASE SubmitBlock
  <2> DEFINE job == [rle |-> block, plain |-> blockCrc]
  <2>1. Len(block) \in 1..BlockLimit
    BY <1>2, <1>t DEF SubmitBlock, MustSubmit
  <2>2. jobs' = Append(jobs, job) /\ block' = <<>>
    BY <1>2 DEF SubmitBlock, SubmitJob
  <2>3. job.rle = block
    OBVIOUS
  <2> HIDE DEF job
  <2>4. \A k \in DOMAIN jobs' : (k \in DOMAIN jobs /\ jobs'[k] = jobs[k]) \/ jobs'[k] = job
    BY <1>t, <2>2
  <2> QED BY <1>t, <2>1, <2>2, <2>3, <2>4
<1>3. CASE ~PlaceGroup /\ ~SubmitBlock
  BY <1>3, BlockStays
<1> QED BY <1>1, <1>2, <1>3

\* Without an error the decoder expands each block to what its checksum covers,
\* and the group that comes next starts behind another byte, or behind a count.
BlocksExpand ==
    ~reported =>
        /\ \A k \in DOMAIN jobs : Expand(jobs[k].rle) = jobs[k].plain
        /\ Expanding(block).out = blockCrc
        /\ Expanding(block).count < Repeats
        /\ group.len > 0 => Apart(Expanding(block), group.byte)
        /\ group.len = 0 /\ runs.len > 0 => Apart(Expanding(block), runs.byte)
        /\ group.len > 0 /\ runs.len > 0 => group.len >= Repeats \/ group.byte # runs.byte

\* A group placed behind another byte expands to its own copies.
LEMMA BlocksExpandStep ==
    ASSUME Types, CallsEnd, Grouping, BlocksExpand, [EncodeNext]_encode, format = "bzip2"
    PROVE  BlocksExpand'
<1> SUFFICES ASSUME ~reported' PROVE BlocksExpand'
  BY DEF BlocksExpand
<1>t. /\ runs \in Groups /\ group \in Groups /\ NoGroup.len = 0
      /\ runs.len \in Nat /\ group.len \in Nat /\ runs.byte \in Nat /\ group.byte \in Nat
      /\ runs.len <= MaxRun /\ MaxRun >= Repeats /\ MaxRun \in Nat /\ Repeats \in Nat \ {0}
      /\ block \in Seq(Nat) /\ blockCrc \in Seq(Nat) /\ jobs \in Seq(Jobs)
      /\ Expanding(block) \in States
  <2>1. /\ runs \in Groups /\ group \in Groups /\ block \in Seq(Nat)
        /\ blockCrc \in Seq(Nat) /\ jobs \in Seq(Jobs)
    BY DEF Types, EncodeTypes, Bzip2Types
  <2>2. Expanding(block) \in States
    BY <2>1, ExpandAppend
  <2>3. MaxRun >= Repeats /\ MaxRun \in Nat /\ Repeats \in Nat \ {0}
    BY RunLengthAssumption
  <2>4. /\ runs.len \in Nat /\ group.len \in Nat /\ runs.byte \in Nat /\ group.byte \in Nat
        /\ runs.len <= MaxRun /\ NoGroup.len = 0
    BY <2>1, <2>3 DEF Groups, NoGroup
  <2> QED BY <2>1, <2>2, <2>3, <2>4
<1>n. ~PlaceGroup /\ ~SubmitBlock => UNCHANGED <<block, blockCrc, jobs>>
  BY BlockStays
<1>i. /\ ~reported
      /\ \A k \in DOMAIN jobs : Expand(jobs[k].rle) = jobs[k].plain
      /\ Expanding(block).out = blockCrc
      /\ Expanding(block).count < Repeats
      /\ group.len > 0 => Apart(Expanding(block), group.byte)
      /\ group.len = 0 /\ runs.len > 0 => Apart(Expanding(block), runs.byte)
      /\ group.len > 0 /\ runs.len > 0 => group.len >= Repeats \/ group.byte # runs.byte
  <2>1. PlaceGroup \/ SubmitBlock => reported' = reported
    BY DEF PlaceGroup, SubmitBlock, caller
  <2>2. ~reported
    BY <2>1, BlockStays
  <2> QED BY <2>2 DEF BlocksExpand
<1>k. ASSUME UNCHANGED <<runs, group, block, blockCrc, jobs>>
      PROVE  BlocksExpand'
  BY <1>i, <1>k DEF BlocksExpand
<1>1. CASE PushByte
  <2> DEFINE byte == Head(todo)
  <2>1. byte \in Nat
    BY <1>1 DEF PushByte, Types, EncodeTypes
  <2>2. /\ runs' = Pushed(runs, byte)
        /\ UNCHANGED <<block, blockCrc, jobs>>
        /\ IF Extends(runs, byte) \/ runs.len = 0 THEN group' = group ELSE group' = runs
        /\ stage = "writing"
    BY <1>1, <1>n DEF PushByte, PlaceGroup, SubmitBlock, MustSubmit
  <2> HIDE DEF byte
  <2>3. group.len = 0 /\ call # "finish"
    BY <1>t, <2>2 DEF Grouping, CallsEnd
  <2>4. CASE Extends(runs, byte)
    <3>1. runs'.byte = runs.byte /\ group' = group /\ runs.len > 0
      BY <2>2, <2>4 DEF Pushed, Extends
    <3> QED BY <1>i, <2>2, <2>3, <3>1 DEF BlocksExpand
  <2>5. CASE runs.len = 0
    <3>1. Expanding(block) = Fresh
      BY <2>3, <2>5, ExpandNothing DEF Grouping
    <3>2. Apart(Expanding(block), runs'.byte) /\ group' = group
      BY <2>2, <2>5, <3>1 DEF Apart, Fresh
    <3> QED BY <1>i, <2>2, <2>3, <3>2 DEF BlocksExpand
  <2>6. CASE ~Extends(runs, byte) /\ runs.len # 0
    <3>1. group' = runs /\ runs'.byte = byte /\ runs.len > 0
      BY <1>t, <2>2, <2>6 DEF Pushed
    <3>2. runs.len >= Repeats \/ runs.byte # byte
      BY <1>t, <2>6, <3>1 DEF Extends
    <3> QED BY <1>i, <2>2, <2>3, <3>1, <3>2 DEF BlocksExpand
  <2> QED BY <2>4, <2>5, <2>6
<1>2. CASE LastGroup
  <2>1. group' = runs /\ runs' = NoGroup /\ UNCHANGED <<block, blockCrc, jobs>> /\ group.len = 0
    BY <1>2, <1>n, <1>t DEF LastGroup, PlaceGroup, SubmitBlock, MustSubmit, Grouping
  <2> QED BY <1>i, <1>t, <2>1 DEF BlocksExpand
<1>3. CASE PlaceGroup
  <2>1. /\ block' = block \o Encoded(group) /\ blockCrc' = blockCrc \o CopiesOf(group)
        /\ group' = NoGroup /\ UNCHANGED <<runs, jobs>>
    BY <1>3 DEF PlaceGroup, CopiesOf
  <2>2. CASE group.len = 0
    <3>1. Encoded(group) = <<>> /\ CopiesOf(group) = <<>>
      BY <1>t, <2>2, GroupType
    <3>2. block' = block /\ blockCrc' = blockCrc
      BY <1>t, <2>1, <3>1, ConcatEmptySeq
    <3> QED BY <1>i, <1>t, <2>1, <2>2, <3>2 DEF BlocksExpand
  <2>3. CASE group.len > 0
    <3>1. /\ Expanding(block').out = Expanding(block).out \o CopiesOf(group)
          /\ Expanding(block').count < Repeats
          /\ \/ Expanding(block').count = 0
             \/ group.len < Repeats /\ Expanding(block').byte = group.byte
      BY <1>i, <1>t, <2>1, <2>3, ExpandGroup
    <3>2. runs.len > 0 => Apart(Expanding(block'), runs.byte)
      BY <1>i, <1>t, <2>3, <3>1 DEF Apart
    <3> QED BY <1>i, <1>t, <2>1, <3>1, <3>2 DEF BlocksExpand
  <2> QED BY <1>t, <2>2, <2>3
<1>4. CASE SubmitBlock
  <2> DEFINE job == [rle |-> block, plain |-> blockCrc]
  <2>1. /\ jobs' = Append(jobs, job) /\ block' = <<>> /\ blockCrc' = <<>>
        /\ UNCHANGED <<runs, group>>
    BY <1>4 DEF SubmitBlock, SubmitJob
  <2>2. Expand(job.rle) = job.plain
    BY <1>i DEF Expand, Expanding, Fresh
  <2> HIDE DEF job
  <2>3. \A k \in DOMAIN jobs' : (k \in DOMAIN jobs /\ jobs'[k] = jobs[k]) \/ jobs'[k] = job
    BY <1>t, <2>1
  <2>4. \A k \in DOMAIN jobs' : Expand(jobs'[k].rle) = jobs'[k].plain
    BY <1>i, <2>2, <2>3
  <2>5. Expanding(block') = Fresh
    BY <2>1, ExpandNothing
  <2>6. /\ Expanding(block').out = blockCrc' /\ Expanding(block').count < Repeats
        /\ Apart(Expanding(block'), group.byte) /\ Apart(Expanding(block'), runs.byte)
    BY <1>t, <2>1, <2>5 DEF Fresh, Apart
  <2> QED BY <1>i, <2>1, <2>4, <2>6 DEF BlocksExpand
<1>5. CASE Client \/ UNCHANGED encode
  <2>1. UNCHANGED <<runs, group, block, blockCrc>> /\ jobs' = jobs
    BY <1>5 DEF Client, Write, CallWrite, CallEnd, DropEncoder, Consumed, encode, client, bz2
  <2> QED BY <1>k, <2>1
<1>6. CASE WriteEnds \/ FlushEnds \/ CommitBlock \/ WriteTrailer
  <2>1. UNCHANGED <<runs, group, block, blockCrc, jobs>>
    BY <1>6, ReturnType
       DEF WriteEnds, FlushEnds, CommitBlock, CommitNext, WriteTrailer, bz2, Types, EncodeTypes
  <2> QED BY <1>k, <2>1
<1>7. CASE LoseBlock
  BY <1>7 DEF LoseBlock, LoseNext
<1> QED BY <1>1, <1>2, <1>3, <1>4, <1>5, <1>6, <1>7 DEF EncodeNext, Bzip2Step

\* Without an error every byte of the calls is in a job, in the block, in a
\* group or not consumed yet, in this order.
BlocksKeep ==
    ~reported =>
        given = Plaintext(jobs) \o (blockCrc \o (CopiesOf(group) \o (CopiesOf(runs) \o todo)))

\* The bytes move from the call to the groups, the block and the jobs, in order.
LEMMA BlocksKeepStep ==
    ASSUME Types, CallsEnd, Grouping, BlocksKeep, [EncodeNext]_encode, format = "bzip2"
    PROVE  BlocksKeep'
<1> SUFFICES ASSUME ~reported' PROVE BlocksKeep'
  BY DEF BlocksKeep
<1>n. ~PlaceGroup /\ ~SubmitBlock => UNCHANGED <<block, blockCrc, jobs>>
  BY BlockStays
<1>i. /\ ~reported
      /\ given = Plaintext(jobs) \o (blockCrc \o (CopiesOf(group) \o (CopiesOf(runs) \o todo)))
  <2>1. PlaceGroup \/ SubmitBlock => reported' = reported
    BY DEF PlaceGroup, SubmitBlock, caller
  <2>2. ~reported
    BY <2>1, BlockStays
  <2> QED BY <2>2 DEF BlocksKeep
<1>t. /\ Plaintext(jobs) \in Seq(Nat) /\ blockCrc \in Seq(Nat) /\ todo \in Seq(Nat)
      /\ CopiesOf(group) \in Seq(Nat) /\ CopiesOf(runs) \in Seq(Nat)
      /\ group.len = 0 => CopiesOf(group) = <<>>
      /\ runs.len = 0 => CopiesOf(runs) = <<>>
      /\ runs \in Groups /\ group \in Groups
      /\ runs.len \in Nat /\ group.len \in Nat
  <2>1. runs \in Groups /\ group \in Groups /\ jobs \in Seq(Jobs) /\ blockCrc \in Seq(Nat) /\ todo \in Seq(Nat)
    BY DEF Types, EncodeTypes, Bzip2Types
  <2>2. Plaintext(jobs) \in Seq(Nat)
    <3>1. [rle |-> <<>>, plain |-> <<>>] \in Jobs
      BY DEF Jobs
    <3> QED BY <2>1, <3>1, JoinAppend
  <2> QED BY <2>1, <2>2, GroupType
<1>0. CopiesOf(NoGroup) = <<>>
  BY DEF CopiesOf, NoGroup, Copies
<1>k. ASSUME UNCHANGED <<given, jobs, blockCrc, group, runs, todo>>
      PROVE  BlocksKeep'
  BY <1>i, <1>k DEF BlocksKeep
<1>1. CASE PushByte
  <2> DEFINE byte == Head(todo)
             rest == Tail(todo)
  <2>1. byte \in Nat /\ rest \in Seq(Nat) /\ todo = <<byte>> \o rest /\ <<byte>> \in Seq(Nat)
    BY <1>1 DEF PushByte, Types, EncodeTypes
  <2>2. /\ runs' = Pushed(runs, byte) /\ todo' = rest
        /\ UNCHANGED <<blockCrc, jobs, given>>
        /\ IF Extends(runs, byte) \/ runs.len = 0 THEN group' = group ELSE group' = runs
        /\ stage = "writing"
    BY <1>1, <1>n DEF PushByte, PlaceGroup, SubmitBlock, MustSubmit, caller
  <2> HIDE DEF byte, rest
  <2>3. CopiesOf(group) = <<>>
    BY <1>t, <2>2 DEF Grouping
  <2>4. CopiesOf(runs) \o todo = (CopiesOf(runs) \o <<byte>>) \o rest
    <3>1. Associates(CopiesOf(runs), <<byte>>, rest)
      BY <1>t, <2>1, JoinsAssociate
    <3> QED BY <2>1, <3>1 DEF Associates
  <2>5. CASE Extends(runs, byte)
    <3>1. runs' = [byte |-> byte, len |-> runs.len + 1] /\ group' = group /\ byte = runs.byte
      BY <2>2, <2>5 DEF Pushed, Extends
    <3>2. CopiesOf(runs') = CopiesOf(runs) \o <<byte>>
      <4> DEFINE n == runs.len + 1
      <4>1. n \in Nat \ {0} /\ n - 1 = runs.len
        BY <1>t
      <4>2. CopiesOf(runs) = Copies(byte, runs.len) /\ CopiesOf(runs') = Copies(byte, n)
        BY <3>1 DEF CopiesOf
      <4> HIDE DEF n
      <4>3. Copies(byte, n) = Append(Copies(byte, n - 1), byte)
        BY <2>1, <4>1, CopiesGrow
      <4>4. CopiesOf(runs') = Append(CopiesOf(runs), byte)
        BY <4>1, <4>2, <4>3
      <4> QED BY <1>t, <2>1, <4>4, AppendIsConcat
    <3> QED BY <1>i, <2>2, <2>3, <2>4, <3>1, <3>2 DEF BlocksKeep
  <2>6. CASE ~Extends(runs, byte)
    <3>1. runs' = [byte |-> byte, len |-> 1]
      BY <2>2, <2>6 DEF Pushed
    <3>2. CopiesOf(runs') = <<byte>>
      BY <2>1, <3>1 DEF CopiesOf, Copies
    <3>3. CopiesOf(group') = CopiesOf(runs)
      BY <1>t, <2>2, <2>3, <2>6
    <3>4. CopiesOf(runs) \o todo = CopiesOf(group') \o (CopiesOf(runs') \o todo')
      BY <2>1, <2>2, <3>2, <3>3
    <3>5. CopiesOf(group) \o (CopiesOf(runs) \o todo) = CopiesOf(runs) \o todo
      BY <1>t, <2>3, ConcatEmptySeq
    <3> QED BY <1>i, <2>2, <3>4, <3>5 DEF BlocksKeep
  <2> QED BY <2>5, <2>6
<1>2. CASE LastGroup
  <2>1. group' = runs /\ runs' = NoGroup /\ UNCHANGED <<blockCrc, jobs, given, todo>> /\ group.len = 0
    BY <1>2, <1>n, <1>t DEF LastGroup, PlaceGroup, SubmitBlock, MustSubmit, Grouping, caller
  <2>2. CopiesOf(group) \o (CopiesOf(runs) \o todo) = CopiesOf(runs) \o todo
    BY <1>t, <2>1, ConcatEmptySeq
  <2>3. CopiesOf(runs) \o todo = CopiesOf(group') \o (CopiesOf(runs') \o todo')
    BY <1>0, <1>t, <2>1, ConcatEmptySeq
  <2> QED BY <1>i, <2>1, <2>2, <2>3 DEF BlocksKeep
<1>3. CASE PlaceGroup
  <2>1. /\ blockCrc' = blockCrc \o CopiesOf(group)
        /\ group' = NoGroup /\ UNCHANGED <<runs, jobs, todo, given>>
    BY <1>3 DEF PlaceGroup, CopiesOf, caller
  <2> DEFINE rest == CopiesOf(runs) \o todo
  <2>2. rest \in Seq(Nat) /\ <<>> \o rest = rest
    BY <1>t
  <2> HIDE DEF rest
  <2>3. Plaintext(jobs) \o (blockCrc \o (CopiesOf(group) \o rest))
        = Plaintext(jobs) \o ((blockCrc \o CopiesOf(group)) \o (<<>> \o rest))
    <3> DEFINE p == Plaintext(jobs)
               g == CopiesOf(group)
    <3>1. p \in Seq(Nat) /\ g \in Seq(Nat) /\ blockCrc \in Seq(Nat) /\ rest \in Seq(Nat)
      BY <1>t, <2>2
    <3> HIDE DEF p, g
    <3>2. p \o (blockCrc \o (g \o rest)) = p \o ((blockCrc \o g) \o rest)
      <4>1. (blockCrc \o g) \o rest = blockCrc \o (g \o rest)
        <5>1. Associates(blockCrc, g, rest)
          BY <3>1, JoinsAssociate
        <5> QED BY <5>1 DEF Associates
      <4> QED BY <4>1
    <3> QED BY <2>2, <3>2 DEF p, g
  <2> QED BY <1>i, <1>0, <2>1, <2>3 DEF BlocksKeep, rest
<1>4. CASE SubmitBlock
  <2> DEFINE job == [rle |-> block, plain |-> blockCrc]
             rest == CopiesOf(group) \o (CopiesOf(runs) \o todo)
  <2>1. /\ jobs' = Append(jobs, job) /\ blockCrc' = <<>> /\ job.plain = blockCrc
        /\ UNCHANGED <<runs, group, todo, given>>
    BY <1>4 DEF SubmitBlock, SubmitJob, caller
  <2>2. job \in Jobs /\ jobs \in Seq(Jobs)
    BY DEF Jobs, Types, EncodeTypes, Bzip2Types
  <2> HIDE DEF job
  <2>3. Plaintext(jobs') = Plaintext(jobs) \o blockCrc
    BY <2>1, <2>2, JoinAppend
  <2>4. rest \in Seq(Nat) /\ <<>> \o rest = rest
    BY <1>t
  <2> HIDE DEF rest
  <2>5. Plaintext(jobs) \o (blockCrc \o rest) = (Plaintext(jobs) \o blockCrc) \o (<<>> \o rest)
    <3> DEFINE p == Plaintext(jobs)
    <3>1. p \in Seq(Nat) /\ blockCrc \in Seq(Nat) /\ rest \in Seq(Nat)
      BY <1>t, <2>4
    <3> HIDE DEF p
    <3>2. p \o (blockCrc \o rest) = (p \o blockCrc) \o rest
      <4>1. Associates(p, blockCrc, rest)
        BY <3>1, JoinsAssociate
      <4> QED BY <4>1 DEF Associates
    <3> QED BY <2>4, <3>2 DEF p
  <2> QED BY <1>i, <2>1, <2>3, <2>5 DEF BlocksKeep, rest
<1>5. CASE Client
  <2>1. CASE Write
    <3>1. PICK piece \in Pieces : CallWrite(piece)
      BY <2>1 DEF Write
    <3>2. todo = <<>> /\ todo' = piece /\ given' = given \o piece /\ piece \in Seq(Nat)
      BY <3>1, PiecesType DEF CallWrite, CallsEnd, Types
    <3>3. UNCHANGED <<jobs, blockCrc, group, runs>>
      BY <1>5, <3>1 DEF Client, CallWrite, bz2
    <3> DEFINE p == Plaintext(jobs)
               g == CopiesOf(group)
               r == CopiesOf(runs)
    <3>4. p \in Seq(Nat) /\ g \in Seq(Nat) /\ r \in Seq(Nat) /\ blockCrc \in Seq(Nat)
      BY <1>t
    <3>5. given = p \o (blockCrc \o (g \o (r \o <<>>)))
      BY <1>i, <3>2
    <3>6. UNCHANGED <<p, g, r>>
      BY <3>3 DEF CopiesOf
    <3> DEFINE q == g \o r
               front == blockCrc \o q
    <3> HIDE DEF p, g, r
    <3>7. given' = p \o (blockCrc \o (g \o (r \o piece)))
      <4>1. q \in Seq(Nat) /\ front \in Seq(Nat) /\ r \o <<>> = r
        BY <3>4
      <4>2. given = p \o front
        BY <3>5, <4>1
      <4>3. q \o piece = g \o (r \o piece)
        <5>1. Associates(g, r, piece)
          BY <3>2, <3>4, JoinsAssociate
        <5> QED BY <5>1 DEF Associates
      <4> HIDE DEF q
      <4>4. front \o piece = blockCrc \o (q \o piece)
        <5>1. Associates(blockCrc, q, piece)
          BY <3>2, <3>4, <4>1, JoinsAssociate
        <5> QED BY <5>1 DEF Associates
      <4> HIDE DEF front
      <4>5. (p \o front) \o piece = p \o (front \o piece)
        <5>1. Associates(p, front, piece)
          BY <3>2, <3>4, <4>1, JoinsAssociate
        <5> QED BY <5>1 DEF Associates
      <4> QED BY <3>2, <4>2, <4>3, <4>4, <4>5
    <3>8. given' = p' \o (blockCrc' \o (g' \o (r' \o todo')))
      BY <3>2, <3>3, <3>6, <3>7
    <3> QED BY <3>8 DEF BlocksKeep, p, g, r
  <2>2. CASE ~Write
    <3>1. UNCHANGED <<given, jobs, blockCrc, group, runs, todo>>
      BY <1>5, <2>2 DEF Client, CallEnd, DropEncoder, Consumed, bz2, caller
    <3> QED BY <1>k, <3>1
  <2> QED BY <2>1, <2>2
<1>6. CASE WriteEnds \/ FlushEnds \/ CommitBlock \/ WriteTrailer \/ UNCHANGED encode
  <2>1. UNCHANGED <<given, jobs, blockCrc, group, runs, todo>>
    BY <1>6, ReturnType
       DEF WriteEnds, FlushEnds, CommitBlock, CommitNext, WriteTrailer, bz2, Types, EncodeTypes,
           encode, client, caller
  <2> QED BY <1>k, <2>1
<1>7. CASE LoseBlock
  BY <1>7 DEF LoseBlock, LoseNext
<1> QED BY <1>1, <1>2, <1>3, <1>4, <1>5, <1>6, <1>7 DEF EncodeNext, Bzip2Step

------------------------------------------------------------------------------
(* The DEFLATE encoder. *)

\* The window slides: the last bytes of the last bytes and more are the last
\* bytes of everything.
LEMMA LastOfJoined ==
    ASSUME NEW bytes \in Seq(Nat), NEW more \in Seq(Nat), NEW n \in Nat
    PROVE  LastOf(n, LastOf(n, bytes) \o more) = LastOf(n, bytes \o more)
<1> DEFINE kept == LastOf(n, bytes)
           shorter == kept \o more
           longer == bytes \o more
           some == LastOf(n, shorter)
           all == LastOf(n, longer)
<1>1. /\ kept \in Seq(Nat)
      /\ Len(kept) = IF Len(bytes) <= n THEN Len(bytes) ELSE n
      /\ \A i \in 1..Len(kept) : kept[i] = bytes[i + (Len(bytes) - Len(kept))]
  BY LastOfIs
<1> HIDE DEF kept
<1>2. /\ shorter \in Seq(Nat) /\ Len(shorter) = Len(kept) + Len(more)
      /\ \A i \in 1..Len(kept) + Len(more) :
            shorter[i] = IF i <= Len(kept) THEN kept[i] ELSE more[i - Len(kept)]
  BY <1>1, ConcatProperties
<1>3. /\ longer \in Seq(Nat) /\ Len(longer) = Len(bytes) + Len(more)
      /\ \A i \in 1..Len(bytes) + Len(more) :
            longer[i] = IF i <= Len(bytes) THEN bytes[i] ELSE more[i - Len(bytes)]
  BY ConcatProperties
<1> HIDE DEF shorter, longer
<1>4. /\ some \in Seq(Nat) /\ Len(some) = IF Len(shorter) <= n THEN Len(shorter) ELSE n
      /\ \A i \in 1..Len(some) : some[i] = shorter[i + (Len(shorter) - Len(some))]
  BY <1>2, LastOfIs
<1>5. /\ all \in Seq(Nat) /\ Len(all) = IF Len(longer) <= n THEN Len(longer) ELSE n
      /\ \A i \in 1..Len(all) : all[i] = longer[i + (Len(longer) - Len(all))]
  BY <1>3, LastOfIs
<1> HIDE DEF some, all
<1> DEFINE b == Len(bytes)
           m == Len(more)
           k == Len(kept)
           l == Len(some)
<1>6. /\ b \in Nat /\ m \in Nat /\ k \in Nat /\ l \in Nat
      /\ k = IF b <= n THEN b ELSE n
      /\ l = IF k + m <= n THEN k + m ELSE n
      /\ Len(all) = IF b + m <= n THEN b + m ELSE n
  BY <1>1, <1>2, <1>3, <1>4, <1>5
<1>7. /\ Len(all) = l /\ l <= k + m /\ k <= b
  <2> HIDE DEF b, m, k, l
  <2> QED BY <1>6
<1>9. ASSUME NEW i \in 1..l
      PROVE  some[i] = all[i]
  <2> DEFINE j == i + (Len(shorter) - Len(some))
             h == i + (Len(longer) - Len(all))
  <2>1. some[i] = shorter[j] /\ all[i] = longer[h]
    BY <1>4, <1>5, <1>7
  <2>2. j = i + (k + m - l) /\ h = i + (b + m - l)
    BY <1>2, <1>3, <1>7
  <2> HIDE DEF j, h
  <2>3. /\ j \in 1..k + m /\ h \in 1..b + m
        /\ h = j + (b - k) /\ h - b = j - k
        /\ j <= k <=> h <= b
    <3> HIDE DEF b, m, k, l
    <3> QED BY <1>6, <1>7, <2>2
  <2>4. shorter[j] = IF j <= k THEN kept[j] ELSE more[j - k]
    BY <1>2, <2>3
  <2>5. longer[h] = IF h <= b THEN bytes[h] ELSE more[h - b]
    BY <1>3, <2>3
  <2>6. ASSUME j <= k
        PROVE  kept[j] = bytes[h]
    <3>1. j \in 1..Len(kept) /\ j + (Len(bytes) - Len(kept)) = h
      BY <1>6, <2>3, <2>6
    <3> QED BY <1>1, <3>1
  <2> HIDE DEF b, m, k, l
  <2> QED BY <2>1, <2>3, <2>4, <2>5, <2>6
<1>8. some = all
  BY <1>4, <1>5, <1>7, <1>9, SeqEqual
<1> QED BY <1>8 DEF some, all, shorter, longer, kept

\* Whoever drains the results has no segment left.
Draining == stage = "draining" => call # "write" /\ Used = 0

\* The results are drained behind the last segment.
LEMMA DrainingStep ==
    ASSUME Types, CallsEnd, Draining, [EncodeNext]_encode, format = "gzip"
    PROVE  Draining'
<1> USE DEF Draining
<1>1. CASE Client
  BY <1>1 DEF Client, Write, CallWrite, CallEnd, DropEncoder, Consumed, CallsEnd
<1>2. CASE SubmitBuffer
  <2>1. Len(buffer') = prefixLen' /\ call' = call /\ stage' = AfterSubmit
    BY <1>2 DEF SubmitBuffer, caller
  <2>2. buffer' \in Seq(Nat) /\ Used' = 0
    <3>1. buffer' \in Seq(Nat)
      BY TypesStep DEF Types, DeflateTypes
    <3> QED BY <2>1, <3>1 DEF Used
  <2> QED BY <2>1, <2>2 DEF AfterSubmit
<1>3. CASE FillBuffer \/ FlushSegments
  BY <1>3 DEF FillBuffer, FlushSegments
<1>4. CASE NothingBuffered
  BY <1>4 DEF NothingBuffered, AfterSubmit, caller, deflate, Used
<1>5. CASE FillEnds \/ SegmentsEnd
  BY <1>5, ReturnType DEF FillEnds, SegmentsEnd, Types
<1>6. CASE CommitSegment
  BY <1>6 DEF CommitSegment, CommitNext, LoseNext, caller, deflate, Used
<1>7. CASE UNCHANGED encode
  BY <1>7 DEF encode, client, caller, deflate, Used
<1> QED BY <1>1, <1>2, <1>3, <1>4, <1>5, <1>6, <1>7 DEF EncodeNext, DeflateStep

\* The buffer is the dictionary of the next segment and the segment itself.
Prefix == SubSeq(buffer, 1, prefixLen)
Segment == SubSeq(buffer, prefixLen + 1, Len(buffer))

\* The prefix of the buffer is the window behind the jobs, and so was the
\* dictionary of every job.
Dictionaries(js) ==
    \A k \in DOMAIN js : js[k].dict = LastOf(Window, Plaintext(SubSeq(js, 1, k - 1)))

WindowKept == Prefix = LastOf(Window, Plaintext(jobs)) /\ Dictionaries(jobs)

\* A job with the window as its dictionary joins the jobs.
LEMMA DictionariesGrow ==
    ASSUME NEW js \in Seq(Jobs), Dictionaries(js),
           NEW job \in Jobs, job.dict = LastOf(Window, Plaintext(js))
    PROVE  Dictionaries(Append(js, job))
<1> DEFINE more == Append(js, job)
<1> SUFFICES ASSUME NEW k \in DOMAIN more
             PROVE  more[k].dict = LastOf(Window, Plaintext(SubSeq(more, 1, k - 1)))
  BY DEF Dictionaries
<1>1. k \in 1..Len(js) + 1 /\ k - 1 \in 0..Len(js) /\ Len(js) \in Nat
  OBVIOUS
<1>2. SubSeq(more, 1, k - 1) = SubSeq(js, 1, k - 1)
  BY <1>1, SubSeqStays
<1>3. CASE k <= Len(js)
  <2>1. k \in DOMAIN js /\ more[k] = js[k]
    BY <1>1, <1>3
  <2> QED BY <1>2, <2>1 DEF Dictionaries
<1>4. CASE k = Len(js) + 1
  <2>1. more[k] = job /\ SubSeq(js, 1, k - 1) = js
    BY <1>1, <1>4
  <2> QED BY <1>2, <2>1
<1> QED BY <1>1, <1>3, <1>4

\* Everywhere but in these actions, buffer and jobs stay as they are.
LEMMA BufferStays ==
    ASSUME Types, [EncodeNext]_encode, format = "gzip", ~FillBuffer, ~SubmitBuffer
    PROVE  UNCHANGED <<buffer, prefixLen, jobs>>
<1>1. CASE Client
  BY <1>1 DEF Client, Write, CallWrite, CallEnd, DropEncoder, Consumed, deflate
<1>2. CASE DeflateStep
  <2>1. CASE FlushSegments \/ NothingBuffered
    BY <2>1 DEF FlushSegments, NothingBuffered, deflate
  <2>2. CASE FillEnds \/ SegmentsEnd
    BY <2>2, ReturnType DEF FillEnds, SegmentsEnd, deflate, Types
  <2>3. CASE CommitSegment
    BY <2>3 DEF CommitSegment, CommitNext, LoseNext, deflate
  <2> QED BY <1>2, <2>1, <2>2, <2>3 DEF DeflateStep
<1>3. CASE UNCHANGED encode
  BY <1>3 DEF encode, client, deflate
<1> QED BY <1>1, <1>2, <1>3 DEF EncodeNext

\* A sequence is its first elements and the rest.
LEMMA SubSeqSplits ==
    ASSUME NEW s \in Seq(Nat), NEW n \in 0..Len(s)
    PROVE  /\ SubSeq(s, 1, n) \in Seq(Nat) /\ SubSeq(s, n + 1, Len(s)) \in Seq(Nat)
           /\ SubSeq(s, 1, n) \o SubSeq(s, n + 1, Len(s)) = s
<1>1. Len(s) \in Nat /\ n \in (1 - 1)..Len(s) /\ 1 \in 1..Len(s) + 1 /\ Len(s) \in n..Len(s)
  OBVIOUS
<1>2. SubSeq(s, 1, n) \o SubSeq(s, n + 1, Len(s)) = SubSeq(s, 1, Len(s))
  BY <1>1, ConcatAdjacentSubSeq
<1>3. SubSeq(s, 1, Len(s)) = s
  BY SubSeqFull
<1>4. SubSeq(s, 1, n) \in Seq(Nat) /\ SubSeq(s, n + 1, Len(s)) \in Seq(Nat)
  OBVIOUS
<1> QED BY <1>2, <1>3, <1>4

\* What a sequence has behind its first n elements.
LEMMA TailBehind ==
    ASSUME NEW s \in Seq(Nat), NEW n \in 0..Len(s)
    PROVE  /\ SubSeq(s, n + 1, Len(s)) \in Seq(Nat)
           /\ Len(SubSeq(s, n + 1, Len(s))) = Len(s) - n
           /\ \A i \in 1..(Len(s) - n) : SubSeq(s, n + 1, Len(s))[i] = s[i + n]
<1> DEFINE m == Len(s)
           k == n + 1
           T == Nat
           end == SubSeq(s, k, m)
<1>1. /\ m \in Int /\ k \in Int /\ n \in Nat /\ n <= m
      /\ k = n + 1
      /\ \A i \in k..m : s[i] \in T
  BY LenProperties
<1> HIDE DEF m, k, T
<1>2. /\ SubSeq(s, k, m) \in Seq(T)
      /\ Len(SubSeq(s, k, m)) = IF k <= m THEN m - k + 1 ELSE 0
      /\ \A i \in 1..(m - k + 1) : SubSeq(s, k, m)[i] = s[k + i - 1]
  BY ONLY <1>1, SubSeqProperties
<1> HIDE DEF end
<1>3. end \in Seq(T)
  BY <1>2 DEF end
<1>4. Len(end) = m - n
  <2>1. Len(end) = IF k <= m THEN m - k + 1 ELSE 0
    BY <1>2 DEF end
  <2>. QED
    BY <1>1, <2>1
<1>5. \A i \in 1..(m - n) : end[i] = s[i + n]
  <2> TAKE i \in 1..(m - n)
  <2>1. i \in 1..(m - k + 1) /\ k + i - 1 = i + n
    BY <1>1
  <2>2. end[i] = s[k + i - 1]
    BY <1>2, <2>1 DEF end
  <2>. QED
    BY <2>1, <2>2
<1>. QED
  BY <1>3, <1>4, <1>5 DEF end, m, k, T

\* What is appended is appended to the rest.
LEMMA TailOfConcat ==
    ASSUME NEW s \in Seq(Nat), NEW t \in Seq(Nat), NEW n \in 0..Len(s)
    PROVE  SubSeq(s \o t, n + 1, Len(s \o t)) = SubSeq(s, n + 1, Len(s)) \o t
<1> DEFINE whole == s \o t
           left == SubSeq(whole, n + 1, Len(whole))
           end == SubSeq(s, n + 1, Len(s))
           right == end \o t
<1>1. /\ whole \in Seq(Nat) /\ Len(whole) = Len(s) + Len(t)
      /\ \A i \in 1..Len(s) + Len(t) : whole[i] = IF i <= Len(s) THEN s[i] ELSE t[i - Len(s)]
      /\ Len(s) \in Nat /\ Len(t) \in Nat /\ n \in Nat
  BY ConcatProperties
<1> HIDE DEF whole
<1>2. /\ left \in Seq(Nat) /\ Len(left) = Len(whole) - n
      /\ \A i \in 1..Len(left) : left[i] = whole[i + n]
  <2>1. n \in 0..Len(whole)
    BY <1>1
  <2>2. /\ left \in Seq(Nat)
        /\ Len(left) = Len(whole) - n
        /\ \A i \in 1..(Len(whole) - n) : left[i] = whole[i + n]
    BY <1>1, <2>1, TailBehind
  <2> HIDE DEF left
  <2>. QED
    BY <2>2
<1>3. /\ end \in Seq(Nat) /\ Len(end) = Len(s) - n
      /\ \A i \in 1..Len(end) : end[i] = s[i + n]
  <2>1. /\ end \in Seq(Nat)
        /\ Len(end) = Len(s) - n
        /\ \A i \in 1..(Len(s) - n) : end[i] = s[i + n]
    BY TailBehind
  <2> HIDE DEF end
  <2>. QED
    BY <2>1
<1> HIDE DEF left, end
<1>4. /\ right \in Seq(Nat) /\ Len(right) = Len(end) + Len(t)
      /\ \A i \in 1..Len(end) + Len(t) : right[i] = IF i <= Len(end) THEN end[i] ELSE t[i - Len(end)]
  BY <1>3, ConcatProperties
<1> HIDE DEF right
<1>5. Len(left) = Len(right) /\ Len(left) = Len(end) + Len(t) /\ Len(left) = Len(s) + Len(t) - n
  BY <1>1, <1>2, <1>3, <1>4
<1>6. ASSUME NEW i \in 1..Len(left)
      PROVE  left[i] = right[i]
  <2> DEFINE j == i + n
  <2>1. /\ j \in 1..Len(s) + Len(t)
        /\ j <= Len(s) <=> i <= Len(end)
        /\ j - Len(s) = i - Len(end)
    BY <1>1, <1>3, <1>5
  <2>2. left[i] = whole[j]
    BY <1>2
  <2> HIDE DEF j
  <2>3. whole[j] = IF j <= Len(s) THEN s[j] ELSE t[j - Len(s)]
    BY <1>1, <2>1
  <2>4. right[i] = IF i <= Len(end) THEN end[i] ELSE t[i - Len(end)]
    BY <1>4, <1>5
  <2>5. i <= Len(end) => end[i] = s[j]
    BY <1>3, <1>5 DEF j
  <2> QED BY <2>1, <2>2, <2>3, <2>4, <2>5
<1>7. left = right
  BY <1>2, <1>4, <1>5, <1>6, SeqEqual
<1> QED BY <1>7 DEF left, right, whole, end

\* The parts of the buffer.
LEMMA BufferParts ==
    ASSUME Types
    PROVE  /\ Prefix \in Seq(Nat) /\ Segment \in Seq(Nat)
           /\ buffer = Prefix \o Segment
           /\ Len(Segment) = Used
<1>1. buffer \in Seq(Nat) /\ prefixLen \in 0..Len(buffer)
  BY DEF Types, DeflateTypes
<1>2. Prefix \in Seq(Nat) /\ Segment \in Seq(Nat) /\ Len(Segment) = Used
  BY <1>1, SubSeqProperties DEF Prefix, Segment, Used
<1>3. SubSeq(buffer, 1, prefixLen) \o SubSeq(buffer, prefixLen + 1, Len(buffer)) = buffer
  BY <1>1, SubSeqSplits
<1> QED BY <1>2, <1>3 DEF Prefix, Segment

\* What SubmitBuffer does to the parts of the buffer.
LEMMA SubmitBufferIs ==
    ASSUME Types, SubmitBuffer
    PROVE  LET job == [dict |-> Prefix, plain |-> Segment]
           IN  /\ job \in Jobs /\ jobs' = Append(jobs, job)
               /\ Prefix' = LastOf(Window, Prefix \o Segment)
               /\ Segment' = <<>>
<1> DEFINE job == [dict |-> Prefix, plain |-> Segment]
<1>1. /\ job \in Jobs /\ jobs' = Append(jobs, job)
      /\ buffer' = LastOf(Window, buffer) /\ prefixLen' = Len(buffer')
  BY BufferParts DEF Jobs, SubmitBuffer, SubmitJob, Prefix, Segment
<1>2. buffer' \in Seq(Nat)
  BY <1>1, LastOfIs, DeflateAssumption DEF Types, DeflateTypes
<1>3. Prefix' = buffer' /\ Segment' = <<>>
  BY <1>1, <1>2 DEF Prefix, Segment
<1> QED BY <1>1, <1>3, BufferParts

\* What FillBuffer does to them: bytes move from the call to the segment.
LEMMA FillBufferIs ==
    ASSUME Types, FillBuffer
    PROVE  /\ jobs' = jobs /\ Prefix' = Prefix
           /\ Segment' \o todo' = Segment \o todo
           /\ Segment' \in Seq(Nat) /\ todo' \in Seq(Nat)
<1> DEFINE take == IF Len(todo) < SegmentSize - Used THEN Len(todo) ELSE SegmentSize - Used
           taken == SubSeq(todo, 1, take)
           left == SubSeq(todo, take + 1, Len(todo))
<1>1. /\ buffer \in Seq(Nat) /\ todo \in Seq(Nat) /\ prefixLen \in 0..Len(buffer)
      /\ take \in 0..Len(todo)
  BY DeflateAssumption DEF Types, EncodeTypes, DeflateTypes, Used
<1>2. buffer' = buffer \o taken /\ todo' = left /\ jobs' = jobs /\ prefixLen' = prefixLen
  BY DEF FillBuffer
<1> HIDE DEF take
<1>3. taken \in Seq(Nat) /\ left \in Seq(Nat) /\ taken \o left = todo
  BY <1>1, SubSeqSplits
<1> HIDE DEF taken, left
<1>4. Prefix' = Prefix
  BY <1>1, <1>2, <1>3 DEF Prefix
<1>5. Segment' = Segment \o taken
  <2>1. Segment' = SubSeq(buffer \o taken, prefixLen + 1, Len(buffer \o taken))
    BY <1>2 DEF Segment
  <2> QED BY <1>1, <1>3, <2>1, TailOfConcat DEF Segment
<1>6. Segment \in Seq(Nat)
  BY BufferParts
<1>7. (Segment \o taken) \o left = Segment \o (taken \o left)
  <2>1. Associates(Segment, taken, left)
    BY <1>3, <1>6, JoinsAssociate
  <2> QED BY <2>1 DEF Associates
<1> QED BY <1>2, <1>3, <1>4, <1>5, <1>6, <1>7

\* The window slides with each submitted segment.
LEMMA WindowKeptStep ==
    ASSUME Types, WindowKept, [EncodeNext]_encode, format = "gzip"
    PROVE  WindowKept'
<1>t. jobs \in Seq(Jobs) /\ Window \in Nat /\ Plaintext(jobs) \in Seq(Nat)
  <2>1. [rle |-> <<>>, plain |-> <<>>] \in Jobs /\ jobs \in Seq(Jobs)
    BY DEF Jobs, Types, EncodeTypes
  <2> QED BY <2>1, JoinAppend, DeflateAssumption
<1>1. CASE SubmitBuffer
  <2> DEFINE job == [dict |-> Prefix, plain |-> Segment]
  <2>1. /\ job \in Jobs /\ jobs' = Append(jobs, job)
        /\ Prefix' = LastOf(Window, Prefix \o Segment)
        /\ job.dict = Prefix /\ job.plain = Segment
    BY <1>1, SubmitBufferIs
  <2> HIDE DEF job
  <2>2. Plaintext(jobs') = Plaintext(jobs) \o Segment /\ Segment \in Seq(Nat)
    BY <1>t, <2>1, JoinAppend, BufferParts
  <2>3. Prefix' = LastOf(Window, Plaintext(jobs'))
    BY <1>t, <2>1, <2>2, LastOfJoined DEF WindowKept
  <2>4. Dictionaries(jobs')
    BY <1>t, <2>1, DictionariesGrow DEF WindowKept
  <2> QED BY <2>3, <2>4 DEF WindowKept
<1>2. CASE FillBuffer
  BY <1>2, FillBufferIs DEF WindowKept
<1>3. CASE ~SubmitBuffer /\ ~FillBuffer
  <2>1. UNCHANGED <<buffer, prefixLen, jobs>>
    BY <1>3, BufferStays
  <2> QED BY <2>1 DEF WindowKept, Prefix
<1> QED BY <1>1, <1>2, <1>3

\* Without an error every byte of the calls is in a job, in the segment, or
\* not consumed yet, in this order.
SegmentsKeep == ~reported => given = Plaintext(jobs) \o (Segment \o todo)

\* The bytes move from the call to the segment and the jobs, in order.
LEMMA SegmentsKeepStep ==
    ASSUME Types, CallsEnd, SegmentsKeep, [EncodeNext]_encode, format = "gzip"
    PROVE  SegmentsKeep'
<1> SUFFICES ASSUME ~reported' PROVE SegmentsKeep'
  BY DEF SegmentsKeep
<1>t. /\ jobs \in Seq(Jobs) /\ Plaintext(jobs) \in Seq(Nat)
      /\ Segment \in Seq(Nat) /\ todo \in Seq(Nat)
  <2>1. [rle |-> <<>>, plain |-> <<>>] \in Jobs /\ jobs \in Seq(Jobs)
    BY DEF Jobs, Types, EncodeTypes
  <2> QED BY <2>1, JoinAppend, BufferParts DEF Types, EncodeTypes
<1>k. ASSUME ~reported, UNCHANGED <<given, jobs, buffer, prefixLen, todo>>
      PROVE  SegmentsKeep'
  BY <1>k DEF SegmentsKeep, Segment
<1>1. CASE FillBuffer
  <2>1. UNCHANGED <<given, reported>>
    BY <1>1 DEF FillBuffer, caller
  <2> QED BY <1>1, <2>1, FillBufferIs DEF SegmentsKeep
<1>2. CASE SubmitBuffer
  <2> DEFINE job == [dict |-> Prefix, plain |-> Segment]
  <2>1. /\ job \in Jobs /\ jobs' = Append(jobs, job)
        /\ Segment' = <<>> /\ job.plain = Segment
    BY <1>2, SubmitBufferIs
  <2>2. UNCHANGED <<given, reported, todo>>
    BY <1>2 DEF SubmitBuffer, caller
  <2> HIDE DEF job
  <2> DEFINE p == Plaintext(jobs)
  <2>3. Plaintext(jobs') = p \o Segment
    BY <1>t, <2>1, JoinAppend
  <2>4. p \in Seq(Nat)
    BY <1>t
  <2>5. given = p \o (Segment \o todo)
    BY <2>2 DEF SegmentsKeep
  <2> HIDE DEF p
  <2>6. (p \o Segment) \o todo = p \o (Segment \o todo)
    <3>1. Associates(p, Segment, todo)
      BY <1>t, <2>4, JoinsAssociate
    <3> QED BY <3>1 DEF Associates
  <2>7. <<>> \o todo = todo
    BY <1>t, ConcatEmptySeq
  <2> QED BY <2>1, <2>2, <2>3, <2>5, <2>6, <2>7 DEF SegmentsKeep
<1>3. CASE Client
  <2>1. CASE Write
    <3>1. PICK piece \in Pieces : CallWrite(piece)
      BY <2>1 DEF Write
    <3>2. /\ todo = <<>> /\ todo' = piece /\ given' = given \o piece /\ piece \in Seq(Nat)
          /\ reported' = reported
      BY <3>1, PiecesType DEF CallWrite, CallsEnd, Types
    <3>3. UNCHANGED <<jobs, Segment>>
      BY <1>3, <3>1 DEF Client, CallWrite, deflate, Segment
    <3> DEFINE p == Plaintext(jobs)
    <3>4. p \in Seq(Nat) /\ Plaintext(jobs') = p
      BY <1>t, <3>3
    <3>5. given = p \o (Segment \o <<>>)
      BY <3>2 DEF SegmentsKeep
    <3> HIDE DEF p
    <3>6. Segment \o <<>> = Segment
      BY <1>t, ConcatEmptySeq
    <3>7. (p \o Segment) \o piece = p \o (Segment \o piece)
      <4>1. Associates(p, Segment, piece)
        BY <1>t, <3>2, <3>4, JoinsAssociate
      <4> QED BY <4>1 DEF Associates
    <3> QED BY <3>2, <3>3, <3>4, <3>5, <3>6, <3>7 DEF SegmentsKeep
  <2>2. CASE ~Write
    <3>1. UNCHANGED <<given, jobs, buffer, prefixLen, todo, reported>>
      BY <1>3, <2>2 DEF Client, CallEnd, DropEncoder, Consumed, deflate, caller
    <3> QED BY <1>k, <3>1
  <2> QED BY <2>1, <2>2
<1>4. CASE FlushSegments \/ NothingBuffered \/ UNCHANGED encode
  <2>1. UNCHANGED <<given, jobs, buffer, prefixLen, todo, reported>>
    BY <1>4 DEF FlushSegments, NothingBuffered, encode, client, caller, deflate
  <2> QED BY <1>k, <2>1
<1>5. CASE FillEnds \/ SegmentsEnd
  <2>1. UNCHANGED <<given, jobs, buffer, prefixLen, todo>> /\ ~reported
    <3>1. (ReturnOk \/ ReturnError) /\ UNCHANGED deflate
      BY <1>5 DEF FillEnds, SegmentsEnd
    <3>2. /\ UNCHANGED <<given, jobs, todo>>
          /\ reported' = reported \/ reported' = TRUE
      BY <3>1, ReturnType DEF Types
    <3>3. ~reported
      BY <3>2
    <3>4. UNCHANGED <<buffer, prefixLen>>
      BY <3>1 DEF deflate
    <3> QED BY <3>2, <3>3, <3>4
  <2> QED BY <1>k, <2>1
<1>6. CASE CommitSegment
  <2>1. CommitNext /\ UNCHANGED deflate
    BY <1>6 DEF CommitSegment, LoseNext
  <2> QED BY <1>k, <2>1 DEF CommitNext, caller, deflate
<1> QED BY <1>1, <1>2, <1>3, <1>4, <1>5, <1>6 DEF EncodeNext, DeflateStep

------------------------------------------------------------------------------
(* compress_bytes_serial *)

\* The chunks of the input are sequences of bytes.
LEMMA ChunksType ==
    ASSUME NEW bytes \in Seq(Nat)
    PROVE  Chunks(bytes) \in Seq(Seq(Nat))
<1> DEFINE N == Len(bytes)
           S == SegmentSize
           count == (N + S - 1) \div S
           end(k) == IF k * S < N THEN k * S ELSE N
<1>1. N \in Nat /\ S \in Nat /\ S > 0
  BY DeflateAssumption
<1>2. count \in Nat
  <2> HIDE DEF N, S
  <2> QED BY <1>1
<1>3. ASSUME NEW k \in 1..count
      PROVE  SubSeq(bytes, (k - 1) * S + 1, end(k)) \in Seq(Nat)
  <2>1. /\ (k - 1) * S \in Nat /\ (k - 1) * S <= N
        /\ k * S \in Nat
    <3> HIDE DEF N, S
    <3> QED BY <1>1, <1>2
  <2>2. (k - 1) * S + 1 \in 1..N + 1 /\ end(k) \in 0..N
    <3> HIDE DEF N, S
    <3> QED BY <1>1, <2>1
  <2> DEFINE first == (k - 1) * S + 1
             last == end(k)
  <2>3. first \in Int /\ last \in Int /\ first >= 1 /\ last <= Len(bytes)
    BY <2>2
  <2> HIDE DEF first, last
  <2>4. \A i \in first..last : bytes[i] \in Nat
    BY <2>3
  <2>5. SubSeq(bytes, first, last) \in Seq(Nat)
    BY <2>3, <2>4, SubSeqProperties
  <2> QED BY <2>5 DEF first, last
<1>4. Chunks(bytes) = [k \in 1..count |-> SubSeq(bytes, (k - 1) * S + 1, end(k))]
  BY DEF Chunks
<1> HIDE DEF count
<1> QED BY <1>2, <1>3, <1>4

\* A chunk as long as the window is all that the window sees.
LEMMA LastOfLong ==
    ASSUME NEW bytes \in Seq(Nat), NEW more \in Seq(Nat), NEW n \in Nat, Len(more) >= n
    PROVE  LastOf(n, bytes \o more) = LastOf(n, more)
<1> DEFINE longer == bytes \o more
           left == LastOf(n, longer)
           right == LastOf(n, more)
<1>1. /\ longer \in Seq(Nat) /\ Len(longer) = Len(bytes) + Len(more)
      /\ \A i \in 1..Len(bytes) + Len(more) :
            longer[i] = IF i <= Len(bytes) THEN bytes[i] ELSE more[i - Len(bytes)]
      /\ Len(bytes) \in Nat /\ Len(more) \in Nat
  BY ConcatProperties
<1> HIDE DEF longer
<1>2. /\ left \in Seq(Nat) /\ Len(left) = n
      /\ \A i \in 1..Len(left) : left[i] = longer[i + (Len(longer) - Len(left))]
  <2>1. IF Len(longer) <= n THEN Len(longer) = n ELSE TRUE
    BY <1>1
  <2> QED BY <1>1, <2>1, LastOfIs
<1>3. /\ right \in Seq(Nat) /\ Len(right) = n
      /\ \A i \in 1..Len(right) : right[i] = more[i + (Len(more) - Len(right))]
  <2>1. IF Len(more) <= n THEN Len(more) = n ELSE TRUE
    BY <1>1
  <2> QED BY <1>1, <2>1, LastOfIs
<1> HIDE DEF left, right
<1>4. ASSUME NEW i \in 1..n
      PROVE  left[i] = right[i]
  <2> DEFINE j == i + (Len(longer) - Len(left))
             h == i + (Len(more) - Len(right))
  <2>1. left[i] = longer[j] /\ right[i] = more[h]
    BY <1>2, <1>3
  <2>2. j \in 1..Len(bytes) + Len(more) /\ j > Len(bytes) /\ j - Len(bytes) = h
    <3> DEFINE b == Len(bytes)
               m == Len(more)
    <3>1. j = i + (b + m - n) /\ h = i + (m - n) /\ b \in Nat /\ m \in Nat /\ m >= n
      BY <1>1, <1>2, <1>3
    <3> HIDE DEF b, m, j, h
    <3>2. j \in 1..b + m /\ j > b /\ j - b = h
      BY <3>1
    <3> QED BY <3>2 DEF b, m
  <2> HIDE DEF j, h
  <2>3. longer[j] = more[j - Len(bytes)]
    BY <1>1, <2>2
  <2> QED BY <2>1, <2>2, <2>3
<1>5. left = right
  BY <1>2, <1>3, <1>4, SeqEqual
<1> QED BY <1>5 DEF left, right, longer

\* Behind each turn of its loop `previous` is the window.
TurnKept(done) ==
    /\ done \in Turns
    /\ done.previous = LastOf(Window, Plaintext(done.jobs))
    /\ Dictionaries(done.jobs)

\* Before the first chunk there is no history.
LEMMA FirstTurnKept == TurnKept(FirstTurn)
<1>1. FirstTurn \in Turns
  BY TurnCloses
<1>2. LastOf(Window, Plaintext(<<>>)) = <<>>
  <2>1. Len(<<>>) <= Window
    BY DeflateAssumption
  <2> QED BY <2>1, JoinNothing DEF LastOf
<1>3. Dictionaries(<<>>)
  BY DEF Dictionaries
<1> QED BY <1>1, <1>2, <1>3 DEF TurnKept, FirstTurn

\* Each turn sets the next dictionary to the last bytes of the input so far.
LEMMA TurnKeeps ==
    ASSUME NEW done, TurnKept(done), NEW chunk \in Seq(Nat)
    PROVE  TurnKept(Turn(done, chunk))
<1> DEFINE job == [dict |-> done.previous, plain |-> chunk]
           next == Turn(done, chunk)
           bytes == Plaintext(done.jobs)
<1>1. /\ done \in Turns /\ done.jobs \in Seq(Jobs) /\ done.previous \in Seq(Nat)
      /\ Window \in Nat
  BY DeflateAssumption DEF TurnKept, Turns
<1>2. job \in Jobs /\ job.dict = LastOf(Window, bytes) /\ job.plain = chunk
  BY <1>1 DEF Jobs, TurnKept
<1>3. next.jobs = Append(done.jobs, job) /\ next.previous = Previous(done.previous, chunk)
  BY DEF Turn
<1>4. next \in Turns
  <2>1. TurnTable[<<done, chunk>>] = next /\ TurnTable[<<done, chunk>>] \in Turns
    BY <1>1, TurnCloses DEF Steps
  <2> QED BY <2>1
<1> HIDE DEF job
<1>5. bytes \in Seq(Nat) /\ Plaintext(next.jobs) = bytes \o chunk
  BY <1>1, <1>2, <1>3, JoinAppend
<1>6. Dictionaries(next.jobs)
  BY <1>1, <1>2, <1>3, DictionariesGrow DEF TurnKept
<1>7. done.previous = LastOf(Window, bytes)
  BY DEF TurnKept
<1> HIDE DEF bytes
<1>8. Previous(done.previous, chunk) = LastOf(Window, bytes \o chunk)
  <2>1. CASE Len(chunk) >= Window
    BY <1>1, <1>5, <2>1, LastOfLong DEF Previous
  <2>2. CASE ~(Len(chunk) >= Window)
    BY <1>1, <1>5, <1>7, <2>2, LastOfJoined DEF Previous
  <2> QED BY <2>1, <2>2
<1> HIDE DEF next
<1>9. TurnKept(next)
  BY <1>3, <1>4, <1>5, <1>6, <1>8 DEF TurnKept
<1> QED BY <1>9 DEF next

\* compress_bytes_serial gives each chunk the dictionary the encoder gives it.
LEMMA SerialDictionaries ==
    ASSUME NEW bytes \in Seq(Nat)
    PROVE  Dictionaries(SerialJobs(bytes))
<1> DEFINE chunks == Chunks(bytes)
<1>1. chunks \in Seq(Seq(Nat)) /\ Len(chunks) \in Nat
  BY ChunksType
<1>2. SerialJobs(bytes) = TurnsOver(chunks).jobs
  BY DEF SerialJobs, TurnsOver, Turn, FirstTurn
<1> HIDE DEF chunks
<1>3. PICK run : /\ IsRun(run, FirstTurn, TurnTable, chunks)
                 /\ TurnsOver(chunks) = run[Len(chunks)]
  BY <1>1, TurnRun
<1>4. \A n \in 0..Len(chunks) : TurnKept(run[n])
  <2> DEFINE Kept == {n \in 0..Len(chunks) : TurnKept(run[n])}
  <2>1. 0 \in Kept
    BY <1>1, <1>3, FirstTurnKept DEF IsRun
  <2>2. ASSUME NEW n \in 1..Len(chunks), n - 1 \in Kept
        PROVE  n \in Kept
    <3>1. chunks[n] \in Seq(Nat) /\ n \in 0..Len(chunks)
      BY <1>1
    <3>2. run[n] = TurnTable[<<run[n - 1], chunks[n]>>]
      BY <1>3 DEF IsRun
    <3>3. TurnKept(run[n - 1])
      BY <2>2
    <3>4. run[n] = Turn(run[n - 1], chunks[n])
      BY <3>1, <3>2, <3>3, TurnCloses DEF TurnKept
    <3>5. TurnKept(run[n])
      BY <3>1, <3>3, <3>4, TurnKeeps
    <3> QED BY <3>1, <3>5
  <2>3. \A n \in 0..Len(chunks) : n \in Kept
    <3> HIDE DEF Kept
    <3> QED BY <1>1, <2>1, <2>2, Climb
  <2> QED BY <2>3
<1>5. TurnKept(TurnsOver(chunks))
  <2>1. Len(chunks) \in 0..Len(chunks)
    BY <1>1
  <2> QED BY <1>3, <1>4, <2>1
<1> QED BY <1>2, <1>5 DEF TurnKept

------------------------------------------------------------------------------
(* The theorems. *)

\* The inductive invariant.
Bzip2Inv == format = "bzip2" => Grouping /\ BlocksFit /\ BlocksExpand /\ BlocksKeep
DeflateInv == format = "gzip" => Draining /\ WindowKept /\ SegmentsKeep

\* finish answers Ok with everything written.
AllWritten == ~reported /\ call = "finish" /\ stage = "gone" => combined = given

EncodeInv ==
    Types /\ CallsEnd /\ SumsFollow /\ Bzip2Inv /\ DeflateInv /\ AllWritten

\* The invariant holds at the start.
LEMMA EncodeInvInit == EncodeInit => EncodeInv
<1> SUFFICES ASSUME EncodeInit PROVE EncodeInv
  OBVIOUS
<1>1. Types
  BY TypesInit
<1>2. /\ stage = "idle" /\ call = "none" /\ todo = <<>> /\ given = <<>> /\ jobs = <<>>
      /\ written = <<>> /\ combined = <<>> /\ inputLen = 0 /\ nextTake = 0
      /\ runs = NoGroup /\ group = NoGroup /\ block = <<>> /\ blockCrc = <<>>
      /\ buffer = <<>> /\ prefixLen = 0
  BY DEF EncodeInit, CallsInit, QueueInit, Bzip2Init, DeflateInit
<1>3. Len(<<>>) = 0 /\ SubSeq(<<>>, 1, 0) = <<>> /\ <<>> \o <<>> = <<>>
  OBVIOUS
<1>4. CallsEnd
  BY <1>2 DEF CallsEnd
<1>5. SumsFollow
  BY <1>2, <1>3, JoinNothing, Zenon DEF SumsFollow
<1>6. Grouping
  BY <1>2 DEF Grouping, NoGroup
<1>7. BlocksFit
  BY <1>2, <1>3, BlockLimitAssumption DEF BlocksFit
<1>8. BlocksExpand
  <2>1. Expanding(block) = Fresh /\ runs.len = 0 /\ group.len = 0
    BY <1>2, ExpandNothing DEF NoGroup
  <2>2. Fresh.out = <<>> /\ Fresh.count < Repeats
    BY RunLengthAssumption DEF Fresh
  <2>3. DOMAIN jobs = {}
    BY <1>2
  <2> QED BY <1>2, <2>1, <2>2, <2>3 DEF BlocksExpand
<1>9. BlocksKeep
  <2>1. CopiesOf(NoGroup) = <<>>
    BY DEF CopiesOf, NoGroup, Copies
  <2> QED BY <1>2, <1>3, <2>1, JoinNothing, Zenon DEF BlocksKeep
<1>10. Draining /\ AllWritten
  BY <1>2 DEF Draining, AllWritten
<1>11. WindowKept
  <2>1. LastOf(Window, <<>>) = <<>>
    BY <1>3, DeflateAssumption DEF LastOf
  <2>2. Prefix = <<>>
    BY <1>2 DEF Prefix
  <2>3. Dictionaries(jobs)
    BY <1>2 DEF Dictionaries
  <2> QED BY <1>2, <2>1, <2>2, <2>3, JoinNothing, Zenon DEF WindowKept
<1>12. SegmentsKeep
  <2>1. Segment = <<>>
    BY <1>2 DEF Segment
  <2> QED BY <1>2, <1>3, <2>1, JoinNothing, Zenon DEF SegmentsKeep
<1> QED BY <1>1, <1>4, <1>5, <1>6, <1>7, <1>8, <1>9, <1>10, <1>11, <1>12
        DEF EncodeInv, Bzip2Inv, DeflateInv

\* When every result is taken, what was written is the input in front of what
\* is still in the encoder.
LEMMA NothingPending ==
    ASSUME Types, SumsFollow, ~reported, ~HasPending
    PROVE  combined = Plaintext(jobs)
<1>1. nextTake = Len(jobs) /\ jobs \in Seq(Jobs)
  BY DEF Types, EncodeTypes, HasPending
<1>2. SubSeq(jobs, 1, nextTake) = jobs
  BY <1>1, SubSeqFull
<1> QED BY <1>2 DEF SumsFollow

\* finish answers Ok when nothing is left in the encoder or on its way.
LEMMA AllWrittenStep ==
    ASSUME EncodeInv, [EncodeNext]_encode
    PROVE  AllWritten'
<1> USE DEF EncodeInv
<1> SUFFICES ASSUME ~reported', call' = "finish", stage' = "gone"
             PROVE  combined' = given'
  BY DEF AllWritten
<1>t. /\ jobs \in Seq(Jobs) /\ Plaintext(jobs) \in Seq(Nat)
      /\ Plaintext(jobs) \o <<>> = Plaintext(jobs) /\ <<>> \o <<>> = <<>>
  <2>1. [rle |-> <<>>, plain |-> <<>>] \in Jobs /\ jobs \in Seq(Jobs)
    BY DEF Jobs, Types, EncodeTypes
  <2>2. Plaintext(jobs) \in Seq(Nat)
    BY <2>1, JoinAppend
  <2> QED BY <2>1, <2>2, ConcatEmptySeq
<1>1. CASE Client
  <2>1. Consumed => reported' = reported /\ stage = "closing"
    BY DEF Consumed, caller
  <2>2. DropEncoder => call' = call /\ stage = "idle"
    BY DEF DropEncoder, caller
  <2> QED BY <1>1, <2>1, <2>2 DEF Client, Write, CallWrite, CallEnd, CallsEnd
<1>2. CASE WriteTrailer /\ format = "bzip2"
  <2>1. /\ UNCHANGED <<given, combined, call>> /\ ~reported /\ block = <<>>
        /\ ~HasPending /\ stage = "submitting"
    <3>1. (ReturnOk \/ ReturnError) /\ block = <<>> /\ ~HasPending /\ stage = "submitting"
      BY <1>2 DEF WriteTrailer
    <3>2. UNCHANGED <<given, combined, call>> /\ (reported' = reported \/ reported' = TRUE)
      BY <3>1, ReturnType DEF Types
    <3> QED BY <3>1, <3>2
  <2>2. combined = Plaintext(jobs)
    BY <2>1, NothingPending
  <2>3. runs.len = 0 /\ group.len = 0 /\ todo = <<>> /\ runs \in Groups /\ group \in Groups
    BY <1>2, <2>1 DEF Bzip2Inv, Grouping, CallsEnd, Types, Bzip2Types, Groups
  <2>4. CopiesOf(runs) = <<>> /\ CopiesOf(group) = <<>>
    BY <2>3, GroupType
  <2>5. blockCrc = <<>>
    BY <1>2, <2>1, ExpandNothing DEF Bzip2Inv, BlocksExpand, Fresh
  <2>6. given = Plaintext(jobs) \o (blockCrc \o (CopiesOf(group) \o (CopiesOf(runs) \o todo)))
    BY <1>2, <2>1 DEF Bzip2Inv, BlocksKeep
  <2>7. given = Plaintext(jobs) \o (<<>> \o (<<>> \o (<<>> \o <<>>)))
    BY <2>3, <2>4, <2>5, <2>6
  <2> QED BY <1>t, <2>1, <2>2, <2>7
<1>3. CASE SegmentsEnd /\ format = "gzip"
  <2>1. /\ UNCHANGED <<given, combined, call>> /\ ~reported
        /\ ~HasPending /\ stage = "draining"
    <3>1. (ReturnOk \/ ReturnError) /\ ~HasPending /\ stage = "draining"
      BY <1>3 DEF SegmentsEnd
    <3>2. UNCHANGED <<given, combined, call>> /\ (reported' = reported \/ reported' = TRUE)
      BY <3>1, ReturnType DEF Types
    <3> QED BY <3>1, <3>2
  <2>2. combined = Plaintext(jobs)
    BY <2>1, NothingPending
  <2>3. todo = <<>> /\ Segment = <<>>
    <3>1. todo = <<>> /\ Used = 0
      BY <1>3, <2>1 DEF DeflateInv, Draining, CallsEnd
    <3> QED BY <3>1, BufferParts
  <2>4. given = Plaintext(jobs) \o (Segment \o todo)
    BY <1>3, <2>1 DEF DeflateInv, SegmentsKeep
  <2> QED BY <1>t, <2>1, <2>2, <2>3, <2>4
<1>4. CASE WriteEnds \/ FlushEnds \/ FillEnds
  <2>1. (ReturnOk \/ ReturnError) /\ (stage = "writing" \/ call = "flush")
    BY <1>4 DEF WriteEnds, FlushEnds, FillEnds
  <2>2. call' = call
    BY <2>1, ReturnType DEF Types
  <2> QED BY <2>1, <2>2 DEF CallsEnd
<1>5. CASE PushByte \/ LastGroup \/ PlaceGroup \/ SubmitBlock \/ CommitBlock \/ LoseBlock
  <2>1. stage = "gone"
    BY <1>5 DEF PushByte, LastGroup, PlaceGroup, SubmitBlock, CommitBlock, LoseBlock,
                CommitNext, LoseNext
  <2>2. stage \in {"writing", "ending", "grouping", "submitting"}
    BY <1>5 DEF PushByte, LastGroup, PlaceGroup, SubmitBlock, CommitBlock, LoseBlock,
                MustCommit, MustSubmit
  <2> QED BY <2>1, <2>2
<1>6. CASE FillBuffer \/ FlushSegments \/ NothingBuffered \/ SubmitBuffer \/ CommitSegment
  <2>1. stage' # "gone" \/ stage' = stage
    BY <1>6 DEF FillBuffer, FlushSegments, NothingBuffered, SubmitBuffer, CommitSegment,
                CommitNext, LoseNext, AfterSubmit
  <2>2. stage # "gone"
    BY <1>6 DEF FillBuffer, FlushSegments, NothingBuffered, SubmitBuffer, CommitSegment,
                CommitsSegment
  <2> QED BY <2>1, <2>2
<1>7. CASE UNCHANGED encode
  BY <1>7 DEF encode, client, caller, sums, AllWritten
<1> QED BY <1>1, <1>2, <1>3, <1>4, <1>5, <1>6, <1>7 DEF EncodeNext, Bzip2Step, DeflateStep

\* Every step keeps the invariant.
LEMMA EncodeInvStep == EncodeInv /\ [EncodeNext]_encode => EncodeInv'
<1> SUFFICES ASSUME EncodeInv, [EncodeNext]_encode PROVE EncodeInv'
  OBVIOUS
<1>1. Types /\ CallsEnd /\ SumsFollow /\ Bzip2Inv /\ DeflateInv
  BY DEF EncodeInv
<1>2. Types'
  BY <1>1, TypesStep
<1>3. CallsEnd'
  <2>1. format = "bzip2" /\ stage = "submitting" => call = "finish"
    BY <1>1 DEF Bzip2Inv, Grouping
  <2>2. stage = "draining" => call # "write"
    BY <1>1 DEF Bzip2Inv, DeflateInv, Grouping, Draining, Types, EncodeTypes
  <2> QED BY <1>1, <2>1, <2>2, CallsEndStep
<1>4. SumsFollow'
  BY <1>1, SumsFollowStep
<1>5. format' = format
  BY DEF EncodeNext, Client, encode
<1>6. Bzip2Inv'
  BY <1>1, <1>5, GroupingStep, BlocksFitStep, BlocksExpandStep, BlocksKeepStep DEF Bzip2Inv
<1>7. DeflateInv'
  BY <1>1, <1>5, DrainingStep, WindowKeptStep, SegmentsKeepStep DEF DeflateInv
<1> QED BY <1>2, <1>3, <1>4, <1>6, <1>7, AllWrittenStep DEF EncodeInv

\* The inductive invariant of both encoders.
THEOREM EncodeInvariant == EncodeSpec => []EncodeInv
<1> QED BY EncodeInvInit, EncodeInvStep, PTL DEF EncodeSpec

\* A sequence begins its extensions.
LEMMA PrefixOfConcat ==
    ASSUME NEW s \in Seq(Nat), NEW t \in Seq(Nat)
    PROVE  IsPrefix(s, s \o t)
BY DEF IsPrefix

\* The invariant implies SumsCover.
LEMMA EncodeInvSums == EncodeInv => SumsCover
<1> SUFFICES ASSUME EncodeInv PROVE SumsCover
  OBVIOUS
<1> USE DEF EncodeInv
<1>1. combined = Plaintext(written) /\ inputLen = Len(combined)
  BY DEF SumsFollow
<1>2. format = "bzip2" => \A k \in DOMAIN jobs : Len(jobs[k].rle) \in 1..BlockLimit
  BY DEF Bzip2Inv, BlocksFit
<1>3. ASSUME ~reported
      PROVE  /\ format = "bzip2" => \A k \in DOMAIN jobs : Expand(jobs[k].rle) = jobs[k].plain
             /\ written = SubSeq(jobs, 1, nextTake)
  BY <1>3 DEF Bzip2Inv, BlocksExpand, SumsFollow
<1>4. ASSUME ~reported
      PROVE  IsPrefix(Plaintext(jobs), given)
  <2>t. Plaintext(jobs) \in Seq(Nat) /\ todo \in Seq(Nat)
    <3>1. [rle |-> <<>>, plain |-> <<>>] \in Jobs /\ jobs \in Seq(Jobs)
      BY DEF Jobs, Types, EncodeTypes
    <3> QED BY <3>1, JoinAppend DEF Types, EncodeTypes
  <2>1. CASE format = "bzip2"
    <3> DEFINE rest == blockCrc \o (CopiesOf(group) \o (CopiesOf(runs) \o todo))
    <3>1. rest \in Seq(Nat)
      <4>1. /\ CopiesOf(group) \in Seq(Nat) /\ CopiesOf(runs) \in Seq(Nat)
            /\ blockCrc \in Seq(Nat) /\ todo \in Seq(Nat)
        BY GroupType DEF Types, EncodeTypes, Bzip2Types
      <4> QED BY <4>1
    <3>2. given = Plaintext(jobs) \o rest
      BY <1>4, <2>1 DEF Bzip2Inv, BlocksKeep
    <3> HIDE DEF rest
    <3> QED BY <2>t, <3>1, <3>2, PrefixOfConcat
  <2>2. CASE format = "gzip"
    <3> DEFINE rest == Segment \o todo
    <3>1. rest \in Seq(Nat)
      BY <2>t, BufferParts
    <3>2. given = Plaintext(jobs) \o rest
      BY <1>4, <2>2 DEF DeflateInv, SegmentsKeep
    <3> HIDE DEF rest
    <3> QED BY <2>t, <3>1, <3>2, PrefixOfConcat
  <2> QED BY <2>1, <2>2 DEF Types, EncodeTypes
<1>5. ~reported /\ Finished => combined = given
  BY DEF AllWritten, Finished
<1> QED BY <1>1, <1>2, <1>3, <1>4, <1>5 DEF SumsCover

\* What the trailer says is what was written; without an error every block
\* expands to its plaintext and finish answers Ok with the whole input.
THEOREM EncodeSumsCover == EncodeSpec => []SumsCover
<1> QED BY EncodeInvariant, EncodeInvSums, PTL

\* Every segment has the last bytes before it as its dictionary, cut by size or
\* by flush, by the encoder or by compress_bytes_serial.
THEOREM EncodeDictionaries == EncodeSpec => []DictionaryIsHistory
<1>1. EncodeInv => DictionaryIsHistory
  <2> SUFFICES ASSUME EncodeInv, format = "gzip"
               PROVE  Dictionaries(jobs) /\ Dictionaries(SerialJobs(given))
    BY DEF DictionaryIsHistory, Dictionaries
  <2>1. given \in Seq(Nat)
    BY DEF EncodeInv, Types, EncodeTypes
  <2>2. Dictionaries(jobs)
    BY DEF EncodeInv, DeflateInv, WindowKept
  <2> QED BY <2>1, <2>2, SerialDictionaries
<1> QED BY <1>1, EncodeInvariant, PTL

------------------------------------------------------------------------------
(* The ZIP archive: what is remembered of its entries, and where they stand. *)

\* The entries looked at, what is remembered of the written ones, and the
\* records of the archive in front of its directory.
Entries == [name : Nat, kind : {"file", "dir", "link"}, size : Nat]
Remembered == [name : Nat, method : {"stored", "deflate"}, compressed : Nat,
               uncompressed : Nat, offset : Nat, zip64 : BOOLEAN]
Cells ==
    [record : {"local"}, name : Nat, method : {"stored", "deflate"}, extra : Seq(Nat)]
    \cup [record : {"data"}, name : Nat]
    \cup [record : {"descriptor"}, wide : BOOLEAN, compressed : Nat, uncompressed : Nat]

\* Where an entry stands in an archive.
Stands(c, at) ==
    /\ c.offset + c.compressed + 2 <= Len(at)
    /\ at[c.offset + 1].record = "local" /\ at[c.offset + 1].name = c.name
    /\ at[c.offset + 1].method = c.method
    /\ at[c.offset + 1].extra # <<>> <=> c.zip64
    /\ \A i \in 1..c.compressed :
          at[c.offset + i + 1] = [record |-> "data", name |-> c.name]
    /\ at[c.offset + c.compressed + 2] =
          [record |-> "descriptor", wide |-> c.zip64, compressed |-> c.compressed,
           uncompressed |-> c.uncompressed]

\* Every entry is written or waits, once.
EveryEntry ==
    /\ waiting \in Seq(Entries) /\ central \in Seq(Remembered)
    /\ Len(central) + Len(waiting) = Len(inputs)
    /\ \A i \in DOMAIN central : \E j \in DOMAIN inputs : central[i].name = inputs[j].name
    /\ \A i \in DOMAIN waiting : \E j \in DOMAIN inputs : waiting[i] = inputs[j]
    /\ \A j \in DOMAIN inputs :
          \/ \E i \in DOMAIN central : central[i].name = inputs[j].name
          \/ \E i \in DOMAIN waiting : waiting[i] = inputs[j]

\* What is in front of the directory, up to start.
Filled(start) ==
    /\ \A i \in 1..start : archive[i] \in Cells
    /\ \A i \in DOMAIN central : Stands(central[i], archive)

CentralRecords == [i \in DOMAIN central |-> CentralRecord(central[i])]

\* The whole of it, with the directory from start on.
FinishedFrom(start) ==
    LET n == Len(central)
        last == EndRecords(start, CentralRecords)
    IN /\ waiting = <<>>
       /\ Filled(start)
       /\ Len(archive) = start + n + Len(last)
       /\ DOMAIN archive = 1..Len(archive)
       /\ \A i \in 1..n : archive[start + i] = CentralRecord(central[i])
       /\ \A i \in 1..Len(last) : archive[start + n + i] = last[i]

ZipInv ==
    /\ inputs \in Seq(Entries)
    /\ zipping = "starting" => archive = <<>> /\ central = <<>>
    /\ zipping = "writing" => EveryEntry /\ archive \in Seq(Cells) /\ Filled(Len(archive))
    /\ zipping = "done" => EveryEntry /\ \E start \in 0..Len(archive) : FinishedFrom(start)
    /\ zipping = "requires Zip64" => grown # {}

------------------------------------------------------------------------------
(* The extra fields of Zip64. *)

\* A field that is all ones.
Ones(value) == IF value = Max32 THEN 1 ELSE 0

\* One field more.
LEMMA OneFieldMore ==
    ASSUME NEW f, NEW k \in Nat \ {0}, NEW n \in Nat,
           IsFiniteSet({j \in 1..(k - 1) : f[j] = Max32}),
           Cardinality({j \in 1..(k - 1) : f[j] = Max32}) = n
    PROVE  /\ IsFiniteSet({j \in 1..k : f[j] = Max32})
           /\ Cardinality({j \in 1..k : f[j] = Max32}) = n + Ones(f[k])
<1> DEFINE S == {j \in 1..(k - 1) : f[j] = Max32}
           T == {j \in 1..k : f[j] = Max32}
<1>1. CASE f[k] = Max32
  <2>1. T = S \cup {k} /\ k \notin S
    BY <1>1
  <2>2. IsFiniteSet(T) /\ Cardinality(T) = n + 1
    <3> HIDE DEF S, T
    <3>1. IsFiniteSet(S) /\ Cardinality(S) = n
      BY DEF S
    <3>. QED
      BY <2>1, <3>1, FS_AddElement
  <2>. QED
    BY <1>1, <2>2 DEF Ones
<1>2. CASE f[k] # Max32
  <2>1. T = S
    BY <1>2
  <2>. QED
    BY <1>2, <2>1 DEF Ones
<1>. QED
  BY <1>1, <1>2

\* How many of the fields up to the k-th are all ones.
LEMMA OnesAre ==
    ASSUME NEW f
    PROVE  /\ Cardinality({j \in 1..1 : f[j] = Max32}) = Ones(f[1])
           /\ Cardinality({j \in 1..2 : f[j] = Max32}) = Ones(f[1]) + Ones(f[2])
           /\ Cardinality({j \in 1..3 : f[j] = Max32}) = (Ones(f[1]) + Ones(f[2])) + Ones(f[3])
<1>0. \A v : Ones(v) \in Nat
  BY DEF Ones
<1> DEFINE T(k) == {j \in 1..k : f[j] = Max32}
<1>1. IsFiniteSet(T(0)) /\ Cardinality(T(0)) = 0
  <2>1. T(0) = {}
    OBVIOUS
  <2>. QED
    BY <2>1, FS_EmptySet
<1>2. IsFiniteSet(T(1)) /\ Cardinality(T(1)) = 0 + Ones(f[1])
  <2> DEFINE k == 1
  <2>1. k \in Nat \ {0} /\ k - 1 = 0 /\ 0 \in Nat
    OBVIOUS
  <2>2. IsFiniteSet(T(k - 1)) /\ Cardinality(T(k - 1)) = 0
    BY Zenon, <1>1, <2>1
  <2> HIDE DEF k
  <2>3. IsFiniteSet(T(k)) /\ Cardinality(T(k)) = 0 + Ones(f[k])
    BY <2>1, <2>2, OneFieldMore
  <2>. QED
    BY <2>3 DEF k
<1>3. IsFiniteSet(T(2)) /\ Cardinality(T(2)) = Ones(f[1]) + Ones(f[2])
  <2> DEFINE k == 2
             n == Ones(f[1])
  <2>1. k \in Nat \ {0} /\ k - 1 = 1 /\ n \in Nat
    BY <1>0
  <2>2. IsFiniteSet(T(k - 1)) /\ Cardinality(T(k - 1)) = n
    BY <1>0, <1>2, <2>1
  <2> HIDE DEF k, n
  <2>3. IsFiniteSet(T(k)) /\ Cardinality(T(k)) = n + Ones(f[k])
    BY <2>1, <2>2, OneFieldMore
  <2>. QED
    BY <2>3 DEF k, n
<1>4. Cardinality(T(3)) = (Ones(f[1]) + Ones(f[2])) + Ones(f[3])
  <2> DEFINE k == 3
             n == Ones(f[1]) + Ones(f[2])
  <2>1. k \in Nat \ {0} /\ k - 1 = 2 /\ n \in Nat
    BY <1>0
  <2>2. IsFiniteSet(T(k - 1)) /\ Cardinality(T(k - 1)) = n
    BY <1>3, <2>1
  <2> HIDE DEF k, n
  <2>3. IsFiniteSet(T(k)) /\ Cardinality(T(k)) = n + Ones(f[k])
    BY <2>1, <2>2, OneFieldMore
  <2>. QED
    BY <2>3 DEF k, n
<1>. QED
  BY <1>0, <1>2, <1>3, <1>4

\* How many values of one field are in the extra field.
Wide(value) == IF value > Max32 THEN 1 ELSE 0

\* Where the values stand in an extra field.
ExtraField(x, u, v, w) ==
    /\ x \in Seq(Nat)
    /\ Len(x) = Wide(u) + Wide(v) + Wide(w)
    /\ DOMAIN x = 1..Len(x)
    /\ u > Max32 => x[1] = u
    /\ v > Max32 => x[Wide(u) + 1] = v
    /\ w > Max32 => x[Wide(u) + Wide(v) + 1] = w

\* The values that need an extra field stand there in order.
LEMMA ExtrasAre ==
    ASSUME NEW u \in Nat, NEW v \in Nat, NEW w \in Nat
    PROVE  ExtraField(Extra(u) \o Extra(v) \o Extra(w), u, v, w)
<1> DEFINE x == Extra(u) \o Extra(v) \o Extra(w)
<1>0. Max32 \in Nat
  BY ZipAssumption
<1>1. ASSUME NEW value \in Nat
      PROVE  /\ Extra(value) \in Seq(Nat)
             /\ Len(Extra(value)) = Wide(value)
             /\ Wide(value) \in {0, 1}
             /\ value > Max32 => Wide(value) = 1
             /\ value > Max32 => Extra(value)[1] = value
  BY <1>0 DEF Extra, Wide
<1> DEFINE a == Extra(u)
           b == Extra(v)
           c == Extra(w)
           ab == a \o b
<1>2. /\ a \in Seq(Nat)
      /\ b \in Seq(Nat)
      /\ c \in Seq(Nat)
  BY <1>1
<1>2a. /\ Len(a) = Wide(u) /\ Wide(u) \in {0, 1}
       /\ Len(b) = Wide(v) /\ Wide(v) \in {0, 1}
       /\ Len(c) = Wide(w) /\ Wide(w) \in {0, 1}
  BY <1>1
<1>2b. /\ u > Max32 => Wide(u) = 1
       /\ v > Max32 => Wide(v) = 1
       /\ w > Max32 => Wide(w) = 1
  BY <1>1
<1>2c. /\ u > Max32 => a[1] = u
       /\ v > Max32 => b[1] = v
       /\ w > Max32 => c[1] = w
  BY <1>1
<1>3. x = ab \o c
  OBVIOUS
<1> HIDE DEF a, b, c, x
<1>4. /\ ab \in Seq(Nat)
      /\ Len(ab) = Len(a) + Len(b)
      /\ \A i \in 1..Len(a) : ab[i] = a[i]
      /\ \A i \in 1..Len(b) : ab[Len(a) + i] = b[i]
  BY <1>2
<1> HIDE DEF ab
<1>5. /\ x \in Seq(Nat)
      /\ Len(x) = Len(ab) + Len(c)
      /\ \A i \in 1..Len(ab) : x[i] = ab[i]
      /\ \A i \in 1..Len(c) : x[Len(ab) + i] = c[i]
  <2>1. ASSUME NEW s \in Seq(Nat), NEW t \in Seq(Nat)
        PROVE  /\ s \o t \in Seq(Nat)
               /\ Len(s \o t) = Len(s) + Len(t)
               /\ \A i \in 1..Len(s) : (s \o t)[i] = s[i]
               /\ \A i \in 1..Len(t) : (s \o t)[Len(s) + i] = t[i]
    OBVIOUS
  <2>2. /\ ab \o c \in Seq(Nat)
        /\ Len(ab \o c) = Len(ab) + Len(c)
        /\ \A i \in 1..Len(ab) : (ab \o c)[i] = ab[i]
        /\ \A i \in 1..Len(c) : (ab \o c)[Len(ab) + i] = c[i]
    BY ONLY <1>2, <1>4, <2>1
  <2>. QED
    BY ONLY <1>3, <2>2
<1>6. u > Max32 => x[1] = u
  <2>1. u > Max32 => 1 \in 1..Len(a) /\ 1 \in 1..Len(ab)
    BY <1>2a, <1>2b, <1>2c, <1>4
  <2>. QED
    BY <1>2a, <1>2b, <1>2c, <1>4, <1>5, <2>1
<1>7. v > Max32 => x[Wide(u) + 1] = v
  <2> DEFINE k == Wide(u) + 1
  <2>1. v > Max32 => 1 \in 1..Len(b) /\ k \in 1..Len(ab) /\ k = Len(a) + 1
    BY <1>2a, <1>2b, <1>2c, <1>4
  <2> HIDE DEF k
  <2>2. v > Max32 => ab[Len(a) + 1] = v
    BY <1>2a, <1>2b, <1>2c, <1>4, <2>1
  <2>3. v > Max32 => x[k] = v
    BY <1>5, <2>1, <2>2
  <2>. QED
    BY <2>3 DEF k
<1>8. w > Max32 => x[Wide(u) + Wide(v) + 1] = w
  <2> DEFINE k == Wide(u) + Wide(v) + 1
  <2>1. w > Max32 => 1 \in 1..Len(c) /\ k = Len(ab) + 1
    BY <1>2a, <1>2b, <1>2c, <1>4
  <2> HIDE DEF k
  <2>2. w > Max32 => x[k] = w
    BY <1>2c, <1>5, <2>1
  <2>. QED
    BY <2>2 DEF k
<1>9. Len(x) = Wide(u) + Wide(v) + Wide(w)
  BY <1>2a, <1>4, <1>5
<1>10. DOMAIN x = 1..Len(x)
  BY <1>5
<1>. QED
  BY <1>5, <1>6, <1>7, <1>8, <1>9, <1>10 DEF ExtraField, x

\* An entry of the central directory is read with the lengths and the place
\* that were written, whichever of them are beyond 32 bits.
LEMMA FieldsRead ==
    ASSUME NEW e \in Remembered, ~ ReadsAmiss(e)
    PROVE  /\ ReadField(CentralRecord(e), 1) = e.uncompressed
           /\ ReadField(CentralRecord(e), 2) = e.compressed
           /\ ReadField(CentralRecord(e), 3) = e.offset
<1> DEFINE r == CentralRecord(e)
           u == e.uncompressed
           v == e.compressed
           w == e.offset
           f == <<r.uncompressed, r.compressed, r.offset>>
           x == r.extra
<1>0. Max32 \in Nat
  BY ZipAssumption
<1>1. u \in Nat /\ v \in Nat /\ w \in Nat
  BY DEF Remembered
<1>2. x = Extra(u) \o Extra(v) \o Extra(w)
  BY DEF CentralRecord, Zip64Values
<1>3. f[1] = Field(u) /\ f[2] = Field(v) /\ f[3] = Field(w)
  BY DEF CentralRecord
<1>4. /\ u = Max32 => ~ v > Max32 /\ ~ w > Max32
      /\ v = Max32 => ~ w > Max32
  <2> DEFINE values == <<u, v, w>>
  <2>1. \A j, k \in 1..3 : j < k /\ values[j] = Max32 => ~ values[k] > Max32
    BY DEF ReadsAmiss
  <2>2. values[1] = u /\ values[2] = v /\ values[3] = w
    OBVIOUS
  <2> HIDE DEF values
  <2>3. u = Max32 => ~ v > Max32
    BY <2>1, <2>2
  <2>4. u = Max32 => ~ w > Max32
    BY <2>1, <2>2
  <2>5. v = Max32 => ~ w > Max32
    BY <2>1, <2>2
  <2>. QED
    BY <2>3, <2>4, <2>5
<1>5. /\ Cardinality({j \in 1..1 : f[j] = Max32}) = Ones(f[1])
      /\ Cardinality({j \in 1..2 : f[j] = Max32}) = Ones(f[1]) + Ones(f[2])
      /\ Cardinality({j \in 1..3 : f[j] = Max32}) = (Ones(f[1]) + Ones(f[2])) + Ones(f[3])
  <2> HIDE DEF f
  <2>. QED
    BY OnesAre
<1>6. \A k : ReadField(r, k) =
             LET ones == Cardinality({j \in 1..k : f[j] = Max32})
             IN IF f[k] = Max32 /\ ones \in DOMAIN x THEN x[ones] ELSE f[k]
  BY DEF ReadField
<1> HIDE DEF r, u, v, w, f, x
<1>7. /\ x \in Seq(Nat)
      /\ Len(x) = Wide(u) + Wide(v) + Wide(w)
      /\ DOMAIN x = 1..Len(x)
      /\ u > Max32 => x[1] = u
      /\ v > Max32 => x[Wide(u) + 1] = v
      /\ w > Max32 => x[Wide(u) + Wide(v) + 1] = w
  <2>1. ExtraField(x, u, v, w)
    BY <1>1, <1>2, ExtrasAre, Zenon
  <2>. QED
    BY <2>1 DEF ExtraField
<1>8. ASSUME NEW value \in Nat
      PROVE  /\ value > Max32 => Wide(value) = 1 /\ Ones(Field(value)) = 1 /\ Field(value) = Max32
             /\ value = Max32 => Wide(value) = 0 /\ Ones(Field(value)) = 1 /\ Field(value) = Max32
             /\ value < Max32 => Wide(value) = 0 /\ Ones(Field(value)) = 0 /\ Field(value) = value
             /\ value < Max32 => Field(value) # Max32
             /\ Wide(value) \in {0, 1}
             /\ Ones(Field(value)) \in {0, 1}
             /\ Wide(value) <= Ones(Field(value))
  <2>1. value > Max32 => Wide(value) = 1 /\ Ones(Field(value)) = 1 /\ Field(value) = Max32
    BY DEF Wide, Ones, Field
  <2>2. value = Max32 => Wide(value) = 0 /\ Ones(Field(value)) = 1 /\ Field(value) = Max32
    BY <1>0 DEF Wide, Ones, Field
  <2>3. value < Max32 => Wide(value) = 0 /\ Field(value) = value /\ Field(value) # Max32
    BY <1>0 DEF Wide, Field
  <2>4. value < Max32 => Ones(Field(value)) = 0
    BY <2>3 DEF Ones
  <2>5. Wide(value) \in {0, 1} /\ Ones(Field(value)) \in {0, 1}
    BY DEF Wide, Ones
  <2>6. Wide(value) <= Ones(Field(value))
    <3>1. value > Max32 \/ Wide(value) = 0
      BY DEF Wide
    <3>. QED
      BY <2>1, <2>5, <3>1
  <2>. QED
    BY <2>1, <2>2, <2>3, <2>4, <2>5, <2>6
<1>9. ReadField(r, 1) = u
  <2> DEFINE n == Cardinality({j \in 1..1 : f[j] = Max32})
  <2>1. ReadField(r, 1) = IF f[1] = Max32 /\ n \in DOMAIN x THEN x[n] ELSE f[1]
    BY <1>6
  <2>2. n = Ones(Field(u)) /\ f[1] = Field(u)
    BY <1>3, <1>5
  <2> HIDE DEF n
  <2>3. u > Max32 => n = 1 /\ f[1] = Max32 /\ n \in DOMAIN x
    BY <1>1, <1>7, <1>8, <2>2
  <2>4. u = Max32 => f[1] = u /\ n \notin DOMAIN x
    BY <1>1, <1>4, <1>7, <1>8, <2>2, <1>0
  <2>5. u < Max32 => f[1] = u /\ f[1] # Max32
    BY <1>1, <1>8, <2>2
  <2>. QED
    BY <1>0, <1>1, <1>7, <2>1, <2>3, <2>4, <2>5
<1>10. ReadField(r, 2) = v
  <2> DEFINE n == Cardinality({j \in 1..2 : f[j] = Max32})
  <2>1. ReadField(r, 2) = IF f[2] = Max32 /\ n \in DOMAIN x THEN x[n] ELSE f[2]
    BY <1>6
  <2>2. n = Ones(Field(u)) + Ones(Field(v)) /\ f[2] = Field(v)
    BY <1>3, <1>5
  <2> HIDE DEF n
  <2>3. v > Max32 => n = Wide(u) + 1 /\ f[2] = Max32 /\ n \in DOMAIN x
    BY <1>0, <1>1, <1>4, <1>7, <1>8, <2>2
  <2>4. v = Max32 => f[2] = v /\ n \notin DOMAIN x
    BY <1>1, <1>4, <1>7, <1>8, <2>2, <1>0
  <2>5. v < Max32 => f[2] = v /\ f[2] # Max32
    BY <1>1, <1>8, <2>2
  <2>6. v > Max32 => x[n] = v
    BY <1>7, <2>3
  <2>. QED
    BY <1>0, <1>1, <2>1, <2>3, <2>4, <2>5, <2>6
<1>11. ReadField(r, 3) = w
  <2> DEFINE n == Cardinality({j \in 1..3 : f[j] = Max32})
  <2>1. ReadField(r, 3) = IF f[3] = Max32 /\ n \in DOMAIN x THEN x[n] ELSE f[3]
    BY <1>6
  <2>2. n = (Ones(Field(u)) + Ones(Field(v))) + Ones(Field(w)) /\ f[3] = Field(w)
    BY <1>3, <1>5
  <2> HIDE DEF n
  <2>3. w > Max32 => n = Wide(u) + Wide(v) + 1 /\ f[3] = Max32 /\ n \in DOMAIN x
    BY <1>0, <1>1, <1>4, <1>7, <1>8, <2>2
  <2>4. w = Max32 => f[3] = w /\ n \notin DOMAIN x
    BY <1>1, <1>4, <1>7, <1>8, <2>2, <1>0
  <2>5. w < Max32 => f[3] = w /\ f[3] # Max32
    BY <1>1, <1>8, <2>2
  <2>6. w > Max32 => x[n] = w
    BY <1>7, <2>3
  <2>. QED
    BY <1>0, <1>1, <2>1, <2>3, <2>4, <2>5, <2>6
<1>. QED
  BY <1>9, <1>10, <1>11 DEF r, u, v, w

------------------------------------------------------------------------------
(* What is written of an entry stays where it is. *)

\* A sequence begins like another.
BeginsLike(s, t) ==
    /\ Len(t) \in Nat /\ Len(s) \in Nat /\ Len(t) <= Len(s)
    /\ \A i \in 1..Len(t) : s[i] = t[i]

\* An entry stands where it stood when the archive grows.
LEMMA StandsGrows ==
    ASSUME NEW e \in Remembered, NEW s, NEW t, BeginsLike(s, t), Stands(e, t)
    PROVE  Stands(e, s)
<1>1. e.offset \in Nat /\ e.compressed \in Nat
  BY DEF Remembered
<1>2. Len(t) \in Nat /\ Len(s) \in Nat /\ Len(t) <= Len(s)
  BY DEF BeginsLike
<1>3. e.offset + e.compressed + 2 <= Len(t)
  BY DEF Stands
<1>4. \A i \in 1..Len(t) : s[i] = t[i]
  BY DEF BeginsLike
<1>5. e.offset + e.compressed + 2 <= Len(s)
  BY <1>1, <1>2, <1>3
<1>6. s[e.offset + 1] = t[e.offset + 1]
  <2>1. e.offset + 1 \in 1..Len(t)
    BY <1>1, <1>2, <1>3
  <2>. QED
    BY <1>4, <2>1
<1>7. s[e.offset + e.compressed + 2] = t[e.offset + e.compressed + 2]
  <2>1. e.offset + e.compressed + 2 \in 1..Len(t)
    BY <1>1, <1>2, <1>3
  <2>. QED
    BY <1>4, <2>1
<1>8. \A i \in 1..e.compressed :
          s[e.offset + i + 1] = [record |-> "data", name |-> e.name]
  <2> TAKE i \in 1..e.compressed
  <2>1. e.offset + i + 1 \in 1..Len(t)
    BY <1>1, <1>2, <1>3
  <2>2. t[e.offset + i + 1] = [record |-> "data", name |-> e.name]
    BY DEF Stands
  <2>. QED
    BY <1>4, <2>1, <2>2
<1>. QED
  BY <1>5, <1>6, <1>7, <1>8 DEF Stands

\* What is written of an entry, and what is remembered of it.
WrittenTo(new, at, e, method, compressed, uncompressed, zip64) ==
    new = at \o <<LocalHeader(e, method, zip64)>>
             \o [i \in 1..compressed |-> Data(e)]
             \o <<Descriptor(compressed, uncompressed, zip64)>>

EntryAt(offset, e, method, compressed, uncompressed, zip64) ==
    [name |-> e.name, method |-> method, compressed |-> compressed,
     uncompressed |-> uncompressed, offset |-> offset, zip64 |-> zip64]

\* An entry that was written stands where it is remembered to be, with its
\* header, its bytes and its descriptor.
LEMMA WrittenStands ==
    ASSUME NEW at \in Seq(Cells), NEW e \in Entries,
           NEW method \in {"stored", "deflate"}, NEW compressed \in Nat,
           NEW uncompressed \in Nat, NEW zip64 \in BOOLEAN,
           NEW new, WrittenTo(new, at, e, method, compressed, uncompressed, zip64)
    PROVE  LET entry == EntryAt(Len(at), e, method, compressed, uncompressed, zip64)
           IN /\ entry \in Remembered
              /\ new \in Seq(Cells)
              /\ BeginsLike(new, at)
              /\ Stands(entry, new)
<1> DEFINE entry == EntryAt(Len(at), e, method, compressed, uncompressed, zip64)
<1> DEFINE h == LocalHeader(e, method, zip64)
           hs == <<h>>
           ds == [i \in 1..compressed |-> Data(e)]
           d == Descriptor(compressed, uncompressed, zip64)
           zs == <<d>>
           x == at \o hs
           y == x \o ds
<1>1. entry \in Remembered
  BY LenProperties DEF Entries, Remembered, EntryAt
<1>2. h \in Cells /\ h.record = "local" /\ h.name = e.name /\ h.method = method
  <2>1. e.size \in Nat /\ e.name \in Nat
    BY DEF Entries
  <2>2. (IF zip64 THEN <<e.size, 0>> ELSE <<>>) \in Seq(Nat)
    BY <2>1
  <2>. QED
    BY <2>1, <2>2 DEF LocalHeader, Cells
<1>3. h.extra # <<>> <=> zip64
  <2>1. <<e.size, 0>> # <<>>
    OBVIOUS
  <2>. QED
    BY <2>1 DEF LocalHeader
<1>4. Data(e) \in Cells /\ Data(e) = [record |-> "data", name |-> e.name]
  BY DEF Data, Cells, Entries
<1>5. d \in Cells
  BY DEF Descriptor, Cells
<1>6. hs \in Seq(Cells) /\ Len(hs) = 1 /\ hs[1] = h
  <2> HIDE DEF h
  <2>. QED
    BY <1>2
<1>7. zs \in Seq(Cells) /\ Len(zs) = 1 /\ zs[1] = d
  <2> HIDE DEF d
  <2>. QED
    BY <1>5
<1>8. ds \in Seq(Cells) /\ Len(ds) = compressed /\ \A i \in 1..compressed : ds[i] = Data(e)
  <2> DEFINE v == Data(e)
  <2>1. v \in Cells
    BY <1>4
  <2> HIDE DEF v
  <2>2. [i \in 1..compressed |-> v] \in Seq(Cells)
    BY <2>1
  <2>3. Len([i \in 1..compressed |-> v]) = compressed
    OBVIOUS
  <2>. QED
    BY <2>2, <2>3 DEF v
<1>9. ASSUME NEW s \in Seq(Cells), NEW t \in Seq(Cells)
      PROVE  /\ s \o t \in Seq(Cells)
             /\ Len(s \o t) = Len(s) + Len(t)
             /\ \A i \in 1..Len(s) : (s \o t)[i] = s[i]
             /\ \A i \in 1..Len(t) : (s \o t)[Len(s) + i] = t[i]
  <2> DEFINE C == Cells
  <2> HIDE DEF C
  <2>1. s \in Seq(C) /\ t \in Seq(C)
    BY DEF C
  <2>2. s \o t \in Seq(C)
    BY <2>1
  <2>3. /\ Len(s \o t) = Len(s) + Len(t)
        /\ \A i \in 1..Len(s) : (s \o t)[i] = s[i]
        /\ \A i \in 1..Len(t) : (s \o t)[Len(s) + i] = t[i]
    BY <2>1
  <2>. QED
    BY <2>2, <2>3 DEF C
<1> HIDE DEF hs, ds, zs, h, d
<1>10. /\ x \in Seq(Cells)
       /\ Len(x) = Len(at) + 1
       /\ \A i \in 1..Len(at) : x[i] = at[i]
       /\ x[Len(at) + 1] = h
  <2>1. /\ x \in Seq(Cells)
        /\ Len(x) = Len(at) + Len(hs)
        /\ \A i \in 1..Len(at) : x[i] = at[i]
        /\ \A i \in 1..Len(hs) : x[Len(at) + i] = hs[i]
    BY <1>6, <1>9
  <2> HIDE DEF x
  <2>. QED
    BY <1>6, <2>1
<1> HIDE DEF x
<1>11. /\ y \in Seq(Cells)
       /\ Len(y) = Len(x) + Len(ds)
       /\ \A i \in 1..Len(x) : y[i] = x[i]
       /\ \A i \in 1..Len(ds) : y[Len(x) + i] = ds[i]
  BY ONLY <1>8, <1>9, <1>10
<1> HIDE DEF y
<1>12. /\ new \in Seq(Cells)
       /\ Len(new) = Len(y) + Len(zs)
       /\ \A i \in 1..Len(y) : new[i] = y[i]
       /\ \A i \in 1..Len(zs) : new[Len(y) + i] = zs[i]
  <2>1. new = y \o zs
    BY Zenon DEF y, x, hs, ds, zs, h, d, WrittenTo
  <2>2. /\ y \o zs \in Seq(Cells)
        /\ Len(y \o zs) = Len(y) + Len(zs)
        /\ \A i \in 1..Len(y) : (y \o zs)[i] = y[i]
        /\ \A i \in 1..Len(zs) : (y \o zs)[Len(y) + i] = zs[i]
    BY ONLY <1>7, <1>9, <1>11
  <2>. QED
    BY ONLY <2>1, <2>2
<1> DEFINE o == Len(at)
<1>13. o \in Nat
  BY LenProperties
<1> HIDE DEF o
<1>14. Len(x) = o + 1 /\ Len(y) = o + 1 + compressed /\ Len(new) = o + compressed + 2
  BY <1>7, <1>8, <1>10, <1>11, <1>12, <1>13 DEF o
<1>15. BeginsLike(new, at)
  <2>1. \A i \in 1..o : new[i] = at[i]
    <3> TAKE i \in 1..o
    <3>1. i \in 1..Len(x) /\ i \in 1..Len(y)
      BY <1>13, <1>14
    <3>2. x[i] = at[i]
      BY <1>10 DEF o
    <3>. QED
      BY <1>11, <1>12, <3>1, <3>2
  <2>2. Len(new) \in Nat /\ o <= Len(new)
    BY <1>13, <1>14
  <2>. QED
    BY <1>13, <2>1, <2>2 DEF BeginsLike, o
<1>16. new[o + 1] = h
  <2>1. o + 1 \in 1..Len(x) /\ o + 1 \in 1..Len(y)
    BY <1>13, <1>14
  <2>2. x[o + 1] = h
    BY <1>10 DEF o
  <2>. QED
    BY <1>11, <1>12, <2>1, <2>2
<1>17. \A i \in 1..compressed : new[o + i + 1] = Data(e)
  <2> TAKE i \in 1..compressed
  <2> DEFINE k == o + i + 1
  <2>1. k \in 1..Len(y) /\ k = Len(x) + i /\ i \in 1..Len(ds)
    BY <1>8, <1>13, <1>14
  <2> HIDE DEF k
  <2>2. y[k] = ds[i]
    BY <1>11, <2>1
  <2>3. new[k] = y[k]
    BY <1>12, <2>1
  <2>4. ds[i] = Data(e)
    BY <1>8
  <2>. QED
    BY <2>2, <2>3, <2>4 DEF k
<1>18. new[o + compressed + 2] = d
  <2> DEFINE k == o + compressed + 2
  <2>1. k = Len(y) + 1 /\ 1 \in 1..Len(zs)
    BY <1>7, <1>13, <1>14
  <2> HIDE DEF k
  <2>2. new[k] = zs[1]
    BY <1>12, <2>1
  <2>. QED
    BY <1>7, <2>2 DEF k
<1>19. Stands(entry, new)
  <2>1. /\ entry.offset = o /\ entry.compressed = compressed
        /\ entry.name = e.name /\ entry.method = method
        /\ entry.uncompressed = uncompressed /\ entry.zip64 = zip64
    BY DEF o, EntryAt
  <2>2. d = [record |-> "descriptor", wide |-> zip64, compressed |-> compressed,
             uncompressed |-> uncompressed]
    BY DEF d, Descriptor
  <2>3. o + compressed + 2 <= Len(new)
    BY <1>13, <1>14
  <2>4. \A i \in 1..compressed : new[o + i + 1] = [record |-> "data", name |-> e.name]
    BY <1>4, <1>17
  <2> HIDE DEF d, entry
  <2>. QED
    BY <1>2, <1>3, <1>16, <1>18, <2>1, <2>2, <2>3, <2>4 DEF Stands
<1> HIDE DEF entry
<1>20. /\ entry \in Remembered
       /\ new \in Seq(Cells)
       /\ BeginsLike(new, at)
       /\ Stands(entry, new)
  BY <1>1, <1>12, <1>15, <1>19
<1>. QED
  BY <1>20 DEF entry

\* The sorted entries are all the entries.
LEMMA BeginEntries ==
    ASSUME inputs \in Seq(Entries), central = <<>>,
           NEW order \in Bijection(DOMAIN inputs, DOMAIN inputs),
           waiting' = [i \in DOMAIN inputs |-> inputs[order[i]]],
           inputs' = inputs, central' = central
    PROVE  EveryEntry'
<1> DEFINE D == DOMAIN inputs
<1>1. D = 1..Len(inputs) /\ Len(inputs) \in Nat
  OBVIOUS
<1>2. \A i \in D : inputs[i] \in Entries
  OBVIOUS
<1>3. order \in [D -> D] /\ \A j \in D : \E i \in D : order[i] = j
  BY DEF Bijection, Surjection, Injection
<1> HIDE DEF D
<1>4. waiting' = [i \in D |-> inputs[order[i]]]
  BY DEF D
<1>5. \A i \in D : order[i] \in D /\ waiting'[i] = inputs[order[i]]
  BY <1>3, <1>4
<1>6. waiting' \in Seq(Entries) /\ Len(waiting') = Len(inputs) /\ DOMAIN waiting' = D
  <2>1. waiting' \in [D -> Entries]
    BY <1>2, <1>3, <1>4
  <2>2. waiting' \in [1..Len(inputs) -> Entries]
    BY <1>1, <2>1
  <2> DEFINE n == Len(inputs)
             E == Entries
             ws == waiting'
  <2>3. n \in Nat /\ ws \in [1..n -> E]
    BY <1>1, <2>2
  <2> HIDE DEF n, E, ws
  <2>4. ws \in Seq(E) /\ Len(ws) = n /\ DOMAIN ws = 1..n
    BY <2>3
  <2>. QED
    BY <1>1, <2>4 DEF n, E, ws
<1>7. central' = <<>> /\ central' \in Seq(Remembered) /\ Len(central') = 0 /\ DOMAIN central' = {}
  <2>1. <<>> \in Seq(Remembered) /\ Len(<<>>) = 0 /\ DOMAIN <<>> = {}
    OBVIOUS
  <2>. QED
    BY <2>1
<1>8. Len(central') + Len(waiting') = Len(inputs')
  BY <1>1, <1>6, <1>7
<1>9. \A i \in DOMAIN waiting' : \E j \in DOMAIN inputs' : waiting'[i] = inputs'[j]
  BY <1>5, <1>6 DEF D
<1>10. \A j \in DOMAIN inputs' : \E i \in DOMAIN waiting' : waiting'[i] = inputs'[j]
  <2> TAKE j \in DOMAIN inputs'
  <2>1. j \in D
    BY DEF D
  <2>2. PICK i \in D : order[i] = j
    BY <1>3, <2>1
  <2>3. i \in DOMAIN waiting' /\ waiting'[i] = inputs'[j]
    BY <1>5, <1>6, <2>2
  <2>. QED
    BY <2>3
<1>. QED
  BY <1>6, <1>7, <1>8, <1>9, <1>10 DEF EveryEntry

\* An entry that is written is remembered, and the others wait on.
LEMMA WriteEntries ==
    ASSUME EveryEntry, waiting # <<>>, inputs \in Seq(Entries),
           NEW entry \in Remembered, entry.name = waiting[1].name,
           waiting' = Tail(waiting), central' = Append(central, entry),
           inputs' = inputs
    PROVE  EveryEntry'
<1> DEFINE W == waiting
           V == waiting'
           C == central
           B == central'
<1>1. W \in Seq(Entries) /\ C \in Seq(Remembered)
  BY DEF EveryEntry
<1>2. /\ V \in Seq(Entries)
      /\ Len(V) = Len(W) - 1
      /\ \A i \in 1..Len(V) : V[i] = W[i + 1]
      /\ Len(W) \in Nat \ {0}
  <2> DEFINE E == Entries
  <2>1. W \in Seq(E) /\ W # <<>> /\ V = Tail(W)
    BY <1>1
  <2> HIDE DEF E, W, V
  <2>2. /\ Tail(W) \in Seq(E)
        /\ Len(Tail(W)) = Len(W) - 1
        /\ \A i \in 1..Len(Tail(W)) : Tail(W)[i] = W[i + 1]
        /\ Len(W) \in Nat \ {0}
    BY <2>1
  <2>. QED
    BY ONLY <2>1, <2>2 DEF E
<1>3. /\ B \in Seq(Remembered)
      /\ Len(B) = Len(C) + 1
      /\ \A i \in 1..Len(C) : B[i] = C[i]
      /\ B[Len(C) + 1] = entry
      /\ Len(C) \in Nat
  <2> DEFINE R == Remembered
  <2>1. C \in Seq(R) /\ entry \in R /\ B = Append(C, entry)
    BY <1>1
  <2> HIDE DEF R, B, C
  <2>2. /\ Append(C, entry) \in Seq(R)
        /\ Len(Append(C, entry)) = Len(C) + 1
        /\ \A i \in 1..Len(C) : Append(C, entry)[i] = C[i]
        /\ Append(C, entry)[Len(C) + 1] = entry
        /\ Len(C) \in Nat
    BY <2>1
  <2>. QED
    BY ONLY <2>1, <2>2 DEF R
<1>4. /\ DOMAIN W = 1..Len(W) /\ DOMAIN V = 1..Len(V)
      /\ DOMAIN C = 1..Len(C) /\ DOMAIN B = 1..Len(B)
  <2>1. ASSUME NEW S, NEW s \in Seq(S) PROVE DOMAIN s = 1..Len(s)
    OBVIOUS
  <2> HIDE DEF W, V, C, B
  <2>. QED
    BY <1>1, <1>2, <1>3, <2>1
<1>5. /\ Len(C) + Len(W) = Len(inputs)
      /\ \A i \in DOMAIN C : \E j \in DOMAIN inputs : C[i].name = inputs[j].name
      /\ \A i \in DOMAIN W : \E j \in DOMAIN inputs : W[i] = inputs[j]
      /\ \A j \in DOMAIN inputs :
            \/ \E i \in DOMAIN C : C[i].name = inputs[j].name
            \/ \E i \in DOMAIN W : W[i] = inputs[j]
  BY DEF EveryEntry
<1>6. entry.name = W[1].name
  OBVIOUS
<1> HIDE DEF W, V, C, B
<1>7. Len(B) + Len(V) = Len(inputs)
  <2>1. Len(C) + Len(W) = Len(inputs)
    BY <1>5
  <2>2. Len(B) = Len(C) + 1 /\ Len(V) = Len(W) - 1 /\ Len(C) \in Nat /\ Len(W) \in Nat
    BY <1>2, <1>3
  <2>. QED
    BY ONLY <2>1, <2>2
<1>8. \A i \in DOMAIN B : \E j \in DOMAIN inputs : B[i].name = inputs[j].name
  <2> TAKE i \in DOMAIN B
  <2>1. CASE i \in 1..Len(C)
    BY <1>3, <1>4, <1>5, <2>1
  <2>2. CASE i = Len(C) + 1
    <3>1. 1 \in DOMAIN W
      BY <1>2, <1>4
    <3>2. PICK j \in DOMAIN inputs : W[1] = inputs[j]
      BY <1>5, <3>1
    <3>. QED
      BY <1>3, <1>6, <2>2, <3>2
  <2>. QED
    BY <1>3, <1>4, <2>1, <2>2
<1>9. \A i \in DOMAIN V : \E j \in DOMAIN inputs : V[i] = inputs[j]
  <2> TAKE i \in DOMAIN V
  <2>1. i \in 1..Len(V) /\ i + 1 \in DOMAIN W
    BY <1>2, <1>4
  <2>2. V[i] = W[i + 1]
    BY <1>2, <2>1
  <2>3. PICK j \in DOMAIN inputs : W[i + 1] = inputs[j]
    BY <1>5, <2>1
  <2>. QED
    BY <2>2, <2>3
<1>10. \A j \in DOMAIN inputs :
          \/ \E i \in DOMAIN B : B[i].name = inputs[j].name
          \/ \E i \in DOMAIN V : V[i] = inputs[j]
  <2> TAKE j \in DOMAIN inputs
  <2>1. CASE \E i \in DOMAIN C : C[i].name = inputs[j].name
    <3>1. PICK i \in DOMAIN C : C[i].name = inputs[j].name
      BY <2>1
    <3>2. i \in DOMAIN B /\ B[i] = C[i]
      BY <1>3, <1>4
    <3>. QED
      BY <3>1, <3>2
  <2>2. CASE \E i \in DOMAIN W : W[i] = inputs[j]
    <3>1. PICK i \in DOMAIN W : W[i] = inputs[j]
      BY <2>2
    <3>2. CASE i = 1
      <4>1. Len(C) + 1 \in DOMAIN B
        BY <1>3, <1>4
      <4>2. B[Len(C) + 1].name = inputs[j].name
        BY <1>3, <1>6, <3>1, <3>2
      <4>. QED
        BY <4>1, <4>2
    <3>3. CASE i # 1
      <4> DEFINE k == i - 1
      <4>1. k \in 1..Len(V) /\ k + 1 = i
        BY <1>2, <1>4, <3>3
      <4> HIDE DEF k
      <4>2. V[k] = inputs[j]
        BY <1>2, <3>1, <4>1
      <4>. QED
        BY <1>4, <4>1, <4>2
    <3>. QED
      BY <3>2, <3>3
  <2>. QED
    BY <1>5, <2>1, <2>2
<1>11. waiting' \in Seq(Entries) /\ central' \in Seq(Remembered)
  BY <1>2, <1>3 DEF B, V
<1>12. Len(central') + Len(waiting') = Len(inputs')
  BY <1>7 DEF B, V
<1>13. \A i \in DOMAIN central' : \E j \in DOMAIN inputs' : central'[i].name = inputs'[j].name
  BY <1>8 DEF B
<1>14. \A i \in DOMAIN waiting' : \E j \in DOMAIN inputs' : waiting'[i] = inputs'[j]
  BY <1>9 DEF V
<1>15. \A j \in DOMAIN inputs' :
          \/ \E i \in DOMAIN central' : central'[i].name = inputs'[j].name
          \/ \E i \in DOMAIN waiting' : waiting'[i] = inputs'[j]
  BY <1>10 DEF B, V
<1>. QED
  BY <1>11, <1>12, <1>13, <1>14, <1>15 DEF EveryEntry

\* An entry is written in full, or refused for a
\* file that has grown.
LEMMA WriteStep ==
    ASSUME inputs \in Seq(Entries), EveryEntry, archive \in Seq(Cells),
           Filled(Len(archive)), zipping = "writing", waiting # <<>>,
           NEW method \in {"stored", "deflate"}, NEW compressed \in Nat,
           NEW uncompressed \in Nat, NEW zip64 \in BOOLEAN,
           WriteEntry(Upcoming, method, compressed, uncompressed, zip64),
           \/ zip64
           \/ compressed <= Max32 /\ uncompressed <= Max32
           \/ uncompressed > Upcoming.size
    PROVE  ZipInv'
<1> DEFINE e == Upcoming
           fits == zip64 \/ (compressed <= Max32 /\ uncompressed <= Max32)
           entry == EntryAt(Len(archive), e, method, compressed, uncompressed, zip64)
<1>1. e \in Entries /\ e = waiting[1]
  <2> DEFINE E == Entries
             W == waiting
  <2>1. W \in Seq(E) /\ W # <<>>
    BY DEF EveryEntry
  <2> HIDE DEF E, W
  <2>2. W[1] \in E
    BY <2>1
  <2>. QED
    BY <2>2 DEF E, W, Upcoming
<1>2. inputs' = inputs /\ waiting' = Tail(waiting)
  BY DEF WriteEntry
<1>3. CASE fits
  <2>1. /\ WrittenTo(archive', archive, e, method, compressed, uncompressed, zip64)
        /\ central' = Append(central, entry)
        /\ zipping' = zipping
    BY <1>3 DEF WriteEntry, WrittenTo, EntryAt
  <2> HIDE DEF e
  <2>2. /\ entry \in Remembered
        /\ archive' \in Seq(Cells)
        /\ BeginsLike(archive', archive)
        /\ Stands(entry, archive')
    BY <1>1, <2>1, WrittenStands
  <2>3. entry.name = waiting[1].name
    BY <1>1 DEF EntryAt
  <2> HIDE DEF entry
  <2>4. EveryEntry'
    BY ONLY EveryEntry, waiting # <<>>, inputs \in Seq(Entries), <1>2, <2>1, <2>2, <2>3,
       WriteEntries, Zenon
  <2>5. \A i \in 1..Len(archive') : archive'[i] \in Cells
    <3> DEFINE s == archive'
               S == Cells
    <3>1. s \in Seq(S)
      BY <2>2
    <3> HIDE DEF s, S
    <3>2. \A i \in 1..Len(s) : s[i] \in S
      BY <3>1
    <3>. QED
      BY <3>2 DEF s, S
  <2>6. \A i \in DOMAIN central' : Stands(central'[i], archive')
    <3> DEFINE C == central
               R == Remembered
    <3>1. C \in Seq(R) /\ entry \in R /\ central' = Append(C, entry)
      BY <2>1, <2>2 DEF EveryEntry
    <3> HIDE DEF C, R
    <3>2. /\ DOMAIN Append(C, entry) = 1..(Len(C) + 1)
          /\ \A i \in 1..Len(C) : Append(C, entry)[i] = C[i] /\ C[i] \in R
          /\ Append(C, entry)[Len(C) + 1] = entry
          /\ Len(C) \in Nat
          /\ DOMAIN C = 1..Len(C)
      BY <3>1
    <3>3. ASSUME NEW i \in 1..Len(C) PROVE Stands(C[i], archive')
      <4>1. Stands(C[i], archive)
        BY <3>2 DEF Filled, C
      <4>2. C[i] \in Remembered
        BY <3>2 DEF R
      <4>. QED
        BY <2>2, <4>1, <4>2, StandsGrows
    <3> TAKE i \in DOMAIN central'
    <3>4. i \in 1..(Len(C) + 1)
      BY <3>1, <3>2
    <3>5. CASE i \in 1..Len(C)
      <4>1. central'[i] = C[i]
        BY <3>1, <3>2, <3>5
      <4>. QED
        BY <3>3, <3>5, <4>1
    <3>6. CASE i = Len(C) + 1
      <4>1. central'[i] = entry
        BY <3>1, <3>2, <3>6
      <4>. QED
        BY <2>2, <4>1
    <3>. QED
      BY <3>2, <3>4, <3>5, <3>6
  <2>7. Filled(Len(archive))'
    BY <2>5, <2>6 DEF Filled
  <2>8. zipping' = "writing" /\ inputs' \in Seq(Entries)
    BY <1>2, <2>1
  <2>. QED
    BY <2>2, <2>4, <2>7, <2>8 DEF ZipInv
<1>4. CASE ~ fits
  <2>1. zipping' = "requires Zip64"
    BY <1>4 DEF WriteEntry
  <2>2. grown' = grown \union {e.name}
    BY <1>4 DEF WriteEntry
  <2>3. grown' # {}
    BY <2>2
  <2>. QED
    BY <1>2, <2>1, <2>3 DEF ZipInv
<1>. QED
  BY <1>3, <1>4

------------------------------------------------------------------------------
(* The directory and the records after it. *)

\* The records after the directory, one by one.
EndsWide(start) ==
    \/ \E i \in 1..Len(central) : central[i].zip64
    \/ Len(central) > Max16
    \/ start > Max32
    \/ Len(central) > Max32
WideEnd(start) == [record |-> "zip64 end", count |-> Len(central), start |-> start]
Locator(start) == [record |-> "locator", at |-> start + Len(central)]
ShortEnd(start) ==
    [record |-> "end", count |-> IF Len(central) > Max16 THEN Max16 ELSE Len(central),
     start |-> Field(start)]

\* The last records are those of Zip64, if it is needed, and the short one.
LEMMA LastRecords ==
    ASSUME NEW start, central \in Seq(Remembered)
    PROVE  EndRecords(start, CentralRecords) =
             IF EndsWide(start)
             THEN <<WideEnd(start), Locator(start), ShortEnd(start)>>
             ELSE <<ShortEnd(start)>>
<1>1. Len(CentralRecords) = Len(central)
  <2> DEFINE n == Len(central)
  <2>1. n \in Nat /\ DOMAIN central = 1..n
    OBVIOUS
  <2>2. CentralRecords = [i \in 1..n |-> CentralRecord(central[i])]
    BY <2>1 DEF CentralRecords
  <2> HIDE DEF n
  <2>3. Len([i \in 1..n |-> CentralRecord(central[i])]) = n
    BY <2>1
  <2>. QED
    BY <2>2, <2>3 DEF n
<1> DEFINE a == WideEnd(start)
           b == Locator(start)
           c == ShortEnd(start)
<1>2. EndRecords(start, CentralRecords) =
        (IF EndsWide(start) THEN <<a, b>> ELSE <<>>) \o <<c>>
  <2> DEFINE k == Len(CentralRecords)
  <2>1. k = Len(central)
    BY <1>1
  <2>2. EndRecords(start, CentralRecords) =
          LET zip64 == \/ \E i \in 1..k : central[i].zip64
                       \/ k > Max16
                       \/ start > Max32
                       \/ k > Max32
          IN (IF zip64
              THEN <<[record |-> "zip64 end", count |-> k, start |-> start],
                     [record |-> "locator", at |-> start + k]>>
              ELSE <<>>)
             \o <<[record |-> "end", count |-> IF k > Max16 THEN Max16 ELSE k,
                   start |-> Field(start)]>>
    BY DEF EndRecords
  <2> HIDE DEF k
  <2>. QED
    BY <2>1, <2>2, Zenon DEF EndsWide, WideEnd, Locator, ShortEnd
<1> HIDE DEF a, b, c
<1>3. <<a, b>> \o <<c>> = <<a, b, c>>
  <2> DEFINE S == {a, b, c}
             s == <<a, b>>
             t == <<c>>
  <2>1. s \in Seq(S) /\ t \in Seq(S) /\ <<a, b, c>> \in Seq(S)
    OBVIOUS
  <2>2. Len(s) = 2 /\ s[1] = a /\ s[2] = b /\ Len(t) = 1 /\ t[1] = c
    OBVIOUS
  <2> HIDE DEF S, s, t
  <2>3. s \o t \in Seq(S) /\ Len(s \o t) = Len(<<a, b, c>>)
    <3>1. s \in Seq(S) /\ t \in Seq(S)
      BY <2>1
    <3>2. s \o t \in Seq(S) /\ Len(s \o t) = Len(s) + Len(t)
      BY ONLY <3>1
    <3>3. Len(<<a, b, c>>) = 3
      OBVIOUS
    <3>. QED
      BY <2>2, <3>2, <3>3
  <2>4. /\ \A i \in 1..Len(s) : (s \o t)[i] = s[i]
        /\ \A i \in 1..Len(t) : (s \o t)[Len(s) + i] = t[i]
    <3>1. s \in Seq(S) /\ t \in Seq(S)
      BY <2>1
    <3>. QED
      BY ONLY <3>1
  <2>5. \A i \in 1..Len(s \o t) : (s \o t)[i] = <<a, b, c>>[i]
    <3>1. (s \o t)[1] = a /\ (s \o t)[2] = b
      <4>1. 1 \in 1..Len(s) /\ 2 \in 1..Len(s)
        BY <2>2
      <4>. QED
        BY <2>2, <2>4, <4>1
    <3>2. (s \o t)[3] = c
      <4>1. Len(s) + 1 = 3 /\ 1 \in 1..Len(t)
        BY <2>2
      <4>2. (s \o t)[Len(s) + 1] = t[1]
        BY <2>4, <4>1
      <4>. QED
        BY <2>2, <4>1, <4>2
    <3>3. \A i \in 1..Len(s \o t) : i \in {1, 2, 3}
      BY <2>3
    <3> DEFINE f == s \o t
               g == <<a, b, c>>
    <3>4. g[1] = a /\ g[2] = b /\ g[3] = c
      OBVIOUS
    <3> HIDE DEF f, g
    <3>5. \A i \in {1, 2, 3} : f[i] = g[i]
      BY <3>1, <3>2, <3>4 DEF f
    <3>. QED
      BY <3>3, <3>5 DEF f, g
  <2>6. s \o t = <<a, b, c>>
    BY <2>1, <2>3, <2>5, SeqEqual
  <2>. QED
    BY <2>6 DEF s, t
<1>4. <<>> \o <<c>> = <<c>>
  <2> DEFINE S == {c}
             t == <<c>>
  <2>1. t \in Seq(S)
    OBVIOUS
  <2> HIDE DEF S, t
  <2>2. <<>> \o t = t
    BY <2>1, ConcatEmptySeq
  <2>. QED
    BY <2>2 DEF t
<1>. QED
  BY <1>2, <1>3, <1>4, Zenon DEF a, b, c

\* An archive that is finished is the one written so far with its directory.
LEMMA FinishStep ==
    ASSUME inputs \in Seq(Entries), EveryEntry, archive \in Seq(Cells),
           Filled(Len(archive)), FinishArchive
    PROVE  ZipInv'
<1>0. PICK start : start = Len(archive)
  OBVIOUS
<1> DEFINE n == Len(central)
           last == EndRecords(start, CentralRecords)
           a == WideEnd(start)
           b == Locator(start)
           c == ShortEnd(start)
           S == Cells \cup {CentralRecord(central[i]) : i \in 1..n} \cup {a, b, c}
<1>1. central \in Seq(Remembered) /\ n \in Nat /\ DOMAIN central = 1..n
  BY DEF EveryEntry
<1>2. /\ waiting = <<>>
      /\ archive' = (archive \o CentralRecords) \o last
      /\ zipping' = "done"
      /\ inputs' = inputs /\ waiting' = waiting /\ central' = central
  <2>1. waiting = <<>> /\ zipping' = "done"
    BY DEF FinishArchive
  <2>2. inputs' = inputs /\ waiting' = waiting /\ central' = central
    BY DEF FinishArchive
  <2>3. archive' = (archive \o CentralRecords) \o last
    BY <1>0, Zenon DEF FinishArchive, CentralRecords
  <2>. QED
    BY <2>1, <2>2, <2>3
<1>3. last = IF EndsWide(start) THEN <<a, b, c>> ELSE <<c>>
  BY <1>1, LastRecords
<1>4. archive \in Seq(S)
  <2> DEFINE C == Cells
             T == S
  <2>1. archive \in Seq(C) /\ C \subseteq T
    OBVIOUS
  <2> HIDE DEF C, T
  <2>2. archive \in Seq(T)
    BY <2>1
  <2>. QED
    BY <2>2 DEF T
<1>5. /\ CentralRecords \in Seq(S)
      /\ Len(CentralRecords) = n
      /\ \A i \in 1..n : CentralRecords[i] = CentralRecord(central[i])
  <2>1. CentralRecords = [i \in 1..n |-> CentralRecord(central[i])]
    BY <1>1 DEF CentralRecords
  <2>2. \A i \in 1..n : CentralRecord(central[i]) \in S
    OBVIOUS
  <2> HIDE DEF S, n
  <2>3. [i \in 1..n |-> CentralRecord(central[i])] \in Seq(S)
    BY <1>1, <2>2
  <2>4. Len([i \in 1..n |-> CentralRecord(central[i])]) = n
    BY <1>1
  <2>. QED
    BY <2>1, <2>3, <2>4
<1>6. a \in S /\ b \in S /\ c \in S
  OBVIOUS
<1> HIDE DEF a, b, c, S
<1>7. last \in Seq(S)
  <2>1. <<a, b, c>> \in Seq(S) /\ <<c>> \in Seq(S)
    BY <1>6
  <2> HIDE DEF last
  <2>. QED
    BY <1>3, <2>1
<1>8. ASSUME NEW s \in Seq(S), NEW t \in Seq(S)
      PROVE  /\ s \o t \in Seq(S)
             /\ DOMAIN (s \o t) = 1..Len(s \o t)
             /\ Len(s \o t) = Len(s) + Len(t)
             /\ \A i \in 1..Len(s) : (s \o t)[i] = s[i]
             /\ \A i \in 1..Len(t) : (s \o t)[Len(s) + i] = t[i]
             /\ Len(s) \in Nat /\ Len(t) \in Nat
  OBVIOUS
<1> DEFINE x == archive \o CentralRecords
<1> HIDE DEF last
<1>9. /\ x \in Seq(S)
      /\ Len(x) = Len(archive) + Len(CentralRecords)
      /\ \A i \in 1..Len(archive) : x[i] = archive[i]
      /\ \A i \in 1..Len(CentralRecords) : x[Len(archive) + i] = CentralRecords[i]
      /\ Len(archive) \in Nat
  BY ONLY <1>4, <1>5, <1>8
<1> HIDE DEF x
<1>10. /\ DOMAIN archive' = 1..Len(archive')
       /\ Len(archive') = Len(x) + Len(last)
       /\ \A i \in 1..Len(x) : archive'[i] = x[i]
       /\ \A i \in 1..Len(last) : archive'[Len(x) + i] = last[i]
       /\ Len(last) \in Nat
  <2>1. archive' = x \o last
    BY <1>2 DEF x
  <2>2. /\ DOMAIN (x \o last) = 1..Len(x \o last)
        /\ Len(x \o last) = Len(x) + Len(last)
        /\ \A i \in 1..Len(x) : (x \o last)[i] = x[i]
        /\ \A i \in 1..Len(last) : (x \o last)[Len(x) + i] = last[i]
        /\ Len(last) \in Nat
    BY ONLY <1>7, <1>8, <1>9
  <2>. QED
    BY ONLY <2>1, <2>2
<1> HIDE DEF n
<1>11. /\ start \in Nat /\ n \in Nat
       /\ Len(x) = start + n
       /\ Len(archive') = start + n + Len(last)
  BY <1>0, <1>1, <1>5, <1>9, <1>10
<1>12. BeginsLike(archive', archive)
  <2>1. \A i \in 1..start : archive'[i] = archive[i]
    <3> TAKE i \in 1..start
    <3>1. i \in 1..Len(x)
      BY <1>11
    <3>. QED
      BY <1>0, <1>9, <1>10, <3>1
  <2>2. start <= Len(archive') /\ Len(archive') \in Nat
    BY <1>10, <1>11
  <2>. QED
    BY <1>0, <1>11, <2>1, <2>2 DEF BeginsLike
<1>13. \A i \in 1..start : archive'[i] \in Cells
  <2>1. \A i \in 1..start : archive[i] \in Cells
    BY <1>0 DEF Filled
  <2>. QED
    BY <1>0, <1>12, <2>1 DEF BeginsLike
<1>14. \A i \in DOMAIN central' : Stands(central'[i], archive')
  <2> TAKE i \in DOMAIN central'
  <2>1. central'[i] = central[i] /\ i \in DOMAIN central
    BY <1>2
  <2>2. Stands(central[i], archive)
    BY <2>1 DEF Filled
  <2>3. central[i] \in Remembered
    BY <1>1, <2>1
  <2>. QED
    BY <1>12, <2>1, <2>2, <2>3, StandsGrows
<1>15. \A i \in 1..n : archive'[start + i] = CentralRecord(central[i])
  <2> TAKE i \in 1..n
  <2> DEFINE k == start + i
  <2>1. k \in 1..Len(x) /\ k = Len(archive) + i /\ i \in 1..Len(CentralRecords)
    BY <1>0, <1>5, <1>11
  <2> HIDE DEF k
  <2>2. archive'[k] = x[k] /\ x[k] = CentralRecords[i]
    BY <1>9, <1>10, <2>1
  <2>3. CentralRecords[i] = CentralRecord(central[i])
    BY <1>5
  <2>. QED
    BY <2>2, <2>3 DEF k
<1>16. \A i \in 1..Len(last) : archive'[start + n + i] = last[i]
  BY <1>10, <1>11
<1>17. EveryEntry'
  BY <1>2 DEF EveryEntry
<1>18. Filled(start)'
  BY <1>13, <1>14 DEF Filled
<1>19. EndRecords(start, CentralRecords)' = last
  <2>1. CentralRecords' = CentralRecords
    BY <1>2 DEF CentralRecords
  <2>. QED
    BY <1>2, <2>1 DEF last, EndRecords
<1>20. Len(archive') = start + Len(central') + Len(EndRecords(start, CentralRecords)')
  BY <1>2, <1>11, <1>19 DEF n
<1>21. \A i \in 1..Len(central') : archive'[start + i] = CentralRecord(central'[i])
  BY <1>2, <1>15 DEF n
<1>22. \A i \in 1..Len(EndRecords(start, CentralRecords)') :
          archive'[start + Len(central') + i] = EndRecords(start, CentralRecords)'[i]
  BY <1>2, <1>16, <1>19 DEF n
<1>23. FinishedFrom(start)'
  <2>1. waiting' = <<>>
    BY <1>2
  <2>. QED
    BY <1>10, <1>18, <1>20, <1>21, <1>22, <2>1 DEF FinishedFrom
<1>24. start \in 0..Len(archive')
  BY <1>10, <1>11
<1>25. \E s \in 0..Len(archive') : FinishedFrom(s)'
  BY <1>23, <1>24
<1>. QED
  BY <1>2, <1>17, <1>25 DEF ZipInv

------------------------------------------------------------------------------
(* The invariant in every step. *)

\* The invariant holds at first.
LEMMA ZipInvInit == ASSUME ZipInit PROVE ZipInv
<1>1. inputs \in Seq(Entries)
  BY ZipAssumption DEF ZipInit, Entries
<1>. QED
  BY <1>1 DEF ZipInit, ZipInv

\* And in every step.
LEMMA ZipInvNext == ASSUME ZipInv, [ZipNext]_zipWriter PROVE ZipInv'
<1>0. /\ Max32 \in Nat \ {0} /\ NearMax32 \in Nat /\ NearMax32 <= Max32
      /\ FileSizes \subseteq Nat /\ LinkSizes \subseteq Nat
  BY ZipAssumption
<1>a. ASSUME zipping = "writing"
      PROVE  /\ inputs \in Seq(Entries) /\ EveryEntry /\ archive \in Seq(Cells)
             /\ Filled(Len(archive))
  BY <1>a DEF ZipInv
<1>b. ASSUME EveryEntry, waiting # <<>> PROVE Upcoming \in Entries
  <2> DEFINE E == Entries
             W == waiting
  <2>1. W \in Seq(E) /\ W # <<>>
    BY <1>b DEF EveryEntry
  <2> HIDE DEF E, W
  <2>2. W[1] \in E
    BY <2>1
  <2>. QED
    BY <2>2 DEF E, W, Upcoming
<1>1. CASE Begin
  <2>1. zipping = "starting" /\ central = <<>> /\ inputs \in Seq(Entries)
    BY <1>1 DEF Begin, ZipInv
  <2>2. inputs' = inputs /\ archive' = archive /\ central' = central /\ archive = <<>>
    BY <1>1, <2>1 DEF Begin, ZipInv
  <2>3. CASE zipping' = "duplicate path"
    BY <2>1, <2>2, <2>3 DEF ZipInv
  <2>4. CASE zipping' # "duplicate path"
    <3>1. zipping' = "writing"
      BY <1>1, <2>4 DEF Begin
    <3>2. PICK order \in Bijection(DOMAIN inputs, DOMAIN inputs) :
               waiting' = [i \in DOMAIN inputs |-> inputs[order[i]]]
      BY <1>1, <2>4 DEF Begin
    <3>3. EveryEntry'
      BY <2>1, <2>2, <3>2, BeginEntries
    <3>4. archive' \in Seq(Cells) /\ Len(archive') = 0 /\ central' = <<>>
      <4>1. <<>> \in Seq(Cells) /\ Len(<<>>) = 0
        OBVIOUS
      <4>. QED
        BY <2>1, <2>2, <4>1
    <3>5. Filled(Len(archive))'
      <4>1. DOMAIN central' = {}
        BY <3>4
      <4>. QED
        BY <3>4, <4>1 DEF Filled
    <3>. QED
      BY <2>1, <2>2, <3>1, <3>3, <3>4, <3>5 DEF ZipInv
  <2>. QED
    BY <2>3, <2>4
<1>2. CASE WriteLarge
  <2>1. zipping = "writing" /\ waiting # <<>>
    BY <1>2 DEF WriteLarge
  <2>2a. PICK size \in FileSizes :
             \E coded \in CodedLengths(size) :
               WriteEntry(Upcoming, "deflate", coded, size, NeedsZip64(Upcoming.size))
    BY <1>2 DEF WriteLarge
  <2>2. PICK coded \in CodedLengths(size) :
             WriteEntry(Upcoming, "deflate", coded, size, NeedsZip64(Upcoming.size))
    BY <2>2a
  <2>3. size \in Nat /\ coded \in Nat /\ Upcoming.size \in Nat
    BY <1>0, <1>a, <1>b, <2>1 DEF CodedLengths, Entries
  <2>4. NeedsZip64(Upcoming.size) \in BOOLEAN
    BY DEF NeedsZip64
  <2>5. \/ NeedsZip64(Upcoming.size)
        \/ coded <= Max32 /\ size <= Max32
        \/ size > Upcoming.size
    BY <1>0, <2>3 DEF NeedsZip64, CodedLengths
  <2>. QED
    BY <1>a, <2>1, <2>2, <2>3, <2>4, <2>5, WriteStep
<1>3. CASE WritePrepared
  <2>1. zipping = "writing" /\ waiting # <<>>
    BY <1>3 DEF WritePrepared
  <2>2. Upcoming.kind \in {"file", "dir", "link"}
    BY <1>a, <1>b, <2>1 DEF Entries
  <2>3. \A size : NeedsZip64(size) \in BOOLEAN
    BY DEF NeedsZip64
  <2>4. \A size \in Nat : NeedsZip64(size) \/ size <= Max32
    BY <1>0 DEF NeedsZip64
  <2>5. CASE Upcoming.kind \in {"dir", "link"}
    <3>1. PICK size \in LinkSizes \cup {0} :
               WriteEntry(Upcoming, "stored", size, size, NeedsZip64(size))
      BY <1>3, <2>5 DEF WritePrepared
    <3>2. size \in Nat
      BY <1>0
    <3>. QED
      BY <1>a, <2>1, <2>3, <2>4, <3>1, <3>2, WriteStep
  <2>6. CASE Upcoming.kind = "file"
    <3>1a. PICK size \in FileSizes :
               \E coded \in CodedLengths(size) :
                 IF coded < size
                 THEN WriteEntry(Upcoming, "deflate", coded, size, NeedsZip64(size))
                 ELSE WriteEntry(Upcoming, "stored", size, size, NeedsZip64(size))
      BY <1>3, <2>6 DEF WritePrepared
    <3>1. PICK coded \in CodedLengths(size) :
               IF coded < size
               THEN WriteEntry(Upcoming, "deflate", coded, size, NeedsZip64(size))
               ELSE WriteEntry(Upcoming, "stored", size, size, NeedsZip64(size))
      BY <3>1a
    <3>2. size \in Nat /\ coded \in Nat
      BY <1>0 DEF CodedLengths
    <3>3. CASE coded < size
      <4>1. WriteEntry(Upcoming, "deflate", coded, size, NeedsZip64(size))
        BY <3>1, <3>3
      <4>2. NeedsZip64(size) \/ (coded <= Max32 /\ size <= Max32)
        BY <1>0, <2>4, <3>2, <3>3
      <4>. QED
        BY <1>a, <2>1, <2>3, <3>2, <4>1, <4>2, WriteStep
    <3>4. CASE ~ coded < size
      <4>1. WriteEntry(Upcoming, "stored", size, size, NeedsZip64(size))
        BY <3>1, <3>4
      <4>. QED
        BY <1>a, <2>1, <2>3, <2>4, <3>2, <4>1, WriteStep
    <3>. QED
      BY <3>3, <3>4
  <2>. QED
    BY <2>2, <2>5, <2>6
<1>4. CASE ZipFails
  BY <1>4 DEF ZipFails, ZipInv
<1>5. CASE FinishArchive
  BY <1>5, <1>a, FinishStep DEF FinishArchive
<1>6. CASE UNCHANGED zipWriter
  <2>1. /\ inputs' = inputs /\ waiting' = waiting /\ archive' = archive
        /\ central' = central /\ grown' = grown /\ zipping' = zipping
    BY <1>6 DEF zipWriter
  <2>2. EveryEntry' <=> EveryEntry
    BY <2>1 DEF EveryEntry
  <2>3. Filled(Len(archive))' <=> Filled(Len(archive))
    BY <2>1 DEF Filled
  <2>4. ASSUME NEW s, FinishedFrom(s) PROVE FinishedFrom(s)'
    <3>1. Filled(s)' <=> Filled(s)
      BY <2>1 DEF Filled
    <3>2. CentralRecords' = CentralRecords
      BY <2>1 DEF CentralRecords
    <3>3. EndRecords(s, CentralRecords)' = EndRecords(s, CentralRecords)
      BY <2>1, <3>2 DEF EndRecords
    <3>. QED
      BY <2>1, <2>4, <3>1, <3>3 DEF FinishedFrom
  <2>5. zipping = "done" => \E s \in 0..Len(archive') : FinishedFrom(s)'
    <3>1. zipping = "done" => \E s \in 0..Len(archive) : FinishedFrom(s)
      BY DEF ZipInv
    <3>. QED
      BY <2>1, <2>4, <3>1
  <2>. QED
    BY <2>1, <2>2, <2>3, <2>5 DEF ZipInv
<1>. QED
  BY <1>1, <1>2, <1>3, <1>4, <1>5, <1>6 DEF ZipNext

\* What is remembered of every entry, in every state.
LEMMA ZipInvHolds == ZipSpec => []ZipInv
<1>1. ZipInit => ZipInv
  BY ZipInvInit
<1>2. ZipInv /\ [ZipNext]_zipWriter => ZipInv'
  BY ZipInvNext
<1>. QED
  BY <1>1, <1>2, PTL DEF ZipSpec

------------------------------------------------------------------------------
(* A reader finds the directory and every entry. *)

\* The directory is found where it is, by either kind of reader.
LEMMA DirectoryFound ==
    ASSUME NEW start \in Nat, central \in Seq(Remembered), FinishedFrom(start),
           NEW always \in BOOLEAN
    PROVE  /\ Directory(always).record \in {"end", "zip64 end"}
           /\ Directory(always).count = Len(central)
           /\ Directory(always).start = start
<1> DEFINE n == Len(central)
           a == WideEnd(start)
           b == Locator(start)
           c == ShortEnd(start)
           m == Len(archive)
<1>0. Max16 \in Nat /\ Max32 \in Nat
  BY ZipAssumption
<1>1. n \in Nat /\ DOMAIN central = 1..n
  OBVIOUS
<1>2. EndRecords(start, CentralRecords) = IF EndsWide(start) THEN <<a, b, c>> ELSE <<c>>
  BY LastRecords
<1>3. /\ m = start + n + Len(EndRecords(start, CentralRecords))
      /\ DOMAIN archive = 1..m
      /\ \A i \in 1..start : archive[i] \in Cells
      /\ \A i \in 1..n : archive[start + i] = CentralRecord(central[i])
      /\ \A i \in 1..Len(EndRecords(start, CentralRecords)) :
            archive[start + n + i] = EndRecords(start, CentralRecords)[i]
  BY DEF FinishedFrom, Filled
<1>4. /\ a.record = "zip64 end" /\ a.count = n /\ a.start = start
      /\ b.record = "locator" /\ b.at = start + n
      /\ c.record = "end"
      /\ n > Max16 => c.count = Max16
      /\ ~ n > Max16 => c.count = n
      /\ start > Max32 => c.start = Max32
      /\ ~ start > Max32 => c.start = start
  BY DEF WideEnd, Locator, ShortEnd, Field
<1>5. \A place \in Nat : place < m => Cell(place) = archive[place + 1]
  BY <1>1, <1>3 DEF Cell
<1>6. Directory(always) =
        IF /\ Cell(m - 2).record = "locator"
           /\ always \/ Cell(m - 1).count = Max16 \/ Cell(m - 1).start = Max32
        THEN Cell(Cell(m - 2).at)
        ELSE Cell(m - 1)
  BY DEF Directory
<1>7. CASE EndsWide(start)
  <2>1. EndRecords(start, CentralRecords) = <<a, b, c>>
    BY <1>2, <1>7
  <2>2. /\ m = start + n + 3
        /\ archive[start + n + 1] = a
        /\ archive[start + n + 2] = b
        /\ archive[start + n + 3] = c
    <3> DEFINE last == EndRecords(start, CentralRecords)
    <3>1. last = <<a, b, c>>
      BY <2>1
    <3> HIDE DEF last, a, b, c
    <3>2. Len(last) = 3 /\ last[1] = a /\ last[2] = b /\ last[3] = c
      BY <3>1
    <3>3. \A i \in 1..Len(last) : archive[start + n + i] = last[i]
      BY <1>3 DEF last
    <3>4. m = start + n + Len(last)
      BY <1>3 DEF last
    <3> HIDE DEF m, n
    <3>5. 1 \in 1..Len(last) /\ 2 \in 1..Len(last) /\ 3 \in 1..Len(last)
      BY <3>2
    <3>. QED
      BY <3>2, <3>3, <3>4, <3>5
  <2> HIDE DEF a, b, c, n, m
  <2>3. Cell(m - 1) = c
    <3>1. m - 1 \in Nat /\ m - 1 < m /\ (m - 1) + 1 = start + n + 3
      BY <1>1, <2>2
    <3>. QED
      BY <1>5, <2>2, <3>1
  <2>4. Cell(m - 2) = b
    <3>1. m - 2 \in Nat /\ m - 2 < m /\ (m - 2) + 1 = start + n + 2
      BY <1>1, <2>2
    <3>. QED
      BY <1>5, <2>2, <3>1
  <2>5. Cell(b.at) = a
    <3>1. b.at \in Nat /\ b.at < m /\ b.at + 1 = start + n + 1
      <4>1. b.at = start + n
        BY <1>4
      <4>. QED
        BY <1>1, <2>2, <4>1
    <3>. QED
      BY <1>5, <2>2, <3>1
  <2>6. Directory(always) = IF always \/ c.count = Max16 \/ c.start = Max32 THEN a ELSE c
    BY <1>4, <1>6, <2>3, <2>4, <2>5
  <2>7. c.count # Max16 => c.count = n
    BY <1>4
  <2>8. c.start # Max32 => c.start = start
    BY <1>4
  <2>. QED
    BY <1>4, <2>6, <2>7, <2>8 DEF n
<1>8. CASE ~ EndsWide(start)
  <2>1. EndRecords(start, CentralRecords) = <<c>>
    BY <1>2, <1>8
  <2>2. m = start + n + 1 /\ archive[start + n + 1] = c
    <3> DEFINE last == EndRecords(start, CentralRecords)
    <3>1. last = <<c>>
      BY <2>1
    <3> HIDE DEF last, a, b, c
    <3>2. Len(last) = 1 /\ last[1] = c
      BY <3>1
    <3>3. \A i \in 1..Len(last) : archive[start + n + i] = last[i]
      BY <1>3 DEF last
    <3>4. m = start + n + Len(last)
      BY <1>3 DEF last
    <3> HIDE DEF m, n
    <3>5. 1 \in 1..Len(last)
      BY <3>2
    <3>. QED
      BY <3>2, <3>3, <3>4, <3>5
  <2>3. ~ n > Max16 /\ ~ start > Max32
    BY <1>8 DEF EndsWide
  <2> HIDE DEF a, b, c, n, m
  <2>4. Cell(m - 1) = c
    <3>1. m - 1 \in Nat /\ m - 1 < m /\ (m - 1) + 1 = start + n + 1
      BY <1>1, <2>2
    <3>. QED
      BY <1>5, <2>2, <3>1
  <2>5. Cell(m - 2).record # "locator"
    <3>1. CASE n > 0
      <4> DEFINE k == start + n
      <4>1. m - 2 \in Nat /\ m - 2 < m /\ (m - 2) + 1 = k /\ n \in 1..n
        BY <1>1, <2>2, <3>1
      <4>2. archive[k] = CentralRecord(central[n])
        BY <1>3, <4>1
      <4>3. Cell(m - 2) = CentralRecord(central[n])
        BY <1>5, <4>1, <4>2
      <4>. QED
        BY <4>3 DEF CentralRecord
    <3>2. CASE n = 0 /\ start > 0
      <4>1. m - 2 \in Nat /\ m - 2 < m /\ (m - 2) + 1 = start /\ start \in 1..start
        BY <1>1, <2>2, <3>2
      <4>2. Cell(m - 2) = archive[start]
        BY <1>5, <4>1
      <4>3. Cell(m - 2) \in Cells
        BY <1>3, <4>1, <4>2
      <4>4. \A r \in Cells : r.record # "locator"
        BY DEF Cells
      <4>. QED
        BY <4>3, <4>4
    <3>3. CASE n = 0 /\ start = 0
      <4>1. (m - 2) + 1 \notin DOMAIN archive
        BY <1>1, <1>3, <2>2, <3>3
      <4>2. Cell(m - 2) = [record |-> "nothing"]
        BY <4>1 DEF Cell
      <4>. QED
        BY <4>2
    <3>. QED
      BY <1>1, <3>1, <3>2, <3>3
  <2>6. Directory(always) = c
    BY <1>6, <2>4, <2>5
  <2>. QED
    BY <1>4, <2>3, <2>6 DEF n
<1>. QED
  BY <1>7, <1>8

\* Every entry is found at its place, with its lengths.
LEMMA EntryFound ==
    ASSUME NEW start \in Nat, central \in Seq(Remembered), FinishedFrom(start),
           NEW i \in 1..Len(central), ~ ReadsAmiss(central[i])
    PROVE  EntryReads(CentralRecord(central[i]))
<1> DEFINE e == central[i]
           r == CentralRecord(e)
           m == Len(archive)
<1>1. e \in Remembered /\ i \in DOMAIN central
  <2> DEFINE R == Remembered
             C == central
  <2>1. C \in Seq(R) /\ i \in 1..Len(C)
    OBVIOUS
  <2> HIDE DEF R, C
  <2>2. C[i] \in R /\ i \in DOMAIN C
    BY <2>1
  <2>. QED
    BY <2>2 DEF R, C
<1>2. Stands(e, archive) /\ DOMAIN archive = 1..m
  BY <1>1 DEF FinishedFrom, Filled
<1>3. ~ ReadsAmiss(e)
  OBVIOUS
<1>4. r.name = e.name /\ r.method = e.method
  BY DEF CentralRecord
<1> HIDE DEF e, r, m
<1>5. /\ ReadField(r, 1) = e.uncompressed
      /\ ReadField(r, 2) = e.compressed
      /\ ReadField(r, 3) = e.offset
  BY <1>1, <1>3, FieldsRead DEF r
<1> DEFINE o == e.offset
           k == e.compressed
<1>6. /\ o \in Nat /\ k \in Nat /\ e.zip64 \in BOOLEAN
      /\ o + k + 2 <= m
      /\ archive[o + 1].record = "local" /\ archive[o + 1].name = e.name
      /\ archive[o + 1].method = e.method
      /\ archive[o + 1].extra # <<>> <=> e.zip64
      /\ \A j \in 1..k : archive[o + j + 1] = [record |-> "data", name |-> e.name]
      /\ archive[o + k + 2] =
            [record |-> "descriptor", wide |-> e.zip64, compressed |-> k,
             uncompressed |-> e.uncompressed]
  BY <1>1, <1>2 DEF Stands, Remembered, m
<1> HIDE DEF o, k
<1>7. m \in Nat
  <2>1. m = start + Len(central) + Len(EndRecords(start, CentralRecords))
    BY DEF FinishedFrom, m
  <2>2. Len(EndRecords(start, CentralRecords)) \in Nat
    BY LastRecords
  <2>. QED
    BY <2>1, <2>2
<1>8. \A place \in Nat : place < m => Cell(place) = archive[place + 1]
  BY <1>2, <1>7 DEF Cell
<1>9. Cell(o) = archive[o + 1]
  BY <1>6, <1>7, <1>8
<1>10. Cell(o + k + 1) = archive[o + k + 2]
  <2>1. o + k + 1 \in Nat /\ o + k + 1 < m /\ (o + k + 1) + 1 = o + k + 2
    BY <1>6, <1>7
  <2>. QED
    BY <1>8, <2>1
<1>11. \A j \in 1..k : Cell(o + j) = [record |-> "data", name |-> e.name]
  <2> TAKE j \in 1..k
  <2>1. o + j \in Nat /\ o + j < m /\ (o + j) + 1 = o + j + 1
    BY <1>6, <1>7
  <2>. QED
    BY <1>6, <1>8, <2>1
<1>12. /\ Cell(o + k + 1).record = "descriptor"
       /\ Cell(o + k + 1).wide = e.zip64
       /\ Cell(o + k + 1).compressed = k
       /\ Cell(o + k + 1).uncompressed = e.uncompressed
  BY <1>6, <1>10
<1>13. ReadField(r, 3) = o /\ ReadField(r, 2) = k
  BY <1>5 DEF o, k
<1>14. EntryReads(r)
  BY <1>4, <1>5, <1>6, <1>9, <1>11, <1>12, <1>13 DEF EntryReads
<1>. QED
  BY <1>14 DEF r, e

\* A finished archive reads back.
LEMMA FinishedReads ==
    ASSUME ZipInv
    PROVE  ArchiveReads
<1>1. zipping = "requires Zip64" => grown # {}
  BY DEF ZipInv
<1>2. ASSUME zipping = "done", NEW always \in BOOLEAN
      PROVE  LET directory == Directory(always)
                 listed(i) == Cell(directory.start + i - 1)
             IN /\ directory.record \in {"end", "zip64 end"}
                /\ directory.count = Len(inputs)
                /\ \A i \in 1..directory.count : listed(i).record = "central"
                /\ {listed(i).name : i \in 1..directory.count} = {f.name : f \in ToSet(inputs)}
                /\ \A i \in 1..directory.count :
                     ReadsAmiss(central[i]) \/ EntryReads(listed(i))
  <2>1. PICK start \in 0..Len(archive) : FinishedFrom(start)
    BY <1>2 DEF ZipInv
  <2>2. EveryEntry
    BY <1>2 DEF ZipInv
  <2> DEFINE n == Len(central)
             d == Directory(always)
             listed(i) == Cell(d.start + i - 1)
  <2>3. central \in Seq(Remembered) /\ n \in Nat /\ DOMAIN central = 1..n
    BY <2>2 DEF EveryEntry
  <2>4. start \in Nat
    BY <2>1
  <2>5. d.record \in {"end", "zip64 end"} /\ d.count = n /\ d.start = start
    BY <2>1, <2>3, <2>4, DirectoryFound
  <2>6. n = Len(inputs)
    <3>1. waiting = <<>>
      BY <2>1 DEF FinishedFrom
    <3>2. Len(waiting) = 0
      BY <3>1
    <3>3. n + Len(waiting) = Len(inputs)
      BY <2>2 DEF EveryEntry
    <3>. QED
      BY <2>3, <3>2, <3>3
  <2> HIDE DEF n, d
  <2>7. \A i \in 1..n : listed(i) = CentralRecord(central[i])
    <3> TAKE i \in 1..n
    <3>1. archive[start + i] = CentralRecord(central[i])
      BY <2>1 DEF FinishedFrom, n
    <3>2. start + i \in DOMAIN archive
      <4>1. Len(archive) = start + n + Len(EndRecords(start, CentralRecords))
        BY <2>1 DEF FinishedFrom, n
      <4>2. Len(EndRecords(start, CentralRecords)) \in Nat
        BY <2>3, LastRecords
      <4>3. DOMAIN archive = 1..Len(archive)
        BY <2>1 DEF FinishedFrom
      <4>. QED
        BY <2>3, <2>4, <4>1, <4>2, <4>3
    <3>3. (start + i - 1) + 1 = start + i
      BY <2>4
    <3>. QED
      BY <2>5, <3>1, <3>2, <3>3 DEF Cell
  <2> HIDE DEF listed
  <2>8. \A i \in 1..n : listed(i).record = "central" /\ listed(i).name = central[i].name
    <3> TAKE i \in 1..n
    <3>1. listed(i) = CentralRecord(central[i])
      BY <2>7
    <3>2. /\ CentralRecord(central[i]).record = "central"
          /\ CentralRecord(central[i]).name = central[i].name
      BY DEF CentralRecord
    <3>. QED
      BY <3>1, <3>2
  <2>9. \A i \in 1..n : ReadsAmiss(central[i]) \/ EntryReads(listed(i))
    <3> SUFFICES ASSUME NEW i \in 1..n, ~ ReadsAmiss(central[i])
                 PROVE  EntryReads(listed(i))
      OBVIOUS
    <3>1. EntryReads(CentralRecord(central[i]))
      BY <2>1, <2>3, <2>4, EntryFound DEF n
    <3>. QED
      BY <2>7, <3>1
  <2>10. {listed(i).name : i \in 1..n} = {f.name : f \in ToSet(inputs)}
    <3>1. {listed(i).name : i \in 1..n} = {central[i].name : i \in 1..n}
      BY <2>8
    <3>2. \A i \in 1..n : \E j \in DOMAIN inputs : central[i].name = inputs[j].name
      BY <2>2, <2>3 DEF EveryEntry
    <3>3. \A j \in DOMAIN inputs : \E i \in 1..n : central[i].name = inputs[j].name
      <4>1. DOMAIN waiting = {}
        BY <2>1 DEF FinishedFrom
      <4>. QED
        BY <2>2, <2>3, <4>1 DEF EveryEntry
    <3>4. {f.name : f \in ToSet(inputs)} = {inputs[j].name : j \in DOMAIN inputs}
      BY DEF ToSet
    <3>5. {central[i].name : i \in 1..n} = {inputs[j].name : j \in DOMAIN inputs}
      BY <3>2, <3>3
    <3>. QED
      BY <3>1, <3>4, <3>5
  <2>11. /\ d.record \in {"end", "zip64 end"}
         /\ d.count = Len(inputs)
         /\ \A i \in 1..d.count : listed(i).record = "central"
         /\ {listed(i).name : i \in 1..d.count} = {f.name : f \in ToSet(inputs)}
         /\ \A i \in 1..d.count : ReadsAmiss(central[i]) \/ EntryReads(listed(i))
    <3>1. d.count = n
      BY <2>5
    <3>. QED
      BY <2>5, <2>6, <2>8, <2>9, <2>10, <3>1
  <2>. QED
    BY <2>11, Zenon DEF listed, d
<1>. QED
  BY <1>1, <1>2, Zenon DEF ArchiveReads

\* create_to_writer: an archive that was finished has every entry once, and a
\* reader finds each with the lengths and at the place it was written with,
\* whichever of them are beyond 32 bits and whatever the files became after
\* they were looked at; it is given up for Zip64 only where a file has grown.
THEOREM ArchiveAlwaysReads == ZipSpec => []ArchiveReads
<1>1. ZipInv => ArchiveReads
  BY FinishedReads
<1>. QED
  BY <1>1, ZipInvHolds, PTL
==============================================================================
