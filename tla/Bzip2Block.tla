------------------------------ MODULE Bzip2Block ------------------------------
(***************************************************************************)
(* One block of a bzip2 stream, written by encode_block of                 *)
(* src/bz2_encode/mod.rs and read back by Decoder::block of src/decoder.rs *)
(* from a place among other bits.                                          *)
(*                                                                         *)
(* A block is what the run-length stage of Bzip2Encoder leaves.  Its       *)
(* magic, checksum and randomized bit, and the run-length stage of the     *)
(* decoder, are outside; so are reads beyond the end of the data.          *)
(***************************************************************************)
EXTENDS Huffman

CONSTANTS
    MapWidth,   \* 16: the symbol map has MapWidth groups of MapWidth values
    FieldBits,  \* the width of the numbers in a block's head: 24, 3, 15 and 5
    BlockSize,  \* the block size of the stream
    Blocks,     \* the blocks considered
    Contexts    \* bits around the block: [before |-> bits, after |-> bits]

Refused == [block |-> <<>>, at |-> NoSymbol]
Unread == [block |-> <<>>, at |-> 0]

------------------------------------------------------------------------------
(* The Burrows-Wheeler transform of src/bz2_encode/bwt.rs, which sorts the *)
(* rotations of a block by SA-IS on the doubled block, and its inverse in  *)
(* Decoder::block of src/decoder.rs.  As in the code, positions count from *)
(* 0: a string s and its suffix array sa are functions on 0..n-1.  A block *)
(* is a sequence.                                                          *)

Upwards(n) == [i \in 1..n |-> i - 1]
Downwards(n) == [i \in 1..n |-> n - i]

Size(s) == Cardinality(DOMAIN s)
Empty == -1

\* classify: the suffix at i is smaller than the one behind it.
Types(s) ==
    LET last == Size(s) - 1
        smaller[i \in 0..last] ==
            i = last \/ s[i] < s[i + 1] \/ (s[i] = s[i + 1] /\ smaller[i + 1])
    IN  [i \in 0..last |-> smaller[i]]

IsLms(types, i) == i > 0 /\ types[i] /\ ~types[i - 1]

\* The buckets of the suffix array, one for every first letter.
Starts(s) == [c \in {s[i] : i \in DOMAIN s} |-> Cardinality({i \in DOMAIN s : s[i] < c})]
Ends(s) == [c \in {s[i] : i \in DOMAIN s} |-> Cardinality({i \in DOMAIN s : s[i] <= c})]

PutAtStart(fill, c, p) ==
    [sa |-> [fill.sa EXCEPT ![fill.bucket[c]] = p],
     bucket |-> [fill.bucket EXCEPT ![c] = @ + 1]]

PutAtEnd(fill, c, p) ==
    [sa |-> [fill.sa EXCEPT ![fill.bucket[c] - 1] = p],
     bucket |-> [fill.bucket EXCEPT ![c] = @ - 1]]

\* The given positions fill their buckets from the end.
Seeded(s, positions) ==
    FoldLeft(LAMBDA fill, p : PutAtEnd(fill, s[p], p),
             [sa |-> [i \in DOMAIN s |-> Empty], bucket |-> Ends(s)], positions).sa

\* induce, its first pass: larger suffixes from left to right ...
InduceLarger(s, types, sa) ==
    LET Induce(fill, i) ==
            LET j == fill.sa[i] - 1
            IN  IF j >= 0 /\ ~types[j] THEN PutAtStart(fill, s[j], j) ELSE fill
    IN  FoldLeft(Induce, [sa |-> sa, bucket |-> Starts(s)], Upwards(Size(s))).sa

\* ... and its second one: smaller suffixes from right to left.
InduceSmaller(s, types, sa) ==
    LET Induce(fill, i) ==
            LET j == fill.sa[i] - 1
            IN  IF j >= 0 /\ types[j] THEN PutAtEnd(fill, s[j], j) ELSE fill
    IN  FoldLeft(Induce, [sa |-> sa, bucket |-> Ends(s)], Downwards(Size(s))).sa

Induced(s, types, sa) == InduceSmaller(s, types, InduceLarger(s, types, sa))

\* lms_substr_eq: letters and types agree up to the next LMS position of both.
SameSubstring(s, types, p, q) ==
    LET last == Size(s) - 1
        Ends2(d) == IsLms(types, p + d) /\ IsLms(types, q + d)
        Agree(d) ==
            /\ s[p + d] = s[q + d]
            /\ types[p + d] = types[q + d]
            /\ d > 0 => ~IsLms(types, p + d) /\ ~IsLms(types, q + d)
    IN  IF p = last \/ q = last THEN p = q
        ELSE \E d \in 1..last :
                /\ p + d <= last /\ q + d <= last
                /\ Ends2(d)
                /\ \A e \in 0..(d - 1) : Agree(e)

\* The names of the LMS substrings, equal for equal ones, in sorted order.
Names(s, types, sorted) ==
    LET Name(named, p) ==
            IF named.count > 0 /\ SameSubstring(s, types, p, named.previous)
            THEN [named EXCEPT !.of = @ @@ (p :> named.count - 1)]
            ELSE [of |-> named.of @@ (p :> named.count), count |-> named.count + 1,
                  previous |-> p]
    IN  FoldLeft(Name, [of |-> <<>>, count |-> 0, previous |-> Empty], sorted)

\* sais
RECURSIVE SuffixArray(_)
SuffixArray(s) ==
    LET types == Types(s)
        positions == SelectSeq(Upwards(Size(s)), LAMBDA i : IsLms(types, i))
        first == Induced(s, types, Seeded(s, Reverse(positions)))
        sorted == SelectSeq([i \in 1..Size(s) |-> first[i - 1]],
                            LAMBDA p : p > 0 /\ IsLms(types, p))
        names == Names(s, types, sorted)
        m == Len(positions)
        reduced == [i \in 0..(m - 1) |-> names.of[positions[i + 1]]]
        sub == IF names.count < m THEN SuffixArray(reduced)
               ELSE [c \in 0..(m - 1) |-> CHOOSE i \in 0..(m - 1) : reduced[i] = c]
    IN  IF Size(s) = 1 THEN [i \in {0} |-> 0]
        ELSE Induced(s, types, Seeded(s, [i \in 1..m |-> positions[sub[m - i] + 1]]))

\* transform: the last column of the sorted rotations, and the row of the block.
Transform(block) ==
    LET n == Len(block)
        doubled == [i \in 0..(2 * n) |-> IF i = 2 * n THEN 0 ELSE block[(i % n) + 1] + 1]
        sa == SuffixArray(doubled)
        rows == SelectSeq([i \in 1..(2 * n + 1) |-> sa[i - 1]], LAMBDA p : p < n)
    IN  IF n = 1 THEN [last |-> block, origin |-> 0]
        ELSE [last |-> [r \in 1..n |-> block[((rows[r] + n - 1) % n) + 1]],
              origin |-> (CHOOSE r \in 1..n : rows[r] = 0) - 1]

\* The decoder: tt holds for every row the row of the next byte.
Restore(last, origin) ==
    LET n == Len(last)
        Target(i) ==
            Cardinality({j \in 1..n : last[j] < last[i] \/ (last[j] = last[i] /\ j < i)}) + 1
        tt == [row \in 1..n |-> CHOOSE i \in 1..n : Target(i) = row]
        row[k \in 1..n] == IF k = 1 THEN tt[origin + 1] ELSE tt[row[k - 1]]
    IN  [k \in 1..n |-> last[row[k]]]

------------------------------------------------------------------------------
(* Move-to-front and RLE2 of src/bz2_encode/mtf.rs, and the loop of        *)
(* Decoder::block that reads the symbols back.  Symbols 0 and 1 are RUNA   *)
(* and RUNB, the digits of a run of front hits.                            *)

\* in_use: the byte values that occur, in ascending order.
InUse(block) == SetToSortSeq(ToSet(block), <)

Eob(inUse) == Len(inUse) + 1

ToFrontOf(list, index) == <<list[index]>> \o RemoveAt(list, index)

\* Mutant of RunDigits: a plain binary number.
RunDigitsBinary(n) ==
    LET digits[k \in 0..n] == IF k = 0 THEN <<>> ELSE <<k % 2>> \o digits[k \div 2]
    IN  digits[n]

\* flush_zero_run: bijective base 2, least digit first.
RunDigits(n) ==
    LET digits[k \in 0..n] ==
            IF k = 0 THEN <<>>
            ELSE IF k % 2 = 1 THEN <<0>> \o digits[(k - 1) \div 2]
            ELSE <<1>> \o digits[(k - 2) \div 2]
    IN  digits[n]

Symbols(bytes) ==
    LET Code(done, byte) ==
            LET index == CHOOSE i \in DOMAIN done.mtf : done.mtf[i] = byte
            IN  IF index = 1 THEN [done EXCEPT !.zeros = @ + 1]
                ELSE [mtf |-> ToFrontOf(done.mtf, index), zeros |-> 0,
                      out |-> (done.out \o RunDigits(done.zeros)) \o <<index>>]
        done == FoldLeft(Code, [mtf |-> InUse(bytes), zeros |-> 0, out |-> <<>>], bytes)
    IN  (done.out \o RunDigits(done.zeros)) \o <<Eob(InUse(bytes))>>

\* The decoder adds up the digits of a run and writes it at the next symbol.
ReadSymbol(done, symbol) ==
    LET run == [i \in 1..done.run |-> done.mtf[1]]
    IN  IF symbol <= 1
        THEN [done EXCEPT !.run = @ + (symbol + 1) * done.digit, !.digit = @ * 2]
        ELSE IF symbol = Len(done.mtf) + 1
        THEN [done EXCEPT !.out = @ \o run, !.run = 0]
        ELSE [mtf |-> ToFrontOf(done.mtf, symbol), run |-> 0, digit |-> 1,
              out |-> (done.out \o run) \o <<done.mtf[symbol]>>]

Unsymbols(inUse, symbols) ==
    FoldLeft(ReadSymbol, [mtf |-> inUse, run |-> 0, digit |-> 1, out |-> <<>>], symbols).out

------------------------------------------------------------------------------
(* The encoder. *)

\* write_symbol_map: the groups in use, then the values of those groups.
SymbolMap(inUse) ==
    LET Values(group) == (group * MapWidth)..(group * MapWidth + MapWidth - 1)
        Bit(values) == IF values \intersect ToSet(inUse) # {} THEN 1 ELSE 0
        map(group) == [i \in 1..MapWidth |-> Bit({group * MapWidth + i - 1})]
        used == SelectSeq(Upwards(MapWidth), LAMBDA group : Bit(Values(group)) = 1)
    IN  [i \in 1..MapWidth |-> Bit(Values(i - 1))]
            \o FlattenSeq([i \in DOMAIN used |-> map(used[i])])

\* write_selectors: move-to-front over the tables, each rank in unary.
SelectorBits(selectors, count) ==
    LET Put(done, table) ==
            LET rank == CHOOSE i \in DOMAIN done.mtf : done.mtf[i] = table
            IN  [mtf |-> ToFrontOf(done.mtf, rank),
                 bits |-> done.bits \o [i \in 1..rank |-> IF i < rank THEN 1 ELSE 0]]
    IN  FoldLeft(Put, [mtf |-> [t \in 1..count |-> t], bits |-> <<>>], selectors).bits

\* write_tables: every length as a walk from the one before it.
TableBits(lens) ==
    LET Walk(from, to) ==
            FlattenSeq([i \in 1..(IF from < to THEN to - from ELSE from - to) |->
                           IF from < to THEN <<1, 0>> ELSE <<1, 1>>]) \o <<0>>
        size == Cardinality(DOMAIN lens)
    IN  Word(FieldBits, lens[0])
            \o FlattenSeq([s \in 1..size |->
                              Walk(lens[IF s = 1 THEN 0 ELSE s - 2], lens[s - 1])])

\* The bits of a block, in the order of encode_block.
StoredBlock(origin, inUse, syms, lens, selectors, codes) ==
    LET Code(i) == LET t == selectors[((i - 1) \div GroupSize) + 1]
                   IN  Word(lens[t][syms[i]], codes[t][syms[i]])
    IN  FlattenSeq(<<Word(FieldBits, origin), SymbolMap(inUse),
                     Word(FieldBits, Len(lens)), Word(FieldBits, Len(selectors)),
                     SelectorBits(selectors, Len(lens)),
                     FlattenSeq([t \in DOMAIN lens |-> TableBits(lens[t])]),
                     FlattenSeq([i \in DOMAIN syms |-> Code(i)])>>)

------------------------------------------------------------------------------
(* The decoder.  A reader holds what it has read and its place, which is   *)
(* NoSymbol once it has refused the block.                                 *)

ReadMap(bits, at) ==
    LET used == SelectSeq(Upwards(MapWidth), LAMBDA group : bits[at + group + 1] = 1)
        Place(i, value) == at + MapWidth * i + value + 1
        Values(i) == SelectSeq(Upwards(MapWidth), LAMBDA value : bits[Place(i, value)] = 1)
    IN  [value |-> FlattenSeq([i \in DOMAIN used |->
                      [v \in DOMAIN Values(i) |-> used[i] * MapWidth + Values(i)[v]]]),
         at |-> at + MapWidth * (Len(used) + 1)]

ReadSelectors(bits, at, count, tables) ==
    LET Get(done, i) ==
            LET rank == Min({r \in 1..tables : bits[done.at + r] = 0})
            IN  [mtf |-> ToFrontOf(done.mtf, rank), at |-> done.at + rank,
                 value |-> Append(done.value, done.mtf[rank])]
    IN  FoldLeft(Get, [mtf |-> [t \in 1..tables |-> t], at |-> at, value |-> <<>>],
                 Upwards(count))

\* A length is read from the one before it, step by step.
RECURSIVE ReadLength(_, _, _)
ReadLength(bits, at, current) ==
    IF current \notin 1..LongestCode THEN [value |-> current, at |-> NoSymbol]
    ELSE IF bits[at + 1] = 0 THEN [value |-> current, at |-> at + 1]
    ELSE ReadLength(bits, at + 2, IF bits[at + 2] = 1 THEN current - 1 ELSE current + 1)

ReadTable(bits, at, alphaSize) ==
    LET Get(done, s) ==
            LET next == ReadLength(bits, done.at, done.current)
            IN  [current |-> next.value, at |-> next.at,
                 lens |-> [done.lens EXCEPT ![s] = next.value]]
    IN  FoldLeft(Get, [current |-> Number(bits, at, FieldBits), at |-> at + FieldBits,
                       lens |-> [s \in 0..(alphaSize - 1) |-> 0]], Upwards(alphaSize))

ReadTables(bits, at, count, alphaSize) ==
    LET Get(done, t) ==
            LET next == ReadTable(bits, done.at, alphaSize)
            IN  [at |-> next.at, value |-> Append(done.value, next.lens)]
    IN  FoldLeft(Get, [at |-> at, value |-> <<>>], Upwards(count))

\* The loop over the symbols, up to the one that ends the block.
RECURSIVE ReadSymbols(_, _, _, _, _)
ReadSymbols(bits, at, tables, selectors, done) ==
    LET group == (Len(done) \div GroupSize) + 1
        next == Decode(tables[selectors[group]], bits, at)
        eob == Cardinality(DOMAIN tables[1].lens) - 1
    IN  IF group > Len(selectors) \/ next.symbol = NoSymbol
        THEN [value |-> done, at |-> NoSymbol]
        ELSE IF next.symbol = eob THEN [value |-> Append(done, eob), at |-> next.at]
        ELSE ReadSymbols(bits, next.at, tables, selectors, Append(done, next.symbol))

------------------------------------------------------------------------------
VARIABLES
    block,    \* the block to store
    context,  \* the bits of the stream around it
    stored,   \* the bits of the block, once written
    read      \* what the decoder made of them

bzip2Block == <<block, context, stored, read>>

BlockInit ==
    /\ block \in Blocks
    /\ context \in Contexts
    /\ stored = <<>>
    /\ read = Unread

\* encode_block
EncodeBlock ==
    /\ stored = <<>>
    /\ \E sorted \in {Transform(block)} :
       \E inUse \in {InUse(sorted.last)}, syms \in {Symbols(sorted.last)} :
       \E lens \in {Lengths(syms, Len(inUse) + 2)} :
       \E selectors \in {Selectors(syms, lens)},
          codes \in {[t \in DOMAIN lens |-> CanonicalCodes(lens[t])]} :
          stored' = StoredBlock(sorted.origin, inUse, syms, lens, selectors, codes)
    /\ UNCHANGED <<block, context, read>>

\* Decoder::block
DecodeBlock ==
    /\ stored # <<>> /\ read = Unread
    /\ \E bits \in {FlattenSeq(<<context.before, stored, context.after>>)},
          start \in {Len(context.before)} :
       \E map \in {ReadMap(bits, start + FieldBits)},
          origin \in {Number(bits, start, FieldBits)} :
       \E count \in {Number(bits, map.at, FieldBits)},
          selectorCount \in {Number(bits, map.at + FieldBits, FieldBits)} :
       \E selectors \in {ReadSelectors(bits, map.at + 2 * FieldBits, selectorCount, count)} :
       \E lens \in {ReadTables(bits, selectors.at, count, Len(map.value) + 2)} :
       \E syms \in {ReadSymbols(bits, lens.at, [t \in DOMAIN lens.value |-> Table(lens.value[t])],
                               selectors.value, <<>>)} :
       \E last \in {Unsymbols(map.value, syms.value)} :
          read' = IF \/ map.value = <<>> \/ count \notin 2..6 \/ selectorCount = 0
                     \/ \E t \in 1..count : ~Buildable(lens.value[t])
                     \/ syms.at = NoSymbol
                     \/ Len(last) > BlockSize \/ origin >= Len(last)
                  THEN Refused
                  ELSE [block |-> Restore(last, origin), at |-> syms.at]
    /\ UNCHANGED <<block, context, stored>>

BlockNext == EncodeBlock \/ DecodeBlock

\* Every block the encoder stores is one that the decoder reads back, byte for
\* byte, and to its last bit: the next block is looked for behind that.  The
\* suffix sort, the run digits, the choice of tables, their lengths capped and
\* written as a walk, the canonical codes, and both ways the decoder reads
\* them must fit together for every block.
RoundTrip ==
    read # Unread =>
        read = [block |-> block, at |-> Len(context.before) + Len(stored)]
==============================================================================
