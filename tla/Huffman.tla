-------------------------------- MODULE Huffman -------------------------------
(***************************************************************************)
(* The grouped Huffman coding of a bzip2 block: how the encoder chooses    *)
(* the tables (src/bz2_encode/huffman.rs) and how the decoder rebuilds     *)
(* them from their code lengths and reads symbols (Huffman in              *)
(* src/decoder.rs).                                                        *)
(*                                                                         *)
(* A string of bits is a sequence of 0 and 1, and a place in it is the     *)
(* number of the bits before it.  Symbols count from 0, tables from 1.     *)
(***************************************************************************)
EXTENDS Integers, SequencesExt, FiniteSetsExt

CONSTANTS
    GroupSize,     \* GROUP_SIZE, the symbols that share a table
    TableSteps,    \* the numbers of symbols from which there is a table more
    MaxCodeLen,    \* MAX_CODE_LEN of the encoder
    LongestCode,   \* MAX_CODE_LEN of the decoder
    LutBits        \* LUT_BITS

Refinements == 4
NoSymbol == -1
Lesser(a, b) == IF a < b THEN a ELSE b

\* The low bits of a value, the highest first, and the value of bits.
Word(count, value) == [i \in 1..count |-> (value \div 2^(count - i)) % 2]
Number(bits, at, count) ==
    FoldLeft(LAMBDA value, bit : 2 * value + bit, 0, SubSeq(bits, at + 1, at + count))

------------------------------------------------------------------------------
(* The encoder. *)

GroupCount(count) == 2 + Cardinality({step \in TableSteps : step <= count})
Groups(syms) == (Len(syms) + GroupSize - 1) \div GroupSize
Group(syms, g) ==
    SubSeq(syms, (g - 1) * GroupSize + 1, Lesser(g * GroupSize, Len(syms)))

\* initial_lengths: slices of the alphabet that are used about equally often.
InitialLengths(syms, alphaSize) ==
    LET n == GroupCount(Len(syms))
        Uses(from, to) == Cardinality({i \in DOMAIN syms : syms[i] \in from..to})
        Slice(done, part) ==
            LET from == done.from
                target == done.remaining \div part
                reach == Min({e \in (from - 1)..(alphaSize - 1) :
                                Uses(from, e) >= target \/ e = alphaSize - 1})
                narrowed == reach > from /\ part # n /\ part # 1 /\ (n - part) % 2 = 1
                to == IF narrowed THEN reach - 1 ELSE reach
                table == [s \in 0..(alphaSize - 1) |-> IF s \in from..to THEN 1 ELSE 15]
            IN  [from |-> to + 1, remaining |-> done.remaining - Uses(from, to),
                 lens |-> <<table>> \o done.lens]
    IN  FoldLeft(Slice, [from |-> 0, remaining |-> Len(syms), lens |-> <<>>],
                 Reverse([part \in 1..n |-> part])).lens

Cost(table, group) == FoldLeft(LAMBDA bits, s : bits + table[s], 0, group)

\* assign_selectors: the first of the cheapest tables, for every group.
Selectors(syms, lens) ==
    [g \in 1..Groups(syms) |->
        CHOOSE t \in DOMAIN lens : \A u \in DOMAIN lens :
            LET mine == Cost(lens[t], Group(syms, g))
                other == Cost(lens[u], Group(syms, g))
            IN  mine < other \/ (mine = other /\ t <= u)]

\* Coins by weight, those of equal weight in the order given.
ByWeight(coins) ==
    LET Before(i, j) == \/ coins[i].weight < coins[j].weight
                        \/ coins[i].weight = coins[j].weight /\ i < j
        order == SortSeq([k \in DOMAIN coins |-> k], Before)
    IN  [k \in DOMAIN order |-> coins[order[k]]]

\* package_merge: a symbol's code is as long as the coins taken that hold it.
PackageMerge(weights) ==
    LET m == Cardinality(DOMAIN weights)
        leaves == ByWeight([i \in 1..m |->
                      [weight |-> weights[i - 1],
                       holds |-> [s \in DOMAIN weights |-> IF s = i - 1 THEN 1 ELSE 0]]])
        Pack(a, b) == [weight |-> a.weight + b.weight,
                       holds |-> [s \in DOMAIN weights |-> a.holds[s] + b.holds[s]]]
        level[depth \in 1..MaxCodeLen] ==
            IF depth = 1 THEN leaves
            ELSE LET above == level[depth - 1]
                     packed == [i \in 1..(Len(above) \div 2) |->
                                   Pack(above[2 * i - 1], above[2 * i])]
                 IN  ByWeight(leaves \o packed)
        Add(lens, coin) == [s \in DOMAIN lens |-> lens[s] + coin.holds[s]]
    IN  FoldLeft(Add, [s \in DOMAIN weights |-> 0],
                 SubSeq(level[MaxCodeLen], 1, 2 * m - 2))

\* One round of build: code lengths for the groups that chose each table.
Refined(syms, lens) ==
    LET selectors == Selectors(syms, lens)
        Weight(t, s) ==
            LET uses == {i \in DOMAIN syms :
                            syms[i] = s /\ selectors[((i - 1) \div GroupSize) + 1] = t}
            IN  IF uses = {} THEN 1 ELSE Cardinality(uses)
    IN  [t \in DOMAIN lens |-> PackageMerge([s \in DOMAIN lens[t] |-> Weight(t, s)])]

\* build
Lengths(syms, alphaSize) ==
    FoldLeft(LAMBDA lens, round : Refined(syms, lens), InitialLengths(syms, alphaSize),
             [round \in 1..Refinements |-> round])

OfLength(lens, l) == Cardinality({s \in DOMAIN lens : lens[s] = l})

\* The place of a symbol among those of the same length.
RankOf(lens, s) == Cardinality({t \in DOMAIN lens : t < s /\ lens[t] = lens[s]})

\* canonical_codes: from the shortest length on, and by symbol within one.
CanonicalCodes(lens) ==
    LET least == Min({lens[s] : s \in DOMAIN lens})
        next[l \in least..MaxCodeLen] ==
            IF l = least THEN 0 ELSE (next[l - 1] + OfLength(lens, l - 1)) * 2
    IN  [s \in DOMAIN lens |-> next[lens[s]] + RankOf(lens, s)]

------------------------------------------------------------------------------
(* The decoder. *)

\* The codes of every length begin behind those of the lengths before it.
FirstCodes(lens) ==
    LET first[l \in 1..LongestCode] ==
            IF l = 1 THEN 0 ELSE (first[l - 1] + OfLength(lens, l - 1)) * 2
    IN  first

Buildable(lens) ==
    /\ \A s \in DOMAIN lens : lens[s] \in 1..LongestCode
    /\ \A l \in 1..LongestCode : FirstCodes(lens)[l] + OfLength(lens, l) <= 2^l

\* Huffman::build: `lut` answers for the codes that fit into LutBits, `limit`,
\* `base` and `symbols` for every code.
Table(lens) ==
    LET shortest == Min({lens[s] : s \in DOMAIN lens})
        longest == Max({lens[s] : s \in DOMAIN lens})
        Fills(s, entry) ==
            LET fill == 2^(LutBits - lens[s])
                start == (FirstCodes(lens)[lens[s]] + RankOf(lens, s)) * fill
            IN  entry \in start..(start + fill - 1)
        value[l \in shortest..longest] ==
            IF l = shortest THEN OfLength(lens, l)
            ELSE value[l - 1] * 2 + OfLength(lens, l)
        limit == [l \in shortest..longest |-> value[l] - 1]
        Shorter(l) == Cardinality({s \in DOMAIN lens : lens[s] < l})
    IN  [shortest |-> shortest, longest |-> longest, limit |-> limit, lens |-> lens,
         lut |-> [entry \in 0..(2^LutBits - 1) |->
                    {s \in DOMAIN lens : lens[s] <= LutBits /\ Fills(s, entry)}],
         base |-> [l \in shortest..longest |->
                    IF l = shortest THEN Shorter(l)
                    ELSE (limit[l - 1] + 1) * 2 - Shorter(l)],
         symbols |-> SortSeq([i \in 1..Cardinality(DOMAIN lens) |-> i - 1],
                        LAMBDA s, t : lens[s] < lens[t] \/ (lens[s] = lens[t] /\ s < t))]

\* decode: the symbol at a place of the bits, and the place behind it.
Decode(table, bits, at) ==
    LET quick == IF Len(bits) - at < LutBits THEN {}
                 ELSE table.lut[Number(bits, at, LutBits)]
        within == {l \in table.shortest..table.longest :
                      at + l <= Len(bits) /\ Number(bits, at, l) <= table.limit[l]}
        l == Min(within)
        index == Number(bits, at, l) - table.base[l]
    IN  IF quick # {} THEN LET s == Max(quick) IN [symbol |-> s, at |-> at + table.lens[s]]
        ELSE IF within = {} \/ index \notin 0..(Len(table.symbols) - 1)
        THEN [symbol |-> NoSymbol, at |-> at]
        ELSE [symbol |-> table.symbols[index + 1], at |-> at + l]
==============================================================================
