----------------------------- MODULE DeflateBlock ------------------------------
(***************************************************************************)
(* The bits of a DEFLATE stream: compress_bytes_serial and encode_segment  *)
(* of src/deflate_encode.rs, the match finder of src/matchfinder.rs, and   *)
(* decode_block of src/gzip.rs with its Huffman tables.                    *)
(*                                                                         *)
(* A stream is a sequence of bits in their order, and a place in it is the *)
(* number of bits before it; an alphabet counts from 0, a sequence from 1. *)
(* encode_segment writes the shortest of three encodings; here it may be   *)
(* any of them, so that short inputs come in all three.  A fourth is a     *)
(* dynamic block of another encoder, which writes repeated code lengths as *)
(* such.                                                                   *)
(***************************************************************************)
EXTENDS History, FiniteSetsExt

CONSTANTS
    ByteWidth,       \* 8
    SizeWidth,       \* 16, the width of the length of a stored block
    LengthBase,      \* LENGTH_BASE, LENGTH_EXTRA, DISTANCE_BASE, DISTANCE_EXTRA
    LengthExtra,
    DistanceBase,
    DistanceExtra,
    FixedRanges,     \* fixed_code: [first, last, code, bits]
    FixedDistance,   \* 5: the width of a distance in a fixed block
    MaxCodeBits,     \* MAX_CODE_BITS
    PrecodeBits,     \* 7, the longest code of a code length
    PrecodeOrder,    \* CODE_LENGTH_ORDER
    PrecodeRepeats,  \* the symbols 16, 17 and 18: [least |-> 3, width |-> 2], ...
    HeaderWidths,    \* 5, 5, 4 and 3: the widths of a dynamic header's fields
    Farthest,        \* WINDOW_SIZE
    MaxMatch,        \* MAX_MATCH
    SegmentLength,   \* TARGET_SEGMENT_SIZE
    HashSlots,       \* HASH_SIZE
    Efforts,         \* what a level stands for: [chain |-> depth, lazy |-> level >= 4]
    Plains           \* the inputs considered

VARIABLES
    source,      \* the input
    effort,
    taken,       \* how much of it has been encoded
    previous,    \* the dictionary of the next segment
    coded,       \* the bits written
    place,       \* where the decoder is
    inflated,    \* what it has decoded
    inflating    \* "not yet", "yes", "done" or "refused"

deflateBlock == <<source, effort, taken, previous, coded, place, inflated, inflating>>

MinMatch == 3
EndOfBlock == 2^ByteWidth
Literals == 0..(EndOfBlock + Len(LengthBase))
Distances == 0..(Len(DistanceBase) - 1)

LowFirst(value, count) == [i \in 1..count |-> (value \div 2^(i - 1)) % 2]
HighFirst(value, count) == [i \in 1..count |-> (value \div 2^(count - i)) % 2]

AlignedUp(count) == ((count + ByteWidth - 1) \div ByteWidth) * ByteWidth
Aligned(bits) == bits \o [i \in 1..(AlignedUp(Len(bits)) - Len(bits)) |-> 0]

StoredHeader(size) ==
    LowFirst(size, SizeWidth) \o LowFirst(2^SizeWidth - 1 - size, SizeWidth)

------------------------------------------------------------------------------
(* Matches. *)

\* Any function of three bytes, with different ones in the same slot.
HashOf(bytes, at) == (bytes[at] + 2 * bytes[at + 1] + bytes[at + 2]) % HashSlots

MatchLength(bytes, left, right, limit) ==
    Max({n \in 0..limit : \A i \in 0..(n - 1) : bytes[left + i] = bytes[right + i]})

\* best_match: the nearest of the longest among the places of the same slot,
\* as many as are searched.
BestMatch(bytes, at, depth) ==
    LET slot == SelectSeq([i \in 1..(at - 1) |-> at - i],
                          LAMBDA q : /\ at - q <= Farthest
                                     /\ HashOf(bytes, q) = HashOf(bytes, at))
        searched == SubSeq(slot, 1, AtMostOf(depth, Len(slot)))
        limit == AtMostOf(Len(bytes) - at + 1, MaxMatch)
        length(i) == MatchLength(bytes, searched[i], at, limit)
        best == {i \in DOMAIN searched :
                    /\ length(i) >= MinMatch
                    /\ \A j \in DOMAIN searched : length(j) <= length(i)
                    /\ \A j \in 1..(i - 1) : length(j) < length(i)}
    IN  IF at + MinMatch - 1 > Len(bytes) \/ best = {} THEN [length |-> 0, distance |-> 0]
        ELSE [length |-> length(Min(best)), distance |-> at - searched[Min(best)]]

Literal(byte) == [length |-> 1, distance |-> 0, byte |-> byte]
IsLiteral(token) == token.distance = 0

\* tokenize: a match waits for a longer one at the next byte.
RECURSIVE Tokenize(_, _)
Tokenize(bytes, at) ==
    LET match == BestMatch(bytes, at, effort.chain)
        later == BestMatch(bytes, at + 1, effort.chain \div 2)
        waits == effort.lazy /\ at < Len(bytes) /\ later.length > match.length + 1
    IN  IF at > Len(bytes) THEN <<>>
        ELSE IF match.length = 0 \/ waits
        THEN <<Literal(bytes[at])>> \o Tokenize(bytes, at + 1)
        ELSE <<match>> \o Tokenize(bytes, at + match.length)

------------------------------------------------------------------------------
(* Codes. *)

\* Mutant of SymbolFor: a value at its base goes to the symbol before.
SymbolBelow(value, bases) ==
    CHOOSE i \in DOMAIN bases :
        /\ i = 1 \/ value > bases[i]
        /\ \A j \in (i + 1)..Len(bases) : value <= bases[j]

\* symbol_for, counted from 1.
SymbolFor(value, bases) ==
    CHOOSE i \in DOMAIN bases :
        /\ value >= bases[i]
        /\ \A j \in (i + 1)..Len(bases) : value < bases[j]

LengthSymbol(token) == EndOfBlock + SymbolFor(token.length, LengthBase)
DistanceSymbol(token) == SymbolFor(token.distance, DistanceBase) - 1

CodedToken(token, literals, distances) ==
    IF IsLiteral(token) THEN literals[token.byte]
    ELSE LET l == SymbolFor(token.length, LengthBase)
             d == SymbolFor(token.distance, DistanceBase)
         IN  literals[EndOfBlock + l]
             \o LowFirst(token.length - LengthBase[l], LengthExtra[l])
             \o distances[d - 1]
             \o LowFirst(token.distance - DistanceBase[d], DistanceExtra[d])

\* The tokens, the end of the block and sync_boundary, an empty stored block.
CodedBlock(header, tokens, literals, distances) ==
    Aligned(header
            \o FlattenSeq([i \in DOMAIN tokens |->
                               CodedToken(tokens[i], literals, distances)])
            \o literals[EndOfBlock] \o <<0, 0, 0>>)
    \o StoredHeader(0)

\* fixed_code
FixedLiterals ==
    [s \in Literals |->
        LET range == CHOOSE r \in FixedRanges : s \in r.first..r.last
        IN  HighFirst(range.code + s - range.first, range.bits)]
FixedDistances == [d \in Distances |-> HighFirst(d, FixedDistance)]

\* huffman_lengths: the two lightest nodes become one, until there is one.
Lightest(heap) ==
    CHOOSE node \in heap : \A other \in heap :
        \/ node.weight < other.weight
        \/ node.weight = other.weight /\ node.id <= other.id

Joined(left, right, id) ==
    [weight |-> left.weight + right.weight, id |-> id,
     depth |-> [s \in DOMAIN left.depth \cup DOMAIN right.depth |->
                   1 + IF s \in DOMAIN left.depth THEN left.depth[s] ELSE right.depth[s]]]

RECURSIVE Tree(_, _)
Tree(heap, id) ==
    LET left == Lightest(heap)
        right == Lightest(heap \ {left})
    IN  IF heap = {left} THEN left
        ELSE Tree((heap \ {left, right}) \cup {Joined(left, right, id)}, id + 1)

\* Codes too long are avoided by halving the frequencies.
RECURSIVE HuffmanLengths(_, _)
HuffmanLengths(weights, maxBits) ==
    LET leaves == {[weight |-> weights[s], id |-> s, depth |-> [t \in {s} |-> 0]] :
                      s \in {t \in DOMAIN weights : weights[t] # 0}}
        depth == Tree(leaves, Cardinality(DOMAIN weights)).depth
    IN  IF \A s \in DOMAIN depth : depth[s] <= maxBits
        THEN [s \in DOMAIN weights |-> IF s \in DOMAIN depth THEN Max({depth[s], 1}) ELSE 0]
        ELSE HuffmanLengths([s \in DOMAIN weights |-> (weights[s] + 1) \div 2], maxBits)

EnsureTwo(weights) ==
    LET active == {s \in DOMAIN weights : weights[s] # 0}
        added == IF Cardinality(active) >= 2 THEN {} ELSE IF active = {} THEN {0, 1}
                 ELSE IF active = {0} THEN {1} ELSE {0}
    IN  [s \in DOMAIN weights |-> IF s \in added THEN 1 ELSE weights[s]]

OccurrencesIn(sequence, value) == Cardinality({i \in DOMAIN sequence : sequence[i] = value})

\* huffman_codes, as Huffman::new numbers them too.
HuffmanCodes(lens) ==
    LET Count(l) == Cardinality({s \in DOMAIN lens : lens[s] = l /\ l # 0})
        first[l \in 0..MaxCodeBits] ==
            IF l = 0 THEN 0 ELSE (first[l - 1] + Count(l - 1)) * 2
        rank(s) == Cardinality({t \in DOMAIN lens : t < s /\ lens[t] = lens[s]})
    IN  [s \in DOMAIN lens |->
            IF lens[s] = 0 THEN <<>> ELSE HighFirst(first[lens[s]] + rank(s), lens[s])]

\* How many symbols there are up to the last in use.
InUseUpTo(lens, least) == Max({least} \cup {s \in DOMAIN lens : lens[s] # 0}) + 1

------------------------------------------------------------------------------
(* Blocks. *)

\* frequencies
LiteralWeights(tokens) ==
    LET used == Append([i \in DOMAIN tokens |->
                           IF IsLiteral(tokens[i]) THEN tokens[i].byte
                           ELSE LengthSymbol(tokens[i])], EndOfBlock)
    IN  EnsureTwo([s \in Literals |-> OccurrencesIn(used, s)])
DistanceWeights(tokens) ==
    LET matches == SelectSeq(tokens, LAMBDA token : ~IsLiteral(token))
        used == [i \in DOMAIN matches |-> DistanceSymbol(matches[i])]
    IN  EnsureTwo([d \in Distances |-> OccurrencesIn(used, d)])

\* The code lengths as this encoder writes them, one by one.
Plainly(lens) == [i \in DOMAIN lens |-> [symbol |-> lens[i], extra |-> <<>>]]

\* And as another one does, with a repeat where there is one.
RECURSIVE WithRepeats(_, _)
WithRepeats(lens, i) ==
    LET Repeats(k, n) ==
            /\ n - PrecodeRepeats[k].least \in 0..(2^PrecodeRepeats[k].width - 1)
            /\ i + n - 1 <= Len(lens)
            /\ k = 1 => i > 1
            /\ \A j \in i..(i + n - 1) : lens[j] = IF k = 1 THEN lens[i - 1] ELSE 0
        runs == {run \in (DOMAIN PrecodeRepeats) \X (1..Len(lens)) :
                    Repeats(run[1], run[2])}
        run == CHOOSE r \in runs : \A other \in runs : other[2] <= r[2]
    IN  IF i > Len(lens) THEN <<>>
        ELSE IF runs = {}
        THEN <<[symbol |-> lens[i], extra |-> <<>>]>> \o WithRepeats(lens, i + 1)
        ELSE <<[symbol |-> MaxCodeBits + run[1],
                extra |-> LowFirst(run[2] - PrecodeRepeats[run[1]].least,
                                   PrecodeRepeats[run[1]].width)]>>
             \o WithRepeats(lens, i + run[2])

Precode == 0..(MaxCodeBits + Len(PrecodeRepeats))

\* The code of the code lengths.
PrecodeLengths(entries) ==
    LET used == [i \in DOMAIN entries |-> entries[i].symbol]
    IN  HuffmanLengths(EnsureTwo([s \in Precode |-> OccurrencesIn(used, s)]), PrecodeBits)

DynamicHeader(literalCount, distanceCount, entries, precode) ==
    LET lens == [i \in DOMAIN PrecodeOrder |-> precode[PrecodeOrder[i]]]
        count == Max({4} \cup {i \in DOMAIN lens : lens[i] # 0})
        codes == HuffmanCodes(precode)
    IN  <<0, 0, 1>> \o LowFirst(literalCount - EndOfBlock - 1, HeaderWidths[1])
        \o LowFirst(distanceCount - 1, HeaderWidths[2])
        \o LowFirst(count - 4, HeaderWidths[3])
        \o FlattenSeq([i \in 1..count |-> LowFirst(lens[i], HeaderWidths[4])])
        \o FlattenSeq([i \in DOMAIN entries |->
                           codes[entries[i].symbol] \o entries[i].extra])

\* encode_stored: as many blocks as it takes.
RECURSIVE StoredBlocks(_)
StoredBlocks(bytes) ==
    LET size == AtMostOf(Len(bytes), 2^SizeWidth - 1)
    IN  IF bytes = <<>> THEN <<>>
        ELSE Aligned(<<0, 0, 0>>) \o StoredHeader(size)
             \o FlattenSeq([i \in 1..size |-> LowFirst(bytes[i], ByteWidth)])
             \o StoredBlocks(SubSeq(bytes, size + 1, Len(bytes)))

\* What compress_bytes_serial, and submit_buffer, keep for the next segment.
Kept(before, chunk) ==
    LET all == before \o chunk
    IN  SubSeq(all, Len(all) - AtMostOf(Len(all), Farthest) + 1, Len(all))

------------------------------------------------------------------------------
DeflateInit ==
    /\ source \in Plains
    /\ effort \in Efforts
    /\ taken = 0 /\ previous = <<>> /\ coded = <<>>
    /\ place = 0 /\ inflated = <<>> /\ inflating = "not yet"

NextChunk == SubSeq(source, taken + 1, AtMostOf(taken + SegmentLength, Len(source)))

\* A segment becomes the bits.
Segment(chunk, bits) ==
    /\ taken' = taken + Len(chunk)
    /\ previous' = Kept(previous, chunk)
    /\ coded' = coded \o bits
    /\ UNCHANGED <<source, effort, place, inflated, inflating>>

Encoding == inflating = "not yet" /\ taken < Len(source)

EncodeStored == Encoding /\ Segment(NextChunk, StoredBlocks(NextChunk))

EncodeFixed ==
    /\ Encoding
    /\ \E tokens \in {Tokenize(previous \o NextChunk, Len(previous) + 1)} :
        Segment(NextChunk, CodedBlock(<<0, 1, 0>>, tokens, FixedLiterals, FixedDistances))

EncodeDynamic(repeats) ==
    /\ Encoding
    /\ \E tokens \in {Tokenize(previous \o NextChunk, Len(previous) + 1)} :
       \E literals \in {HuffmanLengths(LiteralWeights(tokens), MaxCodeBits)},
          distances \in {HuffmanLengths(DistanceWeights(tokens), MaxCodeBits)} :
       \E literalCount \in {InUseUpTo(literals, EndOfBlock)},
          distanceCount \in {InUseUpTo(distances, 0)} :
       \E lens \in {[i \in 1..(literalCount + distanceCount) |->
                        IF i <= literalCount THEN literals[i - 1]
                        ELSE distances[i - literalCount - 1]]} :
       \E entries \in {IF repeats THEN WithRepeats(lens, 1) ELSE Plainly(lens)} :
       \E precode \in {PrecodeLengths(entries)} :
       \E header \in {DynamicHeader(literalCount, distanceCount, entries, precode)} :
        Segment(NextChunk, CodedBlock(header, tokens, HuffmanCodes(literals),
                                      HuffmanCodes(distances)))

\* final_block
FinalBlock ==
    /\ inflating = "not yet" /\ taken = Len(source)
    /\ coded' = coded \o Aligned(<<1, 0, 0>>) \o StoredHeader(0)
    /\ inflating' = "yes"
    /\ UNCHANGED <<source, effort, taken, previous, place, inflated>>

------------------------------------------------------------------------------
(* The decoder. *)

Fits(at, count) == at + count <= Len(coded)
ValueAt(at, count) ==
    FoldLeft(LAMBDA value, bit : 2 * value + bit, 0,
             Reverse(SubSeq(coded, at + 1, at + count)))

\* Huffman::new
NotOversubscribed(lens) ==
    \A bits \in 1..MaxCodeBits :
        FoldLeft(LAMBDA used, l : 2 * used + Cardinality({s \in DOMAIN lens : lens[s] = l}),
                 0, [l \in 1..bits |-> l]) <= 2^bits

\* Huffman::decode: the symbol whose code comes next, if one does.
Symbol(codes, at) ==
    {s \in DOMAIN codes :
        /\ codes[s] # <<>> /\ Fits(at, Len(codes[s]))
        /\ SubSeq(coded, at + 1, at + Len(codes[s])) = codes[s]}

Refusal == [at |-> -1, read |-> <<>>]

\* The code lengths of dynamic_tables and append_lengths.
RECURSIVE ReadLengths(_, _, _, _)
ReadLengths(codes, at, lens, total) ==
    LET found == Symbol(codes, at)
        s == CHOOSE s \in found : TRUE
        next == at + Len(codes[s])
        k == s - MaxCodeBits
        width == PrecodeRepeats[k].width
        count == PrecodeRepeats[k].least + ValueAt(next, width)
        again == IF k = 1 THEN lens[Len(lens)] ELSE 0
    IN  IF Len(lens) >= total THEN [at |-> at, read |-> lens]
        ELSE IF found = {} THEN Refusal
        ELSE IF s <= MaxCodeBits THEN ReadLengths(codes, next, Append(lens, s), total)
        ELSE IF (k = 1 /\ lens = <<>>) \/ ~Fits(next, width) \/ Len(lens) + count > total
        THEN Refusal
        ELSE ReadLengths(codes, next + width, lens \o [i \in 1..count |-> again], total)

\* decode_huffman_block and Emitter::copy
RECURSIVE ReadTokens(_, _, _, _)
ReadTokens(literals, distances, at, output) ==
    LET found == Symbol(literals, at)
        s == CHOOSE s \in found : TRUE
        next == at + Len(literals[s])
        l == s - EndOfBlock
        far == next + LengthExtra[l]
        length == LengthBase[l] + ValueAt(next, LengthExtra[l])
        reach == Symbol(distances, far)
        d == CHOOSE d \in reach : TRUE
        last == far + Len(distances[d])
        distance == DistanceBase[d + 1] + ValueAt(last, DistanceExtra[d + 1])
        behind == last + DistanceExtra[d + 1]
    IN  IF found = {} THEN Refusal
        ELSE IF s < EndOfBlock THEN ReadTokens(literals, distances, next, Append(output, s))
        ELSE IF s = EndOfBlock THEN [at |-> next, read |-> output]
        ELSE IF l > Len(LengthBase) \/ ~Fits(far, 0) \/ reach = {} THEN Refusal
        ELSE IF d >= Len(DistanceBase) \/ ~Fits(behind, 0) THEN Refusal
        ELSE IF distance > AtMostOf(Len(output), Farthest) THEN Refusal
        ELSE ReadTokens(literals, distances, behind, ExtendMatch(output, distance, length))

\* A block has been read, or was refused.
Inflated(done, final) ==
    /\ IF done.at = -1
       THEN inflating' = "refused" /\ UNCHANGED <<place, inflated>>
       ELSE /\ place' = done.at /\ inflated' = done.read
            /\ inflating' = IF ~final THEN "yes"
                            ELSE IF AlignedUp(done.at) = Len(coded) THEN "done"
                            ELSE "refused"
    /\ UNCHANGED <<source, effort, taken, previous, coded>>

Final == Fits(place, 1) /\ coded[place + 1] = 1
IsKind(kind) == Fits(place, 3) /\ ValueAt(place + 1, 2) = kind

InflateStored ==
    \E at \in {AlignedUp(place + 3)} :
    \E size \in {ValueAt(at, SizeWidth)} :
    \E body \in {at + 2 * SizeWidth} :
        Inflated(IF Fits(body, size * ByteWidth)
                    /\ ValueAt(at + SizeWidth, SizeWidth) = 2^SizeWidth - 1 - size
                 THEN [at |-> body + size * ByteWidth,
                       read |-> inflated \o [i \in 1..size |->
                                   ValueAt(body + (i - 1) * ByteWidth, ByteWidth)]]
                 ELSE Refusal, Final)

\* fixed_tables numbers the codes anew, with those of symbols that are never
\* written.
FixedSymbols == UNION {r.first..r.last : r \in FixedRanges}
FixedLengths ==
    [s \in FixedSymbols |-> (CHOOSE r \in FixedRanges : s \in r.first..r.last).bits]

InflateFixed ==
    \E literals \in {HuffmanCodes(FixedLengths)},
       distances \in {HuffmanCodes([d \in 0..(2^FixedDistance - 1) |-> FixedDistance])} :
        Inflated(ReadTokens(literals, distances, place + 3, inflated), Final)

\* The places of a dynamic header's fields.
CountsAt(at) == at + 3
PrecodeAt(at) == CountsAt(at) + HeaderWidths[1] + HeaderWidths[2]
PrecodeCount(at) == 4 + ValueAt(PrecodeAt(at), HeaderWidths[3])
PrecodeLengthAt(at, i) == PrecodeAt(at) + HeaderWidths[3] + (i - 1) * HeaderWidths[4]

ReadPrecode(at) ==
    [s \in Precode |->
        LET i == CHOOSE i \in DOMAIN PrecodeOrder : PrecodeOrder[i] = s
        IN  IF i > PrecodeCount(at) THEN 0
            ELSE ValueAt(PrecodeLengthAt(at, i), HeaderWidths[4])]

\* dynamic_tables
InflateDynamic ==
    \E literalCount \in {EndOfBlock + 1 + ValueAt(CountsAt(place), HeaderWidths[1])},
       distanceCount \in {1 + ValueAt(CountsAt(place) + HeaderWidths[1], HeaderWidths[2])},
       lengthsAt \in {PrecodeLengthAt(place, PrecodeCount(place) + 1)},
       precode \in {ReadPrecode(place)} :
    \E lens \in {IF ~Fits(lengthsAt, 0) \/ ~NotOversubscribed(precode) THEN Refusal
                 ELSE ReadLengths(HuffmanCodes(precode), lengthsAt, <<>>,
                                  literalCount + distanceCount)} :
    IF lens.at = -1 THEN Inflated(Refusal, Final)
    ELSE \E literals \in {[s \in 0..(literalCount - 1) |-> lens.read[s + 1]]},
            distances \in {[d \in 0..(distanceCount - 1) |->
                                lens.read[literalCount + d + 1]]} :
         IF \/ literals[EndOfBlock] = 0
            \/ ~NotOversubscribed(literals) \/ ~NotOversubscribed(distances)
         THEN Inflated(Refusal, Final)
         ELSE Inflated(ReadTokens(HuffmanCodes(literals), HuffmanCodes(distances),
                                  lens.at, inflated), Final)

\* decode_block, until the last
InflateBlock ==
    /\ inflating = "yes"
    /\ IF IsKind(0) THEN InflateStored
       ELSE IF IsKind(1) THEN InflateFixed
       ELSE IF IsKind(2) THEN InflateDynamic
       ELSE Inflated(Refusal, TRUE)

DeflateNext ==
    \/ EncodeStored
    \/ EncodeFixed
    \/ \E repeats \in BOOLEAN : EncodeDynamic(repeats)
    \/ FinalBlock
    \/ InflateBlock

\* The tests of find_dynamic_boundary and valid_precode_shape at the start of
\* a block.
TakenForBoundary(at) ==
    LET lens == [i \in 1..PrecodeCount(at) |->
                    ValueAt(PrecodeLengthAt(at, i), HeaderWidths[4])]
        used == Cardinality({i \in DOMAIN lens : lens[i] # 0})
        longest == 2^HeaderWidths[4] - 1
        filled == FoldLeft(LAMBDA sum, l : sum + IF l = 0 THEN 0 ELSE 2^(longest - l),
                           0, lens)
    IN  /\ ValueAt(CountsAt(at), HeaderWidths[1]) <= Len(LengthBase)
        /\ ValueAt(CountsAt(at) + HeaderWidths[1], HeaderWidths[2]) < Len(DistanceBase)
        /\ used # 0 /\ filled <= 2^longest
        /\ filled = 2^longest \/ used = 1

\* Whichever way each segment is encoded, and with matches that reach into
\* the segments before, the decoder refuses no block and gives back the input,
\* with the padding to a byte between blocks and no bit left behind the last;
\* and the search for a place to start from passes over no dynamic block that
\* it may look at.
InflatesBack ==
    /\ inflating # "refused"
    /\ IsPrefix(inflated, source)
    /\ inflating = "done" => inflated = source
    /\ inflating = "yes" /\ ~Final /\ IsKind(2)
         /\ Fits(PrecodeLengthAt(place, Len(PrecodeOrder) + 1), 0)
       => TakenForBoundary(place)
=============================================================================
