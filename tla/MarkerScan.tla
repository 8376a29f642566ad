------------------------------ MODULE MarkerScan ------------------------------
(***************************************************************************)
(* scan_with_pool of src/format.rs: the structural scan for the stream     *)
(* headers, block markers and end markers of a bzip2 input.  The data is   *)
(* cut into chunks, waves of chunks are scanned at a time, and what they   *)
(* found is put together in the order of the data.                         *)
(*                                                                         *)
(* Bytes have ByteBits bits, a marker MagicBytes bytes at any bit, and a   *)
(* header is the byte Header before a level.                               *)
(***************************************************************************)
EXTENDS Integers, Sequences

CONSTANTS
    ByteBits,      \* 8
    MagicBytes,    \* 6
    BlockMagic,    \* BLOCK_MAGIC
    EndMagic,      \* END_MAGIC
    ChecksumBits,  \* 32
    BlockBits,     \* behind a block marker: checksum, randomized bit, origin
    Header,        \* "BZh"
    Levels,        \* '1' to '9'
    ScanChunk,     \* SCAN_CHUNK
    Pool,          \* the threads of the pool, 0 without one
    ScanInputs     \* the inputs considered

\* Powers of two: what a shift multiplies or divides by.
Pow2[n \in Nat] == IF n = 0 THEN 1 ELSE 2 * Pow2[n - 1]

ASSUME ScanAssumption ==
    /\ {ByteBits, MagicBytes, ScanChunk, BlockBits, ChecksumBits} \subseteq Nat \ {0}
    /\ {BlockMagic, EndMagic} \subseteq 0..(Pow2[MagicBytes * ByteBits] - 1)
    /\ Pool \in Nat
    /\ ScanInputs \subseteq Seq(0..(Pow2[ByteBits] - 1))

VARIABLES
    data,
    first,    \* the first chunk of the next wave
    result,   \* what was found so far
    scanned   \* how the scan ended, "no" while it runs

markerScan == <<data, first, result, scanned>>

Nothing == [streams |-> <<>>, blocks |-> <<>>, ends |-> <<>>]
SmallerOf(a, b) == IF a < b THEN a ELSE b

\* byte_at: zeros follow the data.
ByteAt(offset) == IF offset < Len(data) THEN data[offset + 1] ELSE 0

IsHeader(offset) ==
    offset + 1 < Len(data) /\ ByteAt(offset) = Header /\ ByteAt(offset + 1) \in Levels

\* What a pass over the numbers from one to before another collects of a set.
Collected(S, from, to) ==
    LET list[n \in Nat] ==
          IF n = 0 THEN <<>>
          ELSE IF from + n - 1 \in S THEN Append(list[n - 1], from + n - 1)
          ELSE list[n - 1]
    IN list[to - from]

\* The bytes from an offset on, put together to a word.
WordAt(offset, count) ==
    LET word[n \in Nat] ==
          IF n = 0 THEN 0 ELSE word[n - 1] * Pow2[ByteBits] + ByteAt(offset + n - 1)
    IN word[count]

\* The bytes a marker spans when it does not begin at the first bit of one,
\* shifted from byte to byte from the start of a range on.
WindowAt(start, offset) ==
    LET window[n \in Nat] ==
          IF n = 0 THEN WordAt(start, MagicBytes + 1)
          ELSE ((window[n - 1] * Pow2[ByteBits]) % Pow2[ByteBits * (MagicBytes + 1)])
               + ByteAt(start + n + MagicBytes)
    IN window[offset - start]

\* prefix_table: the shifts at which a byte can be the beginning of a marker.
Shifts(magic, byte) ==
    {shift \in 0..(ByteBits - 1) :
        byte % Pow2[ByteBits - shift] = magic \div Pow2[ByteBits * (MagicBytes - 1) + shift]}

\* parse_block and parse_end: what follows the marker is inside the data.
Parses(bit, count) == bit + MagicBytes * ByteBits + count <= Len(data) * ByteBits

\* What of a window is compared with the markers.
MarkerIn(window, shift) ==
    (window \div Pow2[ByteBits - shift]) % Pow2[ByteBits * MagicBytes]

\* The bits of one byte at which a marker begins.
MarkersIn(magic, count, start, offset) ==
    LET window == WindowAt(start, offset)
        byte == window \div Pow2[ByteBits * MagicBytes]
    IN  {offset * ByteBits + shift :
            shift \in {s \in Shifts(BlockMagic, byte) \union Shifts(EndMagic, byte) :
                          /\ MarkerIn(window, s) = magic
                          /\ Parses(offset * ByteBits + s, count)}}

Headers(from, to) == Collected({offset \in from..(to - 1) : IsHeader(offset)}, from, to)

AllMarkers(magic, count, from, to) ==
    Collected(UNION {MarkersIn(magic, count, from, offset) : offset \in from..(to - 1)},
              from * ByteBits, to * ByteBits)

\* Mutant of ScanRange: a chunk is scanned as if the data ended with it.
ScanRangeAlone(from, to) ==
    LET behind == (Len(data) - to) * ByteBits
    IN  [streams |-> Headers(from, to),
         blocks |-> IF Len(data) <= MagicBytes THEN <<>>
                    ELSE AllMarkers(BlockMagic, BlockBits + behind, from, to),
         ends |-> IF Len(data) <= MagicBytes THEN <<>>
                  ELSE AllMarkers(EndMagic, ChecksumBits + behind, from, to)]

\* scan_range: what begins inside a chunk, wherever it ends.
ScanRange(from, to) ==
    [streams |-> Headers(from, to),
     blocks |-> IF Len(data) <= MagicBytes THEN <<>>
                ELSE AllMarkers(BlockMagic, BlockBits, from, to),
     ends |-> IF Len(data) <= MagicBytes THEN <<>>
              ELSE AllMarkers(EndMagic, ChecksumBits, from, to)]

Appended(found, more) ==
    [streams |-> found.streams \o more.streams, blocks |-> found.blocks \o more.blocks,
     ends |-> found.ends \o more.ends]

Chunks == (Len(data) + ScanChunk - 1) \div ScanChunk
WaveEnd == SmallerOf(first + Pool, Chunks)
ScanOf(chunk) == ScanRange(chunk * ScanChunk, SmallerOf((chunk + 1) * ScanChunk, Len(data)))

\* What the chunks of a wave found, appended in their order.
AfterWave ==
    LET after[n \in 0..(WaveEnd - first)] ==
          IF n = 0 THEN result ELSE Appended(after[n - 1], ScanOf(first + n - 1))
    IN after[WaveEnd - first]

ScanInit ==
    /\ data \in ScanInputs
    /\ first = 0
    /\ result = Nothing
    /\ scanned = "no"

RefuseHeader ==
    /\ scanned = "no" /\ first = 0
    /\ ~IsHeader(0)
    /\ scanned' = "no header"
    /\ UNCHANGED <<data, first, result>>

\* The output is polled before every wave and at the end.
ScanCancelled ==
    /\ scanned = "no"
    /\ IsHeader(0)
    /\ scanned' = "cancelled"
    /\ UNCHANGED <<data, first, result>>

ScanWhole ==
    /\ scanned = "no"
    /\ IsHeader(0)
    /\ Pool = 0 \/ Len(data) <= ScanChunk
    /\ result' = ScanRange(0, Len(data))
    /\ scanned' = "ok"
    /\ UNCHANGED <<data, first>>

ScanWave ==
    /\ scanned = "no"
    /\ IsHeader(0)
    /\ Pool > 0 /\ Len(data) > ScanChunk
    /\ first < Chunks
    /\ result' = AfterWave
    /\ first' = first + Pool
    /\ UNCHANGED <<data, scanned>>

ScanEnds ==
    /\ scanned = "no"
    /\ IsHeader(0)
    /\ Pool > 0 /\ Len(data) > ScanChunk
    /\ first >= Chunks
    /\ scanned' = "ok"
    /\ UNCHANGED <<data, first, result>>

ScanNext == RefuseHeader \/ ScanCancelled \/ ScanWhole \/ ScanWave \/ ScanEnds

ScanSpec == ScanInit /\ [][ScanNext]_markerScan

------------------------------------------------------------------------------
\* The bits of the data, and the places where a marker stands among them.
BitAt(bit) ==
    (ByteAt(bit \div ByteBits) \div Pow2[ByteBits - 1 - (bit % ByteBits)]) % 2
StandsAt(magic, bit) ==
    \A i \in 0..(MagicBytes * ByteBits - 1) :
        BitAt(bit + i) = (magic \div Pow2[MagicBytes * ByteBits - 1 - i]) % 2
Places(magic, count) ==
    Collected({bit \in 0..(Len(data) * ByteBits - 1) :
                  StandsAt(magic, bit) /\ Parses(bit, count)},
              0, Len(data) * ByteBits)

\* The scan in chunks and bytes finds every marker and every header of the
\* data, at whatever bit it begins and across whatever border of chunks, finds
\* none twice and none that is not there, and lists them in ascending order:
\* the chain of blocks is followed by looking places up in these lists.
SeamlessScan ==
    scanned = "ok" =>
        result = [streams |-> Headers(0, Len(data)),
                  blocks |-> Places(BlockMagic, BlockBits),
                  ends |-> Places(EndMagic, ChecksumBits)]
==============================================================================
