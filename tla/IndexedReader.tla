---------------------------- MODULE IndexedReader -----------------------------
(***************************************************************************)
(* IndexedReader and its BlockCache, src/indexed.rs: reads and seeks in    *)
(* the decoded data of a bzip2 file by an index of its blocks, with the    *)
(* blocks used last kept up to a limit in bytes.                           *)
(*                                                                         *)
(* The byte at decoded place p is p itself.  An index that is loaded is    *)
(* only checked for what Index::validate can tell, so that a block may be  *)
(* damaged: it does not decode, or not to the length recorded.             *)
(***************************************************************************)
EXTENDS Integers, SequencesExt, FiniteSetsExt

CONSTANTS
    Records,     \* the lengths of the blocks of the indexes considered
    CacheLimit,  \* cache_limit
    MaxRead      \* the longest read

ASSUME IndexAssumption ==
    Records \subseteq Seq(Nat) /\ CacheLimit \in Nat /\ MaxRead \in Nat

VARIABLES
    lengths,   \* the lengths of the blocks
    damaged,   \* the blocks that are not what their records say
    position,
    entries,   \* BlockCache: the data of the blocks kept
    order,     \*   their numbers, the one used last at the end
    bytes,     \*   how many bytes they have
    began,     \* where the read began
    wanted,    \* how many bytes it asks for
    copied,    \* the bytes it has copied to the output
    reading    \* "no", "yes", or how the last read ended: "ok" or "error"

cache == <<entries, order, bytes>>
oneRead == <<began, wanted, copied, reading>>
indexedReader == <<lengths, damaged, position, cache, oneRead>>

SumOf(numbers) == FoldLeft(LAMBDA a, b : a + b, 0, numbers)

DecodedStart(number) == SumOf(SubSeq(lengths, 1, number - 1))
DecodedLen == DecodedStart(Len(lengths) + 1)
DataOf(number) == [i \in 1..lengths[number] |-> DecodedStart(number) + i - 1]

\* block_number
BlockAtPosition ==
    Min({b \in DOMAIN lengths : DecodedStart(b) + lengths[b] > position})

IndexedInit ==
    /\ lengths \in Records
    /\ damaged \in SUBSET DOMAIN lengths
    /\ position = 0
    /\ entries = <<>> /\ order = <<>> /\ bytes = 0
    /\ began = 0 /\ wanted = 0 /\ copied = <<>> /\ reading = "no"

\* seek: from the beginning, from the position or from the end.
SeekFrom(base, offset) ==
    /\ reading # "yes"
    /\ position' = IF base + offset \in 0..DecodedLen THEN base + offset ELSE position
    /\ reading' = "no"
    /\ UNCHANGED <<lengths, damaged, cache, began, wanted, copied>>

BeginRead(count) ==
    /\ reading # "yes"
    /\ began' = position
    /\ wanted' = count
    /\ copied' = <<>>
    /\ reading' = "yes"
    /\ UNCHANGED <<lengths, damaged, position, cache>>

Rest == wanted - Len(copied)
Continues == reading = "yes" /\ Rest > 0 /\ position < DecodedLen

\* The part of a block's data that is asked for, copied to the output.
Copies(data, number) ==
    LET offset == position - DecodedStart(number)
        count == IF Rest < Len(data) - offset THEN Rest ELSE Len(data) - offset
    IN  /\ copied' = copied \o SubSeq(data, offset + 1, offset + count)
        /\ position' = position + count

\* retain: the order without a block.
Without(number) ==
    FoldLeft(LAMBDA kept, b : IF b = number THEN kept ELSE Append(kept, b), <<>>, order)

\* BlockCache::get: the block becomes the one used last.
ReadCached ==
    /\ Continues
    /\ LET number == BlockAtPosition IN
       /\ number \in DOMAIN entries
       /\ Copies(entries[number], number)
       /\ order' = Append(Without(number), number)
    /\ UNCHANGED <<lengths, damaged, entries, bytes, began, wanted, reading>>

\* The bytes of some of the blocks kept.
Held(numbers) == SumOf([i \in DOMAIN numbers |-> Len(entries[numbers[i]])])

Evicted(count) == SubSeq(order, 1, count)

\* How many of the entries used longest ago make room for a block.
Evictions(size) ==
    Min({n \in 0..Len(order) :
            bytes - Held(Evicted(n)) + size <= CacheLimit \/ n = Len(order)})

Keeps(count, number, data) ==
    LET kept == DOMAIN entries \ ToSet(Evicted(count))
    IN  /\ entries' = [b \in kept \union {number} |->
                          IF b = number THEN data ELSE entries[b]]
        /\ order' = Append(SubSeq(order, count + 1, Len(order)), number)

\* Mutant of Insert: the bytes of evicted blocks stay counted.
InsertLeaks(number, data) ==
    LET count == Evictions(Len(data))
    IN  IF Len(data) > CacheLimit THEN UNCHANGED cache
        ELSE /\ Keeps(count, number, data)
             /\ bytes' = bytes + Len(data)

\* BlockCache::insert
Insert(number, data) ==
    LET count == Evictions(Len(data))
    IN  IF Len(data) > CacheLimit THEN UNCHANGED cache
        ELSE /\ Keeps(count, number, data)
             /\ bytes' = bytes - Held(Evicted(count)) + Len(data)

ReadDecoded ==
    /\ Continues
    /\ LET number == BlockAtPosition IN
       /\ number \notin DOMAIN entries
       /\ number \notin damaged
       /\ Copies(DataOf(number), number)
       /\ Insert(number, DataOf(number))
    /\ UNCHANGED <<lengths, damaged, began, wanted, reading>>

\* What the parts before have copied stays copied, and the position behind it.
ReadFails ==
    /\ Continues
    /\ BlockAtPosition \notin DOMAIN entries
    /\ BlockAtPosition \in damaged
    /\ reading' = "error"
    /\ UNCHANGED <<lengths, damaged, position, cache, began, wanted, copied>>

EndRead ==
    /\ reading = "yes" /\ ~Continues
    /\ reading' = "ok"
    /\ UNCHANGED <<lengths, damaged, position, cache, began, wanted, copied>>

IndexedNext ==
    \/ \E base \in {0, position, DecodedLen}, offset \in (-DecodedLen - 1)..(DecodedLen + 1) :
          SeekFrom(base, offset)
    \/ \E count \in 0..MaxRead : BeginRead(count)
    \/ ReadCached
    \/ ReadDecoded
    \/ ReadFails
    \/ EndRead

IndexedSpec == IndexedInit /\ [][IndexedNext]_indexedReader

\* Whatever was read and sought before, whatever the cache kept or evicted,
\* and wherever a read stops: it has copied the decoded bytes from where it
\* began, the position is behind them, and unless a block is damaged they are
\* as many as were asked for or left.  The cache holds no damaged block, its
\* order names its blocks once each, and it counts what it holds, within its
\* limit.
CachedReads ==
    /\ reading # "no" =>
          /\ copied = [i \in DOMAIN copied |-> began + i - 1]
          /\ position = began + Len(copied)
    /\ reading = "ok" =>
          Len(copied) = IF wanted < DecodedLen - began THEN wanted ELSE DecodedLen - began
    /\ \A b \in DOMAIN entries : b \notin damaged /\ entries[b] = DataOf(b)
    /\ ToSet(order) = DOMAIN entries /\ IsInjective(order)
    /\ bytes = Held(order)
    /\ bytes <= CacheLimit
==============================================================================
