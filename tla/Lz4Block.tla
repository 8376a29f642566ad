-------------------------------- MODULE Lz4Block -------------------------------
(***************************************************************************)
(* The bytes of an LZ4 block: compress_block_fast and compress_block_high  *)
(* of src/lz4_encode.rs with the match finders of src/matchfinder.rs, and  *)
(* decompress_block of src/lz4.rs.                                         *)
(*                                                                         *)
(* The encoder keeps a block as it is where coding does not make it        *)
(* shorter (encode_block); here it may be coded anyhow, so that short      *)
(* blocks are too.  Places count from 0; the two bytes of a distance are   *)
(* one.                                                                    *)
(***************************************************************************)
EXTENDS History, FiniteSetsExt

CONSTANTS
    NibbleMax,     \* 15, what a half of a token holds
    LengthByte,    \* 255, the byte of a length that another follows
    LastStart,     \* 12: no match is looked for nearer to the end
    EndBytes,      \* 5: the last bytes are no part of a match
    Reach,         \* WINDOW_SIZE
    SkipEvery,     \* 64: after as many literals the next place is one further
    Hashes,        \* HASH_SIZE
    Chains,        \* the chain_depth of a level; 0 for the fast encoder
    Texts          \* the blocks considered

ASSUME Lz4BlockAssumption ==
    /\ {NibbleMax, LengthByte, Reach, SkipEvery, Hashes} \subseteq Nat \ {0}
    /\ {LastStart, EndBytes} \subseteq Nat /\ EndBytes + 4 <= LastStart
    /\ Chains \subseteq Nat
    /\ Texts \subseteq Seq(Nat)

VARIABLES
    text,          \* the block
    chain,
    anchor,        \* where the literals not yet written begin
    cursor,        \* position
    finder,        \* the places inserted, each behind those before it
    packed,        \* the coded block
    unread,        \* where the decoder is
    unpacked,      \* what it has decoded
    packing        \* "coding", "decoding", "done" or "refused"

lz4Block == <<text, chain, anchor, cursor, finder, packed, unread, unpacked, packing>>

Shortest == 4
Fast == chain = 0
TextAt(i) == text[i + 1]
Cut(from, to) == SubSeq(text, from + 1, to)

\* Any function of the bytes hashed, three of them in a chain, four without.
HashAt(i) ==
    (TextAt(i) + 2 * TextAt(i + 1) + TextAt(i + 2) + IF Fast THEN 3 * TextAt(i + 3) ELSE 0)
        % Hashes

\* insert
Inserted(places, i) ==
    IF i + (IF Fast THEN 4 ELSE 3) > Len(text) THEN places ELSE places \union {i}

\* match_length
CommonLength(left, right, limit) ==
    Max({n \in 0..limit : \A i \in 0..(n - 1) : TextAt(left + i) = TextAt(right + i)})

NoMatch == [length |-> 0, from |-> 0]

\* LatestMatch::insert_and_find: the latest place of the slot, if it is near
\* enough and four bytes there are the same.
LatestOf(i) ==
    LET slot == {q \in finder : HashAt(q) = HashAt(i)}
        latest == Max(slot)
    IN  IF \/ slot = {} \/ i - latest > Reach
           \/ Cut(latest, latest + Shortest) # Cut(i, i + Shortest)
        THEN NoMatch
        ELSE [length |-> CommonLength(i, latest, Len(text) - i - EndBytes), from |-> latest]

\* HashChain::best_match: the nearest of the longest among those searched.
BestOf(i) ==
    LET near == {q \in finder : i - q <= Reach /\ HashAt(q) = HashAt(i)}
        searched == {q \in near : Cardinality({p \in near : p > q}) < chain}
        length == [q \in searched |-> CommonLength(i, q, Len(text) - i - EndBytes)]
        longest == {q \in searched :
                       length[q] >= Shortest /\ \A p \in searched : length[p] <= length[q]}
    IN  IF longest = {} THEN NoMatch
        ELSE [length |-> length[Max(longest)], from |-> Max(longest)]

\* How far a match goes on before where it was found.
Backwards(i, from) ==
    Max({n \in 0..AtMostOf(i - anchor, from) :
            \A k \in 1..n : TextAt(i - k) = TextAt(from - k)})

\* Mutant of WriteLength: a rest of one full byte ends with it.
WriteLengthOver(length) ==
    LET full == IF length = 0 THEN 0 ELSE (length - 1) \div LengthByte
    IN  [i \in 1..full |-> LengthByte] \o <<length - full * LengthByte>>

\* write_length: full bytes, and a last one that is less.
WriteLength(length) ==
    [i \in 1..(length \div LengthByte) |-> LengthByte] \o <<length % LengthByte>>

\* A half of the token, and the length bytes that it makes necessary.
Nibble(length) == AtMostOf(length, NibbleMax)
LengthBytes(length) == IF length >= NibbleMax THEN WriteLength(length - NibbleMax) ELSE <<>>

WriteSequence(literals, distance, length) ==
    <<Nibble(Len(literals)) * (NibbleMax + 1) + Nibble(length - Shortest)>>
    \o LengthBytes(Len(literals)) \o literals
    \o <<distance % (Reach + 1)>> \o LengthBytes(length - Shortest)

WriteLastLiterals(literals) ==
    <<Nibble(Len(literals)) * (NibbleMax + 1)>> \o LengthBytes(Len(literals)) \o literals

------------------------------------------------------------------------------
Lz4BlockInit ==
    /\ text \in Texts
    /\ chain \in Chains
    /\ anchor = 0 /\ cursor = 0 /\ finder = {} /\ packed = <<>>
    /\ unread = 0 /\ unpacked = <<>> /\ packing = "coding"

Looking == packing = "coding" /\ cursor + LastStart <= Len(text)
MatchHere == IF Fast THEN LatestOf(cursor) ELSE BestOf(cursor)

\* No match: the fast encoder leaves out more and more.
Miss ==
    /\ Looking
    /\ MatchHere = NoMatch
    /\ finder' = Inserted(finder, cursor)
    /\ cursor' = cursor + 1 + IF Fast THEN (cursor - anchor) \div SkipEvery ELSE 0
    /\ UNCHANGED <<text, chain, anchor, packed, unread, unpacked, packing>>

\* A match, longer by what precedes it; the fast encoder has inserted the
\* place, and both insert one near the end of the match.
Hit ==
    /\ Looking
    /\ \E match \in {MatchHere} :
       /\ match # NoMatch
       /\ \E back \in {Backwards(cursor, match.from)}, end \in {cursor + match.length} :
          /\ packed' = packed \o WriteSequence(Cut(anchor, cursor - back),
                                               cursor - match.from, match.length + back)
          /\ finder' = Inserted(IF Fast THEN Inserted(finder, cursor) ELSE finder, end - 2)
          /\ cursor' = end /\ anchor' = end
    /\ UNCHANGED <<text, chain, unread, unpacked, packing>>

EndBlockCoding ==
    /\ packing = "coding" /\ ~Looking
    /\ packed' = packed \o WriteLastLiterals(Cut(anchor, Len(text)))
    /\ packing' = "decoding"
    /\ UNCHANGED <<text, chain, anchor, cursor, finder, unread, unpacked>>

------------------------------------------------------------------------------
(* The decoder. *)

Truncated == [length |-> 0, at |-> -1]

\* read_length
LengthAt(at, initial) ==
    LET last == {i \in at..(Len(packed) - 1) : packed[i + 1] # LengthByte}
    IN  IF initial # NibbleMax THEN [length |-> initial, at |-> at]
        ELSE IF last = {} THEN Truncated
        ELSE [length |-> initial + (Min(last) - at) * LengthByte + packed[Min(last) + 1],
              at |-> Min(last) + 1]

Refuse == packing' = "refused" /\ UNCHANGED <<unread, unpacked>>

\* What follows the literals: the end, or a match.
DecodeRest(output, at, nibble) ==
    IF at = Len(packed)
    THEN unpacked' = output /\ unread' = at /\ packing' = "done"
    ELSE \E distance \in {packed[at + 1]}, match \in {LengthAt(at + 1, nibble)} :
         IF \/ match.at = -1
            \/ Len(output) + match.length + Shortest > Len(text)
            \/ distance = 0 \/ distance > Len(output)
         THEN Refuse
         ELSE /\ unpacked' = ExtendMatch(output, distance, match.length + Shortest)
              /\ unread' = match.at
              /\ packing' = IF match.at = Len(packed) THEN "done" ELSE "decoding"

\* A sequence of decompress_block; a block may be as long as the encoder's.
DecodeSequence ==
    /\ packing = "decoding"
    /\ \E token \in {packed[unread + 1]} :
       \E literals \in {LengthAt(unread + 1, token \div (NibbleMax + 1))} :
       IF \/ literals.at = -1
          \/ literals.at + literals.length > Len(packed)
          \/ Len(unpacked) + literals.length > Len(text)
       THEN Refuse
       ELSE DecodeRest(
                unpacked \o SubSeq(packed, literals.at + 1, literals.at + literals.length),
                literals.at + literals.length, token % (NibbleMax + 1))
    /\ UNCHANGED <<text, chain, anchor, cursor, finder, packed>>

Lz4BlockNext == Miss \/ Hit \/ EndBlockCoding \/ DecodeSequence

Lz4BlockSpec == Lz4BlockInit /\ [][Lz4BlockNext]_lz4Block

\* What the encoder has written and the literals it holds back are the block
\* up to where it is; the decoder refuses nothing and gives the block back;
\* and a block ends with literals alone, five of them at least behind a match,
\* which other decoders rely on.
Unpacks ==
    /\ packing # "refused"
    /\ IsPrefix(unpacked, text)
    /\ packing = "done" => unpacked = text
    /\ anchor # 0 => anchor + EndBytes <= Len(text)
==============================================================================
