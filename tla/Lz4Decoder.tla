------------------------------ MODULE Lz4Decoder ------------------------------
(***************************************************************************)
(* The decoder of src/lz4.rs: the frames of an input and their blocks, and *)
(* the bytes of blocks that are linked.                                    *)
(***************************************************************************)
EXTENDS History

------------------------------------------------------------------------------
(* decompress_to_sink of src/lz4.rs: the frames of an LZ4 input, one after *)
(* another, and the blocks of a frame, one by one or in batches.           *)
(*                                                                         *)
(* An item of the input is a record.  Its kind is "skip" for a skippable   *)
(* frame, "unknown" for one whose magic or header is refused, or           *)
(* "independent" or "linked" for a frame; its blocks are "stored",         *)
(* "checked" (stored, with a checksum), "packed" or "corrupt"; they may    *)
(* end with an end mark or be cut short; and its size and checksum may     *)
(* agree with what was decoded or not.  A block of the output is the pair  *)
(* of its item and its number.                                             *)
(*                                                                         *)
(* A batch that is decoded in parallel is SerialBatch: its blocks are      *)
(* committed in order up to the first that fails.                          *)

CONSTANTS
    ThreadCounts,   \* the numbers of workers considered
    MaxBatch,       \* MAX_BATCH_BLOCKS
    MinParallel,    \* MIN_PARALLEL_INPUT, in blocks of work
    FrameInputs     \* the inputs considered

Items ==
    [kind : {"skip", "unknown", "independent", "linked"},
     blocks : Seq({"stored", "checked", "packed", "corrupt"}),
     marked : BOOLEAN, agrees : BOOLEAN]

ASSUME FramesAssumption ==
    /\ ThreadCounts \subseteq Nat /\ {MaxBatch, MinParallel} \subseteq Nat
    /\ FrameInputs \subseteq Seq(Items)

VARIABLES
    threads,      \* 1 also stands for a memory limit below two blocks
    items,
    item,         \* the item being decoded
    nextBlock,     \* the next block of it to parse
    inFrame,      \* its blocks are being decoded
    batch,        \* the blocks parsed and not yet committed
    parseError,   \* parsing failed behind them
    ended,        \* nothing of the frame is left to parse
    written,      \* the blocks committed
    outcome       \* "none" while the call runs

lz4Frames ==
    <<threads, items, item, nextBlock, inFrame, batch, parseError, ended, written, outcome>>

Frame == items[item]
Block(number) == Frame.blocks[number]
Batched == Frame.kind = "independent" /\ threads > 1

\* estimated_work
Work(numbers) == Cardinality({i \in DOMAIN numbers : Block(numbers[i]) # "stored"})

FramesInit ==
    /\ threads \in ThreadCounts
    /\ items \in FrameInputs
    /\ item = 1 /\ nextBlock = 1
    /\ inFrame = FALSE
    /\ batch = <<>> /\ parseError = FALSE /\ ended = FALSE
    /\ written = <<>>
    /\ outcome = "none"

BeginItem ==
    /\ outcome = "none" /\ ~inFrame
    /\ item <= Len(items)
    /\ nextBlock' = 1 /\ ended' = FALSE
    /\ item' = IF Frame.kind = "skip" THEN item + 1 ELSE item
    /\ inFrame' = (Frame.kind \in {"independent", "linked"})
    /\ outcome' = IF Frame.kind = "unknown" THEN "error" ELSE "none"
    /\ UNCHANGED <<threads, items, batch, parseError, written>>

\* The output is polled before every item, block and batch.
OutputGone ==
    /\ outcome = "none" /\ batch = <<>> /\ ~(inFrame /\ ended)
    /\ outcome' = "aborted"
    /\ UNCHANGED <<threads, items, item, nextBlock, inFrame, batch, parseError, ended, written>>

\* Where the loop that gathers a batch stops: full, or enough for everyone.
Gathered(numbers) ==
    \/ Len(numbers) >= MaxBatch
    \/ Len(numbers) >= threads /\ Work(numbers) >= MinParallel

Stops(numbers) == IF Batched THEN Gathered(numbers) ELSE Len(numbers) = 1

\* The blocks of the next batch, or the next block alone.
Unparsed == SubSeq([b \in DOMAIN Frame.blocks |-> b], nextBlock, Len(Frame.blocks))
Parsed ==
    LET stops == {n \in 0..Len(Unparsed) : n = Len(Unparsed) \/ Stops(SubSeq(Unparsed, 1, n))}
    IN  SubSeq(Unparsed, 1, CHOOSE n \in stops : \A m \in stops : n <= m)
ParsedLast == Parsed = Unparsed /\ ~Stops(Unparsed)

\* Mutant of GatherBlocks: an error of parsing is answered at once.
GatherBlocksEager ==
    /\ outcome = "none" /\ inFrame /\ ~ended /\ batch = <<>>
    /\ batch' = IF ParsedLast /\ ~Frame.marked THEN <<>> ELSE Parsed
    /\ nextBlock' = nextBlock + Len(Parsed)
    /\ ended' = ParsedLast
    /\ parseError' = (ParsedLast /\ ~Frame.marked)
    /\ UNCHANGED <<threads, items, item, inFrame, written, outcome>>

\* An error met while parsing waits until the blocks in front are committed.
GatherBlocks ==
    /\ outcome = "none" /\ inFrame /\ ~ended /\ batch = <<>>
    /\ batch' = Parsed
    /\ nextBlock' = nextBlock + Len(Parsed)
    /\ ended' = ParsedLast
    /\ parseError' = (ParsedLast /\ ~Frame.marked)
    /\ UNCHANGED <<threads, items, item, inFrame, written, outcome>>

CommitFirst ==
    /\ outcome = "none" /\ batch # <<>>
    /\ Block(Head(batch)) # "corrupt"
    /\ written' = Append(written, <<item, Head(batch)>>)
    /\ batch' = Tail(batch)
    /\ UNCHANGED <<threads, items, item, nextBlock, inFrame, parseError, ended, outcome>>

CommitRefused ==
    /\ outcome = "none" /\ batch # <<>>
    /\ Block(Head(batch)) # "corrupt"
    /\ outcome' = "aborted"
    /\ UNCHANGED <<threads, items, item, nextBlock, inFrame, batch, parseError, ended, written>>

BlockFails ==
    /\ outcome = "none" /\ batch # <<>>
    /\ Block(Head(batch)) = "corrupt"
    /\ outcome' = "error"
    /\ UNCHANGED <<threads, items, item, nextBlock, inFrame, batch, parseError, ended, written>>

\* Behind the last block: the error of parsing, or the size and the checksum.
EndFrame ==
    /\ outcome = "none" /\ inFrame /\ ended /\ batch = <<>>
    /\ inFrame' = FALSE
    /\ item' = item + 1
    /\ outcome' = IF parseError \/ ~Frame.agrees THEN "error" ELSE "none"
    /\ UNCHANGED <<threads, items, nextBlock, batch, parseError, ended, written>>

EndInput ==
    /\ outcome = "none" /\ ~inFrame
    /\ item > Len(items)
    /\ outcome' = IF \E i \in DOMAIN items : items[i].kind # "skip" THEN "ok" ELSE "error"
    /\ UNCHANGED <<threads, items, item, nextBlock, inFrame, batch, parseError, ended, written>>

FramesNext ==
    \/ BeginItem
    \/ OutputGone
    \/ GatherBlocks
    \/ CommitFirst
    \/ CommitRefused
    \/ BlockFails
    \/ EndFrame
    \/ EndInput

FramesSpec == FramesInit /\ [][FramesNext]_lz4Frames

------------------------------------------------------------------------------
(* The input read by its order alone: all blocks in front of its first     *)
(* fault.                                                                  *)

Corrupt(i) == {b \in DOMAIN items[i].blocks : items[i].blocks[b] = "corrupt"}
Faulty(i) ==
    \/ items[i].kind = "unknown"
    \/ items[i].kind # "skip" /\ (~items[i].marked \/ ~items[i].agrees \/ Corrupt(i) # {})
InFront(i, b) ==
    /\ items[i].kind \in {"independent", "linked"}
    /\ \A j \in 1..(i - 1) : ~Faulty(j)
    /\ \A c \in Corrupt(i) : b < c
AllInFront ==
    UNION {{<<i, b>> : b \in {c \in DOMAIN items[i].blocks : InFront(i, c)}} :
              i \in DOMAIN items}

Before(place, other) ==
    \/ place[1] < other[1]
    \/ place[1] = other[1] /\ place[2] < other[2]

\* Batches and threads are not seen in the output: it receives the blocks of
\* the input in order and none twice, each when all in front of it have been
\* written, up to the first fault of whatever sort, a damaged block, a cut, a
\* wrong checksum, an unknown frame; and an error is answered when all the
\* blocks in front of that fault, those of a batch begun included, have been
\* written.
FramesInOrder ==
    /\ \A m, n \in DOMAIN written : m < n => Before(written[m], written[n])
    /\ Range(written) \subseteq AllInFront
    /\ \A n \in DOMAIN written, place \in AllInFront :
          Before(place, written[n]) => place \in Range(written)
    /\ outcome \in {"ok", "error"} => AllInFront \subseteq Range(written)
    /\ outcome = "ok" => \A i \in DOMAIN items : ~Faulty(i)

------------------------------------------------------------------------------
(* decode_linked: blocks whose matches may reach into the blocks before    *)
(* them, of which a window is kept.                                        *)
(*                                                                         *)
(* As in DeflateWindow, the blocks are made up as they are decoded: runs   *)
(* of literals, matches, and the ends of blocks; or stored blocks.         *)

CONSTANTS
    LinkedWindow,   \* WINDOW_SIZE; the offset of a match is less
    MaxBlock,       \* max_block_size
    LinkedBytes,    \* the bytes
    LinkedRuns,     \* the lengths of runs, of matches and of stored blocks
    MaxLinked       \* the longest output considered

ASSUME LinkedAssumption ==
    /\ LinkedWindow \in Nat \ {0}
    /\ {MaxBlock, MaxLinked} \subseteq Nat
    /\ LinkedRuns \subseteq Nat

VARIABLES
    meaning,     \* what the blocks mean
    history,     \* the window of what has been committed
    output,      \* the block being decoded
    linked,      \* the blocks committed
    linkedEnd    \* why a block is refused, "none" at first, and the offset refused

lz4Linked == <<meaning, history, output, linked, linkedEnd>>

Latest(s, count) == SubSeq(s, Len(s) - count + 1, Len(s))

LinkedInit ==
    /\ meaning = <<>> /\ history = <<>> /\ output = <<>> /\ linked = <<>>
    /\ linkedEnd = [why |-> "none", offset |-> 0]

LinkedRoom(count) == linkedEnd.why = "none" /\ Len(meaning) + count <= MaxLinked

\* Mutant of UpdateHistory: a block replaces the history.
UpdateHistoryAnew(bytes) == Latest(bytes, AtMostOf(Len(bytes), LinkedWindow))

\* update_history
UpdateHistory(bytes) ==
    LET excess == Len(history) + Len(bytes) - LinkedWindow
        dropped == IF excess > 0 THEN excess ELSE 0
    IN  IF Len(bytes) >= LinkedWindow THEN Latest(bytes, LinkedWindow)
        ELSE SubSeq(history, dropped + 1, Len(history)) \o bytes

\* copy_match: first what lies in the history, then what the block holds.
CopyMatch(offset, length) ==
    LET needed == IF offset > Len(output) THEN offset - Len(output) ELSE 0
        start == Len(history) - needed
        take == AtMostOf(length, needed)
        begun == output \o SubSeq(history, start + 1, start + take)
    IN  IF take = length THEN begun ELSE ExtendMatch(begun, offset, length - take)

\* The loop of decompress_block: a run of literals ...
DecodeRun(bytes) ==
    /\ LinkedRoom(Len(bytes))
    /\ IF Len(output) + Len(bytes) > MaxBlock
       THEN linkedEnd' = [linkedEnd EXCEPT !.why = "too long"] /\ UNCHANGED <<meaning, output>>
       ELSE /\ output' = output \o bytes
            /\ meaning' = meaning \o bytes
            /\ UNCHANGED linkedEnd
    /\ UNCHANGED <<history, linked>>

\* ... and a match.
DecodeLinkedMatch(offset, length) ==
    /\ LinkedRoom(length)
    /\ IF Len(output) + length > MaxBlock
       THEN linkedEnd' = [linkedEnd EXCEPT !.why = "too long"] /\ UNCHANGED <<meaning, output>>
       ELSE IF offset = 0 \/ offset > Len(history) + Len(output)
       THEN linkedEnd' = [why |-> "too far", offset |-> offset] /\ UNCHANGED <<meaning, output>>
       ELSE /\ output' = CopyMatch(offset, length)
            /\ meaning' = Repeated(meaning, offset, length)
            /\ UNCHANGED linkedEnd
    /\ UNCHANGED <<history, linked>>

CommitBlock ==
    /\ linkedEnd.why = "none"
    /\ history' = UpdateHistory(output)
    /\ linked' = linked \o output
    /\ output' = <<>>
    /\ UNCHANGED <<meaning, linkedEnd>>

CommitStored(bytes) ==
    /\ LinkedRoom(Len(bytes))
    /\ output = <<>>
    /\ history' = UpdateHistory(bytes)
    /\ linked' = linked \o bytes
    /\ meaning' = meaning \o bytes
    /\ UNCHANGED <<output, linkedEnd>>

LinkedNext ==
    \/ \E run \in LinkedRuns : \E bytes \in [1..run -> LinkedBytes] :
          DecodeRun(bytes) \/ CommitStored(bytes)
    \/ \E offset \in 0..(LinkedWindow - 1), run \in LinkedRuns :
          DecodeLinkedMatch(offset, run)
    \/ CommitBlock

LinkedSpec == LinkedInit /\ [][LinkedNext]_lz4Linked

\* Decoding block by block with a window of the last bytes gives the bytes that
\* the blocks mean when every match may reach back over all of them: the window
\* is always the end of what has been committed, and a match is refused only
\* when it reaches in front of the first byte.
LinkedHistory ==
    /\ linked \o output = meaning
    /\ history = Latest(linked, AtMostOf(Len(linked), LinkedWindow))
    /\ linkedEnd.why = "too far" => linkedEnd.offset \notin 1..Len(meaning)
==============================================================================
