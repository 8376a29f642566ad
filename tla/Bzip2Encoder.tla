----------------------------- MODULE Bzip2Encoder -----------------------------
(***************************************************************************)
(* The bzip2 encoder of src/bz2_encode/mod.rs.  Its splitter cuts the      *)
(* bytes into groups as they arrive, groups fill a block, a full block is  *)
(* submitted, and its bits are written when its turn comes.  flush writes  *)
(* no block.  How a block is coded is in Bzip2Block.                       *)
(***************************************************************************)
EXTENDS WriteCalls

CONSTANTS
    Repeats,   \* 4: after so many equal bytes comes a count
    MaxRun,    \* MAX_RUN, the longest run of one group
    ByteSize,  \* 256: the values of a byte
    BlockLimit \* block_limit

ASSUME RunLengthAssumption ==
    /\ Repeats \in Nat \ {0}
    /\ {MaxRun, ByteSize} \subseteq Nat
    /\ MaxRun - Repeats \in 0..(ByteSize - 1)

\* level * 100_000 - 19 leaves room for any group.
ASSUME BlockLimitAssumption == BlockLimit \in Nat /\ BlockLimit > Repeats

------------------------------------------------------------------------------
(* RLE1: Splitter and Group of src/bz2_encode/rle1.rs, and the last loop   *)
(* of Decoder::block in src/decoder.rs, which expands the groups.  A byte  *)
(* is a number, also when it counts repetitions.                           *)

\* A group, and the Splitter itself: len bytes of one value, none if len = 0.
NoGroup == [byte |-> 0, len |-> 0]

EncodedLen(group) == IF group.len >= Repeats THEN Repeats + 1 ELSE group.len

Copies(byte, n) == [i \in 1..n |-> byte]

Encoded(group) ==
    IF group.len >= Repeats
    THEN Append(Copies(group.byte, Repeats), (group.len - Repeats) % ByteSize)
    ELSE Copies(group.byte, group.len)

\* Mutant of Extends: the cap is one too high.
ExtendsOnceMore(run, byte) == run.len > 0 /\ byte = run.byte /\ run.len <= MaxRun

\* push: the byte extends the run, or it closes the group and begins another.
Extends(run, byte) == run.len > 0 /\ byte = run.byte /\ run.len < MaxRun

Pushed(run, byte) ==
    [byte |-> byte, len |-> IF Extends(run, byte) THEN run.len + 1 ELSE 1]

\* The decoder, behind `count` equal bytes of value `byte`.
ExpandByte(done, byte) ==
    IF done.count = Repeats
    THEN [out |-> done.out \o Copies(done.byte, byte), byte |-> 0, count |-> 0]
    ELSE [out |-> Append(done.out, byte), byte |-> byte,
          count |-> IF done.count > 0 /\ byte = done.byte THEN done.count + 1 ELSE 1]

Expand(bytes) ==
    FoldLeft(ExpandByte, [out |-> <<>>, byte |-> 0, count |-> 0], bytes).out

------------------------------------------------------------------------------
(* The encoder.                                                            *)

VARIABLES
    runs,      \* the Splitter: the run that may still grow
    group,     \* the group that commit_group is given
    block,     \* RLE1 bytes of the pending block,
    blockCrc   \* and the plaintext its checksum covers

bz2 == <<runs, group, block, blockCrc>>

Bzip2Init ==
    /\ runs = NoGroup
    /\ group = NoGroup
    /\ block = <<>>
    /\ blockCrc = <<>>

\* write: the next byte extends the run or hands its group to commit_group.
PushByte ==
    /\ stage = "writing"
    /\ todo # <<>>
    /\ todo' = Tail(todo)
    /\ runs' = Pushed(runs, Head(todo))
    /\ IF Extends(runs, Head(todo)) \/ runs.len = 0
       THEN UNCHANGED <<group, stage>>
       ELSE group' = runs /\ stage' = "grouping"
    /\ UNCHANGED <<queue, caller, jobs, sums, block, blockCrc>>

WriteEnds ==
    /\ stage = "writing"
    /\ todo = <<>>
    /\ ReturnOk
    /\ UNCHANGED bz2

\* finish: the last run is a group, too.
LastGroup ==
    /\ stage = "ending"
    /\ call = "finish"
    /\ group' = runs
    /\ runs' = NoGroup
    /\ stage' = "grouping"
    /\ UNCHANGED <<queue, caller, todo, jobs, sums, block, blockCrc>>

\* flush: only what is left of the bits, and the output.
FlushEnds ==
    /\ stage = "ending"
    /\ call = "flush"
    /\ ReturnOk \/ ReturnError
    /\ UNCHANGED bz2

------------------------------------------------------------------------------
(* commit_group and submit_block *)

Overflows == Len(block) + EncodedLen(group) > BlockLimit

PlaceGroup ==
    /\ stage = "grouping"
    /\ ~Overflows \/ block = <<>>
    /\ block' = block \o Encoded(group)
    /\ blockCrc' = blockCrc \o Copies(group.byte, group.len)
    /\ group' = NoGroup
    /\ stage' = IF call = "finish" THEN "submitting" ELSE "writing"
    /\ UNCHANGED <<queue, caller, todo, jobs, sums, runs>>

MustSubmit ==
    /\ block # <<>>
    /\ stage = "submitting" \/ (stage = "grouping" /\ Overflows)

SubmitBlock ==
    /\ MustSubmit
    /\ SubmitJob([rle |-> block, plain |-> blockCrc])
    /\ block' = <<>>
    /\ blockCrc' = <<>>
    /\ UNCHANGED <<caller, todo, stage, sums, runs, group>>

\* Results are committed until there is room, or at the end until none is
\* left.  An error leaves the group it was made for behind.
MustCommit ==
    \/ MustSubmit /\ ~CanSubmit(Reservation)
    \/ stage = "submitting" /\ block = <<>> /\ HasPending

CommitBlock ==
    /\ MustCommit
    /\ CommitNext
    /\ UNCHANGED bz2

LoseBlock ==
    /\ MustCommit
    /\ LoseNext
    /\ group' = NoGroup
    /\ UNCHANGED <<runs, block, blockCrc>>

\* The trailer: the end marker and combined_crc.
WriteTrailer ==
    /\ stage = "submitting"
    /\ block = <<>>
    /\ ~HasPending
    /\ ReturnOk \/ ReturnError
    /\ UNCHANGED bz2

Bzip2Step ==
    \/ PushByte
    \/ WriteEnds
    \/ LastGroup
    \/ FlushEnds
    \/ PlaceGroup
    \/ SubmitBlock
    \/ CommitBlock
    \/ LoseBlock
    \/ WriteTrailer
==============================================================================
