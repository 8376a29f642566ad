-------------------------------- MODULE Encode --------------------------------
(***************************************************************************)
(* Encoder of src/encode.rs, an encoder of the format chosen when it is    *)
(* made, under any client of std::io::Write.  The client of                *)
(* compress_to_writer only writes and finishes, and stops at an error.     *)
(* The third format has a module of its own, Lz4Encoder.                   *)
(***************************************************************************)
EXTENDS Bzip2Encoder, DeflateEncoder

CONSTANT ByteValues  \* the bytes a bzip2 client writes

ASSUME ByteValuesAssumption == ByteValues \subseteq 0..(ByteSize - 1)

VARIABLE format

encode == <<queue, client, bz2, deflate, format>>

\* Bytes of a gzip client are numbered, so that none is taken for another.
Pieces ==
    IF format = "bzip2" THEN BoundedSeq(ByteValues, MaxWrite)
    ELSE {[i \in 1..n |-> Len(given) + i] : n \in 0..MaxWrite}

EncodeInit ==
    /\ format \in {"bzip2", "gzip"}
    /\ CallsInit
    /\ Bzip2Init
    /\ DeflateInit

Write ==
    \E piece \in Pieces :
        /\ Len(given) + Len(piece) <= MaxInput
        /\ CallWrite(piece)

Client ==
    /\ Write \/ (\E name \in {"flush", "finish"} : CallEnd(name)) \/ DropEncoder \/ Consumed
    /\ UNCHANGED <<bz2, deflate, format>>

EncodeNext ==
    \/ Client
    \/ format = "bzip2" /\ Bzip2Step /\ UNCHANGED <<deflate, format>>
    \/ format = "gzip" /\ DeflateStep /\ UNCHANGED <<bz2, format>>

EncodeSpec == EncodeInit /\ [][EncodeNext]_encode

------------------------------------------------------------------------------
(* Properties. *)

\* The sums in the trailer cover exactly the blocks or segments written, also
\* when the client goes on after an error (commit_next adds behind the write,
\* src/bz2_encode/mod.rs:107, src/deflate_encode.rs:338), and no block exceeds
\* its limit.  Without an error every block expands to what its checksum
\* covers, and the output is the input in order, all of it when finish answers
\* Ok.  After an error it may not: the lost group may leave two groups of one
\* byte side by side, which the decoder joins into a run.
SumsCover ==
    /\ combined = Plaintext(written)
    /\ inputLen = Len(combined)
    /\ format = "bzip2" => \A k \in DOMAIN jobs : Len(jobs[k].rle) \in 1..BlockLimit
    /\ ~reported =>
          /\ format = "bzip2" =>
                \A k \in DOMAIN jobs : Expand(jobs[k].rle) = jobs[k].plain
          /\ written = SubSeq(jobs, 1, nextTake)
          /\ IsPrefix(Plaintext(jobs), given)
          /\ Finished => combined = given

\* Wherever segments are cut, by size or by flush, the dictionary of each is
\* the last 32 KiB of the input before it, which is what the window of any
\* decoder holds there; the same is true of compress_bytes_serial, whose
\* segments are the encoder's as long as nothing is flushed.
DictionaryIsHistory ==
    format = "gzip" =>
        /\ \A k \in DOMAIN jobs :
               jobs[k].dict = LastOf(Window, Plaintext(SubSeq(jobs, 1, k - 1)))
        /\ LET serial == SerialJobs(given)
           IN  \A k \in DOMAIN serial :
                   serial[k].dict = LastOf(Window, Plaintext(SubSeq(serial, 1, k - 1)))
==============================================================================
