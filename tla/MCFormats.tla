------------------------------ MODULE MCFormats -------------------------------
(***************************************************************************)
(* The parts of the library that work on the bytes of a format, each on    *)
(* its own and on one thread: a bzip2 block (Bzip2Block), the scan for     *)
(* bzip2 markers (MarkerScan), reading by an index (IndexedReader), the    *)
(* windows of DEFLATE segments (DeflateWindow), the bits of DEFLATE blocks *)
(* (DeflateBlock), the frames of an LZ4 input and the windows of its       *)
(* linked blocks (Lz4Decoder), the bytes of an LZ4 block (Lz4Block), and   *)
(* the records of a ZIP archive (ZipWriter).                               *)
(*                                                                         *)
(* A behaviour is one of one part; the others rest.                        *)
(***************************************************************************)
EXTENDS Bzip2Block, MarkerScan, IndexedReader, DeflateWindow, DeflateBlock, Lz4Decoder,
        Lz4Block, ZipWriter

\* Every block of up to five bytes among three values, of which the values 0
\* and 2 stand in the first and 3 alone in the second group of the symbol map.
MCBlocks == UNION {[1..n -> {0, 2, 3}] : n \in 1..5}

\* A block begins at any bit, and other bits follow it; or nothing does, and
\* the decoder reads the last symbols bit by bit.
MCContexts ==
    {[before |-> <<>>, after |-> <<0, 0>>],
     [before |-> <<1, 0>>, after |-> <<1, 1>>],
     [before |-> <<1>>, after |-> <<>>]}

\* Every input of up to six bytes of two bits: three chunks, two waves.
MCScanInputs == UNION {[1..n -> 0..3] : n \in 0..6}

\* A block longer than the cache, blocks that fill it, and no block.
MCRecords == {<<>>, <<2, 1, 3>>, <<1, 2, 1, 1>>, <<4, 1>>}

Item(kind, blocks, marked, agrees) ==
    [kind |-> kind, blocks |-> blocks, marked |-> marked, agrees |-> agrees]
FirstItems ==
    {<<>>, <<Item("skip", <<>>, TRUE, TRUE)>>,
     <<Item("independent", <<"packed", "checked", "stored">>, TRUE, TRUE)>>}
LastItems ==
    {Item("independent", blocks, marked, agrees) :
        blocks \in BoundedSeq({"stored", "packed", "corrupt"}, 4),
        marked \in BOOLEAN, agrees \in BOOLEAN}
    \union {Item("linked", blocks, marked, TRUE) :
        blocks \in BoundedSeq({"packed", "corrupt"}, 2), marked \in BOOLEAN}
    \union {Item("unknown", <<>>, TRUE, TRUE), Item("skip", <<>>, TRUE, TRUE)}
MCFrameInputs == {lead \o <<end>> : lead \in FirstItems, end \in LastItems}
                 \union {<<>>}

\* Two segments, of which the second has matches into the first.
MCPlains ==
    UNION {[1..n -> {0, 3}] : n \in 0..8} \cup UNION {[1..n -> {0, 1, 2}] : n \in 1..5}

\* Bytes of two bits, matches of 3 and 4 bytes from 1 to 4 bytes back; the
\* tables have the shape of the format's: the longest match has a symbol of its
\* own within the range of the one before, the widths of the fixed codes are out
\* of the order of their symbols, and the last of these symbols stands for no
\* length, but for codes that the longer ones come after.
MCLengthBase == <<3, 4>>
MCLengthExtra == <<1, 0>>
MCDistanceBase == <<1, 2, 3>>
MCDistanceExtra == <<0, 0, 1>>
MCFixedRanges ==
    {[first |-> 0, last |-> 1, code |-> 2, bits |-> 3],
     [first |-> 2, last |-> 3, code |-> 14, bits |-> 4],
     [first |-> 4, last |-> 4, code |-> 0, bits |-> 2],
     [first |-> 5, last |-> 7, code |-> 4, bits |-> 3]}
MCPrecodeOrder == <<5, 6, 7, 0, 3, 2, 4, 1>>
MCPrecodeRepeats ==
    <<[least |-> 2, width |-> 1], [least |-> 2, width |-> 1], [least |-> 4, width |-> 2]>>
MCHeaderWidths == <<2, 2, 3, 2>>
MCEfforts == {[chain |-> 2, lazy |-> FALSE], [chain |-> 4, lazy |-> TRUE]}

\* Every short block; every block of 13 bytes, which may have two matches side
\* by side; and blocks with long literals and with long matches.
MCTexts ==
    UNION {[1..n -> {0, 1}] : n \in 0..8}
    \cup {<<0>> \o rest : rest \in [1..12 -> {0, 1}]}
    \cup {[i \in 1..n |-> IF i > k THEN 0 ELSE i] : n \in 12..18, k \in 0..9}

\* Up to two files, directories and links, and three files of two lists; files
\* of no, of some and of almost too much length, and names that meet.
ZipEntry(name, kind, size) == [name |-> name, kind |-> kind, size |-> size]
ZipEntries(names) ==
    {ZipEntry(name, "file", size) : name \in names, size \in {0, 1, 5, 6}}
    \cup {ZipEntry(name, "dir", 0) : name \in names}
    \cup {ZipEntry(name, "link", 1) : name \in names}
MCZipInputs ==
    {<<>>} \cup {<<e>> : e \in ZipEntries({1})}
    \cup {<<e, f>> : e \in ZipEntries({2}), f \in ZipEntries({1, 2})}
    \cup {<<ZipEntry(3, "file", size), ZipEntry(1, "file", 1), ZipEntry(2, kind, 1)>> :
            size \in {0, 6}, kind \in {"file", "link"}}

------------------------------------------------------------------------------
VARIABLE part

formatsVars ==
    <<part, bzip2Block, markerScan, indexedReader, deflateWindow, deflateBlock, lz4Linked,
      lz4Frames, lz4Block, zipWriter>>

BlockRests == block = <<>> /\ context = <<>> /\ stored = <<>> /\ read = Unread
ScanRests == data = <<>> /\ first = 0 /\ result = Nothing /\ scanned = "no"
IndexRests ==
    /\ lengths = <<>> /\ damaged = {} /\ position = 0
    /\ entries = <<>> /\ order = <<>> /\ bytes = 0
    /\ began = 0 /\ wanted = 0 /\ copied = <<>> /\ reading = "no"
DeflateRests ==
    /\ source = <<>> /\ effort \in Efforts /\ effort.lazy /\ taken = 0 /\ previous = <<>>
    /\ coded = <<>> /\ place = 0 /\ inflated = <<>> /\ inflating = "not yet"
FramesRest ==
    /\ threads = 1 /\ items = <<>> /\ item = 1 /\ nextBlock = 1
    /\ inFrame = FALSE /\ batch = <<>> /\ parseError = FALSE /\ ended = FALSE
    /\ written = <<>> /\ outcome = "none"
Lz4BlockRests ==
    /\ text = <<>> /\ chain = 0 /\ anchor = 0 /\ cursor = 0 /\ finder = {}
    /\ packed = <<>> /\ unread = 0 /\ unpacked = <<>> /\ packing = "coding"
ZipRests ==
    /\ inputs = <<>> /\ limit = 0 /\ waiting = <<>> /\ archive = <<>>
    /\ central = <<>> /\ grown = {} /\ zipping = "starting"

FormatsInit ==
    /\ part \in {"block", "scan", "index", "window", "deflate", "linked", "frames",
                "lz4 block", "zip"}
    /\ IF part = "block" THEN BlockInit ELSE BlockRests
    /\ IF part = "scan" THEN ScanInit ELSE ScanRests
    /\ IF part = "index" THEN IndexedInit ELSE IndexRests
    /\ WindowInit
    /\ IF part = "deflate" THEN DeflateInit ELSE DeflateRests
    /\ LinkedInit
    /\ IF part = "frames" THEN FramesInit ELSE FramesRest
    /\ IF part = "lz4 block" THEN Lz4BlockInit ELSE Lz4BlockRests
    /\ IF part = "zip" THEN ZipInit ELSE ZipRests

FormatsNext ==
    /\ UNCHANGED part
    /\ \/ /\ part = "block" /\ BlockNext
          /\ UNCHANGED <<markerScan, indexedReader, deflateWindow, deflateBlock,
                         lz4Linked, lz4Frames, lz4Block, zipWriter>>
       \/ /\ part = "scan" /\ ScanNext
          /\ UNCHANGED <<bzip2Block, indexedReader, deflateWindow, deflateBlock,
                         lz4Linked, lz4Frames, lz4Block, zipWriter>>
       \/ /\ part = "index" /\ IndexedNext
          /\ UNCHANGED <<bzip2Block, markerScan, deflateWindow, deflateBlock,
                         lz4Linked, lz4Frames, lz4Block, zipWriter>>
       \/ /\ part = "window" /\ WindowNext
          /\ UNCHANGED <<bzip2Block, markerScan, indexedReader, deflateBlock, lz4Linked,
                         lz4Frames, lz4Block, zipWriter>>
       \/ /\ part = "deflate" /\ DeflateNext
          /\ UNCHANGED <<bzip2Block, markerScan, indexedReader, deflateWindow, lz4Linked,
                         lz4Frames, lz4Block, zipWriter>>
       \/ /\ part = "linked" /\ LinkedNext
          /\ UNCHANGED <<bzip2Block, markerScan, indexedReader, deflateWindow,
                         deflateBlock, lz4Frames, lz4Block, zipWriter>>
       \/ /\ part = "frames" /\ FramesNext
          /\ UNCHANGED <<bzip2Block, markerScan, indexedReader, deflateWindow,
                         deflateBlock, lz4Linked, lz4Block, zipWriter>>
       \/ /\ part = "lz4 block" /\ Lz4BlockNext
          /\ UNCHANGED <<bzip2Block, markerScan, indexedReader, deflateWindow,
                         deflateBlock, lz4Linked, lz4Frames, zipWriter>>
       \/ /\ part = "zip" /\ ZipNext
          /\ UNCHANGED <<bzip2Block, markerScan, indexedReader, deflateWindow,
                         deflateBlock, lz4Linked, lz4Frames, lz4Block>>

FormatsSpec == FormatsInit /\ [][FormatsNext]_formatsVars
==============================================================================
