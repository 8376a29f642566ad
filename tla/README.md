# Verification of fbz

fbz decodes bzip2, gzip and LZ4 in parallel, encodes the same formats in
parallel, and reads and writes archives, within a memory limit and with the
answers of a sequential program. This directory holds TLA+ modules for all of
this: the pipelines that jobs go through, the decoders and encoders that use
them, the algorithms on bytes and bits below, and the program on top. TLC checks
them on small instances, and TLAPS proves the central properties of the pipelines,
of the decoders and encoders on them, of the Reader and of the program for every
number of jobs, workers, bytes, files and entries.

Run a check with `tlc -config X.cfg M` and a proof with `tlapm M.tla`; the runs
are listed below and in `PROJECT.json`, which also maps every definition to the
lines it models.

## 1. Inventory

Paths are below `src/`.

| component | state | operations | what makes it correct |
|---|---|---|---|
| **Ordered pipeline** `pipeline.rs:1-110` | `Budget` (next, reserved, active, cancelled) under a mutex and condition variable; unbounded result channel; map of received results | `next`, `complete`, `retire`, `cancel`; worker loop; `take`, `discard_before`; cancel and join | counters are exact; limits hold; no lost wakeup; every result delivered once; the call returns |
| **Staged pipeline** `pipeline.rs:112-217` | the same, with a queue of second-stage tasks that workers poll | `take_primary`, `submit`, `take_stage`, `retire` | the same, and a submitted stage task is executed although workers sleep |
| **Streaming pipeline** `pipeline.rs:219-277` | counters owned by the submitter; flag `cancelled`; channel | `submit`, `take_next`, drop; spawned job with `catch_unwind` | a queue of jobs for its owner; counters never below zero; dropping leaves no job behind |
| **Parallel bzip2 decoder** `decode.rs` | prefetched first block; candidate jobs; chain position | scan, decode candidates, `assemble` | output is that of following the chain of markers, whatever false markers exist |
| **bzip2 block codec** `decoder.rs`, `bz2_encode/` | bit position; code tables; suffix array | encode and decode one block | a block comes back as it was, to its last bit |
| **Marker scan** `format.rs` | chunk windows | `scan_range`, `scan_with_pool` | chunked scanning finds what one pass finds |
| **gzip decoder** `gzip.rs` | grid of speculative segments; 32 KiB window; outstanding second-stage tasks | speculate, resolve markers, fall back, commit | output is that of sequential inflation |
| **LZ4 decoder** `lz4.rs` | frame position; batch of blocks; a parse error held back; history of linked blocks | gather batch, decode batch, commit | answer is that of the sequential loop |
| **LZ4, bzip2, gzip encoders** `lz4_encode.rs`, `bz2_encode/mod.rs`, `deflate_encode.rs`, `encode.rs` | buffer, run or prefix; pending blocks; checksums | `write`, `flush`, `finish`, drop | decoding the output gives what was written, or an error has been reported |
| **Output pipe and Reader** `output.rs`, `reader.rs` | rendezvous channel; terminal status | `read`, drop; `write` | the end of the file is seen only after a complete decode; dropping ends the thread |
| **Index and IndexedReader** `index.rs`, `indexed.rs` | table of blocks; block cache with byte count | `read`, `seek` | a read returns the bytes at its position; the cache keeps its limit |
| **ZIP writer** `zip.rs` | position; central directory | write an entry, `finish_archive` | every reader of the format finds each entry |
| **Command line** `bin/` | files, temporary files, staging directory | compress, create, decompress, extract, index | nothing found is overwritten, nothing half made appears, no input is removed too early |

How they interact: every decoder and the ZIP writer is a *coordinator* of one of
the two call-scoped pipelines: it runs as a closure on the calling thread, asks
for results by key, commits them to the output and gives their bytes back. Every
encoder *owns* a streaming pipeline and submits to it as its client writes. A
decoder may in turn run on a thread behind an output pipe and feed a Reader or
the extraction of a tar archive. Codecs are functions from a job to a result.

The hard behaviours: admission against a budget that only the coordinator frees;
completion in any order; errors and panics of late jobs known before early ones
are committed; speculation that turns out to be wrong; early return of the
coordinator; clients that go on after an error; borders of every kind, of chunks,
segments, windows, tables and field widths; and, in the program, a file system
that others use. `PROJECT.json` lists them as hazards at their lines, each with
the properties that would catch it.

## 2. Modules

| module | models | composed from |
|---|---|---|
| `Charges` | byte accounting: who holds how much of a budget | |
| `OrderedPipeline` | `run_ordered`: budget, workers, results, **any** coordinator | `Charges` |
| `SerialBatch` | specification: the sequential loop of the LZ4 decoder and the ZIP writer | |
| `InOrderBatch` | their parallel loop | `OrderedPipeline`; implements `SerialBatch` |
| `MarkerChain` | specification: follow the bzip2 markers | |
| `Bzip2Assembly` | the parallel bzip2 decoder | `OrderedPipeline`; implements `MarkerChain` |
| `JobQueue` | specification: what `StreamingOrdered` promises the encoders | |
| `StreamingOrdered` | `StreamingOrdered` with **any** owner | `Charges`; implements `JobQueue` |
| `Lz4Encoder` | the LZ4 frame encoder, any client of `Write` | `StreamingOrdered` |
| `WriteCalls` | what the other two encoders share: calls, jobs, results | `JobQueue` |
| `Bzip2Encoder`, `DeflateEncoder` | the bzip2 and the gzip encoder | `WriteCalls` |
| `Encode` | `Encoder` of either format, any client of `Write` | both |
| `StagedPipeline` | `run_staged_ordered`, **any** coordinator that holds one lease at a time | `OrderedPipeline` |
| `Inflation` | specification: decode the blocks of a DEFLATE stream in sequence | |
| `GzipDecode` | the parallel decoder of one DEFLATE stream | `StagedPipeline`; implements `Inflation` |
| `DecodedStream` | specification: bytes in order, then one terminal status | |
| `OutputPipe` | a decoder on its own thread behind the rendezvous pipe, **any** consumer | |
| `Reader` | `fbz::Reader`, any client of `Read` | `OutputPipe`; implements `DecodedStream` |
| `Huffman` | choice, writing and reading of code tables | |
| `Bzip2Block` | one block: suffix sort, move-to-front, run digits, bits, and back | `Huffman` |
| `MarkerScan` | the scan for bzip2 markers in chunks and waves | |
| `IndexedReader` | reads and seeks with the block cache | |
| `History` | matches that overlap their own output | |
| `DeflateWindow` | bytes of segments decoded without their history and completed later | `History` |
| `DeflateBlock` | the bits of DEFLATE blocks, both ways | `History` |
| `Lz4Decoder` | frames and batches; linked blocks and their history | `History` |
| `Lz4Block` | the bytes of an LZ4 block, both ways | `History` |
| `ZipWriter` | the records of a ZIP archive | |
| `ArchiveUnpack` | tar and ZIP archives unpacked into the staging directory, preflight and commit | `OutputPipe` |
| `CommandLine` | the program | `ArchiveUnpack` |
| `*Proofs` | theorems about the module they are named for; `InOrderBatch`, `Bzip2Assembly` and `MarkerScan` are in `CoordinatorProofs`, `StagedPipeline` in `GzipDecodeProofs`, `ZipWriter` in `EncodeProofs`, `Lz4Encoder` in `StreamingOrderedProofs`, `Reader`, `IndexedReader`, `History`, `DeflateWindow`, `Lz4Decoder` and `Lz4Block` in `DecoderProofs` | |
| `DataLemmas` | lemmas the proofs share: budgets, folds, recursive functions, joined sequences, division | `Charges` |
| `MC*` | constants for TLC; `MCFormats` runs the modules on bytes side by side | |

### OrderedPipeline

`next`, `reserved`, `active`, `cancelled` are the fields of `State`. `pc` and
`job` are where a worker is in its loop. `channel` is the mpsc channel, `ready`
the map of `OrderedResults`. `lease` is the one history variable: for every job
that has not been retired, the bytes it will give back; the code carries that
amount in the message or on the stack. `phase` and `front` are where the
coordinator is.

One action is one critical section, one channel operation, or the end of one
job. `Complete` and `Send` are separate because they are separate in
`execute_job`: between them another worker may be admitted and the receiver may
disappear. `DiscardStale` takes the lock once per discarded result, as the loop
does.

The coordinator is left open on purpose. Coordinators of the code are
conjunctions with its actions (`CallTake`, `Take`, `CallDiscard`, `Return`, ...),
so that what is proved of the pipeline holds under each of them: the theorems
`BatchIsPipeline` and `AssemblyIsPipeline` say so.

`PipelineAssumption` is the check at the head of `run_ordered` (a reservation
above the limit is refused before a worker starts) and what every caller does
(positive `active`).

Left out: spurious wakeups (they repeat a test under the lock and change
nothing; without them no property can rest on one); poisoning (every lock is
taken with `into_inner`, and nothing panics inside a critical section).

### InOrderBatch and SerialBatch

The coordinator takes keys in order and commits. `failing` is chosen once and
never changes: whether a job fails is a function of the job. Whether a commit
fails is chosen at the commit. A failing job may retain any size, although the
code's `retained_size` answers 0 for it: more behaviours, so the results are
stronger. Panics replace the answer at the join.

### Bzip2Assembly and MarkerChain

An input is what validation can tell of it: for every marker, which marker
follows it or that the chain breaks there, and which candidates do not decode.
The codec and the scan, which are in `Bzip2Block` and `MarkerScan`, are abstracted
to this. The module has the prefetched
first block with its early write, candidates that are asked for, refused, or
discarded, and stream ends. `active: usize::MAX` is `N <= MaxActive`.
`ScanAborted` stands for a cancelled scan and for too many markers. The entries
of an index, which can be kept along the way, are not modelled.

### StreamingOrdered and Lz4Encoder

The counters belong to the owner and change only in its calls. A job is
`queued` until its thread reads the flag `cancelled`, once; then it is `running`
until it sends. The pool has as many threads as jobs may be outstanding, so the
model needs no threads; `StreamWithinLimits` (theorem `StreamBounded`) contains
the fact that makes this right.

`Lz4Encoder` numbers the bytes of the input. A block is the sequence of the
bytes it was made of, and the output the sequence of bytes that the blocks
written decode to: "lost", "repeated" and "reordered" are then visible without
an encoding. The client may write any lengths, flush, go on after an error,
finish, or drop the encoder at any time. With the same reservation for every
block and a limit of at least one, memory and threads bound the same number.

### StagedPipeline

Budget, jobs, results and leases are those of `OrderedPipeline`; the variables
added are the queue of stage tasks, the task each worker holds, the channel and
the map of answers, and the lease in the coordinator's hand. A task is known by
its number; `submitted[r]` is the job whose lease it carries.

A worker of `run_staged_ordered` never sleeps on the condition variable for
longer than a millisecond (`wait_briefly`), so it needs no wakeups: in the model
it goes from "admitting" (poll the queue of tasks) to "probing" (`try_next`) and
back, and the time-out of the wait is the possibility to do so. `EndTask` gives
the bytes back before `AnswerTask` sends the answer, as the code does.

Left out: panics of stage tasks (a worker that panics in a job is modelled;
`Panicking` is empty in the run, see finding 1), and `submit` failing, which it
cannot while the queue's receiver lives as long as the call. What the
coordinator drops when it returns, it drops in one step.

### GzipDecode and Inflation

The stream is what decoding can tell of it: where its blocks end, which of them
are dynamic (only these are found by a search and end a segment), which refer
to bytes before the stream (`far`), which inflate beyond the output limit
(`big`), whether the last is final, and `decoys`: places where a search finds a
dynamic header that is none. The final block is not found by the search,
because the search asks for a non-final one. `Guess(k)` is what job `k` answers;
`Segment(place, stop)` what the coordinator inflates by itself. A history of
32 KiB is abstracted to the place up to which it describes the output: a segment
that is completed with another history than that of its start becomes blocks 0,
which no stream has.

If the first segment does not inflate, the code starts over with the serial
decoder; this is decided in `GzipInit`, and `Serial` is that decoder. The loop
of the coordinator has the stages `loop` (ask for the next segment), `refused`
(the guess did not fit: write what is outstanding, then inflate alone) and
`full` (as many outstanding tasks as threads: complete one). A job retains
nothing exactly when it answers an error.

Outside: members, headers and trailers of gzip files, and checksums (a stream
with a wrong checksum is a whole stream here). A stream may end before the data
does, as it does where another member follows; jobs then guess in that member's
data. The bytes are in `DeflateWindow`, the bits in `DeflateBlock`.

`Inflation` has an answer the serial decoder never gives: "too big". The
fallback of the parallel decoder inflates into at most 8 MiB (`gzip.rs:505`) and
gives up on more, so that a valid stream may be refused with several threads and
accepted with one. The specification allows it for inputs with `big` blocks only.

### OutputPipe, Reader and DecodedStream

`decoder` is where the decoder's thread is; a send lasts from `Write` until
`ReceiveChunk` or `SendFails`, which is what `sync_channel(0)` means. The bytes
of a stream are numbered. The reader's `chunk` is what is left behind its
`offset`. A read from the chunk at hand is one step, a read that receives two;
the size of the buffer is chosen where it matters. `finish` and `disconnected`
begin alike (`Close`) and end alike (`Finish`).

A decoder is fair here: that it ends is what the other modules are about, and
where they find that it does not (findings 1 to 3) a Reader waits as well. It
may fail or panic behind any number of chunks, and may stop by itself when it
sees the flag of a dropped pipe.

### JobQueue, WriteCalls, Bzip2Encoder, DeflateEncoder and Encode

`JobQueue` is what an encoder can see of a streaming pipeline: jobs come back one
by one in the order in which they were submitted. `StreamingOrdered` implements
it (`IsQueue` in the run of `Lz4Encoder`, theorem `StreamIsQueue`), so the other
two encoders stand on the queue instead of the threads.

`WriteCalls` is a client of `std::io::Write` that may do anything the trait
allows. A write of several bytes is several steps, one for each that can fail. A
job keeps the plaintext it was made of; since combining checksums is joining
texts, this stands for its checksum too. In `Bzip2Encoder` the splitter cuts runs
across calls, groups fill blocks, and a full block is submitted when the next
group does not fit; in `DeflateEncoder` the buffer holds the prefix and the
segment that fills up, and `SerialJobs` is `compress_bytes_serial`.

### Huffman and Bzip2Block

The suffix sort in `Bzip2Block` follows `bwt.rs` step by step: types, the sorted
LMS suffixes, the recursion on their names, induced sorting, of a doubled block.
`Huffman` is
the choice of tables by groups, lengths capped at `MaxCodeLen`, canonical codes,
the table of the encoder and both ways of the decoder to read a symbol: by
`LutBits` bits at once, or bit by bit where a code is longer or the data ends.
With `LutBits = 2` and codes of 3 bits both occur. In `Bzip2Block` the decoder
starts at any bit and must end at the last bit of the block. The magic, the
checksum, the randomized bit and reads beyond the end of the data are left out.

### MarkerScan

The window of seven bytes, the prefix tables, chunks and waves are the code's;
bytes have two bits and a marker has two bytes, so that markers begin at every
bit, straddle every border and overlap. What `parse_block` and `parse_end` read
behind a marker is only tested to be there. Shifts multiply and divide by `Pow2`, and
what a loop collects is `Collected`: the numbers of a range that pass, in order.

### IndexedReader

The byte at a decoded place is that place, so that a byte from the wrong block or
the wrong offset shows. A block may be `damaged`, as one of a loaded index that is
not that file's, and a read over several blocks may fail behind the first.

### History, DeflateWindow and DeflateBlock

`DeflateWindow` makes up a stream as it is decoded (literals, stored bytes,
matches, ends of blocks and of segments) and keeps three decoders side by side:
what the stream means, the serial `Emitter` with its ring and its chunks, and
segments of `MarkerOutput`, whose unknown bytes are places of the window they
lack, completed by `resolve_segment` with the window their predecessors leave.

`DeflateBlock` has the bits: the match finder with lazy matching, the tokens of
a segment, the three encodings and the decoder that reads them, and the tests of
the search for dynamic blocks. `encode_segment` writes the shortest encoding; the
model leaves open which one, a superset that lets short inputs come in all
three. A fourth is a dynamic block as other encoders write it, with repeated code
lengths, because this encoder never writes one. Bytes have two bits, the tables a
few entries with the shape of the format's (the last length symbol overlaps the
range of the one before). Halving the frequencies for codes that are too long is
modelled, but the inputs are too short to need it. The decoder's table of fixed
codes also has the symbols that no encoder writes (286 and 287 in the code): they
decide how long the codes of the others are, in the run's small tables as well.

### Lz4Decoder and Lz4Block

The frames: an item of the input is a skippable frame, one that is refused, or a
frame with blocks; batches are gathered as in `decode_independent`, a parse error
is held back until the batch before it is committed, and a batch is `SerialBatch`.
The linked blocks: sequences of literals and matches against the history that
`update_history` keeps. `Lz4Block` is the bytes of one block: both match finders,
the token, the lengths and their bytes, the rules for the end of a block, and the
decoder. A slot of the hash table, and the chain behind it, are the places
inserted with that hash, the greatest first, since places are inserted in order.
`encode_block` keeps a block that coding does not shorten; in the model
it may be coded anyhow. A distance is one byte instead of two. Blocks of 13 bytes
are the shortest with two matches side by side.

### ZipWriter

Entries are looked at first and read later: a file, or the target of a link, may
be longer or shorter by then. A record with its extra field counts for one unit of length and the field
maxima are scaled (`Max16 = 1`, `Max32 = 6`), so that sizes, places and the number
of entries go beyond them. The reader is external: the rules of the format,
once for readers that always look for the Zip64 record and once for those that
look when a field says so. Two values are written where no reader can tell them
from a marker: see section 5.

### ArchiveUnpack and CommandLine

A call of the file system is a step, each may fail, and other processes make
files between any two. A kill is a behaviour that stops where it comes.

`ArchiveUnpack` has three parts. The commit holds the staged tree against the
destination and moves it entry by entry. The tar unpacker has the decoder on its
thread behind `OutputPipe`, with `LimitedOutput` in front of the pipe, and the tar
crate as the consumer, which may stop reading early, because the archive is bad or
because a file cannot be written. The ZIP unpacker has the layout tests, entries
(files, links, directories) decoded by several threads in any order, and
`ExpectedOutput`, which stops an entry at its declared size. Making the staging
directory and the directories in it, making a file or a link, writing to it, giving
it its mode and time, and starting the threads of the pool can each fail, and the
model has the error that the code makes of it: `unmade` and `unfinished` entries are
answered with the error of the call ("io"), but a deflated entry that could not be
written is `blamed`, as `entry_error` calls the archive invalid then, and so does
`run_entries` when the pool cannot be started. An entry is `sound` when its data
decodes with the right checksum; that a link's target is too long or leaves the
archive, or that a compression method is unknown, is abstracted into it.

`CommandLine` takes its inputs one after the other: streams are compressed,
decoded or indexed and archives created through a temporary file, archives are
extracted, and `--force`, `--skip-existing`, `--rm`, `--max-output` and `-C` do what
the code does with them. The directory that `-C` names is made before the first
input is looked at, by `create` once its inputs have been found
(`MakeDirectory`); without it the destination is the working directory. `commit`
would make a destination that is not there (`archive_extract.rs:79`), which by then
it always is. At most one input of a run is an archive (`RunsAssumption`): each gets
a staging directory and a commit of its own, and a second one begins where the first
has ended. `Valid` says when an archive is what it should be and `Holds` what it
leaves behind; the data of an entry that is a directory is never looked at, so
`Valid` asks nothing of it.

`BlameTruthful` says what an error may be. It does not say that an archive called
invalid is invalid, because the code's errors do not: it says that there is
something wrong with it, or that one of the two failures above has come
(`Misblamed`), and of every other failing call that it is not taken for a bad
archive.

### MCFormats

The modules on bytes share no state. The run has one variable `part` that says
which of them a behaviour is of, and the others rest.

## 3. Runs

| run | shows | states |
|---|---|---|
| `ordered_pipeline` | accounting exact, limits kept, no lost wakeup, one place per result, return always joins, under any coordinator | 13,992 |
| `in_order_batch` | no deadlock on the budget; the answer of the sequential loop; the call ends | 17,627 |
| `in_order_batch_panic` | **violation**: an awaited job that panics leaves the call waiting | |
| `lz4_encoder` | exact counters; no silent loss; results in the order of submission; every call ends; a dropped encoder leaves no job | 42,677 |
| `encode` | the trailer covers what was written, blocks expand to what they were made of, dictionaries are the decoder's history | 213,244 |
| `bzip2_assembly` | the output and answer of the chain of markers; only rejected candidates can stall it | 287,653 |
| `bzip2_rejected` | **violation**: bytes of rejected candidates that arrive late stay charged and stall it | |
| `gzip_decode` | the blocks and the answer of serial inflation, whatever is guessed; accounting exact while leases travel; the call ends unless the data is cut behind a block | 154,769 |
| `gzip_decode_cut` | **violation**: data cut exactly behind a block leaves the call waiting | |
| `reader` | the decoded bytes in order, the end only after success, errors behind all they follow; reads and drops return | 1,269 |
| `command_line` | nothing found is overwritten without `--force`; what appears is whole; `--rm` removes only what is in place; only what is valid is committed, and what is called invalid is, with two exceptions that the code makes; `--max-output` holds; the program ends | 849,348 |
| `formats` | blocks of bzip2, DEFLATE and LZ4 come back as they were; the scan, indexed reads, windows, linked blocks, frames and ZIP records are what they mean | 407,500 |

Bounds, and why they are enough. Two workers are the fewest that race; a third
adds no new kind of pair. `ordered_pipeline` has four jobs reserving 2, 1, 3, 1
of a budget of 3: some pairs fit, the third needs everything and blocks a
fourth that would fit; sizes 0, 1 and 4 retain nothing, something, and more than
was reserved; one job panics. `in_order_batch` makes one reservation zero (a
stored LZ4 block) and lowers the number of active jobs to 2, so that each limit
is the binding one at some state; each of the four jobs may fail. `lz4_encoder`
writes up to five bytes in blocks of two with two threads: full blocks, a short
last one, more blocks than threads, and writes that span several blocks.
`encode` writes up to eight bytes in pieces of up to three: runs of every length
up to the longest, across calls and across blocks, and more segments than
threads, longer and shorter than the window. `bzip2_assembly` has four blocks and
two stream ends: inputs of one and of two streams, false markers of either kind
inside any block, chains that break at every place, and candidates that do not
decode; the budget admits one full reservation beside one retained byte.
`gzip_decode` has a grid of two places and three jobs: boundaries at, before and
behind a grid point, segments of one and of several blocks, blocks that cover a
whole search window, a stream that ends before the data; every layout whole or
cut, with one peculiarity at a time (a block that is not dynamic, a decoy, a
block too big, one that refers too far back). Its two workers allow two
outstanding tasks, and its budget two whole reservations. `reader` has up to
three chunks of up to three bytes, empty ones anywhere, and buffers smaller and
larger than a chunk. `command_line` has one or two inputs, outputs that are
distinct, equal, each other's inputs or their own, and one archive with a
directory and two files before destinations that it collides with in every way,
named by `-C` or not, which are missing, empty, full or a file. The limit is 3:
tar archives and ZIP entries end below it, at it and one byte above it, streams
below it and one byte above it.
In `formats` every short input over two or three values is tried and every
width is small enough for its border to be crossed: the comments of
`MCFormats` say which border each constant is for. The proofs do not depend on
any of this.

`CHECK_DEADLOCK FALSE` is set because every call ends: a state in which
`run_ordered` has joined, an encoder or Reader is gone, the program has ended, or
a block has been read, has no successor.

Fairness. A worker or a spawned job that can take a step takes one (the
operating system runs threads), and so does the code of the coordinator, of the
program, or of the encoder or Reader that is inside a call. No client is fair: it
may stop calling at any time; nor is any other process, nor any failure.
`run_ordered` alone assumes nothing of its coordinator but cancel and join, which
follow `consume` unconditionally. No strong fairness is used. The violation runs
use the same fairness (`in_order_batch_panic`, `gzip_decode_cut`) or check an
invariant (`bzip2_rejected`). `encode` and `formats` state safety only.

Every property has a mutant: a variant of one definition as a plausible bug
would have it, under which TLC finds the property violated. They stand beside
the definitions, marked "Mutant of".

## 4. Proofs

* **OrderedPipelineProofs.** `PipelineInvariant`: the conjunction of `TypeOK`,
  `Accounting`, `WithinLimits`, `NoLostWakeup`, `OnePlace` and `Leases` is
  inductive. `Leases` is what the others lack: a job that executes holds exactly
  its reservation, and only admitted jobs hold anything. Without it `Complete`
  could not be shown to take from `reserved` what admission had added. The
  lemmas of `DataLemmas` say what charging and uncharging do to a total.
  There is one lemma per action. A second invariant, `Flow`, says where
  unretired jobs are while the coordinator runs; the clients use it.
* **CoordinatorProofs.** Of in-order batches, `InOrderNeverStalls`: while the
  coordinator runs, every lease belongs to the job asked for or a later one (`Window`); if that
  job is not admitted, there is no lease at all, so `Admissible` holds by the
  assumption that no reservation exceeds the limit, and no worker sleeps.
  `ParallelIsSerial`: under `Panicking = {}`, each step is a step of
  `SerialBatch` or a stutter. `Ledger` relates answer, output and next key.
  For the bzip2 decoder, `ParallelFollowsTheChain`: the same for `MarkerChain`,
  with an invariant in three parts, `Handling`, `Beginning` and `Answering`: what
  the coordinator may do with a candidate, what has happened before it asks for
  the first one, and what an answer means. `StallsOnlyByRejected`: the argument
  of `InOrderNeverStalls` with rejected results as the only other leases.
  `SeamlessAlways` is about the scan. Under `ScanInv` the waves behind it have
  listed the data up to `Reached`. Below that, `WindowIs`: the window slid from
  any start is the word at its offset; `WordBits`: the bits of that word are those
  of the data; `BitsTell`: words of the same bits are the same, so that a shifted
  window equals a marker exactly where one stands (`MarkerStands`); `PrefixHolds`:
  the prefix table stops none; and passes over neighbouring ranges join
  (`CollectedJoin`).
* **StreamingOrderedProofs.** `StreamInvariant` and its three parts: exact
  counters, limits, and a result for every pending job, with panics. What they
  lack is that `take_next` waits only while a job is pending (`Asking`).
  `StreamIsQueue`: the pipeline implements `JobQueue`; the outstanding jobs of
  the queue are those between the two counters of the pipeline, and a result
  taken is the queue's first. `EncoderUsesStream`: the LZ4 encoder is an owner as
  the pipeline expects one, so all of this holds of it (`EncoderIsServed`).
  `EncoderLosesNothing` rests on `EIInv`: as long as no call has answered an
  error, the bytes written, those of the pending blocks in their order, those of
  the buffer and those of the call that are not consumed are consecutive stretches
  of the input.
* **GzipDecodeProofs.** First `StagedPipeline`. `StagedIInv` says where a lease is
  while it travels: with a job, in the channel, in the map, in the coordinator's
  hand, in a queued task, with the worker that has taken the task, or given back.
  Tasks carry ascending jobs (`Ascending`), so that no job becomes two, which is
  what `StagedAccounts` and `StagedOwedOnce` need. Then `GzipDecode`: the decoder
  is one of its coordinators (`GzipUsesStaged`), and under `GzipIInv` what is
  written, the outstanding tasks in order and the segment at hand are consecutive
  stretches of the chain of blocks, each completed with the history of its own
  start. `GzipInflates`: then every write is the next step of serial inflation,
  and the answer is its answer, whatever was guessed.
* **DecoderProofs.** `ReaderReadsTheStream`: the Reader implements
  `DecodedStream`. `Progress` says that what has been delivered and what is at
  hand are consecutive stretches of the stream up to the last chunk sent,
  `Endings` that a status in the channel is the stream's own unless the pipe has
  been dropped, `Calls` what the reader knows at each point of a call. The
  lemmas about stretches say how a read splits one.

  `ExtendIsRepeated`: a match has one meaning (`IsMatch`, `MatchUnique`), and each
  branch of `ExtendMatch` has it, the last one because every turn of its loop
  leaves something of period `distance` (`Turning`).

  `LinkedHistoryHolds`: under `LinkedInv` the window is the end of what is
  committed, so it moves with every block (`EndSlides`), and a match that reaches
  over its own block finds in the window what it would find in the whole
  (`FromWindow`, `MatchAcross`).

  `FramesAlwaysInOrder`: under `FrameInv` exactly what stands in front of the next
  block to be committed has been written (`WrittenUpTo`), and no fault has been
  passed. A batch is the next blocks in a row (`ParsedIs`), wherever gathering
  stops; there is one lemma for each fault that says that nothing behind it is in
  front of the first one (`UnknownEnds`, `DamageEnds`, `FrameEnds`).

  `BlockAlwaysUnpacks`: under `Lz4BlockInv` there are marks, pairs of a place in what
  is written and a place in the block (`CodedUpTo`). From each a sequence leads to
  another (`SequenceBetween`): the literals are the piece of the block between the
  mark and a match of it (`BlockMatch`), and the next mark stands behind that match.
  The only one from which none leads is where the encoder is; a match adds a mark
  (`OneMore`), and the last literals close the last one (`LastBehind`). What the
  finders return is such a match for every hash (`FoundAt`, `FoundCopies`). The
  decoder goes from mark to mark, holding the block up to each (`DecodedUpTo`):
  `LengthRead`, a length comes back from its half of the token and its bytes, and
  `CopyExtends`, which is `ExtendIsRepeated` for the match of the block.

  `WindowAlwaysResolves`: under `WindowInv` the serial decoder holds the stream
  (`Emitting`), the window is the end of what is committed, and the segment at
  hand means the stream behind it (`Means`): its marked symbols, resolved with
  that window, and its clean bytes. A match of marked symbols makes symbols that
  resolve to the match of everything (`MarkedMeans`, by induction on the symbol);
  a whole window without markers is the end of the stream whatever the history is
  (`KnownBytes`), so the segment may go on without it; and the window for the next
  segment is again the end of everything (`EndOfThree`, `SuccessorKeeps`). Once the
  serial decoder has refused a match the segment has a marker that no history
  resolves, or has refused it too, which is why both refuse the same streams.

  `CachedReadsHold`: under `IndexedInv` each cached block holds the bytes of the
  file at its place (`Sound`), and what the read has copied is what lies between
  its beginning and its position (`Reading`). `bytes` is a sum in the order of
  use, which every hit changes: `HeldIsTotal` shows that it is the sum over the set
  of cached blocks, so that eviction from the front takes off what it removes.
* **CommandLineProofs.** `CIInv` has one part for each thing that can go wrong.
  `WholeInv`: a temporary file is persisted only behind a whole input and within
  the limit. `RemovalInv`: with `--rm` the input is there, unchanged and apart from
  its output, and when it is to be removed the output is in place. `TarInv` and
  `ZipInv`: what has been found out so far is the stream's or an entry's own doing,
  and the staged tree is exactly what has been created (`ZipTree`) or what the tar
  crate makes. The hard part is the commit. While it moves (`Moving`) every entry
  of the archive is in its place or below a task that is still to be done
  (`Covered`), the tasks are not below each other and their sources are staged
  (`Movable`), and only what has just been looked at is renamed (`RenamesNext`).
  It is stated of any two trees and any list of tasks, with one lemma per step of
  `commit_entry`, and it has to survive what other processes write. Without
  `--force` a file that was there can then be replaced only in the one race that
  `FoundKept` names, and when the list is empty the destination holds the archive.
  `ZipInv` gives every fault of an entry its reason: one that `failed` is in an
  archive that is not valid, and one that is `blamed` is the exception of
  `BlameTruthful`. `TarInv` keeps what the decoder has sent within the limit, so that
  a decoder stopped by `LimitedOutput` has a stream that does not fit. For
  `OutputsWhole`, `Movable` has what is below a task still staged when its file is
  removed. `CommandWithinLimit` needs a sum: `SumIsTotal` shows, by a least counterexample,
  that the fold of the library adds up what `Charges` counts.

* **EncodeProofs.** Both encoders describe their data by folds over sequences. Such
  a fold is the choice of a recursion over sets of indices; the first lemmas show
  that it exists (`TableExists`) and that its values on the intervals from 1 are a
  run, one step for each element (`FoldRuns`, `RunsAgree`). With that, `Expanding`,
  `Plaintext` and the loop of `compress_bytes_serial` grow by one step with each
  byte, job or chunk, and the rest of the argument is about steps. `EncodeInv`
  follows every byte from the call to the sums: through splitter, group, block and
  job (`BlocksKeep`), or through segment and job (`SegmentsKeep`), and behind a
  result taken in `SumsFollow`. `CallsEnd`, `Grouping` and `Draining` say what is
  empty at which stage, so that `finish` leaves nothing behind (`AllWritten`). For
  a block to expand to its plaintext (`BlocksExpand`) a group has to be placed
  behind another byte or behind a count (`Apart`): that is what an error breaks
  that loses a group, and why the property is stated without errors. `WindowKept`
  rests on `LastOfJoined`: a window that is cut and refilled is the window of the
  whole. `SerialDictionaries` says the same of `compress_bytes_serial`, where a
  full chunk is longer than the window. Its last part is about `ZipWriter`:
  `ZipInv` keeps where every remembered entry stands (`Stands`) and that each entry
  waits or is remembered; `FieldsRead` is the argument of the extra field, that the
  fields of all ones before a value are as many as the values before it there,
  which is what `ReadsAmiss` has to exclude; and `DirectoryFound` takes both
  readers through the records of the end, with and without Zip64.

Assumptions are those of the modules (`PipelineAssumption`,
`StreamingAssumption`, `AssemblyAssumption`, `StreamsAssumption`,
`BuffersAssumption`, `PathsAssumption`, `RunsAssumption`, `IndexAssumption`,
`LinkedAssumption`, `FramesAssumption`, `WindowAssumption`, `ZipAssumption`,
`ScanAssumption`, `Lz4BlockAssumption` and the like), each of which TLC evaluates on the constants of a run. The refinement
theorems of the three parallel decoders also assume that no job panics, since a
panic of an awaited job does not end the call (finding 1) and a panic of another
one replaces the answer at the join.

Model-checked only: all liveness (`ReturnJoins`, `Answered`, `CallsEnd`,
`PoolQuiesces`, `WholeAnswered`, `TruncationAnswered`, `CallsReturn`,
`AlwaysEnds`), which TLAPS cannot treat under fairness, and two properties of
`formats`: `RoundTrip` and `InflatesBack` are about codecs that recurse over their
data with `RECURSIVE` operators.

## 5. Findings

1. **A panic of an awaited job hangs the decoder** (`pipeline.rs:75`, run
   `in_order_batch_panic`). `run_ordered` keeps a sender in its own frame, so
   `recv` never reports a closed channel; the coordinator waits for ever and
   the join that has a message for panicked workers is not reached.
2. **Late rejected candidates keep their bytes** (`pipeline.rs:83`, run
   `bzip2_rejected`). `discard_before` gives back what has been received. A
   rejected result that arrives afterwards stays in `ready`, charged. `DEV.md:69`
   says the charge lasts until validation consumes or rejects it. With a limit
   near one block the wanted candidate is never admitted.
3. **A stream cut behind a block hangs the parallel decoder** (`gzip.rs:494`,
   run `gzip_decode_cut`). When the data ends exactly behind a dynamic block that
   is not final, the last segment ends there too, and the loop asks for the job
   behind the last one, which nobody executes. The test at `gzip.rs:1032` says
   of every truncated stream that decoding it is an error.

Met while modelling; the models have the code's behaviour, and the properties are
stated so that they hold with it:

* With several threads a valid stream may be refused by the 8 MiB limit of the
  fallback (`gzip.rs:505`): `Inflation` allows "too big" for such streams only.
* A staged reservation is given back before its result is consumed
  (`pipeline.rs:194`, against `DEV.md:69`); `CompletedBounded` confines what is
  charged to nobody to one result per thread.
* No encoder is poisoned by an error (`lz4_encode.rs:148`,
  `bz2_encode/mod.rs:107`, `deflate_encode.rs:359`): a client that goes on
  after a refused write gets a stream whose trailer is right for what was
  written, without the block that was lost (`SumsCover`, `NoSilentLoss`). In
  bzip2 the lost group may leave two groups of one byte side by side, which a
  decoder joins into a run.
* `flush` of the bzip2 encoder does not submit the block at hand
  (`bz2_encode/mod.rs:155`).
* The extraction of an archive is staged, but its commit is a sequence of renames
  and can stop between two of them (`archive_extract.rs:61`, against "atomic
  commit" in `DEV.md:33`). With `--force` a file is removed before the entry that
  replaces it is renamed: a kill or a failure between the two leaves neither at the
  destination, and the staging directory with the new one is deleted when it is a
  failure. `OutputsWhole` says that each entry that did appear is whole, and that
  nothing is removed but what the archive, still staged, has to put there; it does
  not say that the rename follows, which the code cannot promise. A file that comes
  between the last look and a rename is replaced: `FoundKept` names this exception
  (`Racing`).
* A valid ZIP archive is reported as invalid (`InvalidZip`) when a deflated entry
  cannot be written, on a full disk for one (`zip_extract.rs:167`: `entry_error`
  takes every error of the decoder, that of its output included), and when the
  threads of the pool cannot be started (`zip_extract.rs:222`). A stored entry, or
  the making of a file, is reported as the error it is. `BlameTruthful` names both
  exceptions (`Misblamed`).
* A read of `IndexedReader` that fails behind its first block has moved the
  position (`indexed.rs:69`); `CachedReads` says to where.
* `Index::validate` does not compare the length of a stream with the sum of its
  blocks (`index.rs`); reads do not use it.
* A ZIP field of exactly 0xFFFFFFFF is written as it is, and if a later field of
  the same record needs 64 bits a reader takes that one's value for it
  (`zip.rs:155`); `ReadsAmiss` leaves these archives out of `ArchiveReads`. 65535
  entries or a directory at exactly 0xFFFFFFFF are written without a Zip64
  record, which readers accept that do not insist on one.
* `fbz decompress - -o out` writes to the standard output. An input that is its
  own output is refused by all commands but `index`, and paths are compared as
  they are spelled (`fbz.rs:369`). With `--force --rm`, inputs whose outputs have
  the same name replace each other's; `RemovedCommitted` holds for each at the
  time of its removal.
* A comment in `bz2_encode/huffman.rs:6-7` says the decoder tolerates codes of
  23 bits; `decoder.rs` refuses more than 20.

## 6. Not modelled, and the plan

Not modelled, and why:

* Members, headers and trailers of gzip files, the fields of LZ4 frame headers,
  names, modes and times of ZIP entries, the file format of an index: parsing
  that keeps no state, covered by tests field by field.
* The arithmetic of checksums: a checksum is the bytes it covers.
* `list` and `test`, which write nothing; the choice of what goes into an
  archive (a walk of the file system by another crate); argument parsing,
  progress, messages.
* `lib.rs`, `error.rs` and the Python bindings: wrappers without state.
* Outside by the nature of the models: memory used by codecs themselves, time,
  and the order of the `#[cfg]` variants; the allocator never fails.
