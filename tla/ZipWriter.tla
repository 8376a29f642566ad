------------------------------- MODULE ZipWriter -------------------------------
(***************************************************************************)
(* The records of a ZIP archive: create_to_writer of src/zip.rs.           *)
(*                                                                         *)
(* Entries are looked at first and read later, so a file may have changed  *)
(* in between.  That entries prepared in parallel are written in order is  *)
(* InOrderBatch.  Lengths are scaled: a record with its extra field counts *)
(* for one, as does a byte of data, and a place in the archive is a number *)
(* of those.                                                               *)
(***************************************************************************)
EXTENDS Sequences, FiniteSets, Integers, SequencesExt

CONSTANTS
    Max16,             \* u16::MAX, for the number of entries
    Max32,             \* u32::MAX, for lengths and places
    NearMax32,         \* 0xff00_0000 of may_need_zip64
    SingleThreshold,   \* SINGLE_ENTRY_PARALLEL
    MultiThreshold,    \* MULTI_ENTRY_PARALLEL
    WorkingMemory,     \* SMALL_WORKING_MEMORY
    MemoryLimits,      \* options.memory_limit
    FileSizes,         \* of a file, when looked at and when read
    LinkSizes,         \* of the target of a link, when read
    ZipInputs          \* the lists of [name, kind, size] considered

ASSUME ZipAssumption ==
    /\ Max16 \in Nat /\ Max32 \in Nat \ {0} /\ NearMax32 \in 0..Max32
    /\ {SingleThreshold, MultiThreshold, WorkingMemory} \subseteq Nat
    /\ MemoryLimits \subseteq Nat /\ FileSizes \subseteq Nat /\ LinkSizes \subseteq Nat
    /\ ZipInputs \subseteq Seq([name : Nat, kind : {"file", "dir", "link"}, size : Nat])

VARIABLES
    inputs,    \* the entries as they were looked at
    limit,     \* options.memory_limit
    waiting,   \* those not yet written, the large ones first
    archive,   \* the output, record by record
    central,   \* what the central directory will say
    grown,     \* the names of files and links that were longer when they were read
    zipping    \* "starting", "writing", "done", or what it failed with

zipWriter == <<inputs, limit, waiting, archive, central, grown, zipping>>

------------------------------------------------------------------------------
(* What is written of an entry                                             *)

\* may_need_zip64
NeedsZip64(size) == size >= NearMax32

\* A field of 32 bits, all ones where the value stands in an extra field.
Field(value) == IF value > Max32 THEN Max32 ELSE value

\* write_local_header: the extra field has the size found at first.
LocalHeader(e, method, zip64) ==
    [record |-> "local", name |-> e.name, method |-> method,
     extra |-> IF zip64 THEN <<e.size, 0>> ELSE <<>>]

Descriptor(compressed, uncompressed, zip64) ==
    [record |-> "descriptor", wide |-> zip64,
     compressed |-> compressed, uncompressed |-> uncompressed]

Data(e) == [record |-> "data", name |-> e.name]

\* A value in the extra field, if it needs 64 bits.
Extra(value) == IF value > Max32 THEN <<value>> ELSE <<>>

\* Mutant of Zip64Values: the compressed size first.
Zip64ValuesSwapped(c) == Extra(c.compressed) \o Extra(c.uncompressed) \o Extra(c.offset)

\* zip64_values: the sizes and the place that need 64 bits, in this order.
Zip64Values(c) == Extra(c.uncompressed) \o Extra(c.compressed) \o Extra(c.offset)

\* write_central
CentralRecord(c) ==
    [record |-> "central", name |-> c.name, method |-> c.method,
     uncompressed |-> Field(c.uncompressed), compressed |-> Field(c.compressed),
     offset |-> Field(c.offset), extra |-> Zip64Values(c)]

\* finish_archive
EndRecords(start, entries) ==
    LET size == Len(entries)
        zip64 == \/ \E i \in 1..size : central[i].zip64
                 \/ size > Max16
                 \/ start > Max32
                 \/ size > Max32
    IN (IF zip64
        THEN <<[record |-> "zip64 end", count |-> size, start |-> start],
               [record |-> "locator", at |-> start + size]>>
        ELSE <<>>)
       \o <<[record |-> "end", count |-> IF size > Max16 THEN Max16 ELSE size,
             start |-> Field(start)]>>

------------------------------------------------------------------------------
(* create_to_writer                                                        *)

FileCount == Cardinality({i \in DOMAIN inputs : inputs[i].kind = "file"})

\* Large files are coded while they are written, the others before.
IsLarge(e) ==
    /\ e.kind = "file"
    /\ \/ e.size >= IF FileCount = 1 THEN SingleThreshold ELSE MultiThreshold
       \/ 2 * e.size + WorkingMemory > limit

\* Sorted by name, and the large ones in front.
Precedes(e, f) == IF IsLarge(e) = IsLarge(f) THEN e.name < f.name ELSE IsLarge(e)

Begin ==
    /\ zipping = "starting"
    /\ IF \E i, j \in DOMAIN inputs : i # j /\ inputs[i].name = inputs[j].name
       THEN zipping' = "duplicate path" /\ UNCHANGED waiting
       ELSE /\ zipping' = "writing"
            /\ \E order \in Bijection(DOMAIN inputs, DOMAIN inputs) :
                  /\ \A i, j \in DOMAIN inputs :
                        i < j => Precedes(inputs[order[i]], inputs[order[j]])
                  /\ waiting' = [i \in DOMAIN inputs |-> inputs[order[i]]]
    /\ UNCHANGED <<inputs, limit, archive, central, grown>>

\* The header, the bytes and the descriptor, whose fields of 32 bits refuse
\* what does not fit, and what is remembered for the central directory.
WriteEntry(e, method, compressed, uncompressed, zip64) ==
    /\ IF zip64 \/ (compressed <= Max32 /\ uncompressed <= Max32)
       THEN /\ archive' = archive \o <<LocalHeader(e, method, zip64)>>
                          \o [i \in 1..compressed |-> Data(e)]
                          \o <<Descriptor(compressed, uncompressed, zip64)>>
            /\ central' = Append(central,
                 [name |-> e.name, method |-> method, compressed |-> compressed,
                  uncompressed |-> uncompressed, offset |-> Len(archive),
                  zip64 |-> zip64])
            /\ UNCHANGED zipping
       ELSE /\ archive' = archive \o <<LocalHeader(e, method, zip64)>>
                          \o [i \in 1..compressed |-> Data(e)]
            /\ zipping' = "requires Zip64"
            /\ UNCHANGED central
    /\ waiting' = Tail(waiting)
    /\ grown' = IF uncompressed > e.size THEN grown \union {e.name} ELSE grown
    /\ UNCHANGED <<inputs, limit>>

Upcoming == waiting[1]

\* What DEFLATE makes of a file: short, or a little longer than the file.
CodedLengths(size) == {1, size + 1}

\* write_large decides for Zip64 before it reads the file.
WriteLarge ==
    /\ zipping = "writing" /\ waiting # <<>> /\ IsLarge(Upcoming)
    /\ \E size \in FileSizes : \E coded \in CodedLengths(size) :
         WriteEntry(Upcoming, "deflate", coded, size, NeedsZip64(Upcoming.size))

\* prepare and write_prepared, which decides for Zip64 by what was read: a file or
\* a link as it is by then.
WritePrepared ==
    /\ zipping = "writing" /\ waiting # <<>> /\ ~ IsLarge(Upcoming)
    /\ \/ Upcoming.kind = "dir" /\ WriteEntry(Upcoming, "stored", 0, 0, NeedsZip64(0))
       \/ /\ Upcoming.kind = "link"
          /\ \E size \in LinkSizes : WriteEntry(Upcoming, "stored", size, size, NeedsZip64(size))
       \/ /\ Upcoming.kind = "file"
          /\ \E size \in FileSizes : \E coded \in CodedLengths(size) :
                IF coded < size
                THEN WriteEntry(Upcoming, "deflate", coded, size, NeedsZip64(size))
                ELSE WriteEntry(Upcoming, "stored", size, size, NeedsZip64(size))

\* A file cannot be read, or the output refuses.
ZipFails ==
    /\ zipping = "writing"
    /\ zipping' = "I/O error"
    /\ UNCHANGED <<inputs, limit, waiting, archive, central, grown>>

FinishArchive ==
    /\ zipping = "writing" /\ waiting = <<>>
    /\ LET entries == [i \in DOMAIN central |-> CentralRecord(central[i])]
       IN archive' = archive \o entries \o EndRecords(Len(archive), entries)
    /\ zipping' = "done"
    /\ UNCHANGED <<inputs, limit, waiting, central, grown>>

ZipInit ==
    /\ inputs \in ZipInputs /\ limit \in MemoryLimits
    /\ waiting = <<>> /\ archive = <<>> /\ central = <<>> /\ grown = {}
    /\ zipping = "starting"

ZipNext == Begin \/ WriteLarge \/ WritePrepared \/ ZipFails \/ FinishArchive

ZipSpec == ZipInit /\ [][ZipNext]_zipWriter

------------------------------------------------------------------------------
(* A reader of the format                                                  *)

Cell(place) == IF place + 1 \in DOMAIN archive THEN archive[place + 1]
               ELSE [record |-> "nothing"]

\* Where the central directory is.  Some readers look for the record of Zip64
\* at any time, others when a field of the end record is all ones.
Directory(always) ==
    LET end == Cell(Len(archive) - 1)
        locator == Cell(Len(archive) - 2)
    IN IF /\ locator.record = "locator"
          /\ always \/ end.count = Max16 \/ end.start = Max32
       THEN Cell(locator.at)
       ELSE end

\* The value of the k-th field: of the extra field, whose values belong to the
\* fields that are all ones, one after the other.
ReadField(r, k) ==
    LET fields == <<r.uncompressed, r.compressed, r.offset>>
        ones == Cardinality({j \in 1..k : fields[j] = Max32})
    IN IF fields[k] = Max32 /\ ones \in DOMAIN r.extra THEN r.extra[ones] ELSE fields[k]

\* A value of exactly u32::MAX is written as it is, and before one that needs 64
\* bits it is read as that one: such archives are left out.
ReadsAmiss(c) ==
    LET values == <<c.uncompressed, c.compressed, c.offset>>
    IN \E j, k \in 1..3 : j < k /\ values[j] = Max32 /\ values[k] > Max32

\* An entry, from the central directory and from its local header on.
EntryReads(r) ==
    LET offset == ReadField(r, 3)
        compressed == ReadField(r, 2)
        header == Cell(offset)
        descriptor == Cell(offset + compressed + 1)
    IN /\ header.record = "local" /\ header.name = r.name /\ header.method = r.method
       /\ \A i \in 1..compressed :
            Cell(offset + i) = [record |-> "data", name |-> r.name]
       /\ descriptor.record = "descriptor"
       /\ descriptor.wide <=> header.extra # <<>>
       /\ descriptor.compressed = compressed
       /\ descriptor.uncompressed = ReadField(r, 1)

\* An archive that was finished has every entry once, and a reader finds each
\* with the lengths and at the place it was written with, whichever of them are
\* beyond 32 bits and whatever the files became after they were looked at; and
\* an archive is given up for Zip64 only where a file has grown meanwhile.
ArchiveReads ==
    /\ zipping = "done" =>
         \A always \in BOOLEAN :
           LET directory == Directory(always)
               listed(i) == Cell(directory.start + i - 1)
           IN /\ directory.record \in {"end", "zip64 end"}
              /\ directory.count = Len(inputs)
              /\ \A i \in 1..directory.count : listed(i).record = "central"
              /\ {listed(i).name : i \in 1..directory.count} = {e.name : e \in ToSet(inputs)}
              /\ \A i \in 1..directory.count :
                   ReadsAmiss(central[i]) \/ EntryReads(listed(i))
    /\ zipping = "requires Zip64" => grown # {}
==============================================================================
