----------------------------- MODULE ArchiveUnpack -----------------------------
(***************************************************************************)
(* The extraction of archives (src/bin/fbz): unpack of tar_extract.rs or   *)
(* of zip_extract.rs puts the archive into a staging directory, and        *)
(* archive_extract.rs moves the tree from there into the destination, only *)
(* when all of the archive has been decoded and checked.                   *)
(*                                                                         *)
(* A tree says what is at each path: nothing, a directory or a file.       *)
(* Every call of the file system can fail.                                 *)
(***************************************************************************)
EXTENDS OutputPipe, SequencesExt, FiniteSetsExt, Functions

CONSTANTS
    Paths,      \* sequences of names; <<>> is the top
    MaxOutput,  \* --max-output
    Threads     \* of the pool

ASSUME PathsAssumption ==
    /\ IsFiniteSet(Paths)
    /\ Paths \subseteq Seq(STRING)
    /\ <<>> \in Paths
    /\ \A p \in Paths : \A n \in 0..Len(p) : SubSeq(p, 1, n) \in Paths

VARIABLES
    overwrite,  \* --force
    staged,     \* the tree in the staging directory
    tree,       \* the tree at the destination
    todo,       \* what preflight or commit_entry have to do, the next thing first
    commit,     \* "waiting", "checking", "moving", then "done" or the error
    archive,    \* what is extracted: for tar, how many bytes the crate reads, how
                \* it ends when it has them, and the tree that it makes
    unpacker,   \* where unpack is
    extracted,  \* how the tar crate has ended, or "no pool" when the threads that
                \* ZIP entries are for cannot be started
    verdict,    \* what unpacking answers, "ok" when it goes on to commit, "bad"
                \* for data that is wrong (InvalidZip, or the decoder's error),
                \* "archive" for a tar that is wrong, "io" for a call that fails
    work,       \* for ZIP, the state of each entry's extraction,
    written     \* and how many bytes each entry has written

------------------------------------------------------------------------------
(* commit: all of the tree is held against the destination first           *)
(* (preflight); then each entry is looked at again and moved               *)
(* (commit_entry).  A call of the file system is a step, and other         *)
(* processes work at the destination between any two.                      *)

Files == {"user", "other", "entry"}
Nothing == [p \in Paths |-> "absent"]

\* What has something below it is a directory.
IsTree(t) ==
    /\ t \in [Paths -> {"absent", "dir"} \cup Files]
    /\ \A p, q \in Paths : t[q] # "absent" /\ IsStrictPrefix(p, q) => t[p] = "dir"

Below(p) == {q \in Paths : IsPrefix(p, q)}
Children(t, p) == {q \in Below(p) : Len(q) = Len(p) + 1 /\ t[q] # "absent"}

\* The children in the order of their names, which is any fixed order.
Tasks(op, t, p) == SetToSeq({[op |-> op, at |-> q] : q \in Children(t, p)})

BothDirectories(p) == staged[p] = "dir" /\ tree[p] = "dir"
Task(op) == commit \in {"checking", "moving"} /\ todo # <<>> /\ Head(todo).op = op
Path == Head(todo).at

CommitInit(destinations) ==
    /\ overwrite \in BOOLEAN
    /\ tree \in destinations
    /\ staged = Nothing
    /\ todo = <<>>
    /\ commit = "waiting"

Stop(error) == commit' = error /\ UNCHANGED <<tree, staged, todo>>
Instead(tasks) == todo' = tasks \o Tail(todo) /\ UNCHANGED <<tree, staged, commit>>

\* commit starts to check.  The destination is there by now.
BeginCommit ==
    /\ commit = "waiting"
    /\ commit' = "checking"
    /\ todo' = Tasks("check", staged, <<>>)
    /\ UNCHANGED <<tree, staged>>

\* preflight of one entry: directories are merged, and files replaced with
\* --force; nothing replaces a directory.
Preflight ==
    /\ Task("check")
    /\ \/ tree[Path] = "absent" /\ Instead(<<>>)
       \/ BothDirectories(Path) /\ Instead(Tasks("check", staged, Path))
       \/ tree[Path] = "dir" /\ staged[Path] # "dir" /\ Stop("collision")
       \/ tree[Path] \in Files /\ overwrite /\ Instead(<<>>)
       \/ tree[Path] \in Files /\ ~overwrite /\ Stop("exists")

Checked ==
    /\ commit = "checking"
    /\ todo = <<>>
    /\ commit' = "moving"
    /\ todo' = Tasks("look", staged, <<>>)
    /\ UNCHANGED <<tree, staged>>

\* commit_entry looks at both ends ...
Look ==
    /\ Task("look")
    /\ \/ tree[Path] = "absent" /\ Instead(<<[op |-> "rename", at |-> Path]>>)
       \/ BothDirectories(Path)
            /\ Instead(Append(Tasks("look", staged, Path), [op |-> "remove_dir", at |-> Path]))
       \/ tree[Path] = "dir" /\ staged[Path] # "dir" /\ Stop("collision")
       \/ tree[Path] \in Files /\ overwrite
            /\ Instead(<<[op |-> "remove_file", at |-> Path], [op |-> "rename", at |-> Path]>>)
       \/ tree[Path] \in Files /\ ~overwrite /\ Stop("exists")

\* ... and moves the entry.  A file that has come meanwhile is replaced
\* silently, as rename(2) does; what is no file stays.
MayRename(p) ==
    IF staged[p] = "dir" THEN tree[p] = "absent" \/ (tree[p] = "dir" /\ Children(tree, p) = {})
                         ELSE tree[p] # "dir"

Rename ==
    /\ Task("rename")
    /\ IF MayRename(Path)
       THEN /\ tree' = [q \in Paths |-> IF q \in Below(Path) THEN staged[q] ELSE tree[q]]
            /\ staged' = [q \in Paths |-> IF q \in Below(Path) THEN "absent" ELSE staged[q]]
            /\ todo' = Tail(todo)
            /\ UNCHANGED commit
       ELSE Stop("failed")

RemoveFile ==
    /\ Task("remove_file")
    /\ tree' = [tree EXCEPT ![Path] = "absent"]
    /\ todo' = Tail(todo)
    /\ UNCHANGED <<staged, commit>>

RemoveDirectory ==
    /\ Task("remove_dir")
    /\ staged' = [staged EXCEPT ![Path] = "absent"]
    /\ todo' = Tail(todo)
    /\ UNCHANGED <<tree, commit>>

\* Any call can fail, which ends the commit where it is.
CallFails == commit \in {"checking", "moving"} /\ Stop("failed")

CommitDone ==
    /\ commit = "moving"
    /\ todo = <<>>
    /\ commit' = "done"
    /\ UNCHANGED <<tree, staged, todo>>

CommitStep ==
    /\ \/ BeginCommit \/ Preflight \/ Checked \/ Look \/ Rename
       \/ RemoveFile \/ RemoveDirectory \/ CallFails \/ CommitDone
    /\ UNCHANGED overwrite

\* Another process writes a file at the destination.
OthersWrite(p) ==
    /\ p # <<>>
    /\ tree[p] = "absent"
    /\ tree[Front(p)] = "dir"
    /\ tree' = [tree EXCEPT ![p] = "other"]
    /\ UNCHANGED <<overwrite, staged, todo, commit>>

------------------------------------------------------------------------------
(* tar: the decoder writes the archive to a pipe on a thread of its own,   *)
(* the tar crate reads it and unpacks it; what follows the end of the      *)
(* archive is drained, so that the decoder can check it all.               *)

tarVars == <<pipe, archive, unpacker, extracted, verdict>>
tarRest == <<archive, extracted, verdict, staged>>

\* The staging directory is made before anything else is begun.
Stage ==
    /\ unpacker = "staging"
    /\ \/ unpacker' = "extracting" /\ UNCHANGED verdict
       \/ unpacker' = "answered" /\ verdict' = "io"
    /\ UNCHANGED <<pipe, archive, extracted, staged>>

\* Mutant of Admits: what is written now is not counted.
AdmitsOnceMore(before, count, limit) == before <= limit

\* LimitedOutput (--max-output) and ExpectedOutput (the declared size of a ZIP
\* entry) refuse what exceeds the limit before it is written.
Admits(before, count, limit) == before + count <= limit

WriteLimited ==
    /\ decoder = "decoding"
    /\ sent < Len(stream.ends)
    /\ IF Admits(Behind, Len(Upcoming), MaxOutput) THEN Write ELSE StopDecoding("bad")

ThreadEnds ==
    /\ decoder = "closed"
    /\ decoder' = "ended"
    /\ UNCHANGED <<stream, sent, decoded, cancelled, chunk>>

DecoderStep ==
    /\ unpacker \notin {"staging", "answered"}
    /\ \/ WriteLimited \/ EndOfStream \/ SendFails \/ SeesCancelled \/ DropOutput
       \/ ThreadEnds
    /\ UNCHANGED <<unpacker, tarRest>>

Position == Behind - Len(chunk)
PipeEnded == decoder \in {"closed", "ended"} /\ chunk = <<>>

Receive(room) == ReadChunk(room) \/ (chunk = <<>> /\ ReceiveChunk(room))

\* The crate reads what it needs ...
Extract ==
    /\ unpacker = "extracting"
    /\ \E room \in 1..(archive.reads - Position) : Receive(room)
    /\ UNCHANGED <<unpacker, tarRest>>

ExtractionEnds(how) ==
    /\ extracted' = how
    /\ unpacker' = IF how = "ok" THEN "draining" ELSE "dropping"
    /\ staged' = IF how = "ok" THEN archive.holds ELSE staged
    /\ UNCHANGED <<pipe, archive, verdict>>

\* ... until it has the archive, or finds that it is none; and where the
\* stream ends too early it may take that for the end.
ExtractWhole ==
    /\ unpacker = "extracting"
    /\ Position = archive.reads
    /\ ExtractionEnds(archive.ends)

ExtractCut ==
    /\ unpacker = "extracting"
    /\ PipeEnded
    /\ Position < archive.reads
    /\ \E how \in {"ok", "archive"} : ExtractionEnds(how)

\* It cannot write what it unpacks.
ExtractFails == unpacker = "extracting" /\ ExtractionEnds("io")

Drain ==
    /\ unpacker = "draining"
    /\ \E room \in {1, 4} : Receive(room)
    /\ UNCHANGED <<unpacker, tarRest>>

Drained ==
    /\ unpacker = "draining"
    /\ PipeEnded
    /\ unpacker' = "dropping"
    /\ UNCHANGED <<pipe, tarRest>>

\* Mutant of DropReader: the decoder is joined while the reader is there.
KeepReader ==
    /\ unpacker = "dropping"
    /\ unpacker' = "joining"
    /\ UNCHANGED <<pipe, tarRest>>

DropReader ==
    /\ unpacker = "dropping"
    /\ DropPipe
    /\ unpacker' = "joining"
    /\ UNCHANGED tarRest

\* Mutant of Blame: the archive is all that counts when it is whole.
BlameArchive == IF extracted = "ok" \/ decoded = "ok" THEN extracted ELSE decoded

\* The error of the decoder comes first, unless the reader has caused it.
Blame ==
    IF decoded = "ok" \/ (decoded = "broken pipe" /\ extracted # "ok")
    THEN extracted ELSE decoded

JoinDecoder ==
    /\ unpacker = "joining"
    /\ decoder = "ended"
    /\ unpacker' = "answered"
    /\ verdict' = Blame
    /\ UNCHANGED <<pipe, archive, extracted, staged>>

TarStep ==
    \/ Stage \/ DecoderStep
    \/ Extract \/ ExtractWhole \/ ExtractCut \/ ExtractFails
    \/ Drain \/ Drained \/ DropReader \/ JoinDecoder

------------------------------------------------------------------------------
(* ZIP: the directory of the archive is checked, and every entry is        *)
(* decoded, the large ones one by one and the rest on a pool.              *)
(*                                                                         *)
(* An entry says where it goes and what it is, where its data lies, how    *)
(* many bytes are declared and how many it decodes to, whether it is       *)
(* stored (or else deflated), and whether it is sound: its data decodes    *)
(* with the right checksum, and a link's target may be used.               *)

Entries == archive.entries
Declared == SumFunction([i \in DOMAIN Entries |-> Entries[i].size])

\* Mutant of ValidLayout: a file may have entries below it.
LayoutOfPaths ==
    \A i, j \in DOMAIN Entries : i # j =>
        /\ Entries[i].path # Entries[j].path
        /\ \/ Entries[i].from = Entries[i].to \/ Entries[j].from = Entries[j].to
           \/ Entries[i].to <= Entries[j].from \/ Entries[j].to <= Entries[i].from

\* validate_layout: no path twice, none below what is no directory, and no
\* data shared by two entries.
ValidLayout ==
    \A i, j \in DOMAIN Entries : i # j =>
        /\ Entries[i].path # Entries[j].path
        /\ IsStrictPrefix(Entries[i].path, Entries[j].path) => Entries[i].kind = "dir"
        /\ \/ Entries[i].from = Entries[i].to \/ Entries[j].from = Entries[j].to
           \/ Entries[i].to <= Entries[j].from \/ Entries[j].to <= Entries[i].from

\* parse: what is declared keeps within --max-output, and the data before the
\* central directory.
Accepted ==
    /\ Declared <= MaxOutput
    /\ \A i \in DOMAIN Entries : Entries[i].path # <<>> /\ Entries[i].to <= archive.central
    /\ ValidLayout

\* The staging directory gets the directories and all parents of files.
Prepared ==
    [p \in Paths |->
        IF \E i \in DOMAIN Entries :
               IF Entries[i].kind = "dir" THEN IsPrefix(p, Entries[i].path)
                                          ELSE IsStrictPrefix(p, Entries[i].path)
        THEN "dir" ELSE "absent"]

Answer(how) == unpacker' = "answered" /\ verdict' = how

\* parse, staging and prepare_directories.
Parse ==
    /\ unpacker = "parsing"
    /\ \/ Accepted /\ staged' = Prepared /\ unpacker' = "within" /\ UNCHANGED verdict
       \/ Accepted /\ Answer("io") /\ UNCHANGED staged
       \/ ~Accepted /\ Answer("bad") /\ UNCHANGED staged
    /\ UNCHANGED <<extracted, work, written>>

\* Large entries (uses_intra_entry) run alone and in order, on all threads.
Running == {i \in DOMAIN Entries : work[i] = "decoding"}
MayStart(i) ==
    \/ /\ unpacker = "within"
       /\ Entries[i].large
       /\ \A j \in DOMAIN Entries : j < i /\ Entries[j].large => work[j] = "done"
    \/ /\ unpacker = "across"
       /\ ~Entries[i].large
       /\ Cardinality(Running) < Threads

Free(p) == staged[p] = "absent" /\ staged[Front(p)] = "dir"
Create(p) == staged' = [staged EXCEPT ![p] = "entry"]
Becomes(i, state) == work' = [work EXCEPT ![i] = state] /\ UNCHANGED <<unpacker, verdict>>

\* extract_entry: a directory is there already; a file is made, and must be
\* new; a link is made once its target is decoded.
StartEntry(i) ==
    /\ work[i] = "waiting"
    /\ MayStart(i)
    /\ \/ Entries[i].kind = "dir" /\ Becomes(i, "done") /\ UNCHANGED staged
       \/ Entries[i].kind = "link" /\ Becomes(i, "decoding") /\ UNCHANGED staged
       \/ /\ Entries[i].kind = "file"
          /\ \/ IF Free(Entries[i].path)
                THEN Create(Entries[i].path) /\ Becomes(i, "decoding")
                ELSE Becomes(i, "clash") /\ UNCHANGED staged
             \/ Becomes(i, "unmade") /\ UNCHANGED staged
    /\ UNCHANGED <<extracted, written>>

\* decode_entry: the sizes of a stored entry are compared at once, and no entry
\* writes more than it declares.  Where a file cannot be written, a stored entry
\* fails with that error, and a deflated one is said to be invalid (entry_error).
Refuses(i) ==
    \/ Entries[i].stored /\ Entries[i].decodes # Entries[i].size
    \/ ~Admits(written[i], 1, Entries[i].size)

WriteEntry(i) ==
    /\ work[i] = "decoding"
    /\ written[i] < Entries[i].decodes
    /\ \/ Refuses(i) /\ Becomes(i, "failed") /\ UNCHANGED written
       \/ /\ ~Refuses(i)
          /\ written' = [written EXCEPT ![i] = @ + 1]
          /\ UNCHANGED <<work, unpacker, verdict>>
       \/ /\ ~Refuses(i)
          /\ Entries[i].kind = "file"
          /\ Becomes(i, IF Entries[i].stored THEN "unfinished" ELSE "blamed")
          /\ UNCHANGED written
    /\ UNCHANGED <<extracted, staged>>

\* It has all the bytes: size and checksum are compared.  Then the link is made,
\* or the file gets its mode and its time.
Whole(i) == Entries[i].sound /\ written[i] = Entries[i].size

CreateLink(i) ==
    IF Free(Entries[i].path)
    THEN Create(Entries[i].path) /\ Becomes(i, "done")
    ELSE Becomes(i, "clash") /\ UNCHANGED staged

FinishEntry(i) ==
    /\ work[i] = "decoding"
    /\ written[i] = Entries[i].decodes
    /\ \/ ~Whole(i) /\ Becomes(i, "failed") /\ UNCHANGED staged
       \/ Whole(i) /\ Entries[i].kind = "link" /\ CreateLink(i)
       \/ Whole(i) /\ Entries[i].kind = "file" /\ Becomes(i, "done") /\ UNCHANGED staged
       \/ Whole(i) /\ Becomes(i, "unfinished") /\ UNCHANGED staged
    /\ UNCHANGED <<extracted, written>>

\* run_entries: the first error ends it, once what has been started is over;
\* the pool begins when every large entry is done, and when its threads cannot
\* be started the archive is said to be invalid.
AllDone(large) == \A i \in DOMAIN Entries : Entries[i].large = large => work[i] = "done"

RunAcross ==
    /\ unpacker = "within"
    /\ AllDone(TRUE)
    /\ \/ unpacker' = "across" /\ UNCHANGED <<extracted, verdict>>
       \/ /\ \E i \in DOMAIN Entries : ~Entries[i].large
          /\ Answer("bad")
          /\ extracted' = "no pool"
    /\ UNCHANGED <<staged, work, written>>

\* When several entries have failed, the error may be that of any.  At the end
\* the directories get their modes and times.
Faults == {"failed", "blamed", "unmade", "unfinished", "clash"}
Report(i) == IF work[i] \in {"failed", "blamed"} THEN "bad" ELSE "io"

RunEnds ==
    /\ unpacker \in {"within", "across"}
    /\ Running = {}
    /\ \/ \E i \in DOMAIN Entries : work[i] \in Faults /\ Answer(Report(i))
       \/ /\ unpacker = "across"
          /\ AllDone(FALSE)
          /\ Answer("ok") \/ (Answer("io") /\ \E i \in DOMAIN Entries : Entries[i].kind = "dir")
    /\ UNCHANGED <<extracted, staged, work, written>>

ZipStep ==
    /\ \/ Parse \/ RunAcross \/ RunEnds
       \/ \E i \in DOMAIN work : StartEntry(i) \/ WriteEntry(i) \/ FinishEntry(i)
    /\ UNCHANGED <<pipe, archive>>
==============================================================================
