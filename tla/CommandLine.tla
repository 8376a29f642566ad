------------------------------ MODULE CommandLine ------------------------------
(***************************************************************************)
(* The fbz program, src/bin/fbz.rs: its inputs are taken one after the     *)
(* other, and the first error ends it.  A stream is compressed, decoded or *)
(* indexed into a file of its own, written under a temporary name in the   *)
(* same directory, as is an archive that is made; an archive is extracted  *)
(* by ArchiveUnpack.  Afterwards --rm removes the input.                   *)
(*                                                                         *)
(* Every call of the file system can fail, and other processes make files  *)
(* at any time.  A kill is a behaviour that ends where it comes: nothing   *)
(* is promised of what is in memory or under a temporary name.             *)
(***************************************************************************)
EXTENDS ArchiveUnpack

CONSTANTS
    Names,      \* the names of files, and "-" for the standard output
    Runs        \* what the program can be asked to do: the command and its inputs

\* Bound: at most one of the inputs is an archive.
ASSUME RunsAssumption ==
    /\ MaxOutput \in Nat
    /\ \A r \in Runs :
        /\ r.command \in {"compress", "create", "decompress", "index"}
        /\ "-" \in DOMAIN r.files
        /\ \A n \in DOMAIN r.files : r.files[n] \in Seq(STRING)
        /\ IsTree(r.tree)
        /\ r.into \in BOOLEAN
        /\ r.into => r.command # "index"
        /\ ~r.into => r.tree[<<>>] = "dir"
        /\ Len(r.inputs) \in Nat \ {0}
        /\ \A i \in 1..Len(r.inputs) :
              /\ {r.inputs[i].path, r.inputs[i].output} \subseteq DOMAIN r.files
              /\ r.inputs[i].size \in Nat
              /\ r.inputs[i].kind \in {"stream", "tar", "zip"}
              /\ r.inputs[i].kind = "tar" =>
                    /\ r.archive.entries = <<>>
                    /\ r.archive.stream.ends # <<>>
                    /\ r.archive.ends \in {"ok", "archive"}
                    /\ IsTree(r.archive.holds) /\ r.archive.holds[<<>>] = "dir"
              /\ r.inputs[i].kind = "zip" => r.archive.stream = [ends |-> <<>>, outcome |-> "ok"]
        /\ \A i, j \in 1..Len(r.inputs) :
              r.inputs[i].kind # "stream" /\ r.inputs[j].kind # "stream" => i = j
        /\ IsFiniteSet(DOMAIN r.archive.entries)
        /\ \A i \in DOMAIN r.archive.entries :
              /\ r.archive.entries[i].path \in Paths
              /\ r.archive.entries[i].kind \in {"dir", "file", "link"}
              /\ {r.archive.entries[i].large, r.archive.entries[i].stored} \subseteq BOOLEAN
              /\ r.archive.entries[i].large => ~r.archive.entries[i].stored
              /\ {r.archive.entries[i].size, r.archive.entries[i].decodes} \subseteq Nat

VARIABLES
    run,        \* the command, its inputs, whether the outputs go `into` a directory
                \* that is named (-C), and what it finds
    skip, rm,   \* --skip-existing, --rm
    files,      \* the contents of each file, <<>> when there is none
    turn,       \* the input at hand
    stage,      \* how far it is
    source,     \* what was opened
    size        \* how many bytes have been written for it

options == <<run, overwrite, skip, rm>>
extractVars == <<staged, tree, todo, commit, tarVars, work, written>>
vars == <<options, files, turn, stage, source, size, extractVars>>

Input == run.inputs[turn]
Made(content) == Append(content, "made")
Exists(name) == files[name] # <<>>

CommandInit ==
    /\ run \in Runs
    /\ skip \in BOOLEAN
    /\ skip => \A i \in DOMAIN run.inputs : run.inputs[i].kind = "stream"
    /\ rm \in BOOLEAN
    /\ rm => run.command \in {"compress", "decompress"}
    /\ files = run.files
    /\ turn = 1
    /\ stage = IF run.into THEN "preparing" ELSE "next"
    /\ source = <<>>
    /\ size = 0
    /\ CommitInit({run.tree})
    /\ PipeInit
    /\ archive = run.archive
    /\ stream = archive.stream
    /\ unpacker = "waiting"
    /\ extracted = "none"
    /\ verdict = "none"
    /\ work = [i \in DOMAIN Entries |-> "waiting"]
    /\ written = [i \in DOMAIN Entries |-> 0]

------------------------------------------------------------------------------
(* The directory that -C names is made before any input is taken, except that *)
(* create looks at what it is to pack first (select).                         *)

GoOn(next) == stage' = next /\ UNCHANGED <<files, turn, source, size>>
Standard == Input.output = "-"
Same == ~Standard /\ Input.output = Input.path

MakeDirectory ==
    /\ stage = "preparing"
    /\ \/ /\ tree[<<>>] \notin Files
          /\ run.command = "create" => ~Same /\ Exists(Input.path)
          /\ tree' = [tree EXCEPT ![<<>>] = "dir"]
          /\ GoOn("next")
       \/ UNCHANGED tree /\ GoOn("error")
    /\ UNCHANGED <<options, staged, todo, commit, tarVars, work, written>>

------------------------------------------------------------------------------
(* One output: compress_streams, compress_archive (command "create", which  *)
(* has the files it packs for its input), run_decode and run_index.         *)

NextInput == turn' = turn + 1 /\ stage' = "next" /\ UNCHANGED <<files, source, size>>
Skips == skip /\ ~Standard /\ Exists(Input.output)
Unlimited == run.command \in {"compress", "create"}

\* An input that is its own output is refused before the output is skipped, or
\* by compress_streams afterwards, or by run_index not at all.
Open ==
    /\ stage = "next"
    /\ turn <= Len(run.inputs)
    /\ Input.kind = "stream"
    /\ IF run.command \in {"decompress", "create"} /\ Same THEN GoOn("error")
       ELSE IF Skips THEN NextInput
       ELSE IF (run.command = "compress" /\ Same) \/ ~Exists(Input.path) THEN GoOn("error")
       ELSE \/ GoOn("error")
            \/ /\ source' = files[Input.path]
               /\ size' = 0
               /\ stage' = IF run.command = "index" \/ Standard THEN "coding" ELSE "creating"
               /\ UNCHANGED <<files, turn>>

\* atomic_write begins: the temporary file is made.  An index has been built
\* by then, and everything else is not begun.
BeginWrite ==
    /\ stage = "creating"
    /\ IF Exists(Input.output) /\ ~overwrite THEN GoOn("error")
       ELSE GoOn(IF run.command = "index" THEN "persisting" ELSE "coding")

\* The codec writes a byte.  LimitedOutput refuses what exceeds --max-output.
WriteByte ==
    /\ stage = "coding"
    /\ size < Input.size
    /\ IF Unlimited \/ Admits(size, 1, MaxOutput)
       THEN size' = size + 1 /\ UNCHANGED <<files, turn, stage, source>>
       ELSE GoOn("error")

CodingEnds ==
    /\ stage = "coding"
    /\ size = Input.size
    /\ IF ~Input.sound THEN GoOn("error")
       ELSE IF Standard
       THEN /\ files' = [files EXCEPT !["-"] = Made(source)]
            /\ stage' = "removing"
            /\ UNCHANGED <<turn, source, size>>
       ELSE GoOn(IF run.command = "index" THEN "creating" ELSE "persisting")

\* Mutant of Persist: the file is replaced in any case.
PersistAlways ==
    /\ stage = "persisting"
    /\ files' = [files EXCEPT ![Input.output] = Made(source)]
    /\ stage' = IF run.command \in {"index", "create"} THEN "removing" ELSE "metadata"
    /\ UNCHANGED <<turn, source, size>>

\* persist replaces the file, persist_noclobber does not.
Persist ==
    /\ stage = "persisting"
    /\ IF overwrite \/ ~Exists(Input.output)
       THEN /\ files' = [files EXCEPT ![Input.output] = Made(source)]
            /\ stage' = IF run.command \in {"index", "create"} THEN "removing" ELSE "metadata"
            /\ UNCHANGED <<turn, source, size>>
       ELSE GoOn("error")

PreserveMetadata == stage = "metadata" /\ GoOn(IF Exists(Input.path) THEN "removing" ELSE "error")

RemoveInput ==
    /\ stage = "removing"
    /\ IF rm /\ Input.path # "-"
       THEN /\ files' = [files EXCEPT ![Input.path] = <<>>]
            /\ turn' = turn + 1
            /\ stage' = "next"
            /\ UNCHANGED <<source, size>>
       ELSE NextInput

Fails == stage \in {"creating", "coding", "persisting", "metadata", "removing"} /\ GoOn("error")

Ends == stage = "next" /\ turn > Len(run.inputs) /\ GoOn("ended")

Streaming ==
    /\ \/ Open \/ BeginWrite \/ WriteByte \/ CodingEnds \/ Persist
       \/ PreserveMetadata \/ RemoveInput \/ Fails \/ Ends
    /\ UNCHANGED <<options, extractVars>>

------------------------------------------------------------------------------
(* One archive: extract_input opens it and unpacks it.                      *)

StartExtract ==
    /\ stage = "next"
    /\ turn <= Len(run.inputs)
    /\ Input.kind # "stream"
    /\ \/ GoOn("error") /\ UNCHANGED unpacker
       \/ /\ Exists(Input.path)
          /\ GoOn("extracting")
          /\ unpacker' = IF Input.kind = "tar" THEN "staging" ELSE "parsing"
    /\ UNCHANGED <<options, staged, tree, todo, commit, pipe, archive, extracted, verdict, work, written>>

Unpack ==
    /\ stage = "extracting"
    /\ \/ Input.kind = "tar" /\ TarStep /\ UNCHANGED <<work, written>>
       \/ Input.kind = "zip" /\ ZipStep
    /\ UNCHANGED <<options, files, turn, stage, source, size, tree, todo, commit>>

Commit ==
    /\ verdict = "ok"
    /\ CommitStep
    /\ UNCHANGED <<run, skip, rm, files, turn, stage, source, size, tarVars, work, written>>

\* Mutant of ExtractEnds: the answer of the commit is lost.
ExtractEndsAnyhow ==
    /\ stage = "extracting"
    /\ unpacker = "answered"
    /\ GoOn(IF verdict = "ok" THEN "removing" ELSE "error")
    /\ commit \in {"done", "collision", "exists", "failed"} \/ verdict # "ok"
    /\ UNCHANGED <<options, extractVars>>

ExtractEnds ==
    /\ stage = "extracting"
    /\ unpacker = "answered"
    /\ \/ verdict = "ok" /\ commit = "done" /\ GoOn("removing")
       \/ verdict # "ok" /\ GoOn("error")
       \/ commit \in {"collision", "exists", "failed"} /\ GoOn("error")
    /\ UNCHANGED <<options, extractVars>>

------------------------------------------------------------------------------
Others ==
    /\ stage \notin {"ended", "error"}
    /\ \/ /\ \E n \in DOMAIN files \ {"-"} :
                ~Exists(n) /\ files' = [files EXCEPT ![n] = <<"other">>]
          /\ UNCHANGED <<options, turn, stage, source, size, extractVars>>
       \/ /\ \E p \in Paths : OthersWrite(p)
          /\ UNCHANGED <<run, skip, rm, files, turn, stage, source, size, tarVars, work, written>>

Program == MakeDirectory \/ Streaming \/ StartExtract \/ Unpack \/ Commit \/ ExtractEnds
Next == Program \/ Others

Spec == CommandInit /\ [][Next]_vars

\* The program and its threads go on.  Nobody else has to do anything, and
\* no call has to fail.
FairSpec == Spec /\ WF_vars(Program)

------------------------------------------------------------------------------
(* What the program promises.                                               *)

\* Whether an archive is what it should be (the data of a directory is never
\* looked at) and keeps within the limit, and what it then leaves behind.
Fits(ends) == ends = <<>> \/ Last(ends) <= MaxOutput

Valid ==
    /\ stream.outcome = "ok"
    /\ Fits(stream.ends)
    /\ \A i \in DOMAIN Entries :
          Entries[i].kind # "dir" => Entries[i].sound /\ Entries[i].decodes = Entries[i].size

Kinds == {run.inputs[i].kind : i \in 1..Len(run.inputs)}
Holds(p) ==
    IF "tar" \in Kinds THEN archive.holds[p]
    ELSE IF Prepared[p] = "dir" THEN "dir"
    ELSE IF \E i \in DOMAIN Entries : Entries[i].path = p THEN "entry" ELSE "absent"

\* Without --force no file is replaced that the program could have seen
\* (README.md, "CLI output safety"): at the name of an output, anywhere in the
\* destination, from the start or made by another process meanwhile.  The one
\* exception is a file that comes between the look of commit_entry and its
\* rename.
Racing(p) == tree[p] = "other" /\ todo # <<>> /\ Head(todo).op = "rename" /\ p \in Below(Path)

FoundKept ==
    [][~overwrite =>
        /\ \A n \in DOMAIN files \ {"-"} : Exists(n) => files'[n] \in {files[n], <<>>}
        /\ \A p \in Paths : tree[p] \in Files => tree'[p] = tree[p] \/ Racing(p)]_vars

\* What appears at the name of an output, or below the destination, is whole:
\* it comes from an input that has been decoded to its end, with success and
\* within the limit (atomic_write, and the staging directory), whatever fails
\* or is interrupted.  The destination itself is made before.  What the program
\* takes away below it (--force) is what the archive, still staged, has to put
\* there: between the two calls neither file is at the destination.
OutputsWhole ==
    [][/\ \A n \in DOMAIN files :
            files'[n] \notin {files[n], <<>>, <<"other">>} =>
                /\ files'[n] = Made(source)
                /\ Input.sound
                /\ ~Unlimited => Input.size <= MaxOutput
       /\ \A p \in Paths \ {<<>>} :
            tree'[p] \notin {tree[p], "other"} =>
                Valid /\ Holds(p) \in {tree'[p], staged'[p]}]_vars

\* --rm removes an input only when what has been made of it is in place: its
\* output under the other name, or every entry of the archive.
RemovedCommitted ==
    [][\A n \in DOMAIN files :
        Exists(n) /\ ~Exists(n)' =>
            IF Input.kind = "stream"
            THEN \E m \in DOMAIN files \ {n} : files[m] = Made(files[n])
            ELSE \A p \in Paths : Holds(p) # "absent" => tree[p] = Holds(p)]_vars

\* Extraction goes on to its commit only with a valid archive, and an error is
\* the one that is there: a decoder whose pipe the tar crate has dropped is
\* not blamed, and a valid decoder never; an archive in which nothing is wrong is
\* called invalid only when a deflated entry cannot be written or no threads can
\* be started, which is what entry_error and run_entries make of these errors;
\* and entries that the directory of a ZIP archive allows do not get into each
\* other's way.
Misblamed == extracted = "no pool" \/ \E i \in DOMAIN Entries : work[i] = "blamed"

BlameTruthful ==
    /\ verdict = "ok" => Valid
    /\ verdict = "panic" => stream.outcome = "panic"
    /\ verdict = "archive" =>
          archive.ends = "archive" \/ (stream.outcome = "ok" /\ Last(stream.ends) < archive.reads)
    /\ verdict = "bad" => ~(Valid /\ Accepted) \/ Misblamed
    /\ verdict # "broken pipe"
    /\ \A i \in DOMAIN Entries : work[i] # "clash"

\* No more than --max-output is ever written: by the decoder of a stream or of
\* a tar archive, or by the entries of a ZIP archive, also where they decode to
\* more than they declare.
WithinMaxOutput ==
    /\ SumFunction(written) <= MaxOutput
    /\ Behind <= MaxOutput
    /\ ~Unlimited => size <= MaxOutput

\* The program ends: nobody waits for the decoder of an archive that waits
\* for somebody to read.
AlwaysEnds == <>(stage \in {"ended", "error"})
==============================================================================
