----------------------------- MODULE MCCommandLine -----------------------------
(* Runs with one or two inputs: streams whose outputs are distinct, the same, *)
(* the next input, the input itself or the standard output; and one archive, *)
(* alone or behind a stream, before destinations that it does and does not   *)
(* collide with, and that are named or not.                                  *)
EXTENDS CommandLine

MCPaths == {<<>>, <<"d">>, <<"d", "f">>, <<"f">>}

Tree(d, df, f) ==
    [p \in MCPaths |-> CASE p = <<>>         -> "dir"
                         [] p = <<"d">>      -> d
                         [] p = <<"d", "f">> -> df
                         [] p = <<"f">>      -> f]

Empty == Tree("absent", "absent", "absent")

Destinations ==
    {[Empty EXCEPT ![<<>>] = top] : top \in {"absent", "dir", "user"}}
    \cup {Tree("dir", "absent", "absent"), Tree("dir", "user", "absent"),
          Tree("user", "absent", "absent"), Tree("absent", "absent", "user"),
          Tree("absent", "absent", "dir"), Tree("dir", "user", "user")}

Both == Tree("dir", "entry", "entry")

------------------------------------------------------------------------------
(* Streams.                                                                 *)

Stream(path, output, bytes, sound) ==
    [kind |-> "stream", path |-> path, output |-> output, size |-> bytes, sound |-> sound]

Lists ==
    {<<Stream("a", "x", 2, sound), Stream("b", output, 1, TRUE)>> :
        sound \in BOOLEAN, output \in {"x", "y"}}
    \cup {<<Stream("a", "b", 1, TRUE), Stream("b", "x", 1, TRUE)>>,
          <<Stream("a", "a", 1, TRUE)>>, <<Stream("a", "-", 2, TRUE)>>,
          <<Stream("-", "-", 1, TRUE)>>, <<Stream("a", "x", 4, TRUE)>>}

Found(x) == [n \in Names |-> CASE n = "a" -> <<"a">> [] n = "b" -> <<"b">>
                               [] n = "-" -> <<"in">> [] n = "x" -> x [] OTHER -> <<>>]

Idle == [stream |-> [ends |-> <<>>, outcome |-> "ok"], entries |-> <<>>]

Absent == [Empty EXCEPT ![<<>>] = "absent"]

StreamRuns ==
    [command : {"compress", "create", "decompress", "index"}, inputs : Lists, into : {FALSE},
     files : {Found(<<>>), Found(<<"user">>)}, tree : {Empty}, archive : {Idle}]
    \cup [command : {"compress", "create", "decompress"},
          inputs : {<<Stream("a", "a", 1, TRUE)>>, <<Stream("y", "x", 1, TRUE)>>,
                    <<Stream("a", "x", 1, TRUE)>>},
          into : {TRUE}, files : {Found(<<>>)}, tree : {Absent}, archive : {Idle}]

------------------------------------------------------------------------------
(* Archives.                                                                *)

MCStreams == [ends : {<<>>, <<1>>, <<3>>, <<2, 3>>, <<1, 3, 4>>}, outcome : {"ok", "bad", "panic"}]

Tars ==
    [stream : MCStreams \ {s \in MCStreams : s.ends = <<>>}, entries : {<<>>},
     reads : {2}, ends : {"ok", "archive"}, holds : {Both}]

Entry(path, kind, from, bytes) ==
    [path |-> path, kind |-> kind, large |-> FALSE, stored |-> FALSE, from |-> from,
     to |-> from + 1, size |-> bytes, decodes |-> bytes, sound |-> TRUE]

F == Entry(<<"f">>, "file", 0, 1)
DF == [Entry(<<"d", "f">>, "file", 1, 1) EXCEPT !.stored = TRUE]
D == [Entry(<<"d">>, "dir", 2, 0) EXCEPT !.stored = TRUE]
Large(entry) == [entry EXCEPT !.large = TRUE, !.stored = FALSE]

EntryLists ==
    {<<F, DF>>, <<DF, [D EXCEPT !.sound = FALSE], F>>, <<Large(F), Large(DF), D>>,
     <<[F EXCEPT !.kind = "link"], DF>>, <<[F EXCEPT !.sound = FALSE], DF>>,
     <<[Large(F) EXCEPT !.decodes = 0], DF>>, <<[DF EXCEPT !.decodes = 2], F>>,
     <<[F EXCEPT !.decodes = 2, !.size = 2], [DF EXCEPT !.stored = FALSE, !.decodes = 2]>>,
     <<[F EXCEPT !.size = 3], DF>>, <<F, [DF EXCEPT !.from = 0]>>, <<F, F>>,
     <<DF, [D EXCEPT !.kind = "link"]>>, <<[D EXCEPT !.kind = "file"], Large(DF)>>,
     <<[F EXCEPT !.to = 4]>>}

Zips ==
    [stream : {[ends |-> <<>>, outcome |-> "ok"]}, entries : EntryLists, central : {3}]

Archive(kind) == [kind |-> kind, path |-> "a", output |-> "-", size |-> 0, sound |-> TRUE]

\* What is named need not be there; the working directory is, and from then on
\* it makes no difference which of them it is.
Working == {Tree("dir", "user", "absent")}

ArchiveRuns(inputs, archives, into, trees) ==
    [command : {"decompress"}, inputs : {inputs}, into : {into}, files : {Found(<<>>)},
     tree : trees, archive : archives]

Tarred == <<Archive("tar")>>
Zipped == <<Stream("b", "x", 1, TRUE), Archive("zip")>>

MCRuns ==
    StreamRuns
    \cup ArchiveRuns(Tarred, Tars, TRUE, Destinations) \cup ArchiveRuns(Tarred, Tars, FALSE, Working)
    \cup ArchiveRuns(Zipped, Zips, TRUE, Destinations) \cup ArchiveRuns(Zipped, Zips, FALSE, Working)
==============================================================================
