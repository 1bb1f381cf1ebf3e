---- MODULE MCByteRoutes ----
(* Two books of a small library, of which one volume is mounted behind a link   *)
(* and the other has copies of the first book's files.                          *)
EXTENDS ByteRoutes, TLC

CONSTANTS r1, r2

Symmetry == Permutations({r1, r2})

File(pic) == [type |-> "file", picture |-> pic, stamp |-> 0]
Folder == [type |-> "dir"]
Absent == [type |-> "none"]
Link(path) == [type |-> "link", to |-> path]

(* The first book has a sidecar beside it, and its second file is a link that   *)
(* leads out of the volume; the second book has none.                           *)
MCTrees ==
  {<<"mnt">> :> Link(<<"vol">>)
   @@ <<"vol">> :> Folder
   @@ <<"vol", "bk">> :> Folder
   @@ <<"vol", "bk", "a0">> :> File(TRUE)
   @@ <<"vol", "bk", "a1">> :> Link(<<"out", "a1">>)
   @@ <<"vol", "bk", "cover">> :> Absent
   @@ <<"vol", "bk", "folder">> :> File(TRUE)
   @@ <<"vol", "bk2">> :> Folder
   @@ <<"vol", "bk2", "b0">> :> File(TRUE)
   @@ <<"mnt2">> :> Folder
   @@ <<"mnt2", "bk">> :> Folder
   @@ <<"mnt2", "bk", "a0">> :> File(TRUE)
   @@ <<"mnt2", "bk", "a1">> :> File(FALSE)
   @@ <<"out">> :> Folder
   @@ <<"out", "a1">> :> File(TRUE)}

(* The link before a volume is led to the other one and back, and the one that  *)
(* leads out of the volume into it and back; a file is replaced, a sidecar comes.*)
MCChanges ==
  <<"mnt">> :> {Link(<<"vol">>), Link(<<"mnt2">>)}
  @@ <<"vol", "bk", "a1">> :> {Link(<<"out", "a1">>), Link(<<"vol", "bk", "a0">>)}
  @@ <<"vol", "bk2", "b0">> :> {File(TRUE), File(FALSE)}
  @@ <<"vol", "bk", "cover">> :> {File(TRUE), Absent}

MCSidecars == <<"cover", "folder">>

Abs(path) == [abs |-> TRUE, path |-> path]
Rel(path) == [abs |-> FALSE, path |-> path]
Listed(index, storage, name) == [index |-> index, storage |-> storage, name |-> name]

(* The first book's keys are absolute; the second's leads nowhere without rules *)
(* of its own, and its file names go by way of the root.                        *)
MCFilesOf ==
  "one" :> <<Listed(0, Abs(<<"media", "bk", "a0">>), NoKey),
             Listed(0, Abs(<<"media", "bk", "a1">>), NoKey),
             Listed(0, Abs(<<"media", "..a2">>), NoKey)>>
  @@ "two" :> <<Listed(3, Abs(<<"media", "bk2", "b0">>), Rel(<<"bk", Up, "bk2", "b0">>)),
                Listed(4, NoKey, Rel(<<"bk2", "b0">>))>>

Ask(book, idx, size) == [book |-> book, idx |-> idx, size |-> size]

MCAsks ==
  {Ask("one", 1, "none"), Ask("one", 2, "none"), Ask("two", 4, "none"),
   Ask("one", CoverFileIdx, "large"), Ask("one", CoverFileIdx, "medium"),
   Ask("two", CoverFileIdx, "large"), Ask("two", CoverFileIdx, "small")}

Rule(source, target) == [source |-> source, target |-> target]
Config(secret, root, rules) == [secret |-> secret, root |-> root, rules |-> rules]

MCConfigs ==
  {Config("raw", Nowhere, <<Rule(<<"media">>, <<"mnt">>), Rule(<<"media">>, <<"mnt2">>)>>),
   Config("unpadded", <<"mnt">>, <<>>),
   Config("blank", Nowhere, <<>>)}

Form(alg, exp) == [alg |-> alg, aud |-> Audience, exp |-> exp, sub |-> TRUE]

MCTokenForms == {Form("HS256", "ahead"), Form("HS512", "ahead"), Form("HS256", "none")}

(* Links may be led elsewhere, but what comes is of the kind of what went.      *)
ASSUME LayoutAssumption == LinksStay /\ KindsStay /\ SidecarsArePlain
====
