---------------------------- MODULE MCFolderScans ----------------------------
(***************************************************************************)
(* A folder with two folders a and c, a folder a/b and at most three files, *)
(* one of which may be a second name of another.  Four rules, the engine's  *)
(* two budgets, and the requests of the finders with room for everything    *)
(* and with room for too little.                                            *)
(***************************************************************************)
EXTENDS FolderScans, TLC

CONSTANTS d1, d2, d3

MCPath == {<<>>, <<"a">>, <<"a", "b">>, <<"a", "b", "x">>, <<"a", "x">>,
           <<"c">>, <<"c", "x">>}
MCRank == "a" :> 1 @@ "b" :> 2 @@ "c" :> 3 @@ "x" :> 4

\* Two contents that begin alike and have the same length, and a shorter one.
MCData == {d1, d2, d3}
MCSize == d1 :> 2 @@ d2 :> 2 @@ d3 :> 1
MCPrefix == d1 :> d1 @@ d2 :> d1 @@ d3 :> d3

Tree(folders, files) ==
    [p \in MCPath |-> IF p \in folders THEN Folder(p)
                      ELSE IF p \in DOMAIN files THEN File(p, files[p]) ELSE Absent]

AllFolders == {<<>>, <<"a">>, <<"a", "b">>, <<"c">>}
Copies == Tree(AllFolders, <<"a", "b", "x">> :> d1 @@ <<"a", "x">> :> d1 @@ <<"c", "x">> :> d1)
Linked == [Copies EXCEPT ![<<"c", "x">>].id = Copies[<<"a", "b", "x">>].id,
                         ![<<"a", "x">>].data = d2]
Hollow == Tree(AllFolders \cup {<<"a", "x">>}, <<>>)
Flat == Tree({<<>>, <<"a">>}, <<"a", "b">> :> d1 @@ <<"a", "x">> :> d1 @@ <<"c">> :> d3)
MCStarts == {Copies, Linked, Hollow, Flat}

DirectRule == [scanner |-> "direct", roots |-> {<<>>}, targets |-> {"x"},
    types |-> {"file"}, rootDepth |-> 2, projectDepth |-> Unset, targetDepth |-> Unset,
    all |-> {}, any |-> {}, excludedNames |-> {}, excludedPaths |-> {<<"c">>},
    aged |-> TRUE, lifecycle |-> "verified", risk |-> "safe", selected |-> TRUE,
    artifact |-> FALSE]
FolderRule == [DirectRule EXCEPT !.roots = {<<>>}, !.targets = {"a"},
    !.types = {"dir"}, !.rootDepth = 1, !.excludedPaths = {}, !.aged = FALSE]
ProjectRule == [FolderRule EXCEPT !.scanner = "projectArtifacts", !.targets = {"b"},
    !.projectDepth = 2, !.targetDepth = 1, !.all = {"x"}, !.any = {"b"}, !.artifact = TRUE]
OldRule == [FolderRule EXCEPT !.lifecycle = "deprecated", !.selected = FALSE]
MCRule == <<DirectRule, FolderRule, ProjectRule, OldRule>>
MCBounds == [rules |-> 4, roots |-> 1, names |-> 1, paths |-> 1, depth |-> 2]

Plenty == [workers |-> 2, visited |-> 20, candidates |-> 9, diagnostics |-> 9,
           measured |-> 9]
Scarce == [workers |-> 1, visited |-> 5, candidates |-> 2, diagnostics |-> 1,
           measured |-> 1]
MCLimits == {Plenty, Scarce}

\* The cleaner's targets: folders b within a, files x beside no b, a file c, and
\* two that are about other folders or nothing the cleaner supports.
AnchorTarget == [paths |-> <<<<>>>>, suffixes |-> <<>>, single |-> FALSE,
    anchors |-> {<<"a">>}, targets |-> {"b"}, maxDepth |-> 1, files |-> {},
    blockers |-> {}, excluded |-> {"c"}, aged |-> TRUE, unsupported |-> FALSE]
NamesTarget == [AnchorTarget EXCEPT !.suffixes = <<<<{"*", "a", "c"}>>, <<{"c"}>>>>,
    !.anchors = {}, !.files = {"x"}, !.blockers = {"b"}, !.excluded = {}]
SingleTarget == [NamesTarget EXCEPT !.paths = <<<<{"c"}>>, <<{"c"}, {"x"}>>>>,
    !.suffixes = <<>>, !.single = TRUE, !.aged = FALSE]
RegistryTarget == [SingleTarget EXCEPT !.unsupported = TRUE]
MCCatalog == <<AnchorTarget, NamesTarget, SingleTarget, RegistryTarget>>

NoLayout == [direct |-> FALSE, firefox |-> FALSE, profiles |-> {}, companions |-> {},
    profileDirs |-> {}, sharedDirs |-> {}, workers |-> {}, optional |-> {}, excluded |-> {}]
Chromium == [NoLayout EXCEPT !.profiles = {"a"}, !.profileDirs = {<<"b">>},
    !.sharedDirs = {<<"c">>}, !.workers = {<<"b">>}]
Firefox == [NoLayout EXCEPT !.firefox = TRUE, !.companions = {"a"},
    !.profileDirs = {<<"b">>}, !.excluded = {"c"}]

Wide == [kind |-> "large", limit |-> 9, entries |-> 9, diagnostics |-> 9, depth |-> 3,
    least |-> 1, most |-> 9, extensions |-> {}, category |-> "any", shownDepth |-> 1, optIn |-> FALSE,
    layout |-> NoLayout]
Narrow == [Wide EXCEPT !.limit = 2, !.diagnostics = 1]
MCRequest ==
    {[Wide EXCEPT !.kind = k] : k \in {"large", "duplicates", "empty", "analysis", "cleaner"}}
    \cup {[Narrow EXCEPT !.kind = k] : k \in {"large", "duplicates", "analysis", "cleaner"}}
    \cup {[Narrow EXCEPT !.kind = "large", !.least = 2, !.extensions = {"x"}, !.depth = 2],
          [Wide EXCEPT !.kind = "large", !.most = 1, !.category = "images"],
          [Narrow EXCEPT !.kind = "empty", !.limit = 9, !.depth = 1],
          [Wide EXCEPT !.kind = "empty", !.entries = 2],
          [Wide EXCEPT !.kind = "browser", !.layout = Chromium],
          [Wide EXCEPT !.kind = "browser", !.layout = Chromium, !.optIn = TRUE],
          [Wide EXCEPT !.kind = "browser", !.layout = Firefox]}

\* Of the threats: one content by its hash, one by its bytes, one name; files x are
\* programs, c is a name of Windows', and a is a folder programs should not be in.
Deep == [scope |-> "Folder", folders |-> <<<<>>>>, images |-> <<>>, files |-> 9, depth |-> 3,
    bytes |-> 2, findings |-> 9, allowlist |-> {}]
MCSweep ==
    {Deep, [Deep EXCEPT !.findings = 1, !.bytes = 1], [Deep EXCEPT !.files = 2, !.allowlist = {d1}],
     [Deep EXCEPT !.scope = "Quick", !.folders = <<<<"a">>, <<"c">>>>, !.depth = 1,
                  !.images = <<<<"a", "x">>, <<"a", "b", "x">>>>]}
MCKnownHash == {d2}
MCKnownBytes == {d3}
MCKnownName == {"b"}
MCSystemBinary == {"c"}
MCExecutable == {"x"}
MCDisguise == {"b"}
MCMZ == {d1, d2}
MCSigner == d1 :> "Unsigned" @@ d2 :> "Valid" @@ d3 :> "Unavailable"
MCLocation == <<[folder |-> <<"a", "b">>, class |-> "SystemRoot"], [folder |-> <<"a">>, class |-> "Risky"]>>

MCExtension == [n \in Name |-> IF n = "x" THEN "x" ELSE "none"]
MCCategory == "x" :> "images" @@ "none" :> "other"
MCHidden == {<<"c", "x">>}
MCReserved == {"x"}
MCProfile == <<>>
MCProfileFolders == {"c"}
MCProtections == {{}, {<<"c">>}}
=============================================================================
