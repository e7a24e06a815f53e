--------------------------- MODULE StorageFinders ---------------------------
(***************************************************************************)
(* What the storage scans find: the walk they share                         *)
(* (cleanup-core/storage/walk.rs) and the collectors it feeds: large files, *)
(* duplicates, empty folders, the disk analyzer, the cache cleaner and the  *)
(* browser caches, up to the rows and candidates a snapshot is built from.  *)
(*                                                                         *)
(* One step lists one folder, looks at one entry, leaves one folder, reads  *)
(* one file for its digest or publishes; other programs change the tree     *)
(* between any two of them.  An entry that is looked at once for its        *)
(* metadata and again for its evidence is looked at in one step, which may  *)
(* find the one and not the other.                                          *)
(***************************************************************************)
EXTENDS ScanTree

CONSTANTS
    Request,        \* the scans to try
    Catalog,        \* the cleaner's catalogs: their targets in order
    Extension,      \* [Name -> extension]
    Category,       \* [extension -> category]
    Hidden,         \* hidden or system folders
    Reserved,       \* names protected_folder never offers
    Profile,        \* where the user's profile is
    ProfileFolders  \* names it never offers directly in the profile

-----------------------------------------------------------------------------
(* What may be asked for *)

StorageModule == {"cleaner", "analysis", "large", "duplicates", "empty", "browser"}

\* One installed browser: the names of its profiles, of those its other folder
\* vouches for, and the caches in a profile, shared and of service workers.
BrowserLayout ==
    [direct : BOOLEAN, firefox : BOOLEAN, profiles : SUBSET Name, companions : SUBSET Name,
     profileDirs : SUBSET Seq(Name), sharedDirs : SUBSET Seq(Name),
     workers : SUBSET Seq(Name), optional : SUBSET Name, excluded : SUBSET Name]

StorageScanRequest ==
    [kind : StorageModule, limit : Nat, entries : Nat, diagnostics : Nat, depth : Nat,
     least : Nat, most : Nat, extensions : SUBSET Range(Extension),
     category : {"any"} \cup Range(Category), shownDepth : Nat, optIn : BOOLEAN,
     layout : BrowserLayout]

ValidLimits(q) == 0 \notin {q.limit, q.entries, q.diagnostics}
ValidFilter(q) == q.least <= q.most

\* A target of a catalog.  Each part of a path is the set of names it stands
\* for, with "*" among them where the part has a wildcard.
Pattern == Seq(SUBSET (Name \cup {"*"}))
CatalogTarget ==
    [paths : Seq(Pattern), suffixes : Seq(Pattern), single : BOOLEAN,
     anchors : SUBSET Seq(Name), targets : SUBSET Name, maxDepth : 1..32,
     files : SUBSET Name, blockers : SUBSET Name, excluded : SUBSET Name,
     aged : BOOLEAN, unsupported : BOOLEAN]

ASSUME FinderAssumption ==
    /\ Request \subseteq StorageScanRequest
    /\ \A q \in Request : ValidLimits(q) /\ ValidFilter(q) /\ q.shownDepth <= q.depth
    /\ \A n \in DOMAIN Catalog : Catalog[n] \in CatalogTarget

VARIABLES
    at,       \* how far the scan is
    req,      \* what was asked for
    stack,    \* the folders the walk is in, outermost first
    dirs,     \* WalkState.directories
    claimed,  \* TraversalContext.visited
    notes,    \* TraversalContext.diagnostic_count
    stopped,  \* WalkState.stopped
    partial,  \* the reasons the snapshot is not complete
    col,      \* what the scan's collector holds
    hashes,   \* files still to read and digests read, for duplicates
    rows      \* what is published, each row with its evidence

finderVars == <<at, req, stack, dirs, claimed, notes, stopped, partial, col,
                hashes, rows>>
walking == <<stack, dirs, claimed, notes, stopped>>

Is(kinds) == req.kind \in kinds

\* An ObservedEntry: all that is remembered of a file or folder.  A file has none when its
\* date is before 1970, or its size on disk or the file itself cannot be looked at again.
Observed(p) == [path |-> p, id |-> tree[p].id, kind |-> Kind(p),
                bytes |-> Bytes(tree[p]), stamp |-> tree[p].stamp]

Ends == {"complete", "cancelled", "unsupported", "refused"}

-----------------------------------------------------------------------------
(* cleaner.rs: one target is a folder, a pattern below it and a matcher *)

\* build_targets: a target for every path, with every suffix if there are some.
CompiledPaths(c) ==
    IF c.suffixes = <<>> THEN c.paths
    ELSE FlattenSeq([n \in DOMAIN c.paths |->
             [k \in DOMAIN c.suffixes |-> c.paths[n] \o c.suffixes[k]]])

\* The names at the start of a path without a wildcard; the file of a target
\* that is one file is none of them.
LiteralParts(c, path) ==
    LET wild == {n \in DOMAIN path : "*" \in path[n]}
    IN (IF wild = {} THEN Len(path) ELSE Min(wild) - 1) - (IF c.single THEN 1 ELSE 0)

\* bind: the literal start of a path is the folder a target is about, and the
\* rest its pattern below it.  A scan takes the targets about its own folder.
Bound(c) ==
    LET here == SelectSeq(CompiledPaths(c), LAMBDA path : LiteralParts(c, path) = 0)
    IN [n \in DOMAIN here |-> [pattern |-> here[n], rule |-> c]]
Target == FlattenSeq([n \in DOMAIN Catalog |->
              IF Catalog[n].unsupported THEN <<>> ELSE Bound(Catalog[n])])

\* The matcher that the fields of a target amount to.
Matcher(c) ==
    CASE c.single -> "single-file"
      [] ~c.single /\ c.anchors # {} -> "bounded-anchor"
      [] ~c.single /\ c.anchors = {} /\ c.files # {} -> "direct-file-allowlist"
      [] OTHER -> "literal-or-one-child-cache-files"

Fits(pattern, names) ==
    /\ Len(names) >= Len(pattern)
    /\ \A n \in DOMAIN pattern : names[n] \in pattern[n]

Common(pattern, names) ==
    LET n == IF Len(pattern) < Len(names) THEN Len(pattern) ELSE Len(names)
    IN Fits(SubSeq(pattern, 1, n), names)

Names(s) == [n \in DOMAIN s |-> {s[n]}]
After(pattern, names) == SubSeq(names, Len(pattern) + 1, Len(names))

TargetExcludes(t, p) == IsProtected(p) \/ ToSet(p) \cap Target[t].rule.excluded # {}

\* The file lies in a folder of the right name, not too far below an anchor.
Anchored(r, below, last) ==
    \E n \in 1..last : n <= r.maxDepth /\ below[n] \in r.targets

TargetFits(t, p) ==
    LET r == Target[t].rule
        rest == After(Target[t].pattern, p)
    IN /\ Fits(Target[t].pattern, p)
       /\ CASE Matcher(r) = "single-file" -> rest = <<>>
            [] Matcher(r) = "bounded-anchor" ->
                 Len(rest) >= 2 /\ \E a \in r.anchors :
                   /\ Fits(Names(a), rest)
                   /\ LET below == After(a, rest)
                      IN Anchored(r, below, Len(below) - 1)
            [] Matcher(r) = "direct-file-allowlist" -> Len(rest) = 1 /\ rest[1] \in r.files
            [] OTHER -> rest # <<>>

NearAnchor_DepthOnly(r, a, rest) ==
    Common(Names(a), rest) /\ Len(rest) <= Len(a) + r.maxDepth

\* Not too deep yet to be a target folder, or already within one.
NearAnchor(r, a, rest) ==
    /\ Common(Names(a), rest)
    /\ \/ Len(rest) <= Len(a) + r.maxDepth
       \/ LET below == After(a, rest)
          IN Anchored(r, below, Len(below))

\* may_contain prunes what no match can lie below, before it is read.
MayContain(t, p) ==
    LET r == Target[t].rule
        rest == After(Target[t].pattern, p)
    IN /\ Common(Target[t].pattern, p)
       /\ \/ Len(p) < Len(Target[t].pattern)
          \/ CASE Matcher(r) = "single-file" -> rest = <<>>
               [] Matcher(r) = "bounded-anchor" -> \E a \in r.anchors : NearAnchor(r, a, rest)
               [] Matcher(r) = "direct-file-allowlist" -> rest = <<>> \/ TargetFits(t, p)
               [] OTHER -> TRUE

BlockersAbsent(t, p) ==
    \A b \in Target[t].rule.blockers :
        Append(Front(p), b) \in Path => ~Exists(Append(Front(p), b))

\* The first target that wants the file decides, also about its age.
Wanting(p) == {t \in DOMAIN Target : /\ ~TargetExcludes(t, p) /\ TargetFits(t, p)
                                     /\ BlockersAbsent(t, p)}
ChosenTarget(p) == CHOOSE t \in Wanting(p) : \A u \in Wanting(p) : t <= u

-----------------------------------------------------------------------------
(* browser.rs: profile folders and the caches in them *)

CacheDirs(l, profile) ==
    (IF profile # <<>> \/ l.direct THEN l.profileDirs ELSE {})
    \cup (IF profile = <<>> THEN l.sharedDirs ELSE {})

\* The profile a path lies in: the base itself where there are no profiles.
ProfileOf(l, p) ==
    IF l.firefox \/ (~l.direct /\ p[1] \in l.profiles) THEN <<p[1]>> ELSE <<>>

CacheFits(l, p) ==
    /\ p # <<>> /\ ToSet(p) \cap l.excluded = {}
    /\ LET profile == ProfileOf(l, p)
       IN \E d \in CacheDirs(l, profile) : Below(profile \o d, p)

Reachable(l, p) ==
    \/ p = <<>>
    \/ /\ ToSet(p) \cap l.excluded = {}
       /\ LET profile == ProfileOf(l, p)
          IN \/ profile = p
             \/ \E d \in CacheDirs(l, profile) : Within(profile \o d, p)
                                                \/ Within(p, profile \o d)

\* Firefox keeps the profile itself elsewhere.
CompanionThere(l, p) == l.firefox => p[1] \in l.companions

OptedIn(l, p) == req.optIn \/ ~\E d \in l.workers : Below(ProfileOf(l, p) \o d, p)

-----------------------------------------------------------------------------
(* What the walk may not enter, and the order of events *)

\* A folder the user does not see is not judged.
BlocksVisibility(p) == p \in Hidden

OutOfScope(p) ==
    CASE Is({"cleaner"}) -> \A t \in DOMAIN Target : TargetExcludes(t, p) \/ ~MayContain(t, p)
      [] Is({"browser"}) -> \/ ~Reachable(req.layout, p)
                            \/ p # <<>> /\ ~req.optIn /\ Last(p) \in req.layout.optional
      [] Is({"empty"}) -> BlocksVisibility(p)
      [] OTHER -> FALSE

\* unproven are the files that would have been taken but had no ObservedEntry.
Collector == [files |-> <<>>, open |-> <<>>, found |-> <<>>,
              folders |-> <<>>, types |-> <<>>, sizes |-> <<>>,
              members |-> 0, marks |-> {}, stop |-> FALSE, unproven |-> {}]

Halt(c) == [c EXCEPT !.stop = TRUE]

\* LargeFiles.observe, also the first phase of duplicates: a file without evidence is
\* listed all the same.
TypeOf(p) == Extension[Last(p)]
InCategory(type) == req.category \in {"any", Category[type]}

Wanted(e) ==
    LET type == TypeOf(e.path)
    IN /\ e.kind = "file" /\ e.bytes \in req.least..req.most
       /\ req.extensions = {} \/ type \in req.extensions
       /\ InCategory(type)

CollectFile(c, e, proven) ==
    IF ~Wanted(e) THEN c
    ELSE IF Len(c.files) >= req.limit THEN Halt(c)
    ELSE [c EXCEPT !.files = Append(@, e),
                   !.unproven = IF proven THEN @ ELSE @ \cup {e.path}]

\* EmptyFolders: the folders entered and not left yet, and whether each may be
\* empty.  Those the walk entered without leaving them are given up.
NotEmpty(open) == IF open = <<>> THEN open ELSE [open EXCEPT ![Len(open)].empty = FALSE]
GiveUp(open, n) == IF Len(open) <= n THEN open ELSE NotEmpty(SubSeq(open, 1, n))

EnterFolder(c, e, depth) ==
    LET open == GiveUp(c.open, depth - 1)
    IN [c EXCEPT !.open =
          IF e.kind = "dir" THEN Append(open, [entry |-> e, empty |-> TRUE, below |-> 0])
          ELSE NotEmpty(open)]

AboveTold_Not(outer, below, empty) ==
    [outer EXCEPT ![Len(outer)].below = @ + 1 + below]

\* A folder that stays keeps the folder above it from being empty.
AboveTold(outer, below, empty) ==
    [outer EXCEPT ![Len(outer)].empty = @ /\ empty, ![Len(outer)].below = @ + 1 + below]

\* protected_folder: never offered, whatever is in it.
ProtectedFolder(p) ==
    \/ Last(p) \in Reserved
    \/ Last(p) \in ProfileFolders /\ Front(p) = Profile

LeaveEmpty(c, p, depth, reasons) ==
    LET level == {n \in DOMAIN c.open : c.open[n].entry.path = p}
        n == CHOOSE x \in level : TRUE
        open == GiveUp(c.open, n)
        this == open[n]
        empty == this.empty /\ reasons = {} /\ ~ProtectedFolder(p)
        outer == SubSeq(open, 1, n - 1)
    IN IF depth = 0 THEN c
       ELSE IF level = {} THEN Halt(c)
       ELSE [c EXCEPT
              !.open = IF outer = <<>> THEN outer
                       ELSE AboveTold(outer, this.below, empty),
              !.found = IF empty THEN Append(@, [this.entry EXCEPT !.bytes = 0]) ELSE @]

\* Analyzer::new: the folder itself has the first row.
NewAnalyzer(c, sum) == [c EXCEPT !.folders = <<>> :> sum]

\* Analyzer.observe: every identity counts once in each folder and each type,
\* and a file counts everywhere or nowhere.
Sum0 == [bytes |-> 0, files |-> 0, links |-> 0, seen |-> {}, reasons |-> {}]
Rooms(c) == Cardinality(DOMAIN c.folders) + Cardinality(DOMAIN c.types)
Full(c) == [Halt(c) EXCEPT !.marks = @ \cup {"RecordLimit"}]
Counted(s, e) ==
    IF e.id \in s.seen THEN [s EXCEPT !.links = @ + 1]
    ELSE [s EXCEPT !.bytes = @ + e.bytes, !.files = @ + 1, !.seen = @ \cup {e.id}]

CountFolder(c, e, depth) ==
    IF depth > req.shownDepth THEN c
    ELSE IF Rooms(c) >= req.limit THEN Full(c)
    ELSE [c EXCEPT !.folders = (e.path :> Sum0) @@ @]

CountFile(c, e) ==
    LET type == TypeOf(e.path)
        fresh == {a \in DOMAIN c.folders : Below(a, e.path) /\ e.id \notin c.folders[a].seen}
        known == type \in DOMAIN c.types
        needed == Cardinality(fresh)
                  + IF known /\ e.id \in c.types[type].seen THEN 0 ELSE 1
    IN IF \/ e.id \notin DOMAIN c.sizes /\ Cardinality(DOMAIN c.sizes) >= req.limit
          \/ ~known /\ Rooms(c) >= req.limit
          \/ needed > req.limit - c.members
       THEN Full(c)
       ELSE [c EXCEPT
              !.members = @ + needed,
              !.sizes = (e.id :> e.bytes) @@ @,
              !.marks = IF e.id \in DOMAIN c.sizes /\ c.sizes[e.id] # e.bytes
                        THEN @ \cup {"Changed"} ELSE @,
              !.folders = [a \in DOMAIN @ |-> IF Below(a, e.path) THEN Counted(@[a], e)
                                              ELSE @[a]],
              !.types = (type :> Counted(IF known THEN @[type] ELSE Sum0, e)) @@ @]

LeaveCounted(c, p, reasons) ==
    [c EXCEPT !.folders = [a \in DOMAIN @ |->
        IF Within(a, p) THEN [@[a] EXCEPT !.reasons = @ \cup reasons] ELSE @[a]]]

\* The cleaner and the browser publish while they walk.  They pass over a file without
\* evidence and say nothing.
CollectMatch(c, e, proven) ==
    LET takes == IF Is({"cleaner"})
                 THEN /\ Wanting(e.path) # {}
                      /\ Target[ChosenTarget(e.path)].rule.aged => Settled(tree[e.path])
                 ELSE /\ CacheFits(req.layout, e.path) /\ OptedIn(req.layout, e.path)
                      /\ CompanionThere(req.layout, e.path) /\ Settled(tree[e.path])
    IN IF e.kind # "file" \/ ~takes THEN c
       ELSE IF ~proven THEN [c EXCEPT !.unproven = @ \cup {e.path}]
       ELSE IF Len(c.found) >= req.limit
       THEN [Halt(c) EXCEPT !.marks = @ \cup {"RecordLimit"}]
       ELSE [c EXCEPT !.found = Append(@, e)]

OnEntry(e, depth, proven) ==
    CASE Is({"large", "duplicates"}) -> CollectFile(col, e, proven)
      [] Is({"empty"}) -> EnterFolder(col, e, depth)
      [] Is({"analysis"}) -> IF e.kind = "dir" THEN CountFolder(col, e, depth)
                             ELSE CountFile(col, e)
      [] OTHER -> CollectMatch(col, e, proven)

OnBlocked == IF Is({"empty"}) THEN [col EXCEPT !.open = NotEmpty(@)] ELSE col

OnLeave(p, depth, reasons) ==
    CASE Is({"empty"}) -> LeaveEmpty(col, p, depth, reasons)
      [] Is({"analysis"}) -> LeaveCounted(col, p, reasons)
      [] OTHER -> col

-----------------------------------------------------------------------------
(* walk *)

FinderInit(start, S) ==
    /\ at = start /\ req \in S /\ stack = <<>> /\ dirs = {}
    /\ claimed = 0 /\ notes = 0 /\ stopped = FALSE /\ partial = {}
    /\ col = Collector /\ hashes = {} /\ rows = {}

Inside(p, id, depth) == [path |-> p, id |-> id, depth |-> depth, listed |-> FALSE,
                         todo |-> {}, reasons |-> {}]

\* The running processes are read one by one; a list that breaks off before a
\* browser was met tells nothing.
Process == {"browser", "other"}
Activity(met, whole) ==
    IF "browser" \in met THEN "Active" ELSE IF whole THEN "Inactive" ELSE "Unknown"
BrowserActivity == {Activity(met, whole) : met \in SUBSET Process, whole \in BOOLEAN}
LeftAlone(activity) == Is({"browser"}) /\ activity # "Inactive"

\* A browser that runs, or may run, is left alone.
StartFinder ==
    /\ at = "idle"
    /\ \E activity \in BrowserActivity :
         IF LeftAlone(activity) \/ ~Compiles \/ IsProtected(<<>>) \/ OutOfScope(<<>>)
         THEN at' = "unsupported" /\ UNCHANGED <<stack, dirs, col>>
         ELSE /\ at' = "walking" /\ dirs' = {tree[<<>>].id}
              /\ stack' = <<Inside(<<>>, tree[<<>>].id, 0)>>
              /\ col' = IF Is({"analysis"}) THEN NewAnalyzer(Collector, Sum0)
                        ELSE Collector
    /\ UNCHANGED <<req, claimed, notes, stopped, partial, hashes, rows, treeVars>>

Top == stack[Len(stack)]
Frames(f) == [stack EXCEPT ![Len(stack)] = f]

\* WalkState.blocked, once a diagnostic is recorded for it.  The limit of
\* diagnostics ends the walk before the thing itself is reported.
Blocked(f, reason, n) ==
    LET full == n >= req.diagnostics
    IN /\ stack' = Frames([f EXCEPT !.reasons =
                             @ \cup {IF full THEN "DiagnosticLimit" ELSE reason}])
       /\ notes' = n /\ col' = OnBlocked
       /\ stopped' = (stopped \/ full \/ reason \in {"EntryLimit", "RecordLimit"})

\* TraversalContext.visit_dir opens the folder by its identity.
ListFolder ==
    LET f == [Top EXCEPT !.listed = TRUE]
    IN /\ at = "walking" /\ ~Top.listed
       /\ IF cancelled \/ Listable(f.path, f.id)
          THEN /\ stack' = Frames([f EXCEPT !.todo = IF cancelled THEN {}
                                                     ELSE Entries(f.path)])
               /\ UNCHANGED <<notes, col, stopped>>
          ELSE Blocked(f, ListFailure(f.path), notes + 1)
       /\ UNCHANGED <<at, req, dirs, claimed, partial, hashes, rows, treeVars>>

\* What validate_entry finds wrong with an entry the folder named.
Mismatch(e) ==
    CASE Kind(e.path) = "link" -> "LinkLike"
      [] Kind(e.path) # e.kind \/ tree[e.path].id # e.id -> "Changed"
      [] OTHER -> "none"

\* What the walk itself skips.
Skip(e, depth) ==
    CASE IsProtected(e.path) -> "Protected"
      [] OutOfScope(e.path) -> "Excluded"
      [] ~Canonical(e.path) -> "Changed"
      [] e.kind = "dir" /\ depth >= req.depth -> "DepthLimit"
      [] OTHER -> "none"

\* The entry is what it was listed as: the collector sees it, and a folder not
\* met before is entered.
Meet(f, e, proven) ==
    LET c == OnEntry(Observed(e.path), f.depth + 1, proven)
        refused == CASE c.stop -> "RecordLimit"
                     [] e.kind # "dir" -> "none"
                     [] Cardinality(dirs) >= req.limit -> "RecordLimit"
                     [] e.id \in dirs -> "Changed"
                     [] OTHER -> "none"
        given == refused # "none"
        blocked == given /\ ~c.stop /\ Is({"empty"})
    IN /\ col' = IF blocked THEN [c EXCEPT !.open = NotEmpty(@)] ELSE c
       /\ stopped' = (refused = "RecordLimit")
       /\ notes' = notes
       /\ IF given \/ e.kind # "dir"
          THEN /\ UNCHANGED dirs
               /\ stack' = Frames([f EXCEPT !.reasons =
                                     @ \cup (IF given THEN {refused} ELSE {})])
          ELSE /\ dirs' = dirs \cup {e.id}
               /\ stack' = Append(Frames(f), Inside(e.path, e.id, f.depth + 1))

\* Folders name their entries in no particular order.
VisitEntry ==
    /\ at = "walking" /\ Top.listed /\ ~stopped /\ ~cancelled
    /\ \E e \in Top.todo, proven \in BOOLEAN :
         LET f == [Top EXCEPT !.todo = @ \ {e}]
             over == claimed >= req.entries
             wrong == IF over THEN "EntryLimit" ELSE Mismatch(e)
             skip == Skip(e, f.depth)
         IN /\ claimed' = IF over THEN claimed ELSE claimed + 1
            /\ IF wrong # "none" THEN Blocked(f, wrong, notes + 1) /\ UNCHANGED dirs
               ELSE IF notes >= req.diagnostics
               THEN Blocked(f, "none", notes) /\ UNCHANGED dirs
               ELSE IF skip # "none"
               THEN /\ notes' = notes + 1 /\ col' = OnBlocked
                    /\ stack' = Frames([f EXCEPT !.reasons = @ \cup {skip}])
                    /\ UNCHANGED <<dirs, stopped>>
               ELSE Meet(f, e, proven)
    /\ UNCHANGED <<at, req, partial, hashes, rows, treeVars>>

\* Every folder that was entered is left, and the folder above it is as
\* incomplete as it is.  With the first folder the walk is over.
LeaveFolder ==
    LET f == Top
        reasons == f.reasons \cup IF cancelled THEN {"Cancelled"} ELSE {}
        c == OnLeave(f.path, f.depth, reasons)
        passed == reasons \cup IF c.stop /\ ~stopped THEN {"RecordLimit"} ELSE {}
        outer == Front(stack)
    IN /\ at = "walking" /\ f.listed /\ (f.todo = {} \/ stopped \/ cancelled)
       /\ col' = c /\ stopped' = (stopped \/ c.stop)
       /\ IF outer # <<>>
          THEN /\ stack' = [outer EXCEPT ![Len(outer)].reasons = @ \cup passed]
               /\ UNCHANGED <<at, partial>>
          ELSE /\ stack' = <<>> /\ partial' = passed \cup c.marks
               /\ at' = "walked"
       /\ UNCHANGED <<req, dirs, claimed, notes, hashes, rows, treeVars>>

-----------------------------------------------------------------------------
(* duplicates.rs: size, the first 4096 bytes, then everything *)

SizeThenPath(a, b) ==
    \/ a.bytes > b.bytes
    \/ a.bytes = b.bytes /\ Before(a.path, b.path)

\* size_groups: the first name of each identity, and only sizes that repeat.
OneName(files) ==
    {e \in files : \A o \in files : o.id = e.id /\ o # e => SizeThenPath(e, o)}

SameSize(files) ==
    {e \in OneName(files) : \E o \in files : o.id # e.id /\ o.bytes = e.bytes}

\* guard_entry: still the same file at the same place, and no other writer.
Guarded(e) == Canonical(e.path) /\ Observed(e.path) = e

Unread(e) == [entry |-> e, digest |-> <<>>, done |-> FALSE]

\* A file without evidence is compared with nothing, and that is not told either.
Proven == {e \in Range(col.files) : e.path \notin col.unproven}

StartHashing ==
    /\ at = "walked" /\ Is({"duplicates"}) /\ ~cancelled
    /\ at' = "heads" /\ hashes' = {Unread(e) : e \in SameSize(Proven)}
    /\ UNCHANGED <<req, walking, partial, col, rows, treeVars>>

Digest_HeadOnly(data) == Prefix[data]

Digest(data) == IF at = "heads" THEN Prefix[data] ELSE data

\* One file is opened and read; while it is open nobody else writes to it.  A
\* file that cannot be read is no member of any group.
ReadFile ==
    \E h \in {x \in hashes : ~x.done} :
       LET digest == Digest(tree[h.entry.path].data)
       IN /\ at \in {"heads", "wholes"} /\ ~cancelled
          /\ h.entry.path = First({x.entry.path : x \in {y \in hashes : ~y.done}})
          /\ IF Guarded(h.entry)
             THEN /\ hashes' = (hashes \ {h}) \cup {[h EXCEPT !.digest = digest, !.done = TRUE]}
                  /\ UNCHANGED partial
             ELSE hashes' = hashes \ {h} /\ partial' = partial \cup {"Unreadable"}
          /\ UNCHANGED <<at, req, walking, col, rows, treeVars>>

\* digest_groups
Alike(h) == {x \in hashes : x.digest = h.digest /\ x.entry.bytes = h.entry.bytes}
Repeated == {h \in hashes : Cardinality(Alike(h)) > 1}

EndReading ==
    /\ at \in {"heads", "wholes"} /\ ~cancelled /\ \A h \in hashes : h.done
    /\ at' = IF at = "heads" THEN "wholes" ELSE "grouped"
    /\ hashes' = IF at = "heads" THEN {[h EXCEPT !.done = FALSE] : h \in Repeated}
                 ELSE Repeated
    /\ UNCHANGED <<req, walking, partial, col, rows, treeVars>>

\* rank_by_reclaimable: the groups by what they free.  Those that free the same come
\* in the order of their digests, which may be any.
Groups == {Alike(h) : h \in hashes}
BytesOf(g) == (CHOOSE h \in g : TRUE).entry.bytes
Gain(g) == BytesOf(g) * (Cardinality(g) - 1)
Rankings ==
    {s \in [1..Cardinality(Groups) -> Groups] :
        Range(s) = Groups /\ \A i, j \in DOMAIN s : i < j => Gain(s[i]) >= Gain(s[j])}

\* The groups before the first that finds no room, with a header row for each.
Fitting(ranked) ==
    LET Room(n) == FoldSet(LAMBDA i, sum : sum + Cardinality(ranked[i]) + 1, 0, 1..n)
    IN {ranked[n] : n \in {k \in DOMAIN ranked : Room(k) <= req.limit}}

\* A group is published with all its members or not at all; each is to be compared
\* with the first of the others.
GroupRows(g) ==
    LET pairs == {x \in g \X g : /\ x[2] # x[1]
                                 /\ \A o \in g \ {x[1], x[2]} : SizeThenPath(x[2].entry, o.entry)}
    IN {[entry |-> x[1].entry, keeper |-> x[2].entry, digest |-> x[1].digest] : x \in pairs}

-----------------------------------------------------------------------------
(* Publication *)

Plain(S) == {[entry |-> e] : e \in S}

\* The rows of the scan; of duplicates, those of the groups that are kept.
Harvest(kept) ==
    CASE Is({"large"}) -> Plain(Range(col.files))
      [] Is({"duplicates"}) -> UNION {GroupRows(g) : g \in kept}
      [] Is({"analysis"}) -> Plain({[path |-> p] : p \in DOMAIN col.folders})
      [] OTHER -> Plain(Range(col.found))

\* How many rows that is: every group of duplicates and every type of file has
\* one of its own.
RowCount(kept) ==
    Cardinality(Harvest(kept)) + CASE Is({"duplicates"}) -> Cardinality(kept)
                                   [] Is({"analysis"}) -> Cardinality(DOMAIN col.types)
                                   [] OTHER -> 0

\* What SnapshotBuilder.push, add_candidate and finish refuse.
Acceptable(kept) ==
    /\ RowCount(kept) <= req.limit
    /\ Is({"duplicates"}) => \A row \in Harvest(kept) :
         /\ row.keeper.id # row.entry.id /\ row.keeper.bytes = row.entry.bytes
         /\ \E other \in Harvest(kept) : other.entry = row.keeper
    /\ Is({"analysis"}) => \A p \in DOMAIN col.folders :
         p # <<>> => Front(p) \in DOMAIN col.folders

Publish ==
    /\ at = (IF Is({"duplicates"}) THEN "grouped" ELSE "walked") /\ ~cancelled
    /\ \E ranked \in Rankings :
         LET kept == Fitting(ranked)
         IN IF Acceptable(kept)
            THEN /\ at' = "complete" /\ rows' = Harvest(kept)
                 /\ partial' = partial \cup IF Is({"duplicates"}) /\ kept # Groups
                                            THEN {"RecordLimit"} ELSE {}
            ELSE at' = "refused" /\ UNCHANGED <<partial, rows>>
    /\ UNCHANGED <<req, walking, col, hashes, treeVars>>

\* The browser was started during the walk.
BrowserStarted ==
    /\ at = "walked" /\ ~cancelled /\ \E activity \in BrowserActivity : LeftAlone(activity)
    /\ at' = "unsupported"
    /\ UNCHANGED <<req, walking, partial, col, hashes, rows, treeVars>>

\* A cancelled scan publishes nothing.
GiveIn ==
    /\ cancelled /\ at \in {"walked", "heads", "wholes", "grouped"}
    /\ at' = "cancelled" /\ partial' = partial \cup {"Cancelled"}
    /\ UNCHANGED <<req, walking, col, hashes, rows, treeVars>>

\* retain_copy: a selected member is compared with a copy that stays; without
\* one the selection is refused.
Spares(S, row) == {r \in rows : /\ r.digest = row.digest /\ r.keeper.bytes = row.keeper.bytes
                                /\ r.entry.id \notin {s.entry.id : s \in S}}
Accepted(S) == \A row \in S : Spares(S, row) # {}
                              \/ row.keeper.id \notin {s.entry.id : s \in S}
KeepersFor(S, row) ==
    IF Spares(S, row) # {} THEN {r.entry : r \in Spares(S, row)} ELSE {row.keeper}

FinderNext ==
    \/ StartFinder \/ ListFolder \/ VisitEntry \/ LeaveFolder
    \/ StartHashing \/ ReadFile \/ EndReading
    \/ Publish \/ BrowserStarted \/ GiveIn

-----------------------------------------------------------------------------
(* Properties *)

FinderTypeOK ==
    /\ at \in {"unused", "idle", "walking", "walked", "heads", "wholes", "grouped"} \cup Ends
    /\ req \in Request /\ claimed \in 0..req.entries
    /\ \A n \in DOMAIN stack : stack[n].path \in Path /\ stack[n].depth <= req.depth

Shown == {row.entry.path : row \in rows}
Complete == at = "complete" /\ partial \subseteq {"Excluded", "Protected"}

\* Below a folder that is offered as empty there is nothing another program
\* left alone but folders offered as empty themselves: the walk tells the
\* collector what it skipped, could not read, or gave up.
EmptyIsEmpty ==
    at = "complete" /\ Is({"empty"}) =>
        \A d \in Shown, p \in Path :
            Below(d, p) /\ Exists(p) /\ AsFound(p) => p \in Shown

\* What each scan promises to find, of the things nobody touched.
Promised(p) ==
    CASE Is({"large"}) -> Wanted(Observed(p))
      [] Is({"duplicates"}) ->
           /\ Wanted(Observed(p))
           /\ \E q \in Path : /\ Kind(q) = "file" /\ AsFound(q) /\ ~IsProtected(q)
                              /\ q \notin col.unproven
                              /\ tree[q].id # tree[p].id /\ tree[q].data = tree[p].data
           /\ \A q \in Path : tree[q].id = tree[p].id /\ q # p => Before(p, q)
      [] Is({"empty"}) ->
           /\ Kind(p) = "dir" /\ p # <<>>
           /\ \A q \in Path : Within(p, q) /\ (Exists(q) \/ q \in touched) =>
                AsFound(q) /\ Kind(q) = "dir" /\ q \notin Hidden /\ ~ProtectedFolder(q)
      [] Is({"cleaner"}) ->
           /\ Kind(p) = "file" /\ ~\E b \in touched : Front(b) = Front(p)
           /\ Wanting(p) # {} /\ (Target[ChosenTarget(p)].rule.aged => Settled(tree[p]))
      [] Is({"browser"}) ->
           /\ Kind(p) = "file" /\ Settled(tree[p]) /\ OptedIn(req.layout, p)
           /\ CacheFits(req.layout, p) /\ CompanionThere(req.layout, p)
      [] OTHER -> FALSE

\* The bytes below a folder, every identity once.
TrueBytes(d) ==
    LET files == {q \in Path : Below(d, q) /\ Kind(q) = "file"}
    IN FoldSet(LAMBDA i, sum : sum + Bytes(tree[CHOOSE q \in files : tree[q].id = i]),
               0, {tree[q].id : q \in files})

\* A scan that says it is complete has found everything nobody touched: what it
\* pruned held no match, and no limit cut it short silently.  Excepted are the files whose
\* evidence it could not have: the cleaner, the browser and the duplicates leave them out of
\* a scan they call complete, with a file that only they are copies of; the large files show
\* them.  The analyzer's totals of untouched folders are what the folders hold.  And no
\* scan is lost at its end: the collectors keep within what the snapshot builder accepts.
CompleteMeansAll ==
    /\ at # "refused"
    /\ Complete =>
        /\ \A p \in Path : AsFound(p) /\ ~IsProtected(p) /\ Promised(p) =>
              p \in Shown \/ (p \in col.unproven /\ ~Is({"large"}))
        /\ Is({"analysis"}) /\ partial = {} => \A d \in DOMAIN col.folders :
             touched \cap {p \in Path : Within(d, p) \/ Within(p, d)} = {} =>
                 col.folders[d].bytes = TrueBytes(d)

\* Whatever is selected of the duplicates, each is compared with another file
\* that stays and, where nobody touched the two, holds the same.
DuplicatesSpareACopy ==
    at = "complete" /\ Is({"duplicates"}) =>
        \A S \in SUBSET rows : Accepted(S) => \A row \in S : \A k \in KeepersFor(S, row) :
            /\ k.id \notin {s.entry.id : s \in S}
            /\ AsFound(k.path) /\ AsFound(row.entry.path) =>
                 tree[k.path].data = tree[row.entry.path].data
=============================================================================
