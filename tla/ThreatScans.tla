---------------------------- MODULE ThreatScans ----------------------------
(***************************************************************************)
(* A scan of the antivirus pages (protection/scan.rs): targets are walked   *)
(* without identities, every file is opened, digested and matched with the  *)
(* rule pack in one pass, then judged by heuristics that look at the path   *)
(* once more for its signature (protection-core: engine.rs, heuristics.rs). *)
(*                                                                         *)
(* One step looks at one path, lists one folder, opens, reads or judges one *)
(* file; other programs change the tree between any two of them.            *)
(***************************************************************************)
EXTENDS ScanTree

CONSTANTS
    Sweep,        \* the scans to try
    KnownHash,    \* contents whose SHA-256 is in the rule pack
    KnownBytes,   \* first parts a byte pattern of the pack is found in
    PatternBytes, \* the max_file_size of that pattern
    KnownName,    \* names the pack has a file-name rule for
    SystemBinary, \* SYSTEM_BINARY_NAMES
    Executable,   \* names with an executable extension
    Disguise,     \* names with a double extension or a bidirectional control
    MZ,           \* contents that start with an executable header
    Signer,       \* [Data -> SignerStatus]
    Location      \* the known folders with their class, most specific first

\* Other stands for what no heuristic is about, the program folders included.
LocationClass == {"SystemRoot", "Risky", "Other"}
SignerStatus == {"Valid", "Unsigned", "Invalid", "Unavailable", "NotApplicable"}

\* A quick scan has folders and process images, a scan of a folder that folder.
ScanScope ==
    [scope : {"Quick", "Folder"}, folders : Seq(Path), images : Seq(Path), files : Nat,
     depth : Nat, bytes : Nat, findings : Nat, allowlist : SUBSET Data]

ASSUME ThreatAssumption ==
    /\ Sweep # {}
    /\ \A s \in Sweep : s \in ScanScope /\ (s.scope = "Folder" => s.images = <<>>)
    /\ Signer \in [Data -> SignerStatus]
    /\ Location \in Seq([folder : Path, class : LocationClass])

VARIABLES
    turn,     \* what the scan is at
    scope,    \* what was asked for
    targets,  \* the positions in Targets of those still to be walked
    heap,     \* paths to look at, each with its depth below its target
    seen,     \* paths of files that were scanned
    dropped,  \* entries of listed folders that were lost
    hand,     \* the file in hand
    summary,  \* ScanSummary
    findings  \* the findings, at most scope.findings of them

sweepVars == <<turn, scope, targets, heap, seen, dropped, hand, summary, findings>>

Turn == {"unused", "idle", "walking", "listing", "opening", "reading", "judging", "reported"}
Evidence == {"Deterministic", "Heuristic", "Unavailable"}

\* The digest of a file that was written while it was read is no file's.
Mixed == <<"mixed">>
NoHash == <<>>
ScannedFinding == [path : Path, evidence : Evidence, sha256 : Data \cup {Mixed, NoHash}]
EmptyHanded == [path |-> <<>>, hint |-> 0, opened |-> Absent, sha256 |-> NoHash,
                mz |-> FALSE, out |-> <<>>]

-----------------------------------------------------------------------------
(* The rule pack and the heuristics *)

\* FileMatcher.finish: what a digest and the first part of a content match.
Hits(data) ==
    data \in Data /\ (data \in KnownHash \/ (Prefix[data] \in KnownBytes /\ Size[data] <= PatternBytes))

Classify(p) ==
    LET fits == SelectSeq(Location, LAMBDA l : Within(l.folder, p))
    IN IF fits = <<>> THEN "Other" ELSE Head(fits).class

\* The signature is looked up by path, for executables in risky places and
\* for names of Windows' own programs.
NeedsSigner(p, mz) ==
    (mz \/ Last(p) \in Executable) /\ (Classify(p) = "Risky" \/ Last(p) \in SystemBinary)
Verify(p) == IF Kind(p) = "file" THEN Signer[tree[p].data] ELSE "Unavailable"

\* evaluate_file: the heuristics a file meets, and those nothing can be said of.
Heuristics(p, mz, signer) ==
    {h \in {"H001", "H002", "H004", "H005"} :
        \/ h = "H001" /\ Last(p) \in SystemBinary /\ Classify(p) # "SystemRoot"
        \/ h = "H002" /\ Last(p) \in Disguise
        \/ h = "H004" /\ mz /\ Last(p) \notin Executable
        \/ h = "H005" /\ (mz \/ Last(p) \in Executable) /\ Classify(p) = "Risky"
                      /\ signer \in {"Unsigned", "Invalid"}}
Unchecked(p, mz, signer) ==
    (mz \/ Last(p) \in Executable) /\ Classify(p) = "Risky" /\ signer = "Unavailable"

-----------------------------------------------------------------------------
(* The walk *)

SweepInit(start, S) ==
    /\ turn = start /\ scope \in S
    /\ targets = {} /\ heap = <<>> /\ seen = {} /\ dropped = {} /\ hand = EmptyHanded
    /\ summary = [scanned |-> 0, cancelled |-> FALSE, truncated |-> FALSE]
    /\ findings = <<>>

\* What the scan was asked about, folders first.
Targets == scope.folders \o scope.images

\* quick_targets: the folders and process images that are there when it starts.
StartSweep ==
    /\ turn = "idle"
    /\ turn' = "walking"
    /\ targets' = IF scope.scope = "Folder" THEN DOMAIN scope.folders
                  ELSE {n \in DOMAIN Targets :
                           Kind(Targets[n]) = IF n <= Len(scope.folders) THEN "dir" ELSE "file"}
    /\ UNCHANGED <<scope, heap, seen, dropped, hand, summary, findings>>

Broken == summary.cancelled \/ summary.truncated

NextTarget ==
    /\ turn = "walking" /\ heap = <<>> /\ ~ Broken
    /\ \E n \in targets :
          /\ \A k \in targets : n <= k
          /\ heap' = <<[path |-> Targets[n], depth |-> 0]>>
          /\ targets' = targets \ {n}
    /\ UNCHANGED <<turn, scope, seen, dropped, hand, summary, findings>>

EndSweep ==
    /\ turn = "walking" /\ heap = <<>> /\ (targets = {} \/ Broken)
    /\ turn' = "reported"
    /\ UNCHANGED <<scope, targets, heap, seen, dropped, hand, summary, findings>>

Pop == heap' = Front(heap)
Finding(p, evidence, sha256) == [path |-> p, evidence |-> evidence, sha256 |-> sha256]

\* push: a finding past the limit is dropped and the scan says so.
Tell(out) ==
    LET room == scope.findings - Len(findings)
    IN /\ findings' = findings \o SubSeq(out, 1, IF Len(out) < room THEN Len(out) ELSE room)
       /\ summary' = [summary EXCEPT !.truncated = @ \/ Len(out) > room]

\* The walk gives up when it is cancelled or has scanned enough.
GivesUp ==
    /\ turn = "walking" /\ heap # <<>>
    /\ cancelled \/ summary.scanned >= scope.files
    /\ summary' = IF cancelled THEN [summary EXCEPT !.cancelled = TRUE]
                  ELSE [summary EXCEPT !.truncated = TRUE]
    /\ heap' = <<>>
    /\ UNCHANGED <<turn, scope, targets, seen, dropped, hand, findings>>

\* Its next path: what is gone and links are passed over, folders are listed
\* down to a depth, and every path of a file is scanned once.
Look ==
    /\ turn = "walking" /\ heap # <<>> /\ ~ cancelled /\ summary.scanned < scope.files
    /\ LET e == Last(heap)
       IN \/ /\ \/ Kind(e.path) \in {"absent", "link"}
                \/ Kind(e.path) = "dir" /\ e.depth >= scope.depth
                \/ Kind(e.path) = "file" /\ e.path \in seen
             /\ Pop /\ UNCHANGED <<turn, seen, hand, summary>>
          \/ /\ Kind(e.path) = "dir" /\ e.depth < scope.depth
             /\ turn' = "listing" /\ UNCHANGED <<heap, seen, hand, summary>>
          \/ /\ Kind(e.path) = "file" /\ e.path \notin seen
             /\ turn' = "opening" /\ Pop
             /\ seen' = seen \cup {e.path}
             /\ summary' = [summary EXCEPT !.scanned = @ + 1]
             /\ hand' = [EmptyHanded EXCEPT !.path = e.path, !.hint = Bytes(tree[e.path])]
    /\ UNCHANGED <<scope, targets, dropped, findings>>

\* A path that cannot be looked at, though it may be there, is told.
LookFails ==
    /\ turn = "walking" /\ heap # <<>> /\ ~ cancelled /\ summary.scanned < scope.files
    /\ Pop /\ Tell(<<Finding(Last(heap).path, "Unavailable", NoHash)>>)
    /\ UNCHANGED <<turn, scope, targets, seen, dropped, hand>>

\* read_dir names the entries in whatever order the file system has them.
Orders(S) == {s \in [1 .. Cardinality(S) -> S] : Range(s) = S}

\* It goes by the path: it follows what has become a link meanwhile.  Entries the
\* enumeration fails for are passed over (entries.flatten), and the scan does not say so.
List ==
    /\ turn = "listing"
    /\ turn' = "walking"
    /\ LET e == Last(heap)
       IN \/ /\ Kind(e.path) \in {"dir", "link"} /\ e.path \notin denied
             /\ \E lost \in SUBSET Children(e.path) : \E s \in Orders(Children(e.path) \ lost) :
                  /\ heap' = Front(heap) \o [n \in DOMAIN s |-> [path |-> s[n], depth |-> e.depth + 1]]
                  /\ dropped' = dropped \cup lost
             /\ UNCHANGED <<findings, summary>>
          \/ /\ Kind(e.path) \notin {"dir", "link"} \/ e.path \in denied
             /\ Pop /\ Tell(<<Finding(e.path, "Unavailable", NoHash)>>)
             /\ UNCHANGED dropped
    /\ UNCHANGED <<scope, targets, seen, hand>>

-----------------------------------------------------------------------------
(* One file *)

NameHits(p) ==
    IF Last(p) \in KnownName THEN <<Finding(p, "Deterministic", NoHash)>> ELSE <<>>

\* What a file came to.
FileDone(out) ==
    /\ Tell(out)
    /\ turn' = "walking" /\ hand' = EmptyHanded
    /\ UNCHANGED <<scope, targets, heap, seen, dropped>>

Unavailable == hand.out \o <<Finding(hand.path, "Unavailable", NoHash)>>

\* The file is opened as the entry itself, whatever it has become.
OpenFile ==
    /\ turn = "opening" /\ Kind(hand.path) = "file"
    /\ turn' = "reading"
    /\ hand' = [hand EXCEPT !.opened = tree[hand.path], !.out = NameHits(hand.path)]
    /\ UNCHANGED <<scope, targets, heap, seen, dropped, summary, findings>>

\* It is gone, a folder or a link by now, or another program has it.
OpenFails ==
    /\ turn = "opening"
    /\ FileDone(NameHits(hand.path) \o <<Finding(hand.path, "Unavailable", NoHash)>>)

\* What a handle reads: the file it was opened for, also when that was deleted;
\* a write that comes between is read in part, in full or not at all.
Readable ==
    LET now == {tree[p].data : p \in {q \in Path : Kind(q) = "file" /\ tree[q].id = hand.opened.id}}
    IN IF now \subseteq {hand.opened.data} THEN {hand.opened.data}
       ELSE now \cup {hand.opened.data, Mixed}

\* The whole content is matched; one hash, and the findings by name get it too.
HashFile(data) ==
    /\ turn = "reading" /\ ~ cancelled /\ hand.hint <= scope.bytes
    /\ data \in Readable
    /\ data \in Data => Size[data] <= scope.bytes
    /\ turn' = "judging"
    /\ hand' = [hand EXCEPT
         !.sha256 = data, !.mz = data \in MZ \/ (data = Mixed /\ hand.opened.data \in MZ),
         !.out = [n \in DOMAIN hand.out |-> [hand.out[n] EXCEPT !.sha256 = data]]
                 \o (IF Hits(data) THEN <<Finding(hand.path, "Deterministic", data)>> ELSE <<>>)]
    /\ UNCHANGED <<scope, targets, heap, seen, dropped, summary, findings>>

\* A file that was too large when the walk looked is judged by its first bytes,
\* or by none when they cannot be read.
ReadHeader ==
    /\ turn = "reading" /\ hand.hint > scope.bytes
    /\ turn' = "judging"
    /\ \E data \in Readable \cap Data, read \in BOOLEAN :
         hand' = [hand EXCEPT !.mz = read /\ data \in MZ, !.out = Unavailable]
    /\ UNCHANGED <<scope, targets, heap, seen, dropped, summary, findings>>

\* The scan is cancelled, the file grew, or a read fails.
ReadStops_Silently ==
    /\ turn = "reading" /\ hand.hint <= scope.bytes
    /\ FileDone(hand.out)
ReadStops ==
    /\ turn = "reading" /\ hand.hint <= scope.bytes
    /\ FileDone(Unavailable)

\* Contents the user allowed are spared their heuristics, which all come from Judge.
Allowed == hand.sha256 \in scope.allowlist

Judge ==
    /\ turn = "judging"
    /\ LET signer == IF NeedsSigner(hand.path, hand.mz) THEN Verify(hand.path) ELSE "NotApplicable"
           met == IF Allowed THEN {} ELSE Heuristics(hand.path, hand.mz, signer)
       IN FileDone(hand.out
            \o [n \in 1 .. Cardinality(met) |-> Finding(hand.path, "Heuristic", hand.sha256)]
            \o (IF Unchecked(hand.path, hand.mz, signer)
                THEN <<Finding(hand.path, "Unavailable", hand.sha256)>> ELSE <<>>))

SweepNext ==
    /\ \/ StartSweep \/ NextTarget \/ EndSweep \/ GivesUp \/ Look \/ LookFails \/ List
       \/ OpenFile \/ OpenFails \/ (\E data \in Data \cup {Mixed} : HashFile(data))
       \/ ReadHeader \/ ReadStops \/ Judge
    /\ UNCHANGED treeVars

-----------------------------------------------------------------------------
SweepTypeOK ==
    /\ turn \in Turn /\ scope \in Sweep /\ targets \subseteq DOMAIN Targets
    /\ heap \in Seq([path : Path, depth : 0 .. scope.depth]) /\ seen \cup dropped \subseteq Path
    /\ findings \in Seq(ScannedFinding) /\ Len(findings) <= scope.findings
    /\ summary.scanned \in 0 .. scope.files

\* No other program changed p or its folders, but that it may have denied one.
Left(p) ==
    \A q \in {p} \cup Above(p) : q \notin touched \/ (q \in denied /\ tree[q].id = <<q, 0>>)

Told(p, evidence) ==
    \E n \in DOMAIN findings : findings[n].evidence = evidence /\ findings[n].path = p

\* The files of the scan's folders within its depth, and the process images.
InScope(p) ==
    \/ \E t \in Range(scope.folders) : Below(t, p) /\ Len(Sub(t, p)) <= scope.depth
    \/ p \in Range(scope.images)

\* The file, or a folder above it, is told as one the scan could not look at.
Excused(p) == \E q \in {p} \cup Above(p) : Told(q, "Unavailable")

\* What its contents and its name ask for is told; the user's allowlist spares its heuristics.
Answered(p) ==
    LET data == tree[p].data
    IN /\ Hits(data) \/ Last(p) \in KnownName => Told(p, "Deterministic")
       /\ Heuristics(p, data \in MZ, Signer[data]) # {} /\ data \notin scope.allowlist
          => Told(p, "Heuristic")

Answers(p) == Kind(p) = "file" /\ Left(p) /\ InScope(p) => Excused(p) \/ Answered(p)

Listed(p) == ({p} \cup Above(p)) \cap dropped = {}

\* A report that claims neither a cancellation nor a limit names every file of its scope that
\* the pack or a heuristic is about; or the file or a folder above it as one it could not
\* look at.  That holds although a cancellation may come within the last file, which the
\* report does not call cancelled.  Excepted are files the enumeration of a folder lost, or
\* lost a folder of: read_dir's errors for single entries are swallowed.
NothingOverlooked ==
    turn = "reported" /\ ~ Broken => \A p \in Path : Listed(p) => Answers(p)
=============================================================================
