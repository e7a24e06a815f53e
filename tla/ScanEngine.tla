----------------------------- MODULE ScanEngine -----------------------------
(***************************************************************************)
(* A scan of cleanup-core/engine.rs: jobs that workers discover in          *)
(* parallel with shared budgets (scanner/mod.rs, direct.rs,                 *)
(* project_artifacts.rs), then one pass that measures every draft, looks    *)
(* again whether the tree stayed as it was measured, and publishes what is  *)
(* left without overlaps.                                                   *)
(*                                                                         *)
(* One step reads one folder, examines one entry or re-reads one entry;     *)
(* other programs change the tree between any two of them.                  *)
(***************************************************************************)
EXTENDS RuleCatalog

CONSTANTS
    Rule,    \* the rules of the catalog, in its order
    Bounds,  \* the CatalogLimits it was loaded with
    Limits   \* the ScanLimits a scan may run with

\* validate_limits: none of them is zero.
LimitFields == {"workers", "visited", "candidates", "diagnostics", "measured"}
ScanLimits == [LimitFields -> Nat \ {0}]

ASSUME EngineAssumption ==
    /\ ValidCatalog(Rule, Bounds)
    /\ Limits \subseteq ScanLimits

VARIABLES
    phase,    \* of the scan
    limits,   \* its ScanLimits
    job,      \* what the workers are at, for every job
    visited,  \* TraversalContext.visited
    found,    \* TraversalContext.candidates
    issues,   \* the diagnostics, at most max_diagnostics of them
    drafts,   \* what discovery hands to measure, in the order jobs ended
    m,        \* the draft that is measured
    counted,  \* the measurement budget used
    measured, \* drafts measured so far
    shown     \* the records of the snapshot

engineVars == <<phase, limits, job, visited, found, issues, drafts, m, counted,
                measured, shown>>
scanning == <<found, drafts>>
measuring == <<m, counted, measured>>

-----------------------------------------------------------------------------
(* What a scan keeps *)

ScanPhase == {"discovering", "measuring"}
ScanEnd == {"done", "failed", "cancelled"}

DiagnosticReason ==
    {"Unreadable", "Disappeared", "LinkLike", "Loop", "OutsideRoot", "Protected",
     "Changed", "Overlap", "LimitReached"}
ScanDiagnostic == [path : Path, reason : DiagnosticReason]

DirectoryEntry == [path : Path, kind : {"file", "dir", "link"}, id : FileIdentity]

\* What discovery hands over: the rule, its root, the folder the rule holds for
\* and the entry as it was found.
CandidateDraft ==
    [rule : DOMAIN Rule, root : Path, context : DirectoryEntry, path : Path,
     kind : {"file", "dir"}, id : FileIdentity]

\* A draft that is measured: what it was before, what was summed up and met so
\* far, and the folders still to open.
MeasuredTree ==
    [at : {"walk", "again"}, before : Node, total : Nat, real : Nat,
     stack : Seq(DirectoryEntry), todo : SUBSET DirectoryEntry,
     ids : SUBSET FileIdentity, entries : SUBSET (Path \X Node),
     folders : SUBSET [path : Path, id : FileIdentity, children : SUBSET DirectoryEntry]]

Measured ==
    [rule : DOMAIN Rule, root : Path, path : Path, kind : {"file", "dir"},
     id : FileIdentity, total : Nat, real : Nat]

-----------------------------------------------------------------------------
(* Rules *)

\* A rule's own exclusions: names anywhere, paths below the scan root.
Excluded(r, root, p) ==
    \/ Last(p) \in Rule[r].excludedNames
    \/ Sub(root, p) \in Rule[r].excludedPaths

TargetMatches(r, name, kind) ==
    name \in Rule[r].targets /\ kind \in Rule[r].types

MarkerMatches(r, names) ==
    /\ Rule[r].all \subseteq names
    /\ Rule[r].any = {} \/ Rule[r].any \cap names # {}

OldEnough(r, n) == Rule[r].aged => Settled(n)

IsProject(r) == Rule[r].scanner = "projectArtifacts"

Issue(p, reason) == [path |-> p, reason |-> reason]
\* push_diagnostic: what goes over the limit is not kept.
Report(S) ==
    LET new == S \ issues
        room == limits.diagnostics - Cardinality(issues)
        size == IF Cardinality(new) < room THEN Cardinality(new) ELSE room
    IN issues \cup CHOOSE T \in SUBSET new : Cardinality(T) = size

-----------------------------------------------------------------------------
(* Starting: select_rules, build_jobs, the first two checks *)

\* Disabled and deprecated rules cannot be scanned.
Selectable == {r \in DOMAIN Rule : Rule[r].lifecycle \notin {"disabled", "deprecated"}}

JobsOf(S) == {j \in S \X Path : j[2] \in Rule[j[1]].roots}
RootUsable(root) ==
    Kind(root) = "dir" /\ Canonical(root) /\ ~IsProtected(root)

\* What a folder on a scanner's stack is there for.
Frame(mode, e, depth, context) ==
    [mode |-> mode, path |-> e.path, id |-> e.id, depth |-> depth,
     context |-> context, read |-> FALSE, todo |-> {}]
Waiting == [at |-> "waiting", stack |-> <<>>, seen |-> {}, inside |-> {},
            output |-> <<>>]

Idle == [at |-> "none"]

\* Folders a scanner is through with leave its stack.
Pending(stack) == SelectSeq(stack, LAMBDA f : ~f.read \/ f.todo # {})

\* TraversalContext::new: what all jobs of a scan share.
NewTraversal == visited = 0 /\ found = 0 /\ issues = {}

\* "unused" where the model is about another scan.
EngineInit(start, S) ==
    /\ phase = start /\ limits \in S /\ job = <<>>
    /\ NewTraversal /\ drafts = <<>>
    /\ m = Idle /\ counted = 0 /\ measured = <<>> /\ shown = {}

StartScan ==
    /\ phase = "idle"
    /\ \E S \in SUBSET DOMAIN Rule \ {{}} :
         IF cancelled
         THEN phase' = "cancelled" /\ UNCHANGED job
         ELSE IF /\ S \subseteq Selectable
                 /\ Compiles /\ \A j \in JobsOf(S) : RootUsable(j[2])
         THEN phase' = "discovering" /\ job' = [j \in JobsOf(S) |-> Waiting]
         ELSE phase' = "failed" /\ UNCHANGED job
    /\ UNCHANGED <<limits, visited, found, issues, drafts, m, counted, measured,
                   shown, treeVars>>

-----------------------------------------------------------------------------
(* Discovery: max_workers threads take one job after the other *)

Running == {j \in DOMAIN job : job[j].at = "running"}
FirstJob(S) == CHOOSE j \in S : \A k \in S \ {j} :
                j[1] < k[1] \/ (j[1] = k[1] /\ Before(j[2], k[2]))

Ended(j, at) == job' = [job EXCEPT ![j] = [Waiting EXCEPT !.at = at]]

TakeJob ==
    LET waiting == {j \in DOMAIN job : job[j].at = "waiting"}
        j == FirstJob(waiting)
        mode == IF IsProject(j[1]) THEN "project" ELSE "direct"
    IN /\ phase = "discovering" /\ waiting # {}
       /\ Cardinality(Running) < limits.workers
       /\ IF Exists(j[2])
          THEN job' = [job EXCEPT ![j] =
                 [Waiting EXCEPT !.at = "running", !.seen = {tree[j[2]].id},
                    !.stack = <<Frame(mode, Entry(j[2]), 0, Entry(j[2]))>>]]
          ELSE Ended(j, "failed")
       /\ UNCHANGED <<phase, limits, visited, issues, shown, scanning, measuring,
                      treeVars>>

\* TraversalContext.read_dir: a folder is listed as a whole or not at all, and
\* every entry counts against the budget all workers share.
ReadFolder(j) ==
    LET s == job[j]
        f == s.stack[1]
        rest == Tail(s.stack)
        listed == Entries(f.path)
        kept == {e \in listed : e.kind # "link"}
        room == limits.visited - visited
        marked == f.mode = "project"
                  /\ MarkerMatches(j[1], {Last(e.path) : e \in kept})
        next == CASE f.mode = "project" /\ f.depth >= Rule[j[1]].projectDepth -> rest
                  [] OTHER -> <<[f EXCEPT !.read = TRUE, !.todo = kept]>> \o rest
        Go(stack, inside) ==
            job' = [job EXCEPT ![j] = [s EXCEPT !.stack = Pending(stack),
                                                 !.inside = inside]]
    IN /\ phase = "discovering" /\ s.at = "running" /\ s.stack # <<>> /\ ~f.read
       /\ IF cancelled
          THEN Ended(j, "cancelled") /\ UNCHANGED <<visited, issues>>
          ELSE IF ~Listable(f.path, f.id)
          THEN /\ Go(rest, s.inside) /\ UNCHANGED visited
               /\ issues' = Report({Issue(f.path, ListFailure(f.path))})
          ELSE IF Cardinality(listed) > room
          THEN /\ Go(rest, s.inside) /\ visited' = limits.visited
               /\ issues' = Report({Issue(f.path, "LimitReached")})
          ELSE /\ visited' = visited + Cardinality(listed)
               /\ issues' = Report({Issue(e.path, "LinkLike") : e \in listed \ kept})
               /\ IF marked
                  THEN Go(<<Frame("target", f, 0, Entry(f.path))>> \o next, {f.id})
                  ELSE Go(next, s.inside)
       /\ UNCHANGED <<phase, limits, shown, scanning, measuring, treeVars>>

FolderLimit_OffByOne(j, f) ==
    IF f.mode = "direct" THEN Rule[j[1]].rootDepth - 1 ELSE Rule[j[1]].targetDepth

FolderLimit(j, f) ==
    CASE f.mode = "direct" -> Rule[j[1]].rootDepth
      [] f.mode = "target" -> Rule[j[1]].targetDepth
      [] OTHER -> Rule[j[1]].projectDepth

\* The project walk passes over files and over what its targets are.
Skipped(j, f, e) ==
    \/ Excluded(j[1], j[2], e.path) \/ IsProtected(e.path)
    \/ /\ f.mode = "project"
       /\ e.kind # "dir" \/ TargetMatches(j[1], Last(e.path), e.kind)

\* What a second look finds wrong with an entry of the listing.
Problem(e, n) ==
    CASE n.kind = "absent" -> {"Disappeared"}
      [] n.kind = "link" -> {"LinkLike"}
      [] n.kind # e.kind \/ n.id # e.id -> {"Changed"}
      [] OTHER -> {}

\* One entry of a listed folder.  The project walk only looks for folders that
\* may hold projects; the other two push what the rule matches.
ExamineEntry(j) ==
    LET s == job[j]
        f == s.stack[1]
        e == (CHOOSE x \in f.todo : x.path =
                (IF f.mode = "direct" THEN First({y.path : y \in f.todo})
                 ELSE FinalOf({y.path : y \in f.todo})))
        name == Last(e.path)
        n == tree[e.path]
        rest == [f EXCEPT !.todo = @ \ {e}]
        known == IF f.mode = "target" THEN s.inside ELSE s.seen
        skipped == Skipped(j, f, e)
        problem == Problem(e, n)
        pushed == f.mode # "project" /\ TargetMatches(j[1], name, n.kind)
                  /\ OldEnough(j[1], n)
        candidate == [rule |-> j[1], root |-> j[2], context |-> f.context,
                      path |-> e.path, kind |-> n.kind, id |-> n.id]
        enters == n.kind = "dir" /\ f.depth < FolderLimit(j, f)
        looped == enters /\ n.id \in known
        over == pushed /\ found >= limits.candidates
    IN /\ phase = "discovering" /\ s.at = "running" /\ s.stack # <<>> /\ f.read
       /\ IF cancelled /\ f.mode # "project"
          THEN Ended(j, "cancelled") /\ UNCHANGED <<found, issues>>
          ELSE IF skipped \/ problem # {}
          THEN /\ job' = [job EXCEPT ![j].stack = Pending(<<rest>> \o Tail(@))]
               /\ UNCHANGED found
               /\ issues' = IF skipped THEN issues
                            ELSE Report({Issue(e.path, r) : r \in problem})
          ELSE /\ found' = IF pushed THEN found + 1 ELSE found
               /\ issues' = Report(IF over THEN {Issue(<<>>, "LimitReached")} ELSE {}
                                   \cup IF looped THEN {Issue(e.path, "Loop")} ELSE {})
               /\ job' = [job EXCEPT ![j] =
                    [s EXCEPT !.output = IF pushed /\ ~over THEN Append(@, candidate) ELSE @,
                              !.stack = Pending(<<rest>>
                                  \o (IF enters /\ ~looped
                                      THEN <<Frame(f.mode, e, f.depth + 1, f.context)>>
                                      ELSE <<>>) \o Tail(@)),
                              !.seen = IF enters /\ f.mode # "target"
                                       THEN @ \cup {n.id} ELSE @,
                              !.inside = IF enters /\ f.mode = "target"
                                         THEN @ \cup {n.id} ELSE @]]
       /\ UNCHANGED <<phase, limits, visited, shown, drafts, measuring, treeVars>>

EndJob(j) ==
    /\ phase = "discovering" /\ job[j].at = "running" /\ job[j].stack = <<>>
    /\ drafts' = drafts \o job[j].output /\ Ended(j, "ended")
    /\ UNCHANGED <<phase, limits, visited, found, issues, shown, measuring, treeVars>>

\* The scope joins every worker; the first error that was sent is the scan's.
EndDiscovery ==
    LET results == {job[j].at : j \in DOMAIN job}
        errors == results \cap {"failed", "cancelled"}
    IN /\ phase = "discovering" /\ results \cap {"waiting", "running"} = {}
       /\ phase' \in IF errors # {} THEN errors
                     ELSE IF cancelled THEN {"cancelled"} ELSE {"measuring"}
       /\ UNCHANGED <<limits, job, visited, issues, shown, scanning, measuring,
                      treeVars>>

-----------------------------------------------------------------------------
(* Measuring, one draft after the other *)

draft == drafts[1]

\* A draft that is not taken over leaves a diagnostic; the next one follows.
DropDraft(S) ==
    /\ m' = Idle /\ drafts' = Tail(drafts) /\ issues' = Report(S)
    /\ UNCHANGED measured

Stop(end) == phase' = end /\ UNCHANGED <<m, drafts, issues, counted, measured>>

\* The checks of measure before a draft is measured, in their order.
Rejected(d) ==
    LET n == tree[d.path]
        c == tree[d.context.path]
    IN CASE IsProtected(d.path) -> {"Protected"}
         [] n.kind = "absent" -> {"Disappeared"}
         [] n.id # d.id -> {"Changed"}
         [] n.kind # d.kind -> {"LinkLike"}
         [] ~Canonical(d.path) -> {"OutsideRoot"}
         [] /\ IsProject(d.rule)
            /\ \/ c.kind # "dir" \/ c.id # d.context.id
               \/ ~Canonical(d.context.path) -> {"Changed"}
         [] OTHER -> {}

\* What the candidate really holds; only properties look at it.
Real(p) == FoldSet(LAMBDA q, sum : sum + Bytes(tree[q]), 0,
                   {q \in Path : Within(p, q)})

Measuring(at) == phase = "measuring" /\ m.at = at

\* measure_path begins: a file is measured by its metadata alone.
StartDraft ==
    /\ Measuring("none") /\ drafts # <<>>
    /\ IF cancelled THEN Stop("cancelled")
       ELSE LET n == tree[draft.path]
                reasons == Rejected(draft)
            IN /\ IF reasons # {} THEN DropDraft({Issue(draft.path, r) : r \in reasons})
                  ELSE /\ m' = [at |-> IF n.kind = "file" THEN "again" ELSE "walk",
                                before |-> n, total |-> Bytes(n), todo |-> {},
                                stack |-> IF n.kind = "file" THEN <<>>
                                          ELSE <<Entry(draft.path)>>,
                                ids |-> {n.id},
                                entries |-> IF n.kind = "file"
                                            THEN {<<draft.path, n>>} ELSE {},
                                folders |-> {}, real |-> Real(draft.path)]
                       /\ UNCHANGED <<drafts, issues, measured>>
               /\ UNCHANGED <<phase, counted>>
    /\ UNCHANGED <<limits, job, visited, found, shown, treeVars>>

\* measure_path opens the next folder; whatever stops it drops the draft.
MeasureFolder ==
    LET f == Last(m.stack)
        stack == Front(m.stack)
        listed == Entries(f.path)
    IN /\ Measuring("walk") /\ m.todo = {}
       /\ IF cancelled THEN Stop("cancelled")
          ELSE /\ IF ~Listable(f.path, f.id)
                  THEN DropDraft({Issue(draft.path, ListFailure(f.path))})
                  ELSE /\ m' = [m EXCEPT
                            !.at = IF stack = <<>> /\ listed = {} THEN "again" ELSE @,
                            !.stack = stack, !.todo = listed, !.real = Real(draft.path),
                            !.folders = @ \cup {[path |-> f.path, id |-> f.id,
                                                 children |-> listed]}]
                       /\ UNCHANGED <<drafts, issues, measured>>
               /\ UNCHANGED <<phase, counted>>
       /\ UNCHANGED <<limits, job, visited, found, shown, treeVars>>

\* One entry of it, in the order the file system lists them.
MeasureEntry ==
    \E e \in m.todo :
    LET n == tree[e.path]
        stack == IF n.kind = "dir" THEN Append(m.stack, e) ELSE m.stack
        Here(r) == {Issue(e.path, r), Issue(draft.path, "Changed")}
        problems == CASE counted >= limits.measured -> {Issue(draft.path, "LimitReached")}
                      [] IsProtected(e.path) -> {Issue(draft.path, "Protected")}
                      [] n.kind = "absent" -> Here("Disappeared")
                      [] n.kind = "link" -> Here("LinkLike")
                      [] n.kind # e.kind \/ n.id # e.id -> Here("Changed")
                      [] n.id \in m.ids -> {Issue(draft.path, "Loop")}
                      [] OTHER -> {}
    IN /\ IF cancelled THEN Stop("cancelled")
          ELSE /\ IF problems # {} THEN DropDraft(problems)
                  ELSE /\ m' = [m EXCEPT
                            !.at = IF stack = <<>> /\ m.todo = {e} THEN "again" ELSE @,
                            !.stack = stack, !.todo = @ \ {e}, !.ids = @ \cup {n.id},
                            !.total = @ + Bytes(n), !.real = Real(draft.path),
                            !.entries = @ \cup {<<e.path, n>>}]
                       /\ UNCHANGED <<drafts, issues, measured>>
               /\ counted' = IF counted >= limits.measured THEN counted ELSE counted + 1
               /\ UNCHANGED phase
       /\ UNCHANGED <<limits, job, visited, found, shown, treeVars>>

Same_Identity(p, n) == tree[p].id = n.id

\* same_identity and the times of an entry that was measured.
Same(p, n) == tree[p] = n

\* revalidate_measurement: every entry, then every folder's listing, again.
LookAgain ==
    /\ Measuring("again") /\ (m.entries # {} \/ m.folders # {})
    /\ IF cancelled THEN Stop("cancelled")
       ELSE /\ IF m.entries # {}
               THEN LET p == First({e[1] : e \in m.entries})
                        e == CHOOSE x \in m.entries : x[1] = p
                    IN IF Same(p, e[2])
                       THEN /\ m' = [m EXCEPT !.entries = @ \ {e}]
                            /\ UNCHANGED <<drafts, issues, measured>>
                       ELSE DropDraft({Issue(draft.path,
                              IF Exists(p) THEN "Changed" ELSE "Disappeared")})
               ELSE LET f == CHOOSE x \in m.folders :
                               x.path = First({y.path : y \in m.folders})
                    IN IF ~Listable(f.path, f.id)
                       THEN DropDraft({Issue(draft.path, ListFailure(f.path))})
                       ELSE IF Entries(f.path) # f.children
                       THEN DropDraft({Issue(draft.path,
                              IF f.children \subseteq Entries(f.path)
                              THEN "Changed" ELSE "Disappeared")})
                       ELSE /\ m' = [m EXCEPT !.folders = @ \ {f}]
                            /\ UNCHANGED <<drafts, issues, measured>>
            /\ UNCHANGED <<phase, counted>>
    /\ UNCHANGED <<limits, job, visited, found, shown, treeVars>>

\* The candidate itself is what it was before it was measured.
TakeDraft ==
    LET n == tree[draft.path]
    IN /\ Measuring("again") /\ m.entries = {} /\ m.folders = {}
       /\ IF n = m.before
          THEN /\ measured' = Append(measured,
                    [rule |-> draft.rule, root |-> draft.root, path |-> draft.path,
                     kind |-> draft.kind, id |-> draft.id, total |-> m.total,
                     real |-> m.real])
               /\ m' = Idle /\ drafts' = Tail(drafts) /\ UNCHANGED issues
          ELSE DropDraft({Issue(draft.path,
                 IF n.kind = "absent" THEN "Disappeared" ELSE "Changed")})
       /\ UNCHANGED <<phase, limits, job, visited, found, counted, shown, treeVars>>

-----------------------------------------------------------------------------
(* finalize *)

Shallower(a, b) ==
    \/ Len(a.path) < Len(b.path)
    \/ Len(a.path) = Len(b.path) /\ Before(a.path, b.path)
    \/ a.path = b.path /\ a.rule < b.rule

\* One record for a file or folder, whatever the rules and names that lead to
\* it; then none below a folder that is shown as a whole.
Unique(s) ==
    FoldLeft(LAMBDA kept, c :
        IF \E i \in DOMAIN kept : kept[i].id = c.id \/ kept[i].path = c.path
        THEN kept ELSE Append(kept, c), <<>>, s)

Retained(s) ==
    FoldLeft(LAMBDA kept, c :
        IF \E i \in DOMAIN kept : kept[i].kind = "dir" /\ Within(kept[i].path, c.path)
        THEN kept ELSE Append(kept, c), <<>>, s)

Finalize ==
    LET unique == Unique(SortSeq(measured, Shallower))
        kept == Retained(unique)
    IN /\ phase = "measuring" /\ m = Idle /\ drafts = <<>>
       /\ IF cancelled THEN phase' = "cancelled" /\ UNCHANGED <<issues, shown>>
          ELSE /\ phase' = "done" /\ shown' = ToSet(kept)
               /\ issues' = Report({Issue(c.path, "Overlap") :
                                       c \in ToSet(unique) \ ToSet(kept)})
       /\ UNCHANGED <<limits, job, visited, found, drafts, measuring, treeVars>>

EngineNext ==
    \/ StartScan \/ TakeJob
    \/ \E j \in DOMAIN job : ReadFolder(j) \/ ExamineEntry(j) \/ EndJob(j)
    \/ EndDiscovery
    \/ StartDraft \/ MeasureFolder
    \/ Measuring("walk") /\ MeasureEntry
    \/ LookAgain \/ TakeDraft \/ Finalize

-----------------------------------------------------------------------------
(* Properties *)

EngineTypeOK ==
    /\ phase \in {"unused", "idle"} \cup ScanPhase \cup ScanEnd
    /\ limits \in Limits /\ visited \in 0..limits.visited
    /\ counted \in 0..limits.measured /\ measured \in Seq(Measured)
    /\ issues \subseteq ScanDiagnostic /\ Cardinality(issues) <= limits.diagnostics
    /\ drafts \in Seq(CandidateDraft) /\ m \in {Idle} \cup MeasuredTree
    /\ shown \subseteq ToSet(measured)

\* Whatever other programs did meanwhile, a size that is shown is the size the
\* candidate really had at one moment of the scan: the walk of measure_path is
\* not atomic, and what it summed up may never have been there together.
TotalsWereReal == \A i \in DOMAIN measured : measured[i].total = measured[i].real

\* What a rule that was scanned should offer below a root of it.
InReach(r, root, p) ==
    /\ Below(root, p) /\ TargetMatches(r, Last(p), Kind(p))
    /\ AsFound(p) /\ (Rule[r].aged => Settled(tree[p])) /\ ~IsProtected(p)
    /\ \A a \in (Above(p) \cup {p}) \ ({root} \cup Above(root)) : ~Excluded(r, root, a)
    /\ IF IsProject(r)
       THEN LET project == Front(p)
            IN /\ Within(root, project) /\ Len(Sub(root, project)) <= Rule[r].projectDepth
               /\ MarkerMatches(r, {Last(q) : q \in {x \in Children(project) : AsFound(x)}})
               /\ \A a \in Above(p) : Below(root, a) => ~TargetMatches(r, Last(a), "dir")
       ELSE Len(Sub(root, p)) <= Rule[r].rootDepth + 1

\* A scan that ends without a diagnostic other than an overlap has offered
\* every untouched thing its rules ask for: by itself, within a folder offered
\* as a whole, or under another of its names.
SilenceMeansComplete ==
    phase = "done" /\ {i \in issues : i.reason # "Overlap"} = {} =>
        \A j \in DOMAIN job, p \in Path :
            InReach(j[1], j[2], p) =>
                \E c \in shown : \/ Within(c.path, p) /\ (c.path = p \/ c.kind = "dir")
                                 \/ c.id = tree[p].id
=============================================================================
