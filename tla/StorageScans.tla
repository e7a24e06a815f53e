---------------------------- MODULE StorageScans ----------------------------
(***************************************************************************)
(* Storage scans: one worker at a time, a bounded number of completed      *)
(* snapshots that expire, and the single-use authorizations of the roots   *)
(* that scans start from.  A snapshot is what plans and vendor jobs are    *)
(* made from, so what can be selected in it is authority over files.       *)
(*                                                                         *)
(* `svc' is the State behind the service's mutex.  Every operation first   *)
(* runs State::maintain, so every action below starts from Maintained.     *)
(* The worker shares with the service only its cancellation token and its  *)
(* status, which has a lock of its own.                                    *)
(***************************************************************************)
EXTENDS Naturals, FiniteSets

CONSTANTS
    Scans,        \* bound: the scans that are started
    Root,         \* identifiers of root authorizations
    Module,       \* features that scan
    Native,       \* those that need no root: drives and programs
    Feature,      \* what each root is authorized for
    None,         \* "no scan", "no root", "no module"
    MaxSnapshots  \* MAX_COMPLETED_SNAPSHOTS, which also limits the authorizations

\* Scans, and the snapshots they end in, numbered in the order of their start.
Scan == 1..Scans

ASSUME ScanAssumption ==
    /\ Scans \in Nat /\ MaxSnapshots \in Nat \ {0}
    /\ Native \subseteq Module /\ Feature \in [Root -> Module \ Native]
    /\ None \notin Scan \cup Root \cup Module
    /\ Scan \cap Root = {}

VARIABLES
    svc,       \* State: the active scan, completed snapshots, pages, authorizations
    scan,      \* the worker of each scan and the status it shares
    issued,    \* the authorizations issued so far
    down,      \* the service is being dropped
    withdrawn, \* scans whose cancel returned Ok
    gone,      \* scans and roots whose release returned Ok
    trusted    \* scans reported as Complete, or in which a selection was resolved

vars == <<svc, scan, issued, down, withdrawn, gone, trusted>>
answers == <<withdrawn, gone, trusted>>

-----------------------------------------------------------------------------

\* pc: rebind (the root is bound again), running (the runner), terminal (about to set
\* the phase), returning, returned (joinable).
\* evidence: a candidate was added (orphan) and then its row (paired).
\* whole: the runner came to its end.
Worker ==
    [pc : {"none", "rebind", "running", "terminal", "returning", "returned"},
     phase : {"Active", "Complete", "Cancelled"},
     module : Module \cup {None}, root : Root \cup {None},
     cancel : BOOLEAN, released : BOOLEAN, ok : BOOLEAN,
     evidence : {"none", "orphan", "paired"}, whole : BOOLEAN]

NoWorker ==
    [pc |-> "none", phase |-> "Active", module |-> None, root |-> None, cancel |-> FALSE,
     released |-> FALSE, ok |-> TRUE, evidence |-> "none", whole |-> FALSE]

Service ==
    [active : Scan \cup {None}, completed : SUBSET Scan, pages : SUBSET Scan,
     roots : SUBSET Root, started : 0..Scans]

\* The phase of a completed snapshot.
Outcome(c) == IF scan[c].ok THEN scan[c].phase ELSE "Failed"

TypeOK ==
    /\ svc \in Service
    /\ Cardinality(svc.completed) <= MaxSnapshots /\ Cardinality(svc.roots) <= MaxSnapshots
    /\ scan \in [Scan -> Worker]
    /\ \A c \in svc.completed : scan[c].pc = "returned"
    /\ issued \subseteq Root /\ down \in BOOLEAN
    /\ withdrawn \subseteq Scan /\ trusted \subseteq Scan /\ gone \subseteq Scan \cup Root

Init ==
    /\ svc = [active |-> None, completed |-> {}, pages |-> {}, roots |-> {}, started |-> 0]
    /\ scan = [c \in Scan |-> NoWorker]
    /\ issued = {} /\ down = FALSE
    /\ withdrawn = {} /\ gone = {} /\ trusted = {}

-----------------------------------------------------------------------------
(* State::maintain *)

\* The front of the queue: scans are published in the order of their start.
Oldest(S) == CHOOSE c \in S : \A d \in S : c <= d

\* SnapshotPages::insert makes room for itself.
Inserted(pages, c) ==
    (IF Cardinality(pages) = MaxSnapshots THEN pages \ {Oldest(pages)} ELSE pages) \cup {c}

\* Mutant: the evicted snapshot keeps its pages.
Published_KeepsPages(s, c) ==
    LET pages == IF scan[c].ok THEN s.pages \cup {c} ELSE s.pages
        old   == IF Cardinality(s.completed) = MaxSnapshots THEN {Oldest(s.completed)} ELSE {}
    IN  [s EXCEPT !.active = None, !.completed = (@ \ old) \cup {c}, !.pages = pages]

\* The result of worker c; the oldest result gives way.
Published(s, c) ==
    LET pages == IF scan[c].ok THEN Inserted(s.pages, c) ELSE s.pages
        old   == IF Cardinality(s.completed) = MaxSnapshots THEN {Oldest(s.completed)} ELSE {}
    IN  [s EXCEPT !.active = None, !.completed = (@ \ old) \cup {c}, !.pages = pages \ old]

\* Mutant: the slot of a released scan is never given back.
Maintained_Leaks ==
    IF svc.active # None /\ scan[svc.active].pc = "returned" /\ ~ scan[svc.active].released
    THEN Published(svc, svc.active) ELSE svc

\* A finished worker is joined: its result is published unless it was released.  (What
\* was not accessed for SNAPSHOT_IDLE_SECONDS is dropped first: see Expire.)
Maintained ==
    IF svc.active # None /\ scan[svc.active].pc = "returned"
    THEN IF scan[svc.active].released
         THEN [svc EXCEPT !.active = None]
         ELSE Published(svc, svc.active)
    ELSE svc

-----------------------------------------------------------------------------
(* Operations of the service *)

\* The reaper's tick; also every operation that is refused.
Maintain ==
    /\ ~ down /\ svc' = Maintained
    /\ UNCHANGED <<scan, issued, down, answers>>

\* authorize_root_for, after the root was bound natively.
Authorize(r) ==
    /\ ~ down /\ r \notin issued
    /\ Cardinality(Maintained.roots) < MaxSnapshots
    /\ svc' = [Maintained EXCEPT !.roots = @ \cup {r}]
    /\ issued' = issued \cup {r}
    /\ UNCHANGED <<scan, down, answers>>

Queued(m, r) == [NoWorker EXCEPT !.pc = "rebind", !.module = m, !.root = r]
Fresh(c) == c = svc.started + 1

\* start_with for a feature with a root, which uses the authorization up.
StartRooted(c, m, r) ==
    LET s == Maintained IN
    /\ ~ down /\ Fresh(c) /\ s.active = None
    /\ r \in s.roots /\ Feature[r] = m
    /\ svc' = [s EXCEPT !.active = c, !.roots = @ \ {r}, !.started = @ + 1]
    /\ scan' = [scan EXCEPT ![c] = Queued(m, r)]
    /\ UNCHANGED <<issued, down, answers>>

StartNative(c, m) ==
    LET s == Maintained IN
    /\ ~ down /\ Fresh(c) /\ s.active = None
    /\ m \in Native
    /\ svc' = [s EXCEPT !.active = c, !.started = @ + 1]
    /\ scan' = [scan EXCEPT ![c] = Queued(m, None)]
    /\ UNCHANGED <<issued, down, answers>>

\* The thread cannot be spawned: the authorization is used up all the same.
SpawnFails(r) ==
    /\ ~ down /\ Maintained.active = None /\ r \in Maintained.roots
    /\ svc' = [Maintained EXCEPT !.roots = @ \ {r}]
    /\ UNCHANGED <<scan, issued, down, answers>>

\* Complete and Cancelled are shown as Finalizing until the pages are published.
StatusActive(c) ==
    /\ ~ down /\ Maintained.active = c /\ ~ scan[c].released
    /\ svc' = Maintained
    /\ UNCHANGED <<scan, issued, down, answers>>

StatusCompleted(c) ==
    /\ ~ down /\ c \in Maintained.completed
    /\ svc' = Maintained
    /\ trusted' = IF Outcome(c) = "Complete" THEN trusted \cup {c} ELSE trusted
    /\ UNCHANGED <<scan, issued, down, withdrawn, gone>>

\* Mutant: whatever has pages can be selected from.
Resolve_AnyPhase(c) ==
    /\ ~ down /\ c \in Maintained.pages
    /\ svc' = Maintained
    /\ trusted' = trusted \cup {c}
    /\ UNCHANGED <<scan, issued, down, withdrawn, gone>>

\* resolve_selection and resolve_program.
Resolve(c) ==
    /\ ~ down /\ c \in Maintained.completed /\ Outcome(c) = "Complete"
    /\ c \in Maintained.pages
    /\ svc' = Maintained
    /\ trusted' = trusted \cup {c}
    /\ UNCHANGED <<scan, issued, down, withdrawn, gone>>

\* Mutant: the phase is not looked at.
Cancel_Unchecked(c) ==
    /\ ~ down /\ Maintained.active = c /\ ~ scan[c].released
    /\ svc' = Maintained
    /\ scan' = [scan EXCEPT ![c].cancel = TRUE]
    /\ withdrawn' = withdrawn \cup {c}
    /\ UNCHANGED <<issued, down, gone, trusted>>

\* The status lock is held from the look at the phase to the cancellation.
Cancel(c) ==
    /\ ~ down /\ Maintained.active = c /\ ~ scan[c].released
    /\ scan[c].phase = "Active"
    /\ svc' = Maintained
    /\ scan' = [scan EXCEPT ![c].cancel = TRUE]
    /\ withdrawn' = withdrawn \cup {c}
    /\ UNCHANGED <<issued, down, gone, trusted>>

ReleaseRoot(r) ==
    /\ ~ down /\ r \in Maintained.roots
    /\ svc' = [Maintained EXCEPT !.roots = @ \ {r}]
    /\ gone' = gone \cup {r}
    /\ UNCHANGED <<scan, issued, down, withdrawn, trusted>>

\* The slot stays taken until the worker is finished.
ReleaseActive(c) ==
    /\ ~ down /\ Maintained.active = c /\ ~ scan[c].released
    /\ svc' = Maintained
    /\ scan' = [scan EXCEPT ![c].released = TRUE, ![c].cancel = TRUE]
    /\ gone' = gone \cup {c}
    /\ UNCHANGED <<issued, down, withdrawn, trusted>>

ReleaseCompleted(c) ==
    /\ ~ down /\ c \in Maintained.completed
    /\ svc' = [Maintained EXCEPT !.completed = @ \ {c}, !.pages = @ \ {c}]
    /\ gone' = gone \cup {c}
    /\ UNCHANGED <<scan, issued, down, withdrawn, trusted>>

\* Drop: the reaper is stopped, the worker cancelled and joined.
ShutDown ==
    /\ ~ down /\ down' = TRUE
    /\ svc' = [svc EXCEPT !.active = None]
    /\ scan' = IF svc.active = None THEN scan ELSE [scan EXCEPT ![svc.active].cancel = TRUE]
    /\ UNCHANGED <<issued, answers>>

-----------------------------------------------------------------------------
(* The worker *)

At(c, pc) == scan[c].pc = pc
Goto(c, pc) == scan' = [scan EXCEPT ![c].pc = pc]
Fail(c) == scan' = [scan EXCEPT ![c].ok = FALSE, ![c].pc = "returning"]

\* The root is bound again; it may have been replaced.
Rebind(c) ==
    /\ At(c, "rebind")
    /\ \/ Goto(c, "running")
       \/ scan[c].root # None /\ Fail(c)
    /\ UNCHANGED <<svc, issued, down, answers>>

\* ScanContext::add_candidate; only evidence under the root is accepted.
AddCandidate(c) ==
    /\ At(c, "running") /\ scan[c].root # None /\ scan[c].evidence = "none"
    /\ scan' = [scan EXCEPT ![c].evidence = "orphan"]
    /\ UNCHANGED <<svc, issued, down, answers>>

\* ScanContext::push of the row of that evidence (rows without any change nothing here).
Push(c) ==
    /\ At(c, "running") /\ ~ scan[c].cancel /\ scan[c].evidence = "orphan"
    /\ scan' = [scan EXCEPT ![c].evidence = "paired"]
    /\ UNCHANGED <<svc, issued, down, answers>>

\* The runner has returned, as w.  An interrupted builder is thrown away, and then the
\* runner's error does not matter.  (Without a root the rows are kept: such scans have
\* no evidence.)  What follows until the phase is set is the worker's alone.
Finish(c, w) ==
    scan' = [scan EXCEPT ![c] =
        IF w.cancel THEN [w EXCEPT !.pc = "terminal", !.ok = TRUE, !.evidence = "none"]
        ELSE [w EXCEPT !.pc = IF w.ok THEN "terminal" ELSE "returning"]]

\* The runner has found everything, or stops at a limit.
RunnerEnds(c) ==
    /\ At(c, "running") /\ scan[c].evidence # "orphan"
    /\ Finish(c, [scan[c] EXCEPT !.whole = TRUE])
    /\ UNCHANGED <<svc, issued, down, answers>>

\* It sees the cancellation, between evidence and row or elsewhere.
RunnerStops(c) ==
    /\ At(c, "running") /\ scan[c].cancel
    /\ Finish(c, scan[c])
    /\ UNCHANGED <<svc, issued, down, answers>>

RunnerFails(c) ==
    /\ At(c, "running")
    /\ Finish(c, [scan[c] EXCEPT !.ok = FALSE])
    /\ UNCHANGED <<svc, issued, down, answers>>

RunnerPanics(c) ==
    /\ At(c, "running")
    /\ Fail(c)
    /\ UNCHANGED <<svc, issued, down, answers>>

\* SnapshotBuilder::finish, which refuses evidence without a row; then the phase is
\* set under the status lock, from the token as it is by now.
Terminal(c) ==
    /\ At(c, "terminal")
    /\ IF scan[c].evidence = "orphan" THEN Fail(c)
       ELSE scan' = [scan EXCEPT ![c].pc = "returning",
                            ![c].phase = IF scan[c].cancel THEN "Cancelled" ELSE "Complete"]
    /\ UNCHANGED <<svc, issued, down, answers>>

Return(c) ==
    /\ At(c, "returning")
    /\ Goto(c, "returned")
    /\ UNCHANGED <<svc, issued, down, answers>>

-----------------------------------------------------------------------------

\* The other half of maintain, as soon as x was not accessed for SNAPSHOT_IDLE_SECONDS:
\* an access only puts this off, and no operation sees what is due.  A scan that nobody
\* maintained for as long after its end is not published.
Expire(x) ==
    /\ ~ down
    /\ \/ x \in svc.roots /\ svc' = [svc EXCEPT !.roots = @ \ {x}]
       \/ x \in svc.completed /\ svc' = [svc EXCEPT !.completed = @ \ {x}, !.pages = @ \ {x}]
       \/ x = svc.active /\ scan[x].pc = "returned" /\ svc' = [svc EXCEPT !.active = None]
    /\ UNCHANGED <<scan, issued, down, answers>>

Work(c) ==
    \/ Rebind(c) \/ AddCandidate(c) \/ Push(c) \/ RunnerEnds(c) \/ RunnerStops(c)
    \/ RunnerFails(c) \/ RunnerPanics(c) \/ Terminal(c) \/ Return(c)

Command ==
    \/ \E c \in Scan, m \in Module : StartNative(c, m) \/ \E r \in Root : StartRooted(c, m, r)
    \/ \E c \in Scan :
          \/ StatusActive(c) \/ StatusCompleted(c) \/ Resolve(c) \/ Cancel(c)
          \/ ReleaseActive(c) \/ ReleaseCompleted(c)
    \/ \E r \in Root : Authorize(r) \/ SpawnFails(r) \/ ReleaseRoot(r)
    \/ ShutDown

Next ==
    \/ Maintain
    \/ Command
    \/ \E c \in Scan : Work(c)
    \/ \E x \in Scan \cup Root : Expire(x)

Spec == Init /\ [][Next]_vars

\* Runners are cooperative: they come to an end or see the cancellation.  The reaper
\* maintains the state once a second.
FairSpec == Spec /\ WF_vars(Maintain) /\ \A c \in Scan : WF_vars(Work(c))

-----------------------------------------------------------------------------
(* Properties *)

\* What is listed as completed without an error has its pages, and nothing else has,
\* although the two are bounded, expired and evicted separately.
PagesMirrorCompleted == svc.pages = {c \in svc.completed : Outcome(c) # "Failed"}

\* A scan whose cancellation was confirmed is never Complete: it is not reported so and
\* nothing is selected in it ("a successful cancellation cannot publish Complete").
CancelIsKept == \A c \in withdrawn : scan[c].phase # "Complete" /\ c \notin trusted

Busy(c) == scan[c].pc \notin {"none", "returned"}

\* Only one cooperative scan runs at a time.  Releasing one hides it for good, neither
\* listed nor paged nor startable, but its slot is not given away while its worker runs.
ReleasedIsGone ==
    /\ gone \cap (svc.completed \cup svc.pages \cup svc.roots) = {}
    /\ svc.active \in gone => scan[svc.active].released
    /\ \A c, d \in Scan : Busy(c) /\ Busy(d) => c = d

\* A selection is resolved only in a scan that ran to its end, without an error and with
\* a row for all evidence.
TrustedAreWhole ==
    \A c \in trusted : /\ scan[c].whole /\ scan[c].evidence # "orphan"
                       /\ Outcome(c) = "Complete"

\* A scan that was cancelled, released or shut down gives its worker up, and the slot.
CancelledEnds ==
    \A c \in Scan : scan[c].cancel ~> scan[c].pc = "returned" /\ svc.active # c
=============================================================================
