--------------------------- MODULE BuildArtifacts ---------------------------
(***************************************************************************)
(* The coordinator of native builds and of the budget for their artifacts. *)
(*                                                                         *)
(* One approved build runs at a time, in a thread that takes the writer    *)
(* only to commit: it writes the generation ledger with a success stamp,   *)
(* takes it back if cancellation won, and then evicts stale artifacts of   *)
(* other profiles.  An analysis of what changed outside, started by a      *)
(* timer or by a policy change, observes and evicts as well.               *)
(*                                                                         *)
(* Every profile has one Generation path under a project root of its own.  *)
(* Which eligible artifacts exceed the budget is left open: limits, ages   *)
(* and ranking only narrow that choice.  The move into the quarantine and  *)
(* its journal are those of TemporaryCleanup, one step here.               *)
(***************************************************************************)
EXTENDS Naturals

CONSTANTS
    Profile,    \* build profiles; identifiers are never used twice
    Build,      \* build runs
    Analyst,    \* threads that run analyze_external
    None,       \* "no build", "nobody", "no file"
    Other,      \* a file made by another program
    MaxUpsets   \* bound: ends of the program, failing writes, edits by other
                \* programs, policy changes and removed roots, all together

ASSUME BuildAssumption ==
    /\ None \notin Profile \cup Build \cup Analyst
    /\ Other \notin Build \cup {None}
    /\ Build \cap Analyst = {} /\ Profile \cap (Build \cup Analyst) = {}
    /\ MaxUpsets \in Nat

VARIABLES
    profiles,  \* saved profiles
    forgotten, \* profiles that were removed
    roots,     \* profiles whose project root is saved
    enabled,   \* the budget policy on disk,
    overrides, \* and the projects it has an override for
    ledger,    \* the generation ledger on disk
    file,      \* the file at each profile's path, named by who made it
    vault,     \* the last file evicted from it
    active,    \* RunRegistry::active
    cancelled, \* runs whose flag is set
    build,     \* what each run does
    analyst,   \* what each analysis does before it has the writer
    op,        \* the operation that holds the writer
    upsets     \* counted for the bound

vars == <<profiles, forgotten, roots, enabled, overrides, ledger, file, vault, active,
          cancelled, build, analyst, op, upsets>>
policy == <<enabled, overrides>>
saved == <<profiles, forgotten, roots, policy>>
files == <<file, vault>>
slot == <<active, cancelled>>

-----------------------------------------------------------------------------

File == Build \cup {Other}

\* GenerationState: the file observed last, and whether latest success touched it.
\* An unreadable generation is ambiguous too.
Generation == [known : BOOLEAN, owned : BOOLEAN, ambiguous : BOOLEAN, latest : BOOLEAN,
               file : File \cup {None}]
Unknown == [known |-> FALSE, owned |-> FALSE, ambiguous |-> FALSE, latest |-> FALSE, file |-> None]

\* stamp: the run of last_successful_build.
Ledger == [gen : [Profile -> Generation], stamp : Build \cup {None}]
NoLedger == [gen |-> [p \in Profile |-> Unknown], stamp |-> None]

\* before, after: the snapshots around the build.
BuildRecord == [state : {"none", "Queued", "Running", "Succeeded", "Failed", "Cancelled",
                         "AnalysisFailed"},
                pc : {"none", "starting", "queued", "building", "commit", "ended", "done"},
                profile : Profile \cup {None}, before : File \cup {None},
                after : File \cup {None}]
NoBuild == [state |-> "none", pc |-> "none", profile |-> None, before |-> None, after |-> None]

\* stamped, selected: the commit up to its two looks at the flag; observe: an
\* analysis; enforcing: both; asking: the dialog for a profile is open; forgetting: a
\* profile between its two writes.
Operation == [by : Build \cup Analyst \cup Profile \cup {None},
              pc : {"idle", "stamped", "selected", "observe", "enforcing", "asking", "forgetting"},
              previous : Ledger, queue : SUBSET Profile, moved : SUBSET Profile,
              failed : BOOLEAN]
Idle == [by |-> None, pc |-> "idle", previous |-> NoLedger, queue |-> {}, moved |-> {},
         failed |-> FALSE]

TypeOK ==
    /\ profiles \in SUBSET Profile /\ forgotten \in SUBSET Profile /\ roots \in SUBSET Profile
    /\ enabled \in BOOLEAN /\ overrides \in SUBSET Profile
    /\ ledger \in Ledger
    /\ file \in [Profile -> File \cup {None}] /\ vault \in [Profile -> File \cup {None}]
    /\ active \in Build \cup {None} /\ cancelled \in SUBSET Build
    /\ build \in [Build -> BuildRecord]
    /\ \A b \in Build :
          /\ build[b].pc # "none" => build[b].profile \in Profile
          /\ build[b].pc \in {"queued", "building", "commit", "ended"} => active = b
    /\ analyst \in [Analyst -> {"idle", "gate"}]
    /\ op \in Operation
    /\ upsets \in 0..MaxUpsets

Init ==
    /\ profiles = {} /\ forgotten = {} /\ roots = Profile
    /\ enabled \in BOOLEAN /\ overrides = {}
    /\ ledger = NoLedger
    /\ file = [p \in Profile |-> None] /\ vault = file
    /\ active = None /\ cancelled = {}
    /\ build = [b \in Build |-> NoBuild]
    /\ analyst = [a \in Analyst |-> "idle"]
    /\ op = Idle
    /\ upsets = 0

-----------------------------------------------------------------------------
(* The ledger *)

WriterFree == op = Idle

Upset == upsets < MaxUpsets /\ upsets' = upsets + 1

StampProfile(l) == IF l.stamp = None THEN None ELSE build[l.stamp].profile

\* The store validates the ledger against the saved profiles whenever it reads or
\* writes it, and the profiles against the saved roots.
Valid(l) ==
    /\ \A p \in Profile : l.gen[p].known => p \in profiles
    /\ l.stamp # None => StampProfile(l) \in profiles

\* write_artifact_generations replaces the file or leaves it as it was.
Written(l) == Valid(l) /\ ledger' = l /\ UNCHANGED upsets
WriteFails == Upset /\ UNCHANGED ledger

\* A known path is looked at by analyze_external or observe_external_changes;
\* one that is gone or cannot be read is ambiguous from then on.
Observed(g, f, readable) ==
    IF f = None \/ ~ readable THEN [g EXCEPT !.ambiguous = TRUE]
    ELSE IF g.file = f THEN g
    ELSE [g EXCEPT !.file = f, !.owned = FALSE, !.ambiguous = TRUE]

\* What select_artifact_generations may pick: no generation with a ProtectionReason.
Eligible(l) ==
    {p \in Profile : /\ l.gen[p].known /\ l.gen[p].owned /\ ~ l.gen[p].ambiguous
                     /\ ~ l.gen[p].latest
                     /\ p # StampProfile(l)}

-----------------------------------------------------------------------------
(* Profiles, roots and the policy *)

\* register_profile keeps the writer while its native dialog is open.
Register(p) ==
    /\ WriterFree
    /\ p \notin profiles \cup forgotten /\ p \in roots
    /\ op' = [Idle EXCEPT !.by = p, !.pc = "asking"]
    /\ UNCHANGED <<saved, ledger, files, slot, build, analyst, upsets>>

\* The dialog is answered at any time, or never; it is declined, or the write fails.
Answered ==
    /\ op.pc = "asking"
    /\ \/ profiles' = profiles \cup {op.by}
       \/ UNCHANGED profiles
    /\ op' = Idle
    /\ UNCHANGED <<forgotten, roots, policy, ledger, files, slot, build, analyst, upsets>>

ActiveProfile == IF active = None THEN None ELSE build[active].profile

\* Mutant: the profile is removed first, its generations after.
Forget_ProfileFirst(p) ==
    /\ WriterFree
    /\ p \in profiles /\ ActiveProfile # p
    /\ profiles' = profiles \ {p} /\ forgotten' = forgotten \cup {p}
    /\ op' = [Idle EXCEPT !.by = p, !.pc = "forgetting"]
    /\ UNCHANGED <<roots, policy, ledger, files, slot, build, analyst, upsets>>

\* remove_profile: the ledger first.
Forget(p) ==
    /\ WriterFree
    /\ p \in profiles /\ ActiveProfile # p
    /\ Written([gen |-> [ledger.gen EXCEPT ![p] = Unknown],
                stamp |-> IF StampProfile(ledger) = p THEN None ELSE ledger.stamp])
    /\ op' = [Idle EXCEPT !.by = p, !.pc = "forgetting"]
    /\ UNCHANGED <<saved, files, slot, build, analyst>>

\* Then the profile, unless that write fails.
Forgotten ==
    /\ op.pc = "forgetting"
    /\ \/ /\ profiles' = profiles \ {op.by} /\ forgotten' = forgotten \cup {op.by}
          /\ UNCHANGED upsets
       \/ Upset /\ UNCHANGED <<profiles, forgotten>>
    /\ op' = Idle
    /\ UNCHANGED <<roots, policy, ledger, files, slot, build, analyst>>

\* remove_project_root: the store refuses a list of roots that lacks a profile's,
\* and does not ask the policy.
RemoveRoot(p) ==
    /\ WriterFree /\ p \in roots \ profiles
    /\ Upset
    /\ roots' = roots \ {p}
    /\ UNCHANGED <<profiles, forgotten, policy, ledger, files, slot, build, analyst, op>>

\* The store reads no policy with an override for a root that is not saved.
PolicyReadable == overrides \subseteq roots

\* set_policy: that no build is active was checked some time before the writer was
\* taken, so a build may be.
SetPolicy(on, projects) ==
    /\ WriterFree /\ projects \subseteq roots
    /\ <<on, projects>> # policy
    /\ Upset
    /\ enabled' = on /\ overrides' = projects
    /\ UNCHANGED <<profiles, forgotten, roots, ledger, files, slot, build, analyst, op>>

-----------------------------------------------------------------------------
(* start_run, cancel_run and the build *)

\* The profile is looked up, without the writer.
Start(b, p) ==
    /\ build[b].pc = "none" /\ p \in profiles
    /\ build' = [build EXCEPT ![b] = [NoBuild EXCEPT !.pc = "starting", !.profile = p]]
    /\ UNCHANGED <<saved, ledger, files, slot, analyst, op, upsets>>

Queue(b) ==
    /\ build[b].pc = "starting" /\ active = None
    /\ active' = b
    /\ build' = [build EXCEPT ![b].pc = "queued", ![b].state = "Queued"]
    /\ UNCHANGED <<saved, ledger, files, cancelled, analyst, op, upsets>>

BuildBusy(b) ==
    /\ build[b].pc = "starting" /\ active # None
    /\ build' = [build EXCEPT ![b] = NoBuild]
    /\ UNCHANGED <<saved, ledger, files, slot, analyst, op, upsets>>

CancelRun(b) ==
    /\ active = b
    /\ cancelled' = cancelled \cup {b}
    /\ UNCHANGED <<saved, ledger, files, active, build, analyst, op, upsets>>

\* The outcome of run_profile; the slot is cleared a step later.
End(b, s) ==
    build' = [build EXCEPT ![b] = [NoBuild EXCEPT !.pc = "ended", !.state = s,
                                                   !.profile = build[b].profile]]

\* Snapshots and revalidation fail at will, and without a root.
Launch(b) ==
    /\ build[b].pc = "queued"
    /\ \/ b \in cancelled /\ End(b, "Cancelled")
       \/ End(b, "AnalysisFailed")
       \/ /\ b \notin cancelled /\ build[b].profile \in roots
          /\ build' = [build EXCEPT ![b].pc = "building", ![b].state = "Running",
                                    ![b].before = file[build[b].profile]]
    /\ UNCHANGED <<saved, ledger, files, slot, analyst, op, upsets>>

BuildWrites(b) ==
    /\ build[b].pc = "building" /\ file[build[b].profile] # b
    /\ file' = [file EXCEPT ![build[b].profile] = b]
    /\ UNCHANGED <<saved, ledger, vault, slot, build, analyst, op, upsets>>

\* Exit code zero, and the snapshots after it.
BuildSucceeds(b) ==
    /\ build[b].pc = "building" /\ b \notin cancelled
    /\ build[b].profile \in roots
    /\ build' = [build EXCEPT ![b].pc = "commit", ![b].after = file[build[b].profile]]
    /\ UNCHANGED <<saved, ledger, files, slot, analyst, op, upsets>>

\* Mutant: the wait for the process does not look at the flag.
BuildEnds_NoFlag(b) ==
    /\ build[b].pc = "building" /\ b \notin cancelled
    /\ \E s \in {"AnalysisFailed", "Failed"} : End(b, s)
    /\ UNCHANGED <<saved, ledger, files, slot, analyst, op, upsets>>

\* Another exit code, cancelled, or a snapshot or the Job Object failed.
BuildEnds(b) ==
    /\ build[b].pc = "building"
    /\ \E s \in {"AnalysisFailed"} \cup (IF b \in cancelled THEN {"Cancelled"} ELSE {"Failed"}) :
          End(b, s)
    /\ UNCHANGED <<saved, ledger, files, slot, analyst, op, upsets>>

\* What is left of a run is shown and never read again, its profile apart: the
\* stamp names it.
Past(b) == [NoBuild EXCEPT !.pc = "done", !.profile = build[b].profile]

Clear(b) ==
    /\ build[b].pc = "ended"
    /\ active' = None /\ cancelled' = cancelled \ {b}
    /\ build' = [build EXCEPT ![b] = Past(b)]
    /\ UNCHANGED <<saved, ledger, files, analyst, op, upsets>>

-----------------------------------------------------------------------------
(* commit_success *)

Touched(b) == build[b].before # build[b].after

\* A generation of the profile itself keeps its ownership, whatever file is there.
OwnGeneration(b, g) ==
    IF build[b].after = None THEN Unknown
    ELSE [known |-> TRUE, owned |-> g.owned \/ Touched(b), ambiguous |-> FALSE,
          latest |-> Touched(b), file |-> build[b].after]

Committed(b, readable) ==
    [gen |-> [p \in Profile |->
                LET g == ledger.gen[p]
                IN  IF p = build[b].profile THEN OwnGeneration(b, g)
                    ELSE IF g.known THEN [Observed(g, file[p], p \in readable) EXCEPT !.latest = FALSE]
                    ELSE g],
     stamp |-> b]

\* Under the writer: the flag, the profile, and the ledger with its stamp.
Commit(b) ==
    /\ build[b].pc = "commit" /\ WriterFree
    /\ \/ b \in cancelled /\ End(b, "Cancelled") /\ UNCHANGED <<ledger, op, upsets>>
       \/ b \notin cancelled /\ End(b, "AnalysisFailed") /\ UNCHANGED <<ledger, op, upsets>>
       \/ /\ b \notin cancelled
          /\ build[b].profile \in profiles
          /\ \E readable \in SUBSET Profile : Written(Committed(b, readable))
          /\ op' = [Idle EXCEPT !.by = b, !.pc = "stamped", !.previous = ledger]
          /\ UNCHANGED build
       \/ b \notin cancelled /\ WriteFails /\ End(b, "AnalysisFailed") /\ UNCHANGED op
    /\ UNCHANGED <<saved, files, slot, analyst>>

\* Cancellation won after the stamp was written: the ledger before it is written
\* again; the run is not reported as cancelled unless that succeeds.
RollBack(b) ==
    /\ op.by = b /\ op.pc \in {"stamped", "selected"} /\ b \in cancelled
    /\ \/ Written(op.previous) /\ End(b, "Cancelled")
       \/ WriteFails /\ End(b, "AnalysisFailed")
    /\ op' = Idle
    /\ UNCHANGED <<saved, files, slot, analyst>>

\* The policy is read under the writer; selection and the roots may fail.
Select(b) ==
    /\ op.by = b /\ op.pc = "stamped" /\ b \notin cancelled
    /\ \/ PolicyReadable /\ ~ enabled /\ End(b, "Succeeded") /\ op' = Idle
       \/ End(b, "AnalysisFailed") /\ op' = Idle
       \/ /\ PolicyReadable /\ enabled
          /\ \E stale \in SUBSET Eligible(ledger) :
                op' = [op EXCEPT !.pc = "selected", !.queue = stale]
          /\ UNCHANGED build
    /\ UNCHANGED <<saved, ledger, files, slot, analyst, upsets>>

Enforce(b) ==
    /\ op.by = b /\ op.pc = "selected" /\ b \notin cancelled
    /\ op' = [op EXCEPT !.pc = "enforcing"]
    /\ UNCHANGED <<saved, ledger, files, slot, build, analyst, upsets>>

-----------------------------------------------------------------------------
(* analyze_external *)

\* The policy and the slot are read before the writer is taken.
AnalysisReads(a) ==
    /\ analyst[a] = "idle" /\ op.by # a
    /\ PolicyReadable /\ enabled /\ active = None
    /\ analyst' = [analyst EXCEPT ![a] = "gate"]
    /\ UNCHANGED <<saved, ledger, files, slot, build, op, upsets>>

\* A build became active, or the analysis is not due yet.
AnalysisSkips(a) ==
    /\ analyst[a] = "gate" /\ WriterFree
    /\ analyst' = [analyst EXCEPT ![a] = "idle"]
    /\ UNCHANGED <<saved, ledger, files, slot, build, op, upsets>>

AnalysisEnters(a) ==
    /\ analyst[a] = "gate" /\ WriterFree /\ active = None
    /\ analyst' = [analyst EXCEPT ![a] = "idle"]
    /\ op' = [Idle EXCEPT !.by = a, !.pc = "observe"]
    /\ UNCHANGED <<saved, ledger, files, slot, build, upsets>>

Analysed(readable) ==
    [ledger EXCEPT !.gen = [p \in Profile |->
        LET g == ledger.gen[p]
        IN  IF p \notin profiles THEN g
            ELSE IF g.known THEN Observed(g, file[p], p \in readable)
            ELSE IF file[p] # None /\ p \in readable
                 THEN [Unknown EXCEPT !.known = TRUE, !.file = file[p]]
            ELSE g]]

\* A read, the write or the selection fails; or, without a stamp, it is over.
Observe(a) ==
    /\ op.by = a /\ op.pc = "observe"
    /\ \/ op' = Idle /\ UNCHANGED <<ledger, upsets>>
       \/ op' = Idle /\ WriteFails
       \/ /\ \E readable \in SUBSET Profile : Written(Analysed(readable))
          /\ \/ op' = Idle
             \/ /\ ledger.stamp # None
                /\ \E stale \in SUBSET Eligible(ledger') :
                      op' = [op EXCEPT !.pc = "enforcing", !.queue = stale]
    /\ UNCHANGED <<saved, files, slot, build, analyst>>

-----------------------------------------------------------------------------
(* enforce_budget *)

\* A fresh proof of the file the ledger observed, and its quarantine.
Evict(p) ==
    /\ op.pc = "enforcing" /\ p \in op.queue
    /\ p \in profiles
    /\ file[p] # None /\ file[p] = ledger.gen[p].file
    /\ file' = [file EXCEPT ![p] = None] /\ vault' = [vault EXCEPT ![p] = file[p]]
    /\ op' = [op EXCEPT !.queue = @ \ {p}, !.moved = @ \cup {p}]
    /\ UNCHANGED <<saved, ledger, slot, build, analyst, upsets>>

\* The item fails and the loop goes on, or the group fails and ends it; the move
\* may have been made before a journal write failed.
EvictFails(p) ==
    /\ op.pc = "enforcing" /\ p \in op.queue
    /\ \/ UNCHANGED files
       \/ /\ file[p] # None /\ file[p] = ledger.gen[p].file
          /\ file' = [file EXCEPT ![p] = None] /\ vault' = [vault EXCEPT ![p] = file[p]]
    /\ \E rest \in {op.queue \ {p}, {}} :
          op' = [op EXCEPT !.queue = rest, !.failed = TRUE]
    /\ UNCHANGED <<saved, ledger, slot, build, analyst, upsets>>

\* Generations that were moved leave the ledger, whatever failed.
Prune ==
    /\ op.pc = "enforcing" /\ op.queue = {}
    /\ \/ /\ Written([ledger EXCEPT !.gen =
                        [p \in Profile |-> IF p \in op.moved THEN Unknown ELSE @[p]]])
          /\ IF op.by \in Build
             THEN End(op.by, IF op.failed THEN "AnalysisFailed" ELSE "Succeeded")
             ELSE UNCHANGED build
       \/ /\ op.moved # {} /\ WriteFails
          /\ IF op.by \in Build THEN End(op.by, "AnalysisFailed") ELSE UNCHANGED build
    /\ op' = Idle
    /\ UNCHANGED <<saved, files, slot, analyst>>

-----------------------------------------------------------------------------
(* Undo, other programs, the end of the program *)

\* The cleanup's undo of an eviction; it needs the path to be free.
Undo(p) ==
    /\ WriterFree /\ vault[p] # None /\ file[p] = None
    /\ file' = [file EXCEPT ![p] = vault[p]] /\ vault' = [vault EXCEPT ![p] = None]
    /\ UNCHANGED <<saved, ledger, slot, build, analyst, op, upsets>>

OutsideEdit(p) ==
    /\ Upset
    /\ \E f \in {None, Other} \ {file[p]} : file' = [file EXCEPT ![p] = f]
    /\ UNCHANGED <<saved, ledger, vault, slot, build, analyst, op>>

\* Runs are kept in memory only; the Job Object ends a build with the program.
Restart ==
    /\ Upset
    /\ active' = None /\ cancelled' = {}
    /\ build' = [b \in Build |-> IF build[b].pc = "none" THEN NoBuild ELSE Past(b)]
    /\ analyst' = [a \in Analyst |-> "idle"]
    /\ op' = Idle
    /\ UNCHANGED <<saved, ledger, files>>

-----------------------------------------------------------------------------

Settings ==
    \/ \E p \in Profile : Register(p) \/ Forget(p) \/ RemoveRoot(p)
    \/ Answered \/ Forgotten
    \/ \E on \in BOOLEAN, projects \in SUBSET Profile : SetPolicy(on, projects)

Command(b) ==
    \/ \E p \in Profile : Start(b, p)
    \/ CancelRun(b)

\* The thread of a run, as far as it returns by itself.
Running(b) ==
    \/ Queue(b) \/ BuildBusy(b) \/ Launch(b) \/ Clear(b)
    \/ b \in cancelled /\ BuildEnds(b)
    \/ Commit(b) \/ RollBack(b) \/ Select(b) \/ Enforce(b)

Analysing(a) == AnalysisSkips(a) \/ AnalysisEnters(a) \/ Observe(a)

Enforcing == (\E p \in Profile : Evict(p) \/ EvictFails(p)) \/ Prune

Environment ==
    \/ \E p \in Profile : Undo(p) \/ OutsideEdit(p)
    \/ Restart

Next ==
    \/ Settings
    \/ \E b \in Build : Command(b) \/ Running(b) \/ BuildWrites(b) \/ BuildSucceeds(b) \/ BuildEnds(b)
    \/ \E a \in Analyst : AnalysisReads(a) \/ Analysing(a)
    \/ Enforcing
    \/ Environment

Spec == Init /\ [][Next]_vars

\* Threads run on, and a lock that is free again and again is got in the end.  Nothing
\* is assumed of the build itself, which ends when it is cancelled, nor of the user,
\* who may leave a dialog open, and the writer taken, for ever.
FairSpec ==
    /\ Spec
    /\ \A b \in Build : SF_vars(Running(b))
    /\ WF_vars(Enforcing) /\ WF_vars(Forgotten)
    /\ \A a \in Analyst : WF_vars(Observe(a))

-----------------------------------------------------------------------------
(* Properties *)

\* Nothing in the ledger names a forgotten profile, although profiles and ledger are
\* two files, written one after the other, and a run keeps its own copy of the
\* profile: such a ledger could never be read again.  Nor does it credit a run that was
\* reported as cancelled, though cancellation may win after the stamp was written
\* (docs/build-artifact-budgets.md: "No success stamp or cleanup was committed").
LedgerIsTrue ==
    /\ Valid(ledger)
    /\ ledger.stamp # None => build[ledger.stamp].state # "Cancelled"

\* A cancelled run gives the slot back, whatever the build does and whoever else takes
\* the writer.  One thing only can keep it: a run that waits for the writer to commit
\* waits as long as the dialog for a new profile is open, and nobody has to answer that.
HeldByDialog(b) == op.pc = "asking" /\ build[b].pc = "commit"
CancelEndsRun ==
    \A b \in Build :
        []<> ~ HeldByDialog(b) => ((active = b /\ b \in cancelled) ~> active # b)

=============================================================================
