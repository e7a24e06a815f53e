# Verification of supa-diska-klinah

TLA+ models of the disk cleaner's own state machines, the TLC runs that check
them on small instances and the TLAPS proofs about them for every instance.
Paths below are relative to `src/`; `C/` stands for `src-tauri/crates/` and
`W/` for `C/windows-platform/src/`.

## The system

A Tauri desktop program for Windows. The webview sends opaque identifiers; Rust
resolves every path, keeps every record and performs every effect. One process
runs per user session (nothing enforces that it is the only one). Commands run
concurrently on blocking threads; each service guards its own state with
mutexes.

| Component | State it keeps | Operations | Hard behaviour |
| --- | --- | --- | --- |
| Storage cleanup (`W/cleanup/execution.rs`, `storage.rs`, `filesystem.rs`) | immutable plans, one journal per execution, recovery payloads | create plan, execute, undo, history, reconcile at start | crash between journal write and rename, failing journal write, user edits between plan and effect, two plans over one group of duplicates |
| Temporary-cache cleanup (same files, legacy scope) | the same journals, the automatic policy, purge deadlines | preview, plan, execute (recycle, quarantine, permanent), undo, purge, maintenance | policy changed while maintenance runs, cross-volume copy, purge and undo of one payload, crash anywhere |
| Build artifact coordinator (`W/cleanup/build_artifacts.rs`) | profiles, budget policy, generation ledger, run registry | register, start, run, cancel, commit, analyse, enforce budget | cancellation racing the commit, profile forgotten while a run starts, analysis racing a build, stale policy |
| System changes (`W/system_change/`, `C/cleanup-core/src/system_change.rs`, `W/security/`) | change plans, change journal | plan, confirm, execute, roll back, reconcile; elevated batches through a helper process | expiry, single use, helper that answers late or not at all, crash between intent and outcome |
| Vendor uninstall jobs (`W/storage/vendor_jobs.rs`) | ledger of jobs, the one active job | prepare, confirm, run, cancel, release, status | cancel racing launch, expiry, the writer shared with cleanup, restart during a launch |
| Storage scans (`W/storage/scans.rs`, `root_picker.rs`) | one active worker, two completed snapshots, root authorizations | authorize, start, page, select, cancel, release, expire | cancel or release racing completion, eviction and expiry of a snapshot in use |
| Protection quarantine (`W/protection/quarantine.rs`) | one record and payload per entry | quarantine, restore, delete, reconcile | crash between copy, record and delete; source in use or replaced |
| Rule packs (`W/protection/rules_store.rs`) | pack directories, pointer file, active pack | install, restore previous, recover | crash in install, corrupt pack, sequence rollback |
| Self-update (`W/self_update/mod.rs`) | state file, staged installer, checked manifest | check, download, install, discard, recover | crash or failed download after an interrupted install |
| Protection scans and settings (`W/protection/service.rs`, `scan.rs`) | last report, scan slot, settings | scan, cancel, settings | files replaced between look, digest and signature; a cancellation in the last file; report replaced while a finding is used |
| Scheduled scans (`W/scheduler/`) | task definitions, 50 summaries | register, delete, record | two writers of the summary file |
| Rule engine (`C/cleanup-core/src/{engine,rules,filesystem}.rs`, `scanner/`) | jobs, shared budgets, drafts, snapshot | load catalog, discover, measure, revalidate, finalize | the folder changes while it is read, budgets shared by workers, cancellation, links and overlaps |
| Storage finders (`C/cleanup-core/src/storage/`, `W/storage/{duplicates,browser,cleaner}.rs`) | stack of the walk, collectors | walk, collect, hash, publish, select | the same, and prefix before full digests, a copy that must stay |
| System adapters (`W/{hosts,firewall,power,privacy,services,startup_items,drivers,updates,restore,scheduler}/`) | hosts backups; everything else is Windows' | describe, observe, list, apply, undo | Windows changes between preview and write; what is offered must be what is taken |
| Front end (`src/`) | React state | pages and dialogs | answers out of order |

The parts meet in four places. `CleanupService::writer` serialises cleanup,
build commits and vendor ledger writes. Budget enforcement executes a plan that
the cleanup engine journals, so legacy undo, purge and reconciliation see it.
`StorageService` snapshots are the only source of storage plans and vendor
jobs. At start `lib.rs` reconciles cleanup journals (an error aborts the start),
recovers rule packs and quarantine, then runs maintenance and build analysis in
the background.

## What must hold

- *Cleanup.* No effect without a durable record that admits it; a settled record
  is true; records never move back and no item is attempted twice; nothing is
  overwritten by undo; at least one copy of a duplicate stays; after a start every
  payload in recovery is accounted for.
- *Build artifacts.* A run that reports cancelled leaves no success stamp; the
  ledger never names a forgotten profile; the policy file can be read whatever is removed.
- *System changes.* A plan is used once, within its minute, only when confirmed; a
  change is applied only from the state it was planned for; the journal never
  claims less than what happened.
- *Vendor jobs.* A job launches at most once, never after its cancellation was
  acknowledged, never after a restart.
- *Scans.* At most one worker; a selection resolves only in a live, complete
  snapshot; a scan that reports nothing missing missed nothing, a size shown was real,
  what is offered as empty is empty, and a selection of duplicates spares a copy. A report
  on threats that claims no limit and no cancellation names all it should.
- *Quarantine, rule packs, update.* Whatever is interrupted, the user's file is at its
  path or whole in an entry, and what the user put at that path stays; a start finds
  the active pack or the one on its way, and its sequence falls only on request; only
  newer, verified installers are opened and an opened one is remembered.
- *Adapters.* A rollback that is offered is taken and restores what was observed; what
  is replaced is what the user was shown, as far as the adapters compare again; drivers in use, boot services and foreign tasks
  are left alone.

## Plan

| | Module | Models | Composes | State |
| --- | --- | --- | --- | --- |
| 1 | `StorageCleanup`, `RecoveryVault` | storage-scope plans, execution, undo, start-up; abstract custody | `RecoveryVault` as refinement target | done, safety and refinement proved |
| 2 | `TemporaryCleanup` | legacy scope: dispositions, cross-volume moves, purge, policy, maintenance | with 3 through the shared journals | done, safety proved |
| 3 | `BuildArtifacts` | profiles, run registry, commit and rollback, analysis, enforcement, policy | evictions become entries of 2 | done, safety proved |
| 4 | `SystemChange` | plans, journal, standard and helper execution, reconciliation | | done, safety proved |
| 5 | `VendorJobs` | ledger, active job, worker thread | the shared writer | done, safety proved |
| 6 | `StorageScans` | worker, snapshots, authorizations | source of plans for 1 and 5 | done, safety proved |
| 7 | `ProtectionQuarantine`, `RulePacks`, `SelfUpdate` | crash-safe stores | | done, safety proved |
| 8 | `AdapterRules`, `SystemAdapters` | each adapter's rules; one change from preview to rollback against a Windows others change | the adapter side of 4 | done, safety proved |
| 9 | `ScanTree`; `RuleCatalog`, `ScanEngine`; `StorageFinders`; `ThreatScans`; `FolderScans` | the tree others edit; rules and the rule engine; the walk and its collectors; the threat scan; each of them over the tree | what 2 and 6 take as given | done; safety proved but for totals, silence and completeness |

## Modules

### StorageCleanup

One `Plan` stands for a plan and its execution. `plan` is `cleanup/plans`, `disk`
the journals in `cleanup/executions`, `mem` the `ExecutionJournal` an operation
works on, `op` the operation that holds `writer` with the place it has reached
(`next`: between items, `effect`: intent written, `record`: effect done, outcome
not yet written). `at` says where the bytes of each scanned file identity are;
because storage effects go through handles bound to one identity, they are in
exactly one place. `occupied` holds original paths that something else now has.

`BeginExecute`, `ExecuteIntent`, `ExecuteEffect`/`ExecuteRefuse`, `RecordItem` and
`Finish` are the stretches of `execute_inner` between two points at which the
outside world can interfere: journal writes and file-system calls. `BeginUndo`,
`UndoProtected`/`UndoUnproven`/`UndoIntent`, `UndoEffect`/`UndoRefuse` are those of
`undo_storage`. `Start`, `Reconcile`, `StartFails` and `Started` are
`CleanupService::new`. `WriteFails` is a `?` on a journal write; `Crash` may come
anywhere; `UserDeletes` and `UserCreates` are the user's own file operations, which
the handles in `Pinned` refuse.

Abstractions: a plan of duplicates has one group, hence one keeper; the order of
items is left open, which covers every order the code sorts them into; byte
accounting, failure texts and the checks of protected paths are one
nondeterministic refusal; the Recycle Bin always refuses, as
`reject_identity_required` does; a journal that cannot be parsed is a failed start.

### RecoveryVault

The promise behind the journals: a plan has authority for one effect per file, of
the kind it was made for, and only its own moves can be returned.
`StorageCleanup!VaultSpec` is the refinement: authority is *unused* until the
journal says Mutating, *armed* while an execution is between intent and effect, and
*spent* for good afterwards, whatever crashes, restarts or undo operations follow.

### TemporaryCleanup

The legacy scope of the same engine: plans of caches that are recycled, quarantined
or deleted. Effects are path based and not atomic, so content is tracked per place:
`src` is what is at an item's own path (whole, part of a tree, nothing, or something
new), `pay` its payload in each execution's quarantine, `bin` the Recycle Bin.
`op` again is the holder of `writer`, with a `kind` and a place; `run` are
maintenance runs, which are sequences of operations that each take the writer for
themselves (`run_maintenance`: `ReadPolicy`, `Preview`, `MaintenancePlans`,
`MaintenanceExecutes`, `BeginPurge`), so anything may happen between two of them.

`ExecuteIntent`, `Recycle`, `Move`, `Copy`, `BeginRemoval`, `RemovePiece`,
`RemoveRest`, `ExecuteFails`, `RecordItem`, `FinishExecute` are `execute_inner` and
the three dispositions; a move to another volume is `Copy` and then a removal piece
by piece (`remove_tree_no_follow`). `Undo*` and `Restore*` are `undo`, which writes
no intent. `BeginPurge` to `FinishPurge` are `purge_due`, which writes each
journal once at its end. `Abort` is every `?` that leaves an operation
with what was last persisted; `Restart` is the death of the program and
`CleanupStorage::reconcile`, after which `lib.rs` starts a maintenance run.

Abstractions: the preview finds any part of what is present; candidates, sizes and
accounting are left out; deadlines are the set `due`, which time may extend at any
step.

### SystemChange

`plan` is the plan store of `SystemChangeService` (an executed plan keeps its
contents for the model's journal entries to refer to), with the two clocks of the code: `fresh`
is the minute since the preview, `confirmed` the minute since the answer. `exec`
holds `running`; `mem` and `disk` are its copy of the journal and the file; `helper`
is the elevated process of each plan; `sys` and `writer` are the settings and who
wrote each value last. A rollback plan is an ordinary plan whose changes name the
entries they take back.

`StorePlan`, `OpenDialog`, `AnswerYes`, `AnswerNo`, `Begin`, `BeginFails` follow
`store_plan`, `confirm_with_strings` and the head of `execute`. `Standard*` is
`execute_standard`; `HelperIntent`, `NotSent`, `Sent`, `Answered`, `ResponseLost` are
`execute_helper_batch`; `HelperItem`, `HelperAnswers`, `HelperDies` are
`apply_batch` in the helper, which goes on when the program times out or restarts.
`Reconcile` is `reconcile_interrupted`. A helper that the program no longer waits for
is *late*: it may still act after its entries were reconciled. An adapter makes its change,
or fails and leaves the setting as it was, or fails after it wrote (`WriteThenFail`): then the
setting has any other value, and the entry, which the code records as *Failed* like any
other, is `torn`. `EffectsStayAccounted` excepts what late helpers wrote (`GivenUp`) and torn
entries, and no others.

Abstractions: an adapter's change is one write (`SystemAdapters` has what each of them does); a
restore point has no value anybody can observe; all outcomes but *Applied* are one; the trim at 500 entries and the move of a damaged journal are not
modelled.

### VendorJobs

`ledger` is the ledger in memory and `disk` the file, `active`/`busy` the one
active job and whether a thread works on it, `cancel` the flags. A thread that
confirms a job stands for the worker it spawns too: the code never has both at once.
`writer` is the mutex shared with cleanup, which `Other` may hold for as long as it
likes; `vendor` is the uninstaller itself, which outlives the program; `told` are
the jobs some status call has reported as cancelled before launch.

`Prepare`, `Prepared`, `Ask`, `AnswerYes`, `Queue` split `prepare`, `confirm_native`
and `confirm` where they let go of the mutex; `Validate` to `Finish` are the
worker (`run`) at the same granularity, with `Armed` for the last look at the flag
and `ShellStarts`/`ShellRefuses` for `ShellExecuteEx`. `Restart` is
`with_boundaries`. Registry and file evidence is a nondeterministic answer; the limit
of 256 records is a refused `Prepare`.

### BuildArtifacts

`profiles`, `roots`, `enabled` with `overrides`, and `ledger` are the four files of
the coordinator: saved profiles, project roots, budget policy and generation ledger
with the stamp of the last success. `active` and `cancelled` are
`RunRegistry::active`; `build` is the thread of each run, which holds its own copy of
the profile; `analyst` a thread in `analyze_external`; `op` the one of them that has
the shared writer. `file` is what is at each profile's artifact path, named by the
build that wrote it last, and `vault` what was evicted from there.

`Start` and `Queue` are `start_run` before and under the registry's lock; `Launch`,
`BuildSucceeds`, `BuildEnds` and `Clear` are `run_profile` with the process runner;
`Commit`, `RollBack`, `Select` and `Enforce` are `commit_success`, cut at its three
looks at the flag and at its writes. `Observe` is `analyze_external` under the writer;
`Evict`, `EvictFails` and `Prune` are `enforce_budget` with
`execute_registered_artifact_plan`. `Forget` and `Forgotten` are the two writes of
`remove_profile`; `Register` and `Answered` are `register_profile` before and after its native
dialog, during which it keeps the writer. The store's validation of one file against the others is `Valid`
and `PolicyReadable`.

Abstractions: one Generation path per profile and one root per profile (dependency
and incremental paths are never eligible); every write makes a new file, so a change
in place, which only restarts the grace period, is not modelled; limits, ages and
ranking are a choice among the eligible; the move into the quarantine and the
journal around it are one step, `TemporaryCleanup` has them.

### StorageScans

`svc` is the `State` behind the mutex of `StorageService`: the active scan, the
completed snapshots, their pages (`SnapshotPages`, a queue of its own) and the root
authorizations. Every operation first runs `State::maintain`; `Maintained` is the part
that joins a finished worker and publishes it, `Expire` the part that drops what was not
accessed for ten minutes. An access puts that off, so it may come at any time but never
during an operation; the operations that only read (`page`, `drive_issues`,
`resolve_root`, `resolve_drive`) therefore change nothing but what `Maintain` changes.

`scan` is the worker of each scan with what it shares outside the mutex, the token and
the status. `Rebind`, `AddCandidate`, `Push`, `Runner*`, `Terminal`, `Return` are the
closure in `start_with`, cut wherever a cancellation can come between: before the
runner, between evidence and its row, after the runner looked for the last time, after
the phase was set and before the thread can be joined. `Finish` is what the worker does
with what its runner left. `Start*`, `Status*`, `Resolve`, `Cancel`, `Release*` and
`ShutDown` are the service's methods of these names; `release_for` looks and releases
under two locks, but what belongs to a feature never changes.

Abstractions: a snapshot has at most one piece of evidence, whole or without its row;
cursors, sort orders and limits of pages are left out; `SnapshotBuilder::finish` refuses
nothing but evidence without a row, but a runner that ends by itself leaves none
(`RunnerEnds`) and that of a cancelled one is thrown away, so this refusal never decides.

### ProtectionQuarantine

`entry` is the directory of each entry with its payload (`tmp` while it is copied,
`bin` once published) and its record; `at` is what is at the original path, by content
(whole, edited, part of it, a restored copy, something new); `op` is the command each
thread runs, at the granularity of one file-system call, because no lock orders
`quarantine`, `restore` and `delete`. `Quarantine`, `CopySource`, `Publish`,
`RecordPending`, `DeleteSource`, `RecordComplete` are `quarantine`; `Restore`,
`RecordRestoring`, `CreateTarget`, `WriteTarget`, `RecordRestored` are `restore`;
`Delete`, `RemovePiece`, `RemoveDirectory` are `remove_entry`. `Crash` kills the program
and leaves every entry in `waiting`; `DropStale`, `AssumeDeleted`, `FinishDelete`,
`FinishRestore`, `TakeBackRestore` and the others that end in `Settling` are the cases of
`reconcile`.

Abstractions: the hash comparison is the `Content` it tells apart; ledger limits,
identifiers and the listing of damaged entries are left out; a second instance of the
program that reconciles while this one works is not modelled.

### RulePacks

A pack is its sequence number. `pack`, `pointer` and `staging` are the files of the
store, `mem` the active pack with where it came from and the previous one, `thread` the
place of each command in its install, restore, download or scan. `Stage`, `Rename`,
`ReplacePointer`, `Activate`, `Prune` are `install`, cut at each file operation, under
the rules lock; `Download` and `Fetch` run before it without the lock; `PointBack` and
`ActivateRestored` are `restore_previous`; `Restart` is `recover` of the same or a newer
build, whose fallbacks are `Recovered`. `Damage` is anybody else's hand on a pack or the
pointer.

Abstractions: signature and parsing are whether a pack `Loads`; several failures of one
install are one bounded count.

### SelfUpdate

`disk` is the state file, `file` the staged installer of each release by whether it is
the manifest's, `inner` the service's memory, `op` the one operation that holds the
operation lock with its place. `CheckFinds` to `DiscardEnds` are `check`, `download`
(`DownloadUpdate`), `install` (`InstallUpdate`), `discard`, cut at each write of the state
file and each file operation;
`Recover` is the start, with `Recovery` and `Kept` for what it makes of the record;
`RestartAs` ends the program at any step and starts any version, since installers and users
may put another one in its place; `opened` and `unseen` are history variables about the
installer opened last.

Abstractions: signature, size and digest are `good` or `bad`; schedules of automatic
checks are any `CheckFinds` at any time.

### AdapterRules and SystemAdapters

`AdapterRules` has, for each of fourteen kinds of change, the part of Windows its
adapter reads (`...World`), what it observes and lists (`Observe...`, `Lists...`), the
last look before its write (`Apply...`) and what that write may come to (`Write...`).
`SystemAdapters` runs one change at a time against it: `Preview` or
`CreateRollbackPlan`, `Check` (the state the plan was made from), the last look, `BackUp`
and `CompareAgain` for the hosts file, `Write`, with `OtherProgram` acting once between
any two steps. `backups` are the copies the hosts adapter keeps and prunes by the second
in their names; `ClockSetBack` is the user's clock.

Abstractions: texts are what the adapters tell apart (a DWORD is a permitted number,
another one, or not a number; a line of the hosts file is a mapping, one the program
disabled, or another); COM, WMI and PowerShell sessions either answer or fail; the audit
findings of firewall and hosts pages and the update search are left out.

### ScanTree, RuleCatalog, ScanEngine, StorageFinders, ThreatScans, FolderScans

`ScanTree` is the folder that is scanned: what is at each path with its identity,
content and the time of its last change, which folders are protected or cannot be
listed, and `OtherPrograms`, which write, delete, create, redirect or deny between any
two steps of a scan. `touched` is where they did, so that the properties speak of what
nobody touched.

`ScanEngine` is a scan of `engine.rs` under the rules of `RuleCatalog` (`rules.rs`):
`TakeJob`, `ReadFolder`, `ExamineEntry`, `EndJob` are the workers of
`scanner/` with the budgets they share; `StartDraft`, `MeasureFolder`, `MeasureEntry`,
`LookAgain`, `TakeDraft` are the measurement and its second look; `Finalize` drops
overlaps and second names. `StorageFinders` is the walk of `storage/walk.rs`
(`ListFolder`, `VisitEntry`, `LeaveFolder`), the collectors it calls
(`CollectFile`, `EnterFolder`, `LeaveEmpty`, `CountFile`, `CollectMatch`), the
two rounds of digests (`StartHashing`, `ReadFile`, `EndReading`), the rows that are
published and the selections of duplicates that are accepted (`Accepted`). Of any file the
evidence may be out of reach (`proven`): its second look fails, its date is before 1970 or its
allocated size is unknown. Cleaner and browser then leave the file out without a mark, the
duplicates hash only what is `Proven`, and the large files show it all the same.

`ThreatScans` is a scan of the antivirus pages: `StartSweep`, `NextTarget`, `EndSweep` are
`Scanner::run`; `GivesUp`, `Look`, `LookFails`, `List` are `walk`; `OpenFile`/`OpenFails`,
`HashFile`/`ReadHeader`/`ReadStops` and `Judge` are `scan_file` between two points where
the tree may change, with what a handle may read of a file that is written meanwhile
(`Readable`). `List` may lose entries, as `entries.flatten()` loses those whose enumeration
fails; `dropped` remembers them for the properties and is no state of the code. `Hits` is `FileMatcher::finish`, `Heuristics` and `Unchecked` are
`evaluate_file`, `Verify` is `SignerCache::verify`, `Tell` is the limit on findings. The
order in which a file system lists a folder is any (`Orders`).
`FolderScans` runs one of the three over one tree.

Abstractions: prefixes and suffixes of a rule are the sets of names they stand for;
rule identifiers, provenance and text limits are left out; errors of the file system
within `measure` beyond denied folders, allocated sizes and the activity shown next to a
browser are left out; the second validation in `read_dir` is one step with the listing;
of a threat scan the opinion of the installed antivirus, counters, the cache of signatures,
and several hits in one file are left out, and a content torn by a write matches nothing;
of the sort orders only size, then path, is modelled. A re-listing sees every
change of a folder, as the folder times of NTFS allow.

## Runs

| Run | Instance | Shows |
| --- | --- | --- |
| `storage_cleanup` | 2 files, 2 plans, 1 failing write, 2 crashes, 1 user edit | journals are written ahead, true, and move forward; a copy remains; a start accounts for every payload; the refinement of `RecoveryVault` |
| `temporary_cleanup` | 2 items, one on another volume, 1 plan, 1 maintenance run, 2 crashes or aborts, 1 edit, 1 policy change, fair | content is lost only by a permanent plan or a due purge; settled entries leave nothing behind; every maintenance run ends |
| `system_change` | 2 plans of one change, an ordinary and a helper setting, 2 values, one fault, crash and edit each | consent before record before effect, a journal that moves forward, honest rollbacks |
| `system_batch` | 1 plan of up to 3 changes: a restore point and an irreversible setting, fair | effects stay accounted for, through one failing save or one adapter that writes and fails; nothing permanent without the restore point asked for; an execution ends |
| `vendor_jobs` | 2 jobs for 1 program, 2 threads, 1 failing write, 1 restart, fair | no replay, final cancellation, durable intent; a cancelled worker ends although a cleanup may hold the writer for ever |
| `build_artifacts` | 2 profiles, 2 builds, 1 analysis, 1 upset (a failing write, the end of the program, an outside edit, a change of policy or roots), fair | the ledger names what is registered and credits no cancelled run; a cancelled run gives the slot back, unless it waits to commit while a dialog is never answered |
| `storage_scans` | 3 scans, 2 retained snapshots, 1 authorization, 3 features, fair | snapshots and pages in step; nothing can be selected in what was cancelled or cut short; a cancelled or released scan gives the slot back |
| `protection_quarantine` | 1 file, 2 entries, 2 threads, 2 failing calls, 2 crashes, 2 edits | the content survives, the user's files stay, no entry stays hidden |
| `rule_packs` | 4 sequence numbers, 2 threads, 1 failure, 2 restarts as any build, 1 damage | a start finds the active pack or the one on its way; the sequence falls only on request or by damage |
| `self_update` | 3 releases, 2 failures each of fetches and writes, 2 restarts as any version, 2 edits | only newer, verified installers are opened; an opened one is remembered |
| `system_adapters` | every kind of change, 3 runs with rollbacks, 1 act of another program, hosts files of 2 lines and 2 backups, 3 driver packages | what is offered is taken, undo restores, what was shown is replaced or what came after the comparison, never what must stay nor lines of others in the hosts file |
| `folder_scans` | 7 paths, 4 start trees, with and without a protected folder, 4 rules (one deprecated) under 2 sets of limits, 16 finder requests over 4 cleaner targets and 2 browser layouts, 4 threat scans; 1 edit, 1 cancellation | totals were real; silence means complete; empty means empty; complete means all whose evidence can be had, and nothing is refused at the end; duplicates spare a copy; a threat report without a limit or a cancellation overlooks nothing that the enumeration gave it |

*Bounds.* Two files or items are enough for a copy to keep and a copy to take, for
one item done and one pending, and for two plans that name each other's keeper; two
plans or jobs for a second execution over the first one's leavings. One fault of each
kind at any step reaches each window between two writes; a second crash falls into the
recovery from the first. Two changes make an execution mix ordinary and helper changes,
the third puts a refusable change on either side of the restore point. Two builds of two
profiles are an older success to evict and the newer one that evicts it; two builds of
one profile are a success and a run whose commit is taken back. Three scans fill the two
places the code retains and evict one, with a failed scan first, in the middle or last.
Two entries of one file are a quarantine over the leavings of another one. Four
sequence numbers are an embedded pack, an installed one, a newer one and a download that
comes late; three releases are the running one, a staged one and one that overtakes it.
In `folder_scans` the trees have a second name of one file, two files that differ after
the part the first digest reads, an empty folder within an empty folder and a folder to
prune; the threat scans meet a content known by hash, one known by its bytes, one known by
name, each signature and each kind of place, and limits on files, bytes, depth and findings
that bind; one edit between any two steps suffices for every window between a look and its
use, because each is a window between two looks at one path.

`CHECK_DEADLOCK FALSE` is there because a program that has no commands left to run
really stops, and because jobs, plans, entries and scans are used up; `rule_packs`,
`self_update` and `folder_scans` are checked for deadlock. Symmetry is used only where no
liveness is checked. Every module has a type invariant; those of the modules of
`folder_scans` can be added to its .cfg, that of `SystemAdapters` is `AdapterTypeOK` of
`WindowsActions_proofs`, and all but those of `folder_scans` are proved.

*Fairness.* `FairSpec` always is fairness of the next step of a thread that is
running: in `TemporaryCleanup` the holder of the writer, and strong fairness of a
maintenance run, because the writer it waits for is a lock that others take and release
for ever; in `SystemChange` the executing thread, whose wait for the helper ends by
`SOCKET_TIMEOUT`; in `VendorJobs` the worker, whose polling loop returns by itself;
in `StorageScans` the worker, whose runners are cooperative ("Runners must be
cooperative"), and the reaper's tick;
in `BuildArtifacts` a run's thread (strong where it waits for the writer) and the
holder of the writer, but for the dialog of `register_profile`, which is never assumed to be
answered: `CancelEndsRun` has as its premise that a run at its commit is not kept there by an
open dialog for ever. `TemporaryCleanup` does not contain that dialog; since the writer is
the same, its `MaintenanceEnds` speaks of a program in which each such dialog is answered.
None is assumed of commands, of the user, of faults, of the helper, of
`ShellExecuteEx`, of a build that is not cancelled, of another holder of the writer, or of the outcome chosen.

## Proofs

`StorageCleanup_proofs` proves, for any number of files and plans, any bounds and
either value of `SpuriousGuard`:

- `TypeCorrect`: `Spec => []TypeOK`
- `JournalsWrittenAhead`: `Spec => []WriteAhead`
- `JournalsTruthful`: `Spec => []Truthful`
- `JournalsMoveForward`: `Spec => JournalLifecycle`

The invariant is `IInv == TypeOK /\ WriteAhead /\ Truthful /\ OperationConsistent`.
`WriteAhead` and `Truthful` alone are not inductive: recording an outcome writes
`mem` to disk, so one must know that `mem` differs from the journal on disk in the
item in hand only, and that what it says of that item is true of the file system.
`OperationConsistent` says that. `InvStep` has one step per action. The proofs assume
`DistinctConstants` only.

Three more theorems of that module each strengthen this invariant:

- `ACopyRemains`: `File # {} => (Spec => []CopyRemains)`
- `ImplementsVault`: `Spec => VaultSpec`
- `StartUpAccounts`: `~ SpuriousGuard => (Spec => StartUpAccountsForPayloads)`

`ACopyRemains` is that plans of duplicates never remove the last copy. Its invariant is
`KInv == IInv /\ KeepersApart /\ ExecutesItsPlan /\ KeeperStays`. Two plans from one scan
may each keep what the other one removes, so no single plan's keeper stays for ever. What
stays is *some* file at its path, and the keeper of the plan being executed, because the
scope check looked at it while this plan already had the writer. With no file at all there
is no copy, hence `File # {}`.

The invariant of the refinement is `VInv == IInv /\ OwnItems`, where `OwnItems` says that a journal has
entries for its own plan's files only. The abstract state is the authority of each plan
over each file and where the file is; `AuthorityCases` reads it from the journal and the
operation. `CreatePlan` maps to `MakePlan`, `ExecuteIntent` to `Arm`, `ExecuteEffect` to
`Use`, `ExecuteRefuse`, `WriteFails`, `Crash` and `Reconcile` to `Lapse` or a stutter,
`UndoEffect` to `Return`, `UserDeletes` to `Lose`, and every other step stutters
(`BookkeepingStutters`): recording an outcome, completing a journal and the writes of undo
change only entries whose attempt has begun (`WritesOfBegun`).

The invariant of `StartUpAccounts` is `SInv == VInv /\ HeldByQuarantines /\ ExecutionOpen /\
NoStrays`. As long as no journal write failed, a payload in recovery is either *Quarantined*
on disk or *Mutating* in a journal that is still open, which the next start will look at;
while the program runs, *Mutating* is the item in hand and no other. With `SpuriousGuard` a
recovery file that is there may fail to open, and then reconciliation records it as
*Unknown* although the payload is there.

Two modules hold the proofs of two components each, whose names therefore differ:
`WindowsActions_proofs` (`VendorJobs` with `SystemAdapters`) and `Updates_proofs`
(`RulePacks` with `SelfUpdate`).

`WindowsActions_proofs` proves of `VendorJobs`, for any number of jobs, programs, threads,
failing writes and restarts, everything `vendor_jobs` checks except liveness, and `PendingHasSlot`:

- `TypeCorrect`: `Spec => []TypeOK`
- `LaunchesAdmitted`: `Spec => []LaunchIsDurable`
- `CancelledStaysCancelled`: `Spec => []CancelIsFinal`
- `PendingHoldsSlot`: `Spec => []PendingHasSlot`
- `NeverReplays`: `Spec => NoReplay`

None of these is inductive. A second launch is excluded because only the thread that
works on the active job launches (`OneWorker`), because at its last step that job has
not been launched (`WorkerLedger`) and because no other uninstaller of the active
job's program runs (`ProgramFree`). For `ProgramFree` one must know at `Prepare` that
a running uninstaller is either *OutcomeUnknown* in the ledger, which `Prepare` looks
for, or waited for by a worker, which then has the slot (`VendorRunning`). Over a
restart only the file is left, hence the clauses about `disk` in `WorkerLedger` and
`VendorAdmitted`. `ToldFinal` relates a reported cancellation to the flag and to the
last look at it; `SlotLedger` says what the slot means for the ledger. Each conjunct
has a lemma with one step per group of actions. The proofs assume `VendorAssumption`.

`WindowsActions_proofs` proves of `SystemAdapters`, for each of the fourteen kinds of
setting and any number of hosts lines, driver packages, backups, changes and writes by
other programs, everything `system_adapters` checks:

- `AdapterTypeCorrect`: `AdapterSpec => []AdapterTypeOK`
- `RollbackRestores`: `AdapterSpec => []UndoRestores`
- `OffersAreTaken`: `AdapterSpec => []OfferedIsTaken`
- `WritesWhatWasShown`: `AdapterSpec => WritesOverWhatWasShown`

`WritesOverWhatWasShown` protects the state that was shown up to the comparison by `execute`.
Between it and the adapter's last look only three kinds look for it again (`Recompares`); for
the others the property says what of a foreign write survives, and that nothing that must
stay is touched. What is written after the last look is out of any adapter's sight (`raced`).

The invariant is `AdapterInv == AdapterTypeOK /\ Recorded /\ AsShown /\ Allowed /\ BackedUp /\
LastMade /\ UndoRestores`. What holds when a change is written was looked at steps
before: `AsShown` carries the comparison with what the user saw (`Unsatisfied`: and that
something else was asked for, which `LooksAgain` needs of a late change), and `Allowed` the adapter's
last look, to the write, as long as no other program came between. `BackedUp` is why pruning
never takes the copy of the file that is about to be replaced: the copy is of a later second
than every other one (`NewestKept`), unless the clock went back. Of a rollback one must know what the
world is *now*, and why: `LastMade` says that Windows is what the last change makes of some state
that is observed as the recorded prior one, and `Recorded` that the entry has that change's
inverse. From there the rules of the adapters decide, one proof by cases over the kinds each:
`Takes` (the adapter lets the inverse through), `Undoes` (it restores what was observed; for
the hosts file `EditUndone`), `ListedIsPreviewed` and `Spared`. The proofs assume
`RunAssumption`, of which they use that at least one backup is kept.

`Scans_proofs` proves of `StorageScans`, for any number of scans, roots and features and any
`MaxSnapshots`, everything `storage_scans` checks except liveness, and `ReleasedIsGone`:

- `TypeCorrect`: `Spec => []TypeOK`
- `QueuesInStep`: `Spec => []PagesMirrorCompleted`
- `CancellationHolds`: `Spec => []CancelIsKept`
- `ReleaseHolds`: `Spec => []ReleasedIsGone`
- `TrustIsEarned`: `Spec => []TrustedAreWhole`

The invariant is `IInv == Held(svc) /\ WorkersOK /\ AnswersOK`: what the service holds
agrees with the workers, each worker's phase with how far it came, and the answers given
so far with both. `Held` takes the record as a parameter because every operation first
makes `Maintained` of it: `MaintainedHeld` is proved once, and each operation starts from
there. `PublishedQueues` is its core. The two queues evict separately, but pages are a
subset of the completed snapshots, so that when the pages are full they are those of all
completed snapshots and both queues lose the same oldest one. `ReleaseHolds` needs that a
busy worker is the active one, until shutdown, and that identifiers are never used
again. `WorkerStep` says what a step of a worker may change; each step is shown to be
one. The proofs assume `ScanAssumption`.

`Scans_proofs` proves of `ThreatScans` in `FolderScans`, for every folder with links and
second names of files, every scope and limits, and any number of changes by other programs
between two steps of the scan:

- `ReportsOverlookNothing`: `FolderSpec => []NothingOverlooked`

The statement excepts a file that the enumeration of a folder lost, or lost a folder above
it (`Listed`), and nothing else; without that exception TLC finds the report of an untouched
folder that leaves a file out.

The invariant is `TreeInv /\ SweepInv`. `SweepInv` follows each file the report must answer
for (`Due`: it is in the scope, was not lost, and nothing was done to it or above it but that a
folder may have been denied) through the walk. The file is `Ahead` of a target or of an entry of
the heap, and then at a depth from which the walk still comes to it, or it is in hand with
what was found of it so far (`InHand`), or the report has `Answered` for it, or it is
`Excused` by the file or a folder above it being told as unavailable. A step that drops an
entry must therefore show that nothing due was ahead of that entry alone, or tell it; a
report is only made when nothing is ahead. That needs of the tree what a scan never looks at:
that what is above a due file still is a folder and not a link, and that the identity by
which a handle reads is that of the file the walk saw, under all its names. `TreeInv` says
so: a path that was touched shows the identity it began with only as a written file or a
denied folder, what exists is below folders or below links that came later, and two names of
one file show the same. `WorldKeeps` has one lemma for each thing another program does
(`WriteKeeps`, `DeleteKeeps`, `CreateKeeps`, `RedirectKeeps`, `DenyKeeps`) and `Kept` says
what all of them leave to the scan (`DueStays`); the steps of the scan leave the tree alone.
Each step of the scan has a lemma of its own. The proof assumes `TreeAssumption`,
`StartsAssumption` (what a scan finds is below folders, and names of one file agree) and
`ThreatAssumption`.

Of `StorageFinders` in `FolderScans` it proves, for the same trees and changes, every
protection, every limit and a cancellation at any time:

- `OffersOnlyEmpty`: `FolderSpec => []EmptyIsEmpty`
- `SelectionsSpareACopy`: `FolderSpec => []DuplicatesSpareACopy`

The invariant is `TreeInv /\ FinderInv`. The collector of empty folders is told of events
only, and keeps a level for every folder it was told of and not yet told to leave. `OpenShape`
says that these levels are the folders the walk is in, in order, and at most one more, of a
folder the walk was refused. `Hopes` says what the flag *may be empty* of a level is worth:
while it stands, the folder was listed, nothing in it was given up and no stale level lies
deeper, everything that remains in the folder was found empty, is still to be looked at, or
is the folder the walk is in. When the walk leaves a folder and the flag still stands there is
no third possibility, so what was found stays `Closed`: no folder of it holds anything that
remains but others of it. Each of the three ways to change the chain of folders has its lemma
(`StayKeeps`, `PushKeeps`, `LeaveKeeps`), and the steps of the walk are shown to be one of them.
`ClosedBelow` then goes down from an offered folder to whatever remains below it. Of duplicates
`CopiesInv` says that a digest of the whole file is that of what the file holds, as long as
nobody touched it; members of a group have one digest, so whichever copy `retain_copy` takes
for a selected file holds the same. That the first round compares only a part is harmless
because nothing that was read in it counts in the second (`EndReadingKeeps`). The proofs assume
`TreeAssumption` and `StartsAssumption`.

`Updates_proofs` proves of `SelfUpdate`, for any number of releases, failures, restarts
and edits:

- `UpdateTypeCorrect`: `UpdateSpec => []UpdateTypeOK`
- `LaunchRemembered`: `UpdateSpec => []LaunchIsRemembered`
- `OpensNewerAndGenuine`: `UpdateSpec => OpensOnlyVerified`
- `OffersNewer`: `UpdateSpec => []OffersOnlyNewer`

The invariant is `UpdateInv == UpdateTypeOK /\ NewerOnly /\ HeldIsGood /\ RecoveryFirst /\
Remembered`. That an installer is newer when it is opened rests on everything memory and
an operation hold being newer (`NewerOnly`), which a restart as another version
breaks for the state file; hence `RecoveryFirst`: no operation runs before the start has
looked at it. That it is genuine rests on the handle the operation keeps from the
verification to the launch (`HeldIsGood`). The proofs assume `UpdateAssumption`.

`Updates_proofs` proves of `RulePacks`, for any number of threads, packs, failures,
restarts and damage:

- `TypeCorrect`: `Spec => []TypeOK`
- `RestartsKeepThePack`: `Spec => []RestartKeepsPack`
- `FallsOnRequest`: `Spec => FallsOnlyOnRequest`

The invariant is `IInv == TypeOK /\ HandsOn /\ Ordered /\ Steady /\ NeverDamaged`. What
a restart finds depends on how far the thread with the lock is: `HandsOn` says for each
place what it holds and what the files show of it, `Steady` that an installed active pack
and the one before it load, and that the pointer names them but for the moment between
its replacement and the activation, `Ordered` that what is about
to be activated is above the floor, unless it is being restored, and `NeverDamaged` that
before the first damage no start falls back. The proofs assume
`RulesAssumption`.

`BuildArtifacts_proofs` proves, for any number of profiles, runs and analyses, any order of
removals, cancellations and failing writes, the safety that `build_artifacts` checks:

- `TypeCorrect`: `Spec => []TypeOK`
- `LedgerStaysTrue`: `Spec => []LedgerIsTrue`

The invariant is `IInv == TypeOK /\ Credit`. `LedgerIsTrue` says that the ledger names no
removed profile and credits no run reported as cancelled; neither part is inductive, because
the coordinator writes the ledger before it knows the outcome and writes the previous ledger
back when cancellation won. So `Credit` ties the stamp to its run: `Stamped` has that run at its
commit, with the writer, or past it, `Returnable` says the same of the ledger a rollback
would write back, whose run has ended, and `Shown` when a run can be seen as cancelled at
all. `Valid` is what the store checks of the ledger, that it names saved profiles only; no
write of the ledger breaks it, and a write of the *profiles* does not because a removal
takes the profile out of the ledger first: `Unnamed` covers the time between the two files.
The proofs assume `BuildAssumption`.

`TemporaryCleanup_proofs` proves, for any number of items on either volume, plans,
maintenance runs, crashes, edits and policy changes, the safety that `temporary_cleanup`
checks:

- `TypeCorrect`: `Spec => []TypeOK`
- `NothingStaysBehind`: `Spec => []NothingLeftBehind`
- `DataIsPreserved`: `Spec => DataPreserved`

The invariant is `IInv == TypeOK /\ PayloadsPlanned /\ IntentWritten /\ JournalsClean /\
CopiedWhole /\ PathFree /\ PutBackWhole /\ PurgesWhatIsDue`. `JournalsClean` is
`NothingLeftBehind` for the copy an operation works on too. The next three parts say why a
removal is safe: what an execution is about to remove between volumes was copied whole,
an undo starts where nothing is, and it removes a payload only after it put it back whole.
They are void after an edit, because the code looks at paths and not at handles.
`PurgesWhatIsDue` holds although runs read the policy early: `purge_due` reads it again under
the writer, which a change of policy needs too. Steps on the item in hand are many and alike;
`Handles(p, i)` says what such a step may do to the item, the journal and everything else,
`HandlingKeeps` and `HandlingPreserves` are proved once, and each step is shown to be one.
The proofs assume `TemporaryAssumption`.

`SystemChange_proofs` proves, for any settings, plans of any length and any number of
helpers, faults, crashes and edits, everything `system_change` and `system_batch` check
except liveness:

- `TypeCorrect`: `Spec => []TypeOK`
- `Restored`: `Spec => []RolledBackMeansRestored`
- `Accounted`: `Spec => []EffectsStayAccounted`
- `Guarded`: `Spec => []GuardedByRestorePoint`
- `ConsentAndIntent`: `Spec => ConsentIntentEffect`

The invariant is `IInv == TypeOK /\ PlansInOrder /\ Valued /\ Sound(disk) /\ Sound(mem) /\
Ahead /\ Reached /\ HelperInOrder /\ EffectsRecorded /\ GuardedByRestorePoint`. A failing
save leaves file and copy apart, and a restart takes the file; so what is true of a journal
(`Sound`) is stated of both, and `Ahead` says that the copy never lacks what the file has
settled. `Reached` ties the place of the execution to what is recorded: nothing for changes
to come, an open entry on disk before each write, every entry of the batch before the helper is
asked. `HelperInOrder` is the same for a helper, which works on after the program gave up
and whose answers may come late. `EffectsRecorded` strengthens `EffectsStayAccounted` by the
copy, without which the next save would lose the entry; it asks nothing of the value of a
setting whose adapter failed after writing (`torn`). The proofs assume
`SystemChangeAssumption`; that `None` is no position of a change is needed to tell an entry
that is marked as rolled back from one that is not.

`ProtectionQuarantine_proofs` proves, for any number of files, entries, threads, failing
calls, crashes and edits, everything `protection_quarantine` checks:

- `TypeCorrect`: `Spec => []TypeOK`
- `ContentIsKept`: `Spec => []ContentSurvives`
- `HiddenIsTaken`: `Spec => []HiddenIsAtWork`
- `UsersFilesAreKept`: `Spec => UsersFilesStay`

No lock orders the commands, so the invariant has to say which of them may meet on one
entry or file. A file is held by one quarantine (`OneHolder`, the handle it keeps), the entry of
a quarantine is reached by others only to delete it (`EntryIsOwn`), a restore writes the file
it created itself (`WritesItsOwn`), and the start works alone (`StartAlone`). `InStep` has,
per place of a command, what its entry shows of it. `SourceWhole`, `HollowKnown` and
`ContentKept`, which counts an entry only while nobody is removing it, make the content
survive; `HiddenTaken` is `HiddenIsAtWork` during the start too. `Works(t, own, file)` is
what a step of a working thread may change: that it keeps the invariant is proved once
(`WorkKeeps`), and each of the steps is shown to be one. The proofs assume
`QuarantineAssumption`.

TLC finds no violation of the inductive invariants of these last three modules on the
instances of their runs, nor with a second file or plan where the run has one; that of
`SystemAdapters` holds in all 6.0 million states of the instance of `system_adapters`, and
`TreeInv /\ SweepInv` in all states of the threat scans of `folder_scans`; `FinderInv` holds in
all states of its scans for empty folders and for duplicates, with up to two changes by others.

Only model-checked: the properties of `ScanEngine` (`TotalsWereReal`,
`SilenceMeansComplete`) and `CompleteMeansAll` of `StorageFinders`, which rest on what folds
compute for every tree; and liveness (`MaintenanceEnds`,
`ExecutionEnds`, `CancelEndsQueue`, `CancelEndsRun`, `CancelledEnds`), which is out of the
prover's reach. `TypeOK` of a module without proofs documents its state; it is not among
the properties of the runs.

## Seen while modelling

What the models show as behaviour of the code and no property here forbids, or a property
excepts by name; file and line are those of the code. Where a document says otherwise, it
is quoted.

*Cleanup.*

- An execution whose journal write fails after the rename returns an error and leaves an
  open journal with an item Mutating and its bytes in recovery. If the user undoes that
  execution before a restart, `undo_storage` skips the item and sets `completed_at`
  (`W/cleanup/execution.rs:1514`); start-up skips completed journals and undo skips items
  that are not Quarantined, so the file stays in recovery unaccounted for, while
  `docs/cleanup-recovery.md:25` says start-up records it as quarantined. TLC shows it in ten
  states with one failing write and one crash. `StartUpAccountsForPayloads` speaks of programs without a failed write.
- An interrupted purge leaves part of a payload under *Quarantined*; undo moves that part
  back and reports *Restored* (`execution.rs:1283`).
- A copy between volumes whose original cannot be removed leaves the item *Failed* with
  a payload that is not counted, purged or undone (`Copy`, `BeginRemoval`,
  `ExecuteFails`), while `docs/cleanup-recovery.md` calls `quarantinedBytes` the bytes
  retained by the app.
- A maintenance run that read the automatic policy before it was disabled still
  quarantines (`ReadPolicy`, `DisablePolicy`, `MaintenancePlans`); purge reads its policy
  again. Undo and purge of the legacy scope change payloads without a journal write before.

*Build artifacts.*

- `remove_project_root` asks the store to validate the saved profiles against the
  remaining roots, but not the budget policy (`execution.rs:294`). After a root with a
  project override was removed, `artifact_budget_policy` refuses the saved policy on every
  read: analysis and preview stop, and every build that succeeds ends as *AnalysisFailed*
  after its stamp was written. `docs/project-artifacts.md` says that removing a root only
  forgets the registry entry.
- A budget analysis that read its policy before a change still evicts (`AnalysisReads`,
  `SetPolicy`, `Observe`), and may evict artifacts of a profile whose build started after
  it looked for one (`AnalysisEnters`, then `Queue`). A generation keeps its ownership when
  its profile's next build succeeds without touching a path that another program replaced
  meanwhile (`OwnGeneration`).

- `register_profile` holds the writer of cleanup, builds and vendor jobs while its native
  dialog is open (`W/cleanup/build_artifacts.rs:702`, `:782`). A run that was cancelled while
  it waits to commit (`:1059`) keeps the one build slot for as long (`Register`, `Answered`).

*System changes and adapters.*

- A helper that was given up makes its change after the reconciliation recorded it as
  failed; the change has no undo (`W/system_change/mod.rs:715`).
- An adapter that fails after it wrote is recorded as failed, and its entry offers no undo
  (`W/system_change/mod.rs:540-545`, `W/security/system_changes.rs:285-288`): `powercfg` killed at
  its deadline or ending with an error may have acted (`W/power/elevated.rs:69-77`), and rules of one
  name are set one by one (`W/firewall/windows_policy.rs:333-336`), so a failure leaves a mixed
  set (`WriteThenFail`, `torn`).
- A plan confirmed after its preview's minute has a minute of its own (`ReviewExpires`,
  `ConfirmationExpires`). The helper does not look at restore protection again
  (`W/system_change/elevated.rs:38`).
- Undo of a hosts edit with a line that was in its target state already turns that line
  too (`C/cleanup-core/src/system_change.rs:572`, whose comment at line 510 says undo
  restores what was there), and goes by line number. A clock set back makes the newest
  backup of the hosts file the one that is pruned; what another program writes between the
  last comparison and the replacement is lost (`W/hosts/mod.rs:583-666`).
- Between the comparison in `execute_standard` or `apply_item` and the write, most adapters do
  not compare again: registry settings (`W/privacy/mod.rs:458-469`), policies, services, tasks,
  power plans, hibernation, firewall rules and profiles and schedules replace what another program wrote in
  between, while the journal has the older value as `prior` (`late` in `SystemAdapters`).
- A rollback to a registry value outside the catalog is offered and refused
  (`W/privacy/mod.rs:439`). The pages list firewall rules of one name that differ, update
  policies that are not numbers and tasks this program cannot read as changeable, though
  their preview refuses them. A rollback that finds its value in place already leaves the entry available.
- The rollback of a deleted schedule re-creates it enabled and for this executable, and a
  disabled schedule of the same cadence counts as applied; the delayed start of a service
  is not part of what is recorded; devices whose driver key cannot be opened count as
  having no driver (`W/drivers/windows.rs:339`).

*Scans.*

- The root of a cancelled scan can still be resolved (`resolve_root` looks for the
  snapshot and not for its phase), its rows cannot.
- A candidate folder that holds two names of one file is dropped with a Loop diagnostic; a
  second name outside a kept folder may count its bytes twice. In the cleaner the age limit
  of the first target that matches decides, even if another target would take the file.
- Protection scans go through `entries.flatten()` (`W/protection/scan.rs:218`): an entry whose
  enumeration fails is lost, with all below it, from a report that is neither truncated nor
  tells of it. `docs/protection.md:23` says that scans "report partial results honestly".
  `NothingOverlooked` excepts what was lost that way (`Listed`).
- The cleaner and the browser leave out a file whose second look fails
  (`W/storage/cleaner.rs:596`, `W/storage/browser.rs:429`), and the duplicates one without evidence
  or allocated size (`W/storage/duplicates.rs:129`), of scans that are complete and not partial. A
  date before 1970 is enough (`W/storage/browser.rs:365`,
  `C/cleanup-core/src/storage/large_files.rs:135-141`). `CompleteMeansAll` excepts these files.
- Protection scans skip what is below their depth silently with `truncated` false, while
  `docs/protection.md:23` says partial results are reported (`NothingOverlooked` speaks of
  files within the depth). A cancellation during the last file leaves `summary.cancelled`
  false, though the file is told as one that could not be checked (`ReadStops`). A folder
  that becomes a link between `symlink_metadata` and `read_dir` is followed (`List`;
  `W/protection/scan.rs:216`). A panic keeps the scan slot taken until a restart. Summaries of scheduled scans are read and written by two writers without a lock
  (`W/scheduler/scan_run.rs:58-77`), so one may be lost.

*Quarantine, rule packs, update.*

- A quarantine that is aborted because the original could not be deleted removes its
  payload before its record; a crash between both leaves a SourcePending record over
  nothing, and the next start deletes the original (`torn` in `ContentSurvives`;
  `docs/protection.md:78`).
- After a start fell back to the previous pack, installing the damaged pack's sequence
  again replaces its directory before the pointer (`W/protection/rules_store.rs:327`). A
  download that started before the policy was switched off still runs
  (`W/protection/updates.rs:32`). `C/protection-core/src/pack.rs:327` speaks of "every pack
  ever installed" where the floor is the active one.
- The page shows *Interrupted* without a file after a failed download
  (`W/self_update/mod.rs:187`), and *Verified* after the record of a discard could not be
  written.

## Not modelled

The runs and properties are spent on the parts with durable state, protocols between
actors, or a world that changes under a scan. Left out, with what they would add:

- *Protection service and settings*: one scan slot and the last report with its findings
  behind one mutex, nothing durable; the scan itself is `ThreatScans`.
- *Scheduled scans*: a preview without effects and a list of summaries for display; the
  registration of the task is a kind of change in `SystemAdapters`.
- *Project roots registry*: one file under the cleanup writer. What others see of it is in
  `BuildArtifacts`.
- *Other protection features* (AMSI, Authenticode, breach lookup, processes, Defender
  history): single calls to Windows or to a server whose answer is shown.
- *Settings, history, languages*: single files and read-only views.
- *Command layer and front end*: decoding of requests; the models let any command come at
  any time. Answers out of order in React state are outside.
- *Parsing, signatures and digests*: cryptography and text formats enter as their
  verdict.
- *Token handshake and frames of the helper, COM and WMI sessions, dialogs*: calls to the
  operating system that answer, fail or do not come back.
- *Release and build scripts*: they run outside the program.
