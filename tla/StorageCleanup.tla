--------------------------- MODULE StorageCleanup ---------------------------
(***************************************************************************)
(* Execution, undo and start-up recovery of Storage-scope cleanup plans    *)
(* (large files, rule cleaner, browser caches, duplicates, empty folders). *)
(*                                                                         *)
(* A plan is immutable.  Its execution journal lives on disk and is        *)
(* replaced atomically; an operation works on a copy in memory, `mem',     *)
(* and persists it before and after each file-system effect.  Effects go   *)
(* through handles bound to one file identity, so the bytes of a file are  *)
(* in exactly one place: `at'.  All operations hold the `writer' mutex, so *)
(* at most one is in progress; the interleaving that matters is with the   *)
(* user's own file operations, with failing journal writes, with crashes   *)
(* and with restarts.                                                      *)
(*                                                                         *)
(* The order in which a plan lists its items is not fixed: `op.todo' is a  *)
(* set and the next item any member of it.                                 *)
(***************************************************************************)
EXTENDS Naturals

CONSTANTS
    File,          \* file identities that scans found
    Plan,          \* identifiers of plans; the execution of plan p is named p too
    NoFile,        \* "this plan has no keeper", "no item in hand"
    NoPlan,        \* "held by no plan", "no operation"
    SpuriousGuard, \* TRUE if opening a recovery file may fail though it is there
    MaxWriteFaults,\* bound: journal writes that fail while the program runs on
    MaxCrashes,    \* bound: crashes, failed starts included
    MaxEdits       \* bound: file operations of the user

ASSUME DistinctConstants ==
    /\ NoFile \notin File
    /\ NoPlan \notin Plan
    /\ SpuriousGuard \in BOOLEAN
    /\ MaxWriteFaults \in Nat
    /\ MaxCrashes \in Nat
    /\ MaxEdits \in Nat

VARIABLES
    plan,      \* cleanup/plans: what each plan may do
    disk,      \* cleanup/executions: the journals
    mem,       \* the journal copy of the operation in progress
    op,        \* the operation that holds the writer
    phase,     \* is the program down, starting (reconciling) or running
    at,        \* where the bytes of each scanned file are
    occupied,  \* original paths where something else now is
    writeFaults, crashes, edits  \* counters of the bounds

vars == <<plan, disk, mem, op, phase, at, occupied, writeFaults, crashes, edits>>
fileVars == <<at, occupied>>
bounds == <<writeFaults, crashes, edits>>

-----------------------------------------------------------------------------
(* Types *)

Disposition == {"RecycleBin", "Quarantine", "Permanent"}

\* ItemState of a storage item; "None" for a file outside the plan.
ItemState == {"None", "Pending", "Mutating", "Quarantined", "Restored",
              "Purged", "Failed", "Unknown"}

\* open is completed_at.is_none().
Journal == [item : [File -> ItemState], open : BOOLEAN]
NoJournal == [item |-> [f \in File |-> "None"], open |-> FALSE]

PlanRecord == [items : SUBSET File, disposition : Disposition,
               keeper : File \cup {NoFile}]
Unplanned == [items |-> {}, disposition |-> "Quarantine", keeper |-> NoFile]

Place == [kind : {"source", "recovery", "removed", "lost"}, by : Plan \cup {NoPlan}]
AtSource == [kind |-> "source", by |-> NoPlan]
Lost == [kind |-> "lost", by |-> NoPlan]
InRecovery(p) == [kind |-> "recovery", by |-> p]
RemovedBy(p) == [kind |-> "removed", by |-> p]

Operation == [kind : {"idle", "execute", "undo"}, plan : Plan \cup {NoPlan},
              pc : {"next", "effect", "record"}, item : File \cup {NoFile},
              todo : SUBSET File]
Idle == [kind |-> "idle", plan |-> NoPlan, pc |-> "next", item |-> NoFile,
         todo |-> {}]

TypeOK ==
    /\ plan \in [Plan -> PlanRecord]
    /\ disk \in [Plan -> Journal]
    /\ mem \in Journal
    /\ op \in Operation
    /\ op.kind # "idle" => op.plan \in Plan
    /\ op.pc # "next" => op.item \in File
    /\ phase \in {"down", "starting", "running"}
    /\ at \in [File -> Place]
    /\ occupied \in SUBSET File
    /\ writeFaults \in Nat
    /\ crashes \in Nat
    /\ edits \in Nat

Init ==
    /\ plan = [p \in Plan |-> Unplanned]
    /\ disk = [p \in Plan |-> NoJournal]
    /\ mem = NoJournal
    /\ op = Idle
    /\ phase = "running"
    /\ at = [f \in File |-> AtSource]
    /\ occupied = {}
    /\ writeFaults = 0
    /\ crashes = 0
    /\ edits = 0

-----------------------------------------------------------------------------
(* Helpers *)

\* Mutant: only an execution that is still open counts.
HasExecution_OpenOnly(p) == disk[p].open

\* has_execution_for_plan
HasExecution(p) == \E f \in File : disk[p].item[f] # "None"

\* The writer mutex is free and the program accepts commands.
WriterFree == phase = "running" /\ op = Idle

\* Mutant: any place the identity can be opened from will do.
GuardEntry_AnyPlace(f) == at[f].kind \in {"source", "recovery"}

\* storage_entry_guard succeeds only on the planned identity at its own path.
GuardEntry(f) == at[f] = AtSource

\* storage_recovery_guard / guard_relocated_file: the planned identity at the
\* recovery path this execution expects.
RecoveryGuard(p, f) == plan[p].disposition = "Quarantine" /\ at[f] = InRecovery(p)

\* Mutant: the keeper is not looked at again when the plan is executed.
ScopeValid_MembersOnly(p) == \A f \in plan[p].items : GuardEntry(f) \/ f \notin occupied

\* validate_scope(tolerate_item_access): a missing item is left to the per-item
\* guard unless the plan removes duplicates; a replaced one refuses the plan.
ScopeValid(p) ==
    IF plan[p].keeper = NoFile
    THEN \A f \in plan[p].items : GuardEntry(f) \/ f \notin occupied
    ELSE \A f \in plan[p].items \cup {plan[p].keeper} : GuardEntry(f)

\* Files whose handles deny deletion while the operation in progress lasts.
Pinned ==
    IF op.kind = "execute" /\ plan[op.plan].keeper # NoFile
    THEN {plan[op.plan].keeper} \cup (IF op.pc = "record" THEN op.todo \ {op.item}
                                      ELSE op.todo)
    ELSE IF op.kind = "undo" /\ op.pc = "effect" THEN {op.item} ELSE {}

\* persist_accounting / write_execution of the in-memory journal j.
Persist(j) == mem' = j /\ disk' = [disk EXCEPT ![op.plan] = j]

SetItem(j, f, s) == [j EXCEPT !.item[f] = s]

-----------------------------------------------------------------------------
(* create_storage_plan *)

CreatePlan(p, items, disposition, keeper) ==
    /\ WriterFree
    /\ plan[p] = Unplanned
    /\ items # {}
    /\ keeper \notin items
    /\ \A f \in items \cup ({keeper} \cap File) : GuardEntry(f)
    /\ plan' = [plan EXCEPT ![p] = [items |-> items, disposition |-> disposition,
                                    keeper |-> keeper]]
    /\ UNCHANGED <<disk, mem, op, phase, fileVars, bounds>>

-----------------------------------------------------------------------------
(* execute_inner *)

\* Reads the plan, refuses a second execution, validates the scope, pins the
\* duplicate groups and writes the all-Pending journal.
BeginExecute(p) ==
    /\ WriterFree
    /\ plan[p] # Unplanned
    /\ ~ HasExecution(p)
    /\ ScopeValid(p)
    /\ LET fresh == [item |-> [f \in File |-> IF f \in plan[p].items
                                              THEN "Pending" ELSE "None"],
                     open |-> TRUE]
       IN  /\ mem' = fresh
           /\ disk' = [disk EXCEPT ![p] = fresh]
    /\ op' = [Idle EXCEPT !.kind = "execute", !.plan = p, !.todo = plan[p].items]
    /\ UNCHANGED <<plan, phase, fileVars, bounds>>

\* Mutant: the intent is kept in memory until the outcome is written.
ExecuteIntent_MemoryOnly(f) ==
    /\ op.kind = "execute" /\ op.pc = "next" /\ f \in op.todo
    /\ mem' = SetItem(mem, f, "Mutating")
    /\ op' = [op EXCEPT !.pc = "effect", !.item = f]
    /\ UNCHANGED <<plan, disk, phase, fileVars, bounds>>

\* The item is marked Mutating and the journal persisted before the effect.
ExecuteIntent(f) ==
    /\ op.kind = "execute" /\ op.pc = "next" /\ f \in op.todo
    /\ Persist(SetItem(mem, f, "Mutating"))
    /\ op' = [op EXCEPT !.pc = "effect", !.item = f]
    /\ UNCHANGED <<plan, phase, fileVars, bounds>>

\* rename_to_recovery or remove through the identity-bound handle.
ExecuteEffect ==
    /\ op.kind = "execute" /\ op.pc = "effect"
    /\ GuardEntry(op.item)
    /\ plan[op.plan].disposition # "RecycleBin"
    /\ LET quarantine == plan[op.plan].disposition = "Quarantine"
       IN  /\ at' = [at EXCEPT ![op.item] = IF quarantine THEN InRecovery(op.plan)
                                            ELSE RemovedBy(op.plan)]
           /\ mem' = SetItem(mem, op.item, IF quarantine THEN "Quarantined" ELSE "Purged")
    /\ op' = [op EXCEPT !.pc = "record"]
    /\ UNCHANGED <<plan, disk, phase, occupied, bounds>>

\* Protection unavailable, guard refused, move or removal refused, or the
\* Recycle Bin, which identity-bound items never use: fail_item.
ExecuteRefuse ==
    /\ op.kind = "execute" /\ op.pc = "effect"
    /\ mem' = SetItem(mem, op.item, "Failed")
    /\ op' = [op EXCEPT !.pc = "record"]
    /\ UNCHANGED <<plan, disk, phase, fileVars, bounds>>

\* persist_accounting after each item, of an execution or of an undo.
RecordItem ==
    /\ op.kind \in {"execute", "undo"} /\ op.pc = "record"
    /\ Persist(mem)
    /\ op' = [op EXCEPT !.pc = "next", !.item = NoFile, !.todo = @ \ {op.item}]
    /\ UNCHANGED <<plan, phase, fileVars, bounds>>

\* The loop is over: completed_at is set and the journal persisted.
Finish ==
    /\ op.kind \in {"execute", "undo"} /\ op.pc = "next" /\ op.todo = {}
    /\ disk' = [disk EXCEPT ![op.plan] = [mem EXCEPT !.open = FALSE]]
    /\ mem' = NoJournal
    /\ op' = Idle
    /\ UNCHANGED <<plan, phase, fileVars, bounds>>

-----------------------------------------------------------------------------
(* undo and undo_storage *)

\* Items are taken one by one, only those the journal holds as Quarantined.
BeginUndo(p) ==
    /\ WriterFree
    /\ HasExecution(p)
    /\ mem' = disk[p]
    /\ op' = [Idle EXCEPT !.kind = "undo", !.plan = p,
                          !.todo = {f \in File : disk[p].item[f] = "Quarantined"}]
    /\ UNCHANGED <<plan, disk, phase, fileVars, bounds>>

\* The destination is protected now: only a failure text is recorded.
UndoProtected(f) ==
    /\ op.kind = "undo" /\ op.pc = "next" /\ f \in op.todo
    /\ Persist(mem)
    /\ op' = [op EXCEPT !.todo = @ \ {f}]
    /\ UNCHANGED <<plan, phase, fileVars, bounds>>

\* The recovery identity cannot be proven: Unknown, persisted.
UndoUnproven(f) ==
    /\ op.kind = "undo" /\ op.pc = "next" /\ f \in op.todo
    /\ SpuriousGuard \/ ~ RecoveryGuard(op.plan, f)
    /\ Persist(SetItem(mem, f, "Unknown"))
    /\ op' = [op EXCEPT !.todo = @ \ {f}]
    /\ UNCHANGED <<plan, phase, fileVars, bounds>>

\* Mutant: the file is moved back before the journal says so.
UndoIntent_MemoryOnly(f) ==
    /\ op.kind = "undo" /\ op.pc = "next" /\ f \in op.todo
    /\ RecoveryGuard(op.plan, f)
    /\ mem' = [SetItem(mem, f, "Mutating") EXCEPT !.open = TRUE]
    /\ op' = [op EXCEPT !.pc = "effect", !.item = f]
    /\ UNCHANGED <<plan, disk, phase, fileVars, bounds>>

\* Intent: the journal is reopened and the item Mutating before the rename.
UndoIntent(f) ==
    /\ op.kind = "undo" /\ op.pc = "next" /\ f \in op.todo
    /\ RecoveryGuard(op.plan, f)
    /\ Persist([SetItem(mem, f, "Mutating") EXCEPT !.open = TRUE])
    /\ op' = [op EXCEPT !.pc = "effect", !.item = f]
    /\ UNCHANGED <<plan, phase, fileVars, bounds>>

\* rename_to_original: NtSetInformationFile with ReplaceIfExists = false.
RenameToOriginal(f) ==
    /\ f \notin occupied
    /\ at' = [at EXCEPT ![f] = AtSource]
    /\ UNCHANGED occupied

UndoEffect ==
    /\ op.kind = "undo" /\ op.pc = "effect"
    /\ RenameToOriginal(op.item)
    /\ mem' = SetItem(mem, op.item, "Restored")
    /\ op' = [op EXCEPT !.pc = "record"]
    /\ UNCHANGED <<plan, disk, phase, bounds>>

UndoRefuse ==
    /\ op.kind = "undo" /\ op.pc = "effect"
    /\ mem' = SetItem(mem, op.item, "Quarantined")
    /\ op' = [op EXCEPT !.pc = "record"]
    /\ UNCHANGED <<plan, disk, phase, fileVars, bounds>>

-----------------------------------------------------------------------------
(* Failing writes, crashes, start-up *)

\* A journal write fails: `?' returns, the writer is released and the program
\* keeps running with the journal as it was last persisted.
WriteFails ==
    /\ op # Idle
    /\ op.pc # "effect"
    /\ writeFaults < MaxWriteFaults
    /\ writeFaults' = writeFaults + 1
    /\ op' = Idle
    /\ mem' = NoJournal
    /\ UNCHANGED <<plan, disk, phase, fileVars, crashes, edits>>

Crash ==
    /\ phase # "down"
    /\ crashes < MaxCrashes
    /\ crashes' = crashes + 1
    /\ phase' = "down"
    /\ op' = Idle
    /\ mem' = NoJournal
    /\ UNCHANGED <<plan, disk, fileVars, writeFaults, edits>>

Start ==
    /\ phase = "down"
    /\ phase' = "starting"
    /\ UNCHANGED <<plan, disk, mem, op, fileVars, bounds>>

\* Mutant: an interrupted item is always presumed lost.
Reconciled_PresumesLost(p, f, proven) ==
    LET s == disk[p].item[f]
    IN  IF s \in {"Pending", "Mutating"} THEN "Unknown" ELSE s

\* What reconcile_interrupted makes of an item; proven is the set of items
\* whose recovery file could be opened and matched.
Reconciled(p, f, proven) ==
    LET s == disk[p].item[f]
    IN  IF s \notin {"Pending", "Mutating"} THEN s
        ELSE IF f \in proven THEN "Quarantined" ELSE "Unknown"

\* One open journal is settled and persisted.
Reconcile(p) ==
    /\ phase = "starting"
    /\ disk[p].open
    /\ \E proven \in SUBSET {f \in File : RecoveryGuard(p, f)} :
        /\ SpuriousGuard \/ proven = {f \in File : RecoveryGuard(p, f)}
        /\ disk' = [disk EXCEPT ![p] =
                     [item |-> [f \in File |-> Reconciled(p, f, proven)], open |-> FALSE]]
    /\ UNCHANGED <<plan, mem, op, phase, fileVars, bounds>>

\* An error while reconciling aborts the start of the program.
StartFails ==
    /\ phase = "starting"
    /\ \E p \in Plan : disk[p].open
    /\ crashes < MaxCrashes
    /\ crashes' = crashes + 1
    /\ phase' = "down"
    /\ UNCHANGED <<plan, disk, mem, op, fileVars, writeFaults, edits>>

Started ==
    /\ phase = "starting"
    /\ \A p \in Plan : ~ disk[p].open
    /\ phase' = "running"
    /\ UNCHANGED <<plan, disk, mem, op, fileVars, bounds>>

-----------------------------------------------------------------------------
(* The user's own file operations *)

UserDeletes(f) ==
    /\ edits < MaxEdits
    /\ at[f].kind \in {"source", "recovery"}
    /\ f \notin Pinned
    /\ at' = [at EXCEPT ![f] = Lost]
    /\ edits' = edits + 1
    /\ UNCHANGED <<plan, disk, mem, op, phase, occupied, writeFaults, crashes>>

\* Something new appears at the original path of a file that left it.
UserCreates(f) ==
    /\ edits < MaxEdits
    /\ at[f] # AtSource
    /\ f \notin occupied
    /\ occupied' = occupied \cup {f}
    /\ edits' = edits + 1
    /\ UNCHANGED <<plan, disk, mem, op, phase, at, writeFaults, crashes>>

-----------------------------------------------------------------------------

Execution ==
    \/ \E p \in Plan : BeginExecute(p)
    \/ \E f \in File : ExecuteIntent(f)
    \/ ExecuteEffect
    \/ ExecuteRefuse
    \/ RecordItem
    \/ Finish

Undo ==
    \/ \E p \in Plan : BeginUndo(p)
    \/ \E f \in File : UndoProtected(f) \/ UndoUnproven(f) \/ UndoIntent(f)
    \/ UndoEffect
    \/ UndoRefuse

StartUp ==
    \/ Start
    \/ \E p \in Plan : Reconcile(p)
    \/ StartFails
    \/ Started

Environment ==
    \/ WriteFails
    \/ Crash
    \/ \E f \in File : UserDeletes(f) \/ UserCreates(f)

Next ==
    \/ \E p \in Plan, items \in SUBSET File, d \in Disposition,
          keeper \in File \cup {NoFile} : CreatePlan(p, items, d, keeper)
    \/ Execution
    \/ Undo
    \/ StartUp
    \/ Environment

Spec == Init /\ [][Next]_vars

-----------------------------------------------------------------------------
(* Properties *)

\* Every effect is covered by a durable record: bytes that a plan moved into
\* recovery or removed have a journal entry on disk that admits it, through
\* every crash, failed write and later undo (execute_inner's write before each
\* mutation, undo_storage's reopened journal).
WriteAhead ==
    \A p \in Plan, f \in File :
        /\ at[f] = InRecovery(p) =>
               disk[p].item[f] \in {"Mutating", "Quarantined", "Unknown"}
        /\ at[f] = RemovedBy(p) =>
               disk[p].item[f] \in {"Mutating", "Purged", "Unknown"}

\* A settled journal entry is true: Quarantined bytes are in recovery unless the
\* user removed them, Purged bytes were removed by that plan, Restored bytes
\* are not held any more.
Truthful ==
    \A p \in Plan, f \in File :
        LET s == disk[p].item[f]
        IN  /\ s = "Quarantined" => at[f] \in {InRecovery(p), Lost}
            /\ s = "Purged" => at[f] = RemovedBy(p)
            /\ s = "Restored" => at[f] # InRecovery(p)

\* The journal in memory and the one on disk agree up to the item in hand: the
\* item's entry on disk says Mutating from before its effect until the outcome is
\* recorded, and the entry about to be recorded is true of the file system.
Outcome(p, f, s) ==
    CASE s = "Quarantined" -> at[f] \in {InRecovery(p), Lost}
      [] s = "Purged"      -> at[f] = RemovedBy(p)
      [] s = "Failed"      -> at[f] \notin {InRecovery(p), RemovedBy(p)}
      [] s = "Restored"    -> at[f] \notin {InRecovery(p), RemovedBy(p)}
      [] OTHER             -> FALSE

OperationConsistent ==
    op # Idle =>
        /\ phase = "running"
        /\ op.kind \in {"execute", "undo"}
        /\ op.plan \in Plan
        /\ \A f \in op.todo : f = op.item \/ mem.item[f] =
               (IF op.kind = "execute" THEN "Pending" ELSE "Quarantined")
        /\ op.pc = "next" => mem = disk[op.plan] /\ op.item = NoFile
        /\ op.pc # "next" =>
               /\ op.item \in op.todo
               /\ disk[op.plan].item[op.item] = "Mutating"
               /\ mem = SetItem(disk[op.plan], op.item, mem.item[op.item])
        /\ op.pc = "effect" =>
               /\ mem.item[op.item] = "Mutating"
               /\ IF op.kind = "undo" THEN at[op.item] = InRecovery(op.plan)
                  ELSE at[op.item] \notin {InRecovery(op.plan), RemovedBy(op.plan)}
        /\ op.pc = "record" => Outcome(op.plan, op.item, mem.item[op.item])

\* Journal entries only move forward: no restart, retry or undo gives an item
\* that was Restored, Purged, Failed or Unknown another state, and none is
\* attempted again (has_execution_for_plan, the state tests of undo_storage and
\* reconcile_interrupted).
Successors(s) ==
    CASE s = "None"        -> {"Pending"}
      [] s = "Pending"     -> {"Mutating", "Unknown"}
      [] s = "Mutating"    -> {"Quarantined", "Purged", "Failed", "Unknown", "Restored"}
      [] s = "Quarantined" -> {"Mutating", "Unknown"}
      [] OTHER             -> {}

JournalLifecycle ==
    [][\A p \in Plan, f \in File :
        disk'[p].item[f] # disk[p].item[f] =>
            disk'[p].item[f] \in Successors(disk[p].item[f])]_vars

\* Plans of duplicates alone never remove every copy, even when two plans made
\* from one scan each name a member of the other as the copy to keep.
CopyRemains ==
    (edits = 0 /\ \A p \in Plan : plan[p] = Unplanned \/ plan[p].keeper \in File)
        => \E f \in File : at[f] = AtSource

\* docs/cleanup-recovery.md: "If the source is absent and its quarantine payload
\* exists, the item is recorded as quarantined."  When start-up is over, no
\* payload is left that no undo would return.
StartUpAccountsForPayloads ==
    [][phase = "starting" /\ phase' = "running" /\ writeFaults = 0 =>
        \A p \in Plan, f \in File :
            at[f] = InRecovery(p) => disk[p].item[f] = "Quarantined"]_vars

-----------------------------------------------------------------------------
(* The contract of RecoveryVault *)

\* A plan's authority over a file: unused until its journal says Mutating, armed
\* for one effect, then spent for good.
Authority(p, f) ==
    IF disk[p].item[f] \in {"None", "Pending"} THEN "unused"
    ELSE IF op.kind = "execute" /\ op.plan = p /\ op.item = f /\ op.pc = "effect"
         THEN "armed" ELSE "spent"

Vault == INSTANCE RecoveryVault WITH
             custody <- at,
             authority <- [p \in Plan |-> [f \in File |-> Authority(p, f)]]

VaultSpec == Vault!Spec
=============================================================================
