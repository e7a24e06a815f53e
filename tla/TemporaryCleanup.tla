-------------------------- MODULE TemporaryCleanup --------------------------
(***************************************************************************)
(* Cleanup of temporary caches: manual plans that recycle, quarantine or   *)
(* delete, undo, and the automatic maintenance that quarantines what a     *)
(* preview finds and purges payloads whose grace period is over.           *)
(*                                                                         *)
(* Unlike the storage scope, effects are path based.  An item is a file or *)
(* a tree, removing one is not atomic, and one on another volume than the  *)
(* quarantine is copied before it is removed; so an item's content can be  *)
(* in several places at once, or in none as a whole.                       *)
(*                                                                         *)
(* `create_plan', `execute', `undo', `purge_due' and the write of          *)
(* `set_policy' each hold the writer; a maintenance run is a sequence of   *)
(* them, and between two of them any other operation may run.              *)
(***************************************************************************)
EXTENDS Naturals

CONSTANTS
    Item,      \* items that a preview can find
    Plan,      \* identifiers of plans; the execution of plan p is named p too
    Run,       \* maintenance runs that can be under way at once
    Cross,     \* items on another volume than the quarantine directory
    None,      \* "no item", "no plan", "no run"
    MaxCrashes, MaxEdits, MaxSwitches \* bounds: crashes, outside edits, policy changes

ASSUME TemporaryAssumption ==
    /\ Cross \subseteq Item
    /\ None \notin Item \cup Plan \cup Run
    /\ MaxCrashes \in Nat /\ MaxEdits \in Nat /\ MaxSwitches \in Nat

VARIABLES
    plan,      \* cleanup/plans
    disk,      \* cleanup/executions
    mem,       \* the journal copy of the operation in progress
    op,        \* the operation that holds the writer
    run,       \* maintenance runs: started at start-up and by set_policy
    enabled,   \* the automatic policy on disk
    due,       \* executions whose purge_after has passed
    src,       \* what is at the item's own path
    pay,       \* what is at its path in the quarantine, per execution
    bin,       \* items in the Recycle Bin, per execution that put them there
    crashes, edits, switches

vars == <<plan, disk, mem, op, run, enabled, due, src, pay, bin,
          crashes, edits, switches>>
content == <<src, pay, bin>>
bounds == <<crashes, edits, switches>>

-----------------------------------------------------------------------------

Disposition == {"RecycleBin", "Quarantine", "Permanent"}

\* ItemState of a temporary item; "None" for an item outside the plan.
ItemState == {"None", "Pending", "Mutating", "Recycled", "Quarantined",
              "Restored", "Purged", "Failed", "Unknown"}

Journal == [item : [Item -> ItemState], open : BOOLEAN]
NoJournal == [item |-> [i \in Item |-> "None"], open |-> FALSE]

PlanRecord == [items : SUBSET Item, disposition : Disposition]
Unplanned == [items |-> {}, disposition |-> "Quarantine"]

\* pc: between items; intent written; copied; removing the original or the
\* payload piece by piece; outcome not yet written.
Operation == [kind : {"idle", "execute", "undo", "purge"}, plan : Plan \cup {None},
              pc : {"next", "effect", "copied", "removing", "record"},
              item : Item \cup {None}, todo : SUBSET Item, queue : SUBSET Plan,
              by : Run \cup {None}]
Idle == [kind |-> "idle", plan |-> None, pc |-> "next", item |-> None,
         todo |-> {}, queue |-> {}, by |-> None]

RunRecord == [pc : {"idle", "policy", "preview", "plan", "execute", "busy", "purge"},
              items : SUBSET Item, plan : Plan \cup {None}]
NoRun == [pc |-> "idle", items |-> {}, plan |-> None]

TypeOK ==
    /\ plan \in [Plan -> PlanRecord]
    /\ disk \in [Plan -> Journal]
    /\ mem \in Journal
    /\ op \in Operation
    /\ op.kind \in {"execute", "undo"} => op.plan \in Plan
    /\ op.pc # "next" => op.plan \in Plan /\ op.item \in Item
    /\ run \in [Run -> RunRecord]
    /\ \A r \in Run : run[r].pc = "execute" => run[r].plan \in Plan
    /\ enabled \in BOOLEAN
    /\ due \in SUBSET Plan
    /\ src \in [Item -> {"whole", "part", "none", "new"}]
    /\ pay \in [Plan -> [Item -> {"whole", "part", "none"}]]
    /\ bin \in [Plan -> SUBSET Item]
    /\ crashes \in Nat /\ edits \in Nat /\ switches \in Nat

\* A start of the program: the start-up thread runs maintenance in the background.
Init ==
    /\ plan = [p \in Plan |-> Unplanned]
    /\ disk = [p \in Plan |-> NoJournal]
    /\ mem = NoJournal
    /\ op = Idle
    /\ \E r \in Run : run = [[x \in Run |-> NoRun] EXCEPT ![r].pc = "policy"]
    /\ enabled \in BOOLEAN
    /\ due = {}
    /\ src = [i \in Item |-> "whole"]
    /\ pay = [p \in Plan |-> [i \in Item |-> "none"]]
    /\ bin = [p \in Plan |-> {}]
    /\ crashes = 0 /\ edits = 0 /\ switches = 0

-----------------------------------------------------------------------------

WriterFree == op = Idle

\* has_execution_for_plan
HasExecution(p) == \E i \in Item : disk[p].item[i] # "None"

SetItem(j, i, s) == [j EXCEPT !.item[i] = s]

Persist(j) == mem' = j /\ disk' = [disk EXCEPT ![op.plan] = j]

\* The content that revalidate_candidate and the path checks can accept.
Present(c) == c \in {"whole", "part"}

\* Leaves the item in hand with state s for RecordItem to persist.
Outcome(s) ==
    /\ mem' = SetItem(mem, op.item, s)
    /\ op' = [op EXCEPT !.pc = "record"]

\* The operation is over; a maintenance run goes on at `pc'.
Release(pc) ==
    /\ op' = Idle
    /\ mem' = NoJournal
    /\ run' = IF op.by = None THEN run
              ELSE [run EXCEPT ![op.by] = [NoRun EXCEPT !.pc = pc]]

-----------------------------------------------------------------------------
(* create_plan and execute_inner *)

CreatePlan(p, items, disposition) ==
    /\ WriterFree
    /\ plan[p] = Unplanned
    /\ items # {}
    /\ plan' = [plan EXCEPT ![p] = [items |-> items, disposition |-> disposition]]

UserPlans(p, items, disposition) ==
    /\ CreatePlan(p, items, disposition)
    /\ UNCHANGED <<disk, mem, op, run, enabled, due, content, bounds>>

BeginExecute(p, r) ==
    /\ WriterFree
    /\ plan[p] # Unplanned
    /\ ~ HasExecution(p)
    /\ LET fresh == [item |-> [i \in Item |-> IF i \in plan[p].items
                                              THEN "Pending" ELSE "None"],
                     open |-> TRUE]
       IN  mem' = fresh /\ disk' = [disk EXCEPT ![p] = fresh]
    /\ op' = [Idle EXCEPT !.kind = "execute", !.plan = p, !.todo = plan[p].items,
                          !.by = r]
    /\ UNCHANGED <<plan, enabled, due, content, bounds>>

UserExecutes(p) == BeginExecute(p, None) /\ UNCHANGED run

ExecuteIntent(i) ==
    /\ op.kind = "execute" /\ op.pc = "next" /\ i \in op.todo
    /\ Persist(SetItem(mem, i, "Mutating"))
    /\ op' = [op EXCEPT !.pc = "effect", !.item = i]
    /\ UNCHANGED <<plan, run, enabled, due, content, bounds>>

\* Protection unavailable, revalidation rejected, collision, copy, removal or
\* free-space sample failed: fail_item, whatever has happened to the content.
ExecuteFails ==
    /\ op.kind = "execute" /\ op.pc \in {"effect", "copied", "removing"}
    /\ Outcome("Failed")
    /\ UNCHANGED <<plan, disk, run, enabled, due, content, bounds>>

\* recycle_exact; when the new entry of the bin cannot be told, it fails though
\* the item was moved.
Recycle ==
    /\ op.kind = "execute" /\ op.pc = "effect"
    /\ plan[op.plan].disposition = "RecycleBin"
    /\ Present(src[op.item])
    /\ src' = [src EXCEPT ![op.item] = "none"]
    /\ bin' = IF src[op.item] = "whole"
              THEN [bin EXCEPT ![op.plan] = @ \cup {op.item}] ELSE bin
    /\ \E s \in {"Recycled", "Failed"} : Outcome(s)
    /\ UNCHANGED <<plan, disk, run, enabled, due, pay, bounds>>

\* Same volume: one rename into the quarantine.
Move ==
    /\ op.kind = "execute" /\ op.pc = "effect"
    /\ plan[op.plan].disposition = "Quarantine"
    /\ op.item \notin Cross
    /\ Present(src[op.item])
    /\ pay[op.plan][op.item] = "none"
    /\ pay' = [pay EXCEPT ![op.plan][op.item] = src[op.item]]
    /\ src' = [src EXCEPT ![op.item] = "none"]
    /\ Outcome("Quarantined")
    /\ UNCHANGED <<plan, disk, run, enabled, due, bin, bounds>>

\* Mutant: the original is removed although nothing was published.
Copy_Unpublished ==
    /\ op.kind = "execute" /\ op.pc = "effect"
    /\ plan[op.plan].disposition = "Quarantine"
    /\ op.item \in Cross
    /\ Present(src[op.item])
    /\ op' = [op EXCEPT !.pc = "copied"]
    /\ UNCHANGED <<plan, disk, mem, run, enabled, due, content, bounds>>

\* Other volume: copied to staging and published.
Copy ==
    /\ op.kind = "execute" /\ op.pc = "effect"
    /\ plan[op.plan].disposition = "Quarantine"
    /\ op.item \in Cross
    /\ Present(src[op.item])
    /\ pay[op.plan][op.item] = "none"
    /\ pay' = [pay EXCEPT ![op.plan][op.item] = src[op.item]]
    /\ op' = [op EXCEPT !.pc = "copied"]
    /\ UNCHANGED <<plan, disk, mem, run, enabled, due, src, bin, bounds>>

\* The removal of the original begins: at once for a permanent plan, after the
\* source was revalidated for a copied item.
BeginRemoval ==
    /\ op.kind = "execute"
    /\ \/ op.pc = "effect" /\ plan[op.plan].disposition = "Permanent"
       \/ op.pc = "copied"
    /\ Present(src[op.item])
    /\ op' = [op EXCEPT !.pc = "removing"]
    /\ UNCHANGED <<plan, disk, mem, run, enabled, due, content, bounds>>

\* remove_tree_no_follow takes entries one at a time.
RemovePiece ==
    /\ op.kind = "execute" /\ op.pc = "removing"
    /\ src[op.item] = "whole"
    /\ src' = [src EXCEPT ![op.item] = "part"]
    /\ UNCHANGED <<plan, disk, mem, op, run, enabled, due, pay, bin, bounds>>

\* The last entry is gone; the free-space sample after it may still fail.
RemoveRest ==
    /\ op.kind = "execute" /\ op.pc = "removing"
    /\ Present(src[op.item])
    /\ src' = [src EXCEPT ![op.item] = "none"]
    /\ IF plan[op.plan].disposition = "Permanent"
       THEN \E s \in {"Purged", "Failed"} : Outcome(s)
       ELSE Outcome("Quarantined")
    /\ UNCHANGED <<plan, disk, run, enabled, due, pay, bin, bounds>>

\* persist_accounting after each item of an execution or an undo.
RecordItem ==
    /\ op.kind \in {"execute", "undo"} /\ op.pc = "record"
    /\ Persist(mem)
    /\ op' = [op EXCEPT !.pc = "next", !.item = None, !.todo = @ \ {op.item}]
    /\ UNCHANGED <<plan, run, enabled, due, content, bounds>>

FinishExecute ==
    /\ op.kind = "execute" /\ op.pc = "next" /\ op.todo = {}
    /\ disk' = [disk EXCEPT ![op.plan] = [mem EXCEPT !.open = FALSE]]
    /\ Release("purge")
    /\ UNCHANGED <<plan, enabled, due, content, bounds>>

-----------------------------------------------------------------------------
(* undo *)

BeginUndo(p) ==
    /\ WriterFree
    /\ HasExecution(p)
    /\ mem' = disk[p]
    /\ op' = [Idle EXCEPT !.kind = "undo", !.plan = p,
                 !.todo = {i \in Item : disk[p].item[i] \in {"Recycled", "Quarantined"}}]
    /\ UNCHANGED <<plan, disk, run, enabled, due, content, bounds>>

\* Nothing at the original path when it is looked at; no intent is written.
UndoCheck(i) ==
    /\ op.kind = "undo" /\ op.pc = "next" /\ i \in op.todo
    /\ src[i] = "none"
    /\ op' = [op EXCEPT !.pc = "effect", !.item = i]
    /\ UNCHANGED <<plan, disk, mem, run, enabled, due, content, bounds>>

\* Collision: a failure text is recorded, the state kept.
UndoCollides(i) ==
    /\ op.kind = "undo" /\ op.pc = "next" /\ i \in op.todo
    /\ src[i] # "none"
    /\ Persist(mem)
    /\ op' = [op EXCEPT !.todo = @ \ {i}]
    /\ UNCHANGED <<plan, run, enabled, due, content, bounds>>

\* restore_exact: the recorded identifier only.
RestoreRecycled ==
    /\ op.kind = "undo" /\ op.pc = "effect"
    /\ mem.item[op.item] = "Recycled"
    /\ op.item \in bin[op.plan]
    /\ src[op.item] = "none"
    /\ src' = [src EXCEPT ![op.item] = "whole"]
    /\ bin' = [bin EXCEPT ![op.plan] = @ \ {op.item}]
    /\ Outcome("Restored")
    /\ UNCHANGED <<plan, disk, run, enabled, due, pay, bounds>>

\* fs::rename back, which replaces a file that appeared after the check.
RestoreMoved ==
    /\ op.kind = "undo" /\ op.pc = "effect"
    /\ mem.item[op.item] = "Quarantined"
    /\ op.item \notin Cross
    /\ pay[op.plan][op.item] # "none"
    /\ src' = [src EXCEPT ![op.item] = pay[op.plan][op.item]]
    /\ pay' = [pay EXCEPT ![op.plan][op.item] = "none"]
    /\ Outcome("Restored")
    /\ UNCHANGED <<plan, disk, run, enabled, due, bin, bounds>>

\* The rename failed, as it always does between volumes: the payload is copied
\* and published, then removed.
RestoreCopied ==
    /\ op.kind = "undo" /\ op.pc = "effect"
    /\ mem.item[op.item] = "Quarantined"
    /\ pay[op.plan][op.item] # "none"
    /\ src' = [src EXCEPT ![op.item] = pay[op.plan][op.item]]
    /\ op' = [op EXCEPT !.pc = "removing"]
    /\ UNCHANGED <<plan, disk, mem, run, enabled, due, pay, bin, bounds>>

UndoRemovesPiece ==
    /\ op.kind = "undo" /\ op.pc = "removing"
    /\ pay[op.plan][op.item] = "whole"
    /\ pay' = [pay EXCEPT ![op.plan][op.item] = "part"]
    /\ UNCHANGED <<plan, disk, mem, op, run, enabled, due, src, bin, bounds>>

\* Mutant: a removal that failed is not looked at.
UndoRemovesRest_Ignored ==
    /\ op.kind = "undo" /\ op.pc = "removing"
    /\ \E left \in {"none", pay[op.plan][op.item]} :
           pay' = [pay EXCEPT ![op.plan][op.item] = left]
    /\ Outcome("Restored")
    /\ UNCHANGED <<plan, disk, run, enabled, due, src, bin, bounds>>

UndoRemovesRest ==
    /\ op.kind = "undo" /\ op.pc = "removing"
    /\ pay' = [pay EXCEPT ![op.plan][op.item] = "none"]
    /\ Outcome("Restored")
    /\ UNCHANGED <<plan, disk, run, enabled, due, src, bin, bounds>>

\* Any of these fails: "restore-failed", the state kept.
UndoFails ==
    /\ op.kind = "undo" /\ op.pc \in {"effect", "removing"}
    /\ op' = [op EXCEPT !.pc = "record"]
    /\ UNCHANGED <<plan, disk, mem, run, enabled, due, content, bounds>>

\* completed_at is left as it is.
FinishUndo ==
    /\ op.kind = "undo" /\ op.pc = "next" /\ op.todo = {}
    /\ op' = Idle /\ mem' = NoJournal
    /\ UNCHANGED <<plan, disk, run, enabled, due, content, bounds>>

-----------------------------------------------------------------------------
(* purge_due *)

\* The policy and the clock are read once, under the writer.
BeginPurge(r) ==
    /\ run[r].pc = "purge" /\ WriterFree
    /\ enabled
    /\ op' = [Idle EXCEPT !.kind = "purge", !.by = r,
                 !.queue = {p \in due : HasExecution(p) /\
                                        plan[p].disposition = "Quarantine"}]
    /\ run' = [run EXCEPT ![r].pc = "busy"]
    /\ UNCHANGED <<plan, disk, mem, enabled, due, content, bounds>>

PurgeDisabled(r) ==
    /\ run[r].pc = "purge" /\ WriterFree
    /\ ~ enabled
    /\ run' = [run EXCEPT ![r] = NoRun]
    /\ UNCHANGED <<plan, disk, mem, op, enabled, due, content, bounds>>

PurgeJournal(p) ==
    /\ op.kind = "purge" /\ op.plan = None /\ p \in op.queue
    /\ mem' = disk[p]
    /\ op' = [op EXCEPT !.plan = p,
                        !.todo = {i \in Item : disk[p].item[i] = "Quarantined"}]
    /\ UNCHANGED <<plan, disk, run, enabled, due, content, bounds>>

PurgePiece(i) ==
    /\ op.kind = "purge" /\ i \in op.todo
    /\ pay[op.plan][i] = "whole"
    /\ pay' = [pay EXCEPT ![op.plan][i] = "part"]
    /\ UNCHANGED <<plan, disk, mem, op, run, enabled, due, src, bin, bounds>>

\* The journal is not written until all its items are done.
PurgeRest(i) ==
    /\ op.kind = "purge" /\ i \in op.todo
    /\ pay[op.plan][i] # "none"
    /\ pay' = [pay EXCEPT ![op.plan][i] = "none"]
    /\ mem' = SetItem(mem, i, "Purged")
    /\ op' = [op EXCEPT !.todo = @ \ {i}]
    /\ UNCHANGED <<plan, disk, run, enabled, due, src, bin, bounds>>

\* "purge-failed": the state stays Quarantined.
PurgeFails(i) ==
    /\ op.kind = "purge" /\ i \in op.todo
    /\ op' = [op EXCEPT !.todo = @ \ {i}]
    /\ UNCHANGED <<plan, disk, mem, run, enabled, due, content, bounds>>

\* Mutant: a journal with a payload that could not be removed is tried again.
PurgeRecord_Retries ==
    /\ op.kind = "purge" /\ op.plan # None /\ op.todo = {}
    /\ disk' = [disk EXCEPT ![op.plan] = mem]
    /\ mem' = NoJournal
    /\ op' = [op EXCEPT !.plan = None,
                 !.queue = IF \E i \in Item : mem.item[i] = "Quarantined"
                           THEN @ ELSE @ \ {op.plan}]
    /\ UNCHANGED <<plan, run, enabled, due, content, bounds>>

PurgeRecord ==
    /\ op.kind = "purge" /\ op.plan # None /\ op.todo = {}
    /\ disk' = [disk EXCEPT ![op.plan] = mem]
    /\ mem' = NoJournal
    /\ op' = [op EXCEPT !.plan = None, !.queue = @ \ {op.plan}]
    /\ UNCHANGED <<plan, run, enabled, due, content, bounds>>

FinishPurge ==
    /\ op.kind = "purge" /\ op.plan = None /\ op.queue = {}
    /\ Release("idle")
    /\ UNCHANGED <<plan, disk, enabled, due, content, bounds>>

\* A journal write, a free-space sample or a read fails: `?' gives up the whole
\* operation with what was last persisted, and the maintenance run with it.
Abort ==
    /\ op.kind = "purge" \/ (op # Idle /\ op.pc \in {"next", "record"})
    /\ crashes < MaxCrashes
    /\ crashes' = crashes + 1
    /\ Release("idle")
    /\ UNCHANGED <<plan, disk, enabled, due, content, edits, switches>>

-----------------------------------------------------------------------------
(* run_maintenance and set_policy *)

\* policy() is read without the writer, once.
ReadPolicy(r) ==
    /\ run[r].pc = "policy"
    /\ run' = [run EXCEPT ![r] = IF enabled THEN [NoRun EXCEPT !.pc = "preview"] ELSE NoRun]
    /\ UNCHANGED <<plan, disk, mem, op, enabled, due, content, bounds>>

\* The scan may find any part of what is there.
Preview(r) ==
    /\ run[r].pc = "preview"
    /\ \E found \in SUBSET {i \in Item : Present(src[i])} :
          run' = [run EXCEPT ![r] = [NoRun EXCEPT !.pc = IF found = {} THEN "purge" ELSE "plan",
                                                  !.items = found]]
    /\ UNCHANGED <<plan, disk, mem, op, enabled, due, content, bounds>>

MaintenancePlans(r, p) ==
    /\ run[r].pc = "plan"
    /\ CreatePlan(p, run[r].items, "Quarantine")
    /\ run' = [run EXCEPT ![r] = [NoRun EXCEPT !.pc = "execute", !.plan = p]]
    /\ UNCHANGED <<disk, mem, op, enabled, due, content, bounds>>

MaintenanceExecutes(r) ==
    /\ run[r].pc = "execute"
    /\ BeginExecute(run[r].plan, r)
    /\ run' = [run EXCEPT ![r].pc = "busy"]

\* Scan, plan or scope validation fails; the plan is already executed.
MaintenanceFails(r) ==
    /\ run[r].pc \in {"preview", "plan", "execute"}
    /\ run' = [run EXCEPT ![r] = NoRun]
    /\ UNCHANGED <<plan, disk, mem, op, enabled, due, content, bounds>>

\* Enabling runs maintenance after the writer is released.
EnablePolicy(r) ==
    /\ WriterFree /\ run[r] = NoRun
    /\ switches < MaxSwitches
    /\ enabled' = TRUE
    /\ run' = [run EXCEPT ![r] = [NoRun EXCEPT !.pc = "policy"]]
    /\ switches' = switches + 1
    /\ UNCHANGED <<plan, disk, mem, op, due, content, crashes, edits>>

DisablePolicy ==
    /\ WriterFree
    /\ switches < MaxSwitches
    /\ enabled' = FALSE
    /\ switches' = switches + 1
    /\ UNCHANGED <<plan, disk, mem, op, run, due, content, crashes, edits>>

-----------------------------------------------------------------------------
(* Crashes, start-up, time and other programs *)

\* CleanupStorage::reconcile: only Mutating items change.
Reconciled(p, i) ==
    LET s == disk[p].item[i]
    IN  IF s # "Mutating" THEN s
        ELSE IF src[i] # "none" THEN "Pending"
        ELSE IF pay[p][i] # "none" THEN "Quarantined"
        ELSE "Unknown"

\* The program dies at any point and is started again; the open journals are
\* reconciled, one atomic replacement each, before any command is accepted.
Restart(r) ==
    /\ crashes < MaxCrashes
    /\ crashes' = crashes + 1
    /\ op' = Idle /\ mem' = NoJournal
    /\ run' = [[x \in Run |-> NoRun] EXCEPT ![r].pc = "policy"]
    /\ disk' = [p \in Plan |-> IF disk[p].open
                   THEN [disk[p] EXCEPT !.item = [i \in Item |-> Reconciled(p, i)]]
                   ELSE disk[p]]
    /\ UNCHANGED <<plan, enabled, due, content, edits, switches>>

GraceEnds(p) ==
    /\ HasExecution(p) /\ p \notin due
    /\ due' = due \cup {p}
    /\ UNCHANGED <<plan, disk, mem, op, run, enabled, content, bounds>>

\* Another program removes the item or creates something at its path.
OutsideEdit(i) ==
    /\ edits < MaxEdits
    /\ src' = [src EXCEPT ![i] = IF @ = "none" THEN "new" ELSE "none"]
    /\ edits' = edits + 1
    /\ UNCHANGED <<plan, disk, mem, op, run, enabled, due, pay, bin, crashes, switches>>

-----------------------------------------------------------------------------

Execution ==
    \/ \E p \in Plan : UserExecutes(p)
    \/ \E i \in Item : ExecuteIntent(i)
    \/ ExecuteFails \/ Recycle \/ Move \/ Copy
    \/ BeginRemoval \/ RemovePiece \/ RemoveRest
    \/ RecordItem \/ FinishExecute

Undo ==
    \/ \E p \in Plan : BeginUndo(p)
    \/ \E i \in Item : UndoCheck(i) \/ UndoCollides(i)
    \/ RestoreRecycled \/ RestoreMoved \/ RestoreCopied
    \/ UndoRemovesPiece \/ UndoRemovesRest \/ UndoFails
    \/ FinishUndo

Purge ==
    \/ \E p \in Plan : PurgeJournal(p)
    \/ \E i \in Item : PurgePiece(i) \/ PurgeRest(i) \/ PurgeFails(i)
    \/ PurgeRecord \/ FinishPurge

Maintenance(r) ==
    \/ ReadPolicy(r) \/ Preview(r) \/ MaintenanceExecutes(r) \/ MaintenanceFails(r)
    \/ \E p \in Plan : MaintenancePlans(r, p)
    \/ BeginPurge(r) \/ PurgeDisabled(r)

Environment ==
    \/ Abort
    \/ DisablePolicy
    \/ \E r \in Run : EnablePolicy(r) \/ Restart(r)
    \/ \E p \in Plan : GraceEnds(p)
    \/ \E i \in Item : OutsideEdit(i)

Next ==
    \/ \E p \in Plan, items \in SUBSET Item, d \in Disposition : UserPlans(p, items, d)
    \/ Execution
    \/ Undo
    \/ Purge
    \/ \E r \in Run : Maintenance(r)
    \/ Environment

Spec == Init /\ [][Next]_vars

\* The thread that holds the writer runs on.
Progress ==
    \/ \E i \in Item : ExecuteIntent(i) \/ UndoCheck(i) \/ UndoCollides(i)
                       \/ PurgeRest(i) \/ PurgeFails(i)
    \/ ExecuteFails \/ RecordItem \/ FinishExecute
    \/ UndoFails \/ FinishUndo
    \/ \E p \in Plan : PurgeJournal(p)
    \/ PurgeRecord \/ FinishPurge

\* A maintenance run takes its next step when the writer is free, and the writer,
\* a lock that its holder gives up, is not withheld from it for ever.
FairSpec ==
    /\ Spec
    /\ WF_vars(Progress)
    /\ \A r \in Run : SF_vars(Maintenance(r))

-----------------------------------------------------------------------------
(* Properties *)

\* Somewhere there is a whole copy of the item.
Whole(i) ==
    \/ src[i] = "whole"
    \/ \E p \in Plan : pay[p][i] = "whole" \/ i \in bin[p]

\* docs/cleanup-recovery.md: "Ambiguous crash states preserve data".  While no
\* other program touches the items, only two things take away the last whole copy of
\* one: the execution of a permanent plan, and a purge while the policy is enabled, of a
\* payload whose grace is over, however long ago the run read the policy.  No copy
\* between volumes, undo, failure, crash, restart or second plan does.
DataPreserved ==
    [][\A i \in Item : Whole(i) /\ ~ Whole(i)' =>
        \/ op.kind = "execute" /\ plan[op.plan].disposition = "Permanent"
        \/ /\ op.kind = "purge" /\ enabled
           /\ \E p \in due : pay'[p][i] # pay[p][i] /\ disk[p].item[i] = "Quarantined"
        \/ edits' # 0]_vars

\* An entry that says Restored or Purged leaves nothing behind in the quarantine
\* or the Recycle Bin, whatever failed on the way (undo reports Restored only
\* when the payload could be removed too).
NothingLeftBehind ==
    \A p \in Plan, i \in Item :
        disk[p].item[i] \in {"Restored", "Purged"} =>
            pay[p][i] = "none" /\ i \notin bin[p]

\* A maintenance run that has started ends, even when payloads cannot be removed.
MaintenanceEnds == \A r \in Run : run[r].pc # "idle" ~> run[r].pc = "idle"

=============================================================================
