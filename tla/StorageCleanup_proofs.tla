----------------------- MODULE StorageCleanup_proofs -----------------------
(***************************************************************************)
(* Theorems about StorageCleanup for every set of files and plans and every *)
(* bound: type correctness; that journals are written ahead of effects, are *)
(* truthful and only move forward; that plans of duplicates leave a copy;   *)
(* that the program implements the contract of RecoveryVault; and that a   *)
(* start accounts for every payload.                                       *)
(***************************************************************************)
EXTENDS StorageCleanup, TLAPS

\* The strengthening under which WriteAhead and Truthful are inductive.
IInv == TypeOK /\ WriteAhead /\ Truthful /\ OperationConsistent

-----------------------------------------------------------------------------
(* Lemmas about the operators the model is built from *)

\* Changing one entry of a journal keeps the others and the open flag.
LEMMA SetItemFacts ==
    ASSUME NEW j \in Journal, NEW f \in File, NEW s \in ItemState
    PROVE  /\ SetItem(j, f, s) \in Journal
           /\ SetItem(j, f, s).open = j.open
           /\ SetItem(j, f, s).item[f] = s
           /\ \A g \in File : g # f => SetItem(j, f, s).item[g] = j.item[g]
BY DEF SetItem, Journal, ItemState

\* Opening or completing a journal leaves its entries alone.
LEMMA OpenFacts ==
    ASSUME NEW j \in Journal, NEW b \in BOOLEAN
    PROVE  /\ [j EXCEPT !.open = b] \in Journal
           /\ [j EXCEPT !.open = b].item = j.item
BY DEF Journal

\* Setting an entry twice is setting it once.
LEMMA SetItemTwice ==
    ASSUME NEW j \in Journal, NEW f \in File, NEW s \in ItemState, NEW t \in ItemState
    PROVE  SetItem(SetItem(j, f, s), f, t) = SetItem(j, f, t)
BY DEF SetItem, Journal, ItemState

LEMMA SetItemSame ==
    ASSUME NEW j \in Journal, NEW f \in File
    PROVE  SetItem(j, f, j.item[f]) = j
BY DEF SetItem, Journal

\* An operation that goes on is an operation.
LEMMA OpFacts ==
    ASSUME NEW o \in Operation, NEW pc \in {"next", "effect", "record"},
           NEW i \in File \cup {NoFile}, NEW S \in SUBSET File
    PROVE  /\ [o EXCEPT !.pc = pc] \in Operation
           /\ [o EXCEPT !.pc = pc, !.item = i, !.todo = S] \in Operation
           /\ [o EXCEPT !.todo = S] \in Operation
BY DEF Operation

\* The places a file can be are distinct, and recovery places name their plan.
LEMMA PlaceFacts ==
    ASSUME NEW p \in Plan, NEW q \in Plan
    PROVE  /\ AtSource # Lost
           /\ InRecovery(p) \notin {AtSource, Lost, RemovedBy(q)}
           /\ RemovedBy(p) \notin {AtSource, Lost, InRecovery(q)}
           /\ InRecovery(p) = InRecovery(q) => p = q
           /\ RemovedBy(p) = RemovedBy(q) => p = q
           /\ {AtSource, Lost, InRecovery(p), RemovedBy(p)} \subseteq Place
           /\ AtSource.kind = "source" /\ Lost.kind = "lost"
           /\ InRecovery(p).kind = "recovery" /\ RemovedBy(p).kind = "removed"
<1>1. /\ AtSource.kind = "source" /\ Lost.kind = "lost"
      /\ InRecovery(p).kind = "recovery" /\ RemovedBy(p).kind = "removed"
      /\ InRecovery(q).kind = "recovery" /\ RemovedBy(q).kind = "removed"
      /\ InRecovery(p).by = p /\ InRecovery(q).by = q
      /\ RemovedBy(p).by = p /\ RemovedBy(q).by = q
    BY DEF AtSource, Lost, InRecovery, RemovedBy
<1>2. {AtSource, Lost, InRecovery(p), RemovedBy(p)} \subseteq Place
    BY DEF AtSource, Lost, InRecovery, RemovedBy, Place
<1>3. QED BY <1>1, <1>2

-----------------------------------------------------------------------------
(* Type correctness *)

LEMMA TypeInit == Init => TypeOK
BY DistinctConstants DEF Init, TypeOK, Unplanned, PlanRecord, Disposition, NoJournal,
   Journal, ItemState, Idle, Operation, AtSource, Place

LEMMA TypeStep == TypeOK /\ [Next]_vars => TypeOK'
<1> SUFFICES ASSUME TypeOK, [Next]_vars PROVE TypeOK'
    OBVIOUS
<1> USE DEF TypeOK, bounds, fileVars
<1>1. ASSUME NEW p \in Plan, NEW items \in SUBSET File, NEW d \in Disposition,
             NEW keeper \in File \cup {NoFile}, CreatePlan(p, items, d, keeper)
      PROVE  TypeOK'
    BY <1>1 DEF CreatePlan, PlanRecord
<1>2. ASSUME NEW p \in Plan, BeginExecute(p) PROVE TypeOK'
    <2>1. [item |-> [f \in File |-> IF f \in plan[p].items THEN "Pending" ELSE "None"],
           open |-> TRUE] \in Journal
        BY DEF Journal, ItemState
    <2>2. plan[p].items \in SUBSET File
        BY DEF PlanRecord
    <2>3. op' \in Operation /\ op'.plan = p /\ op'.pc = "next"
        BY <1>2, <2>2 DEF BeginExecute, Operation, Idle
    <2>4. mem' \in Journal /\ disk' \in [Plan -> Journal]
        BY <1>2, <2>1 DEF BeginExecute
    <2>5. QED BY <1>2, <2>3, <2>4 DEF BeginExecute
<1>3. ASSUME NEW f \in File, ExecuteIntent(f) PROVE TypeOK'
    <2>1. SetItem(mem, f, "Mutating") \in Journal
        BY SetItemFacts DEF ItemState
    <2>2. op' \in Operation /\ op'.item = f /\ op'.plan = op.plan /\ op'.kind = op.kind
        BY <1>3 DEF ExecuteIntent, Operation
    <2>3. QED BY <1>3, <2>1, <2>2 DEF ExecuteIntent, Persist
<1>4. CASE ExecuteEffect
    <2>1. op.plan \in Plan /\ op.item \in File
        BY <1>4 DEF ExecuteEffect
    <2>2. mem' \in Journal
        <3>1. SetItem(mem, op.item, "Quarantined") \in Journal /\ SetItem(mem, op.item, "Purged") \in Journal
            BY <2>1, SetItemFacts DEF ItemState
        <3>2. mem' \in {SetItem(mem, op.item, "Quarantined"), SetItem(mem, op.item, "Purged")}
            BY <1>4 DEF ExecuteEffect
        <3>3. QED BY <3>1, <3>2
    <2>3. at' \in [File -> Place]
        BY <1>4, <2>1, PlaceFacts DEF ExecuteEffect
    <2>4. op' \in Operation /\ op'.plan = op.plan /\ op'.item = op.item
        BY <1>4 DEF ExecuteEffect, Operation
    <2>5. QED BY <1>4, <2>1, <2>2, <2>3, <2>4 DEF ExecuteEffect
<1>5. CASE ExecuteRefuse
    <2>1. mem' \in Journal
        BY <1>5, SetItemFacts DEF ExecuteRefuse, ItemState
    <2>2. op' \in Operation
        BY <1>5, OpFacts DEF ExecuteRefuse
    <2>3. QED BY <1>5, <2>1, <2>2 DEF ExecuteRefuse
<1>6. CASE RecordItem
    BY <1>6 DEF RecordItem, Persist, Operation
<1>7. CASE Finish
    <2>1. [mem EXCEPT !.open = FALSE] \in Journal /\ NoJournal \in Journal
        BY OpenFacts DEF Journal, NoJournal, ItemState
    <2>2. Idle \in Operation /\ Idle.kind = "idle" /\ Idle.pc = "next"
        BY DEF Idle, Operation
    <2>3. QED BY <1>7, <2>1, <2>2 DEF Finish
<1>8. ASSUME NEW p \in Plan, BeginUndo(p) PROVE TypeOK'
    BY <1>8 DEF BeginUndo, Operation, Idle
<1>9. ASSUME NEW f \in File, UndoProtected(f) PROVE TypeOK'
    BY <1>9 DEF UndoProtected, Persist, Operation
<1>10. ASSUME NEW f \in File, UndoUnproven(f) PROVE TypeOK'
    BY <1>10, SetItemFacts DEF UndoUnproven, Persist, Operation, ItemState
<1>11. ASSUME NEW f \in File, UndoIntent(f) PROVE TypeOK'
    <2>1. [SetItem(mem, f, "Mutating") EXCEPT !.open = TRUE] \in Journal
        BY SetItemFacts, OpenFacts DEF ItemState
    <2>2. op' \in Operation /\ op'.item = f /\ op'.plan = op.plan /\ op'.kind = op.kind
        BY <1>11 DEF UndoIntent, Operation
    <2>3. QED BY <1>11, <2>1, <2>2 DEF UndoIntent, Persist
<1>12. CASE UndoEffect
    <2>1. mem' \in Journal
        BY <1>12, SetItemFacts DEF UndoEffect, ItemState
    <2>2. op' \in Operation
        BY <1>12, OpFacts DEF UndoEffect
    <2>3. AtSource \in Place
        BY DEF AtSource, Place
    <2>4. QED BY <1>12, <2>1, <2>2, <2>3 DEF UndoEffect, RenameToOriginal
<1>13. CASE UndoRefuse
    <2>1. mem' \in Journal
        BY <1>13, SetItemFacts DEF UndoRefuse, ItemState
    <2>2. op' \in Operation
        BY <1>13, OpFacts DEF UndoRefuse
    <2>3. QED BY <1>13, <2>1, <2>2 DEF UndoRefuse
<1>14. CASE Start
    BY <1>14 DEF Start
<1>15. ASSUME NEW p \in Plan, Reconcile(p) PROVE TypeOK'
    <2> PICK proven \in SUBSET {f \in File : RecoveryGuard(p, f)} :
          disk' = [disk EXCEPT ![p] =
                     [item |-> [f \in File |-> Reconciled(p, f, proven)], open |-> FALSE]]
        BY <1>15 DEF Reconcile
    <2>1. \A f \in File : Reconciled(p, f, proven) \in ItemState
        BY DEF Reconciled, ItemState, Journal
    <2>2. QED BY <1>15, <2>1 DEF Reconcile, Journal
<1>16. CASE StartFails
    BY <1>16 DEF StartFails
<1>17. CASE Started
    BY <1>17 DEF Started
<1>18. CASE WriteFails
    BY <1>18 DEF WriteFails, Idle, Operation, NoJournal, Journal, ItemState
<1>19. CASE Crash
    BY <1>19 DEF Crash, Idle, Operation, NoJournal, Journal, ItemState
<1>20. ASSUME NEW f \in File, UserDeletes(f) PROVE TypeOK'
    BY <1>20 DEF UserDeletes, Lost, Place
<1>21. ASSUME NEW f \in File, UserCreates(f) PROVE TypeOK'
    BY <1>21 DEF UserCreates
<1>22. CASE UNCHANGED vars
    BY <1>22 DEF vars
<1>23. QED
    BY <1>1, <1>2, <1>3, <1>4, <1>5, <1>6, <1>7, <1>8, <1>9, <1>10, <1>11, <1>12,
       <1>13, <1>14, <1>15, <1>16, <1>17, <1>18, <1>19, <1>20, <1>21, <1>22
    DEF Next, Execution, Undo, StartUp, Environment

\* Every variable keeps its type in every behaviour.
THEOREM TypeCorrect == Spec => []TypeOK
<1>1. QED BY TypeInit, TypeStep, PTL DEF Spec

-----------------------------------------------------------------------------
(* Journals are written ahead and are true *)

LEMMA InvInit == Init => IInv
<1> SUFFICES ASSUME Init PROVE IInv
    OBVIOUS
<1>1. TypeOK
    BY TypeInit
<1>2. WriteAhead /\ Truthful
    BY PlaceFacts DEF Init, WriteAhead, Truthful, NoJournal
<1>3. OperationConsistent
    BY DEF Init, OperationConsistent
<1>4. QED BY <1>1, <1>2, <1>3 DEF IInv

\* A step that leaves the files alone and settles one entry of one journal in a
\* way that is true keeps every journal true.
LEMMA OneEntry ==
    ASSUME TypeOK, WriteAhead, Truthful,
           NEW p \in Plan, NEW f \in File, NEW s \in ItemState,
           at' = at, disk' \in [Plan -> Journal],
           \A q \in Plan, g \in File :
               (q # p \/ g # f) => disk'[q].item[g] = disk[q].item[g],
           disk'[p].item[f] = s,
           s \in {"Mutating", "Unknown"} \/ Outcome(p, f, s)
    PROVE  WriteAhead' /\ Truthful'
BY PlaceFacts DEF WriteAhead, Truthful, Outcome, ItemState

\* The same for the entry of the item in hand, written from the copy in memory.
LEMMA OneEntryWritten ==
    ASSUME TypeOK, WriteAhead, Truthful, op.plan \in Plan, mem = disk[op.plan],
           NEW f \in File, NEW s \in {"Mutating", "Unknown"},
           at' = at, disk' \in [Plan -> Journal],
           mem'.item[f] = s, disk'[op.plan] = mem',
           \A q \in Plan : q # op.plan => disk'[q] = disk[q],
           \A g \in File : g # f => mem'.item[g] = mem.item[g]
    PROVE  WriteAhead' /\ Truthful'
<1> PICK p \in Plan : p = op.plan
    OBVIOUS
<1>1. s \in ItemState
    BY DEF ItemState
<1>2. disk'[p].item[f] = s
    OBVIOUS
<1>3. \A q \in Plan, g \in File : (q # p \/ g # f) => disk'[q].item[g] = disk[q].item[g]
    OBVIOUS
<1>4. QED BY <1>1, <1>2, <1>3, OneEntry

\* A step that changes no journal entry and no file keeps every journal true.
LEMMA SameEntries ==
    ASSUME WriteAhead, Truthful, at' = at,
           \A q \in Plan, g \in File : disk'[q].item[g] = disk[q].item[g]
    PROVE  WriteAhead' /\ Truthful'
BY DEF WriteAhead, Truthful

LEMMA InvStep == IInv /\ [Next]_vars => IInv'
<1> SUFFICES ASSUME IInv, [Next]_vars PROVE IInv'
    OBVIOUS
<1> USE DEF fileVars, bounds
<1>0. TypeOK /\ TypeOK' /\ WriteAhead /\ Truthful /\ OperationConsistent
    BY TypeStep DEF IInv
<1> SUFFICES WriteAhead' /\ Truthful' /\ OperationConsistent'
    BY <1>0 DEF IInv
<1>t. /\ disk \in [Plan -> Journal] /\ mem \in Journal /\ op \in Operation
      /\ disk' \in [Plan -> Journal] /\ mem' \in Journal /\ op' \in Operation
      /\ at \in [File -> Place]
    BY <1>0 DEF TypeOK
<1>i. Idle.kind = "idle" /\ Idle.pc = "next" /\ Idle.todo = {} /\ Idle.item = NoFile
    BY DEF Idle
<1>1. ASSUME NEW p \in Plan, NEW items \in SUBSET File, NEW d \in Disposition,
             NEW keeper \in File \cup {NoFile}, CreatePlan(p, items, d, keeper)
      PROVE  WriteAhead' /\ Truthful' /\ OperationConsistent'
    <2>1. WriteAhead' /\ Truthful'
        BY <1>0, <1>1, SameEntries DEF CreatePlan
    <2>2. OperationConsistent'
        BY <1>1 DEF CreatePlan, WriterFree, OperationConsistent
    <2>3. QED BY <2>1, <2>2
<1>2. ASSUME NEW p \in Plan, BeginExecute(p)
      PROVE  WriteAhead' /\ Truthful' /\ OperationConsistent'
    <2>1. /\ \A q \in Plan : q # p => disk'[q] = disk[q]
          /\ \A f \in File : disk'[p].item[f] \in {"Pending", "None"}
          /\ disk'[p] = mem'
          /\ \A f \in plan[p].items : f \in File => mem'.item[f] = "Pending"
          /\ at' = at
        BY <1>2, <1>t DEF BeginExecute
    <2>2. \A f \in File : disk[p].item[f] = "None"
        BY <1>2 DEF BeginExecute, HasExecution
    <2>3. WriteAhead' /\ Truthful'
        BY <1>0, <2>1, <2>2 DEF WriteAhead, Truthful
    <2>4. op'.kind = "execute" /\ op'.plan = p /\ op'.pc = "next" /\ op'.item = NoFile
          /\ op'.todo = plan[p].items
        BY <1>2 DEF BeginExecute, Idle
    <2>5. phase' = "running" /\ plan[p].items \subseteq File
        BY <1>2, <1>0 DEF BeginExecute, WriterFree, TypeOK, PlanRecord
    <2>6. OperationConsistent'
        BY <2>1, <2>4, <2>5 DEF OperationConsistent
    <2>7. QED BY <2>3, <2>6
<1>3. ASSUME NEW f \in File, ExecuteIntent(f)
      PROVE  WriteAhead' /\ Truthful' /\ OperationConsistent'
    <2>1. /\ op # Idle /\ op.plan \in Plan /\ mem = disk[op.plan] /\ phase = "running"
          /\ mem.item[f] = "Pending" /\ f \in op.todo /\ NoFile \notin File
        BY <1>0, <1>3, <1>i, DistinctConstants DEF ExecuteIntent, OperationConsistent
    <2>2. /\ mem' = SetItem(mem, f, "Mutating")
          /\ disk' = [disk EXCEPT ![op.plan] = mem'] /\ at' = at /\ phase' = phase
        BY <1>3 DEF ExecuteIntent, Persist
    <2>3. op'.kind = "execute" /\ op'.plan = op.plan /\ op'.pc = "effect" /\ op'.item = f
          /\ op'.todo = op.todo
        BY <1>3, <1>t DEF ExecuteIntent, Operation
    <2>4. /\ mem'.item[f] = "Mutating" /\ disk'[op.plan] = mem'
          /\ \A q \in Plan : q # op.plan => disk'[q] = disk[q]
          /\ \A g \in File : g # f => mem'.item[g] = mem.item[g]
        BY <1>t, <2>1, <2>2 DEF SetItem, Journal, ItemState
    <2>5. WriteAhead' /\ Truthful'
        BY <1>0, <1>t, <2>1, <2>2, <2>4, OneEntryWritten DEF TypeOK
    <2>6. at[f] \notin {InRecovery(op.plan), RemovedBy(op.plan)}
        BY <1>0, <2>1 DEF WriteAhead
    <2>7. mem' = SetItem(mem', f, mem'.item[f])
        BY <1>t, SetItemSame
    <2>8. \A g \in op.todo : g \in File /\ (g = f \/ mem.item[g] = "Pending")
        BY <1>0, <1>3, <2>1, <1>t DEF ExecuteIntent, OperationConsistent, Operation
    <2>9. OperationConsistent'
        BY <2>1, <2>2, <2>3, <2>4, <2>6, <2>7, <2>8 DEF OperationConsistent
    <2>10. QED BY <2>5, <2>9
<1>4. CASE ExecuteEffect
    <2> DEFINE f == op.item
               p == op.plan
    <2>1. /\ op # Idle /\ p \in Plan /\ f \in File /\ phase = "running"
          /\ f \in op.todo /\ disk[p].item[f] = "Mutating"
          /\ mem = SetItem(disk[p], f, "Mutating")
        BY <1>0, <1>4, <1>i DEF ExecuteEffect, OperationConsistent, TypeOK
    <2>2. at[f] = AtSource /\ disk' = disk /\ phase' = phase
        BY <1>4 DEF ExecuteEffect, GuardEntry
    <2>3. PICK s \in {"Quarantined", "Purged"} :
              /\ mem' = SetItem(mem, f, s)
              /\ s = "Quarantined" => at' = [at EXCEPT ![f] = InRecovery(p)]
              /\ s = "Purged" => at' = [at EXCEPT ![f] = RemovedBy(p)]
        BY <1>4 DEF ExecuteEffect
    <2>4. /\ \A g \in File : g # f => at'[g] = at[g]
          /\ s = "Quarantined" => at'[f] = InRecovery(p)
          /\ s = "Purged" => at'[f] = RemovedBy(p)
        BY <1>t, <2>1, <2>3
    <2>5. WriteAhead'
        BY <1>0, <2>1, <2>2, <2>3, <2>4, PlaceFacts DEF WriteAhead
    <2>6. Truthful'
        BY <1>0, <2>1, <2>2, <2>3, <2>4, PlaceFacts DEF Truthful
    <2>7. op'.kind = op.kind /\ op'.plan = p /\ op'.pc = "record" /\ op'.item = f
          /\ op'.todo = op.todo /\ op.kind = "execute"
        BY <1>4, <1>t DEF ExecuteEffect, Operation
    <2>8. mem'.item[f] = s /\ \A g \in File : g # f => mem'.item[g] = mem.item[g]
        BY <1>t, <2>1, <2>3 DEF SetItem, Journal, ItemState
    <2>9. mem' = SetItem(disk'[p], f, mem'.item[f])
        BY <1>t, <2>1, <2>2, <2>3, <2>8, SetItemTwice DEF ItemState
    <2>10. Outcome(p, f, s)'
        BY <2>3, <2>4, <2>7 DEF Outcome
    <2>11. \A g \in op.todo : g \in File /\ (g = f \/ mem.item[g] = "Pending")
        BY <1>0, <2>1, <2>7, <1>t DEF OperationConsistent, Operation
    <2>12. OperationConsistent'
        BY <2>1, <2>2, <2>7, <2>8, <2>9, <2>10, <2>11 DEF OperationConsistent, Outcome
    <2>13. QED BY <2>5, <2>6, <2>12
<1>5. CASE ExecuteRefuse
    <2> DEFINE f == op.item
               p == op.plan
    <2>1. /\ op # Idle /\ p \in Plan /\ f \in File /\ phase = "running"
          /\ f \in op.todo /\ disk[p].item[f] = "Mutating"
          /\ mem = SetItem(disk[p], f, "Mutating")
          /\ at[f] \notin {InRecovery(p), RemovedBy(p)}
        BY <1>0, <1>5, <1>i DEF ExecuteRefuse, OperationConsistent, TypeOK
    <2>2. mem' = SetItem(mem, f, "Failed") /\ disk' = disk /\ phase' = phase /\ at' = at
        BY <1>5 DEF ExecuteRefuse
    <2>3. WriteAhead' /\ Truthful'
        BY <1>0, <2>2, SameEntries
    <2>4. op'.kind = op.kind /\ op'.plan = p /\ op'.pc = "record" /\ op'.item = f
          /\ op'.todo = op.todo /\ op.kind = "execute"
        BY <1>5, <1>t DEF ExecuteRefuse, Operation
    <2>5. mem'.item[f] = "Failed" /\ \A g \in File : g # f => mem'.item[g] = mem.item[g]
        BY <1>t, <2>1, <2>2 DEF SetItem, Journal, ItemState
    <2>6. mem' = SetItem(disk'[p], f, mem'.item[f])
        BY <1>t, <2>1, <2>2, <2>5, SetItemTwice DEF ItemState
    <2>7. \A g \in op.todo : g \in File /\ (g = f \/ mem.item[g] = "Pending")
        BY <1>0, <2>1, <2>4, <1>t DEF OperationConsistent, Operation
    <2>8. OperationConsistent'
        BY <2>1, <2>2, <2>4, <2>5, <2>6, <2>7 DEF OperationConsistent, Outcome
    <2>9. QED BY <2>3, <2>8
<1>6. CASE RecordItem
    <2> DEFINE f == op.item
               p == op.plan
    <2>1. /\ op # Idle /\ p \in Plan /\ f \in File /\ phase = "running"
          /\ mem = SetItem(disk[p], f, mem.item[f])
          /\ Outcome(p, f, mem.item[f])
        BY <1>0, <1>6, <1>i DEF RecordItem, OperationConsistent, TypeOK
    <2>2. mem' = mem /\ disk' = [disk EXCEPT ![p] = mem] /\ phase' = phase /\ at' = at
        BY <1>6 DEF RecordItem, Persist
    <2>3. mem.item[f] \in ItemState
        BY <1>t, <2>1 DEF Journal
    <2>4. \A g \in File : g # f => mem.item[g] = disk[p].item[g]
        BY <1>t, <2>1, <2>3, SetItemFacts
    <2>5. WriteAhead' /\ Truthful'
        BY <1>0, <1>t, <2>1, <2>2, <2>3, <2>4, OneEntry
    <2>6. op'.kind = op.kind /\ op'.plan = p /\ op'.pc = "next" /\ op'.item = NoFile
          /\ op'.todo = op.todo \ {f}
        BY <1>6, <1>t DEF RecordItem, Operation
    <2>7. OperationConsistent'
        BY <1>0, <1>t, <2>1, <2>2, <2>6 DEF OperationConsistent
    <2>8. QED BY <2>5, <2>7
<1>7. CASE Finish
    <2>1. /\ op # Idle /\ op.plan \in Plan /\ mem = disk[op.plan]
        BY <1>0, <1>7, <1>i DEF Finish, OperationConsistent
    <2>2. /\ disk' = [disk EXCEPT ![op.plan] = [mem EXCEPT !.open = FALSE]]
          /\ at' = at /\ op' = Idle
        BY <1>7 DEF Finish
    <2>3. WriteAhead' /\ Truthful'
        BY <1>0, <1>t, <2>1, <2>2, OpenFacts, SameEntries
    <2>4. QED BY <2>2, <2>3 DEF OperationConsistent
<1>8. ASSUME NEW p \in Plan, BeginUndo(p)
      PROVE  WriteAhead' /\ Truthful' /\ OperationConsistent'
    <2>1. mem' = disk[p] /\ disk' = disk /\ at' = at /\ phase' = "running"
        BY <1>8 DEF BeginUndo, WriterFree
    <2>2. op'.kind = "undo" /\ op'.plan = p /\ op'.pc = "next" /\ op'.item = NoFile
          /\ op'.todo = {f \in File : disk[p].item[f] = "Quarantined"}
        BY <1>8 DEF BeginUndo, Idle
    <2>3. WriteAhead' /\ Truthful'
        BY <1>0, <2>1, SameEntries
    <2>4. OperationConsistent'
        BY <2>1, <2>2 DEF OperationConsistent
    <2>5. QED BY <2>3, <2>4
<1>9. ASSUME NEW f \in File, UndoProtected(f)
      PROVE  WriteAhead' /\ Truthful' /\ OperationConsistent'
    <2>1. /\ op # Idle /\ op.plan \in Plan /\ mem = disk[op.plan] /\ phase = "running"
          /\ op.item = NoFile /\ NoFile \notin File
        BY <1>0, <1>9, <1>i, DistinctConstants DEF UndoProtected, OperationConsistent
    <2>2. mem' = mem /\ disk' = [disk EXCEPT ![op.plan] = mem] /\ at' = at /\ phase' = phase
        BY <1>9 DEF UndoProtected, Persist
    <2>3. WriteAhead' /\ Truthful'
        BY <1>0, <1>t, <2>1, <2>2, SameEntries
    <2>4. op'.kind = op.kind /\ op'.plan = op.plan /\ op'.pc = "next" /\ op'.item = NoFile
          /\ op'.todo = op.todo \ {f} /\ op.kind = "undo"
        BY <1>9, <2>1, <1>t DEF UndoProtected, Operation
    <2>5. OperationConsistent'
        BY <1>0, <1>t, <2>1, <2>2, <2>4 DEF OperationConsistent
    <2>6. QED BY <2>3, <2>5
<1>10. ASSUME NEW f \in File, UndoUnproven(f)
      PROVE  WriteAhead' /\ Truthful' /\ OperationConsistent'
    <2>1. /\ op # Idle /\ op.plan \in Plan /\ mem = disk[op.plan] /\ phase = "running"
          /\ op.item = NoFile /\ NoFile \notin File /\ f \in op.todo
        BY <1>0, <1>10, <1>i, DistinctConstants DEF UndoUnproven, OperationConsistent
    <2>2. /\ mem' = SetItem(mem, f, "Unknown")
          /\ disk' = [disk EXCEPT ![op.plan] = mem'] /\ at' = at /\ phase' = phase
        BY <1>10 DEF UndoUnproven, Persist
    <2>3. /\ mem'.item[f] = "Unknown" /\ disk'[op.plan] = mem'
          /\ \A q \in Plan : q # op.plan => disk'[q] = disk[q]
          /\ \A g \in File : g # f => mem'.item[g] = mem.item[g]
        BY <1>t, <2>1, <2>2 DEF SetItem, Journal, ItemState
    <2>4. WriteAhead' /\ Truthful'
        BY <1>0, <1>t, <2>1, <2>2, <2>3, OneEntryWritten DEF TypeOK
    <2>5. op'.kind = op.kind /\ op'.plan = op.plan /\ op'.pc = "next" /\ op'.item = NoFile
          /\ op'.todo = op.todo \ {f} /\ op.kind = "undo" /\ op.pc = "next"
        BY <1>10, <2>1, <1>t DEF UndoUnproven, Operation
    <2>6. \A g \in op.todo : g \in File /\ mem.item[g] = "Quarantined"
        BY <1>0, <2>1, <2>5, <1>t DEF OperationConsistent, Operation
    <2>7. OperationConsistent'
        BY <2>1, <2>2, <2>3, <2>5, <2>6 DEF OperationConsistent
    <2>8. QED BY <2>4, <2>7
<1>11. ASSUME NEW f \in File, UndoIntent(f)
      PROVE  WriteAhead' /\ Truthful' /\ OperationConsistent'
    <2>1. /\ op # Idle /\ op.plan \in Plan /\ mem = disk[op.plan] /\ phase = "running"
          /\ op.item = NoFile /\ NoFile \notin File /\ f \in op.todo
        BY <1>0, <1>11, <1>i, DistinctConstants DEF UndoIntent, OperationConsistent
    <2>2. /\ mem' = [SetItem(mem, f, "Mutating") EXCEPT !.open = TRUE]
          /\ disk' = [disk EXCEPT ![op.plan] = mem'] /\ at' = at /\ phase' = phase
          /\ at[f] = InRecovery(op.plan)
        BY <1>11 DEF UndoIntent, Persist, RecoveryGuard
    <2> DEFINE j == SetItem(mem, f, "Mutating")
    <2>a. /\ j \in Journal /\ j.item[f] = "Mutating"
          /\ \A g \in File : g # f => j.item[g] = mem.item[g]
        BY <1>t DEF SetItem, Journal, ItemState
    <2>b. mem' = [j EXCEPT !.open = TRUE] /\ [j EXCEPT !.open = TRUE].item = j.item
        BY <2>2, <2>a, OpenFacts
    <2> HIDE DEF j
    <2>3. /\ mem'.item[f] = "Mutating" /\ disk'[op.plan] = mem'
          /\ \A q \in Plan : q # op.plan => disk'[q] = disk[q]
          /\ \A g \in File : g # f => mem'.item[g] = mem.item[g]
      <3>1. mem'.item = j.item
          BY <2>b
      <3>2. disk'[op.plan] = mem' /\ \A q \in Plan : q # op.plan => disk'[q] = disk[q]
          BY <1>t, <2>1, <2>2
      <3>3. QED BY <3>1, <3>2, <2>a
    <2>4. WriteAhead' /\ Truthful'
      <3>1. at' = at /\ "Mutating" \in ItemState /\ op.plan \in Plan
          BY <2>1, <2>2 DEF ItemState
      <3>2. \A q \in Plan, g \in File :
              (q # op.plan \/ g # f) => disk'[q].item[g] = disk[q].item[g]
          BY <2>1, <2>3
      <3>3. disk'[op.plan].item[f] = "Mutating"
          BY <2>3
      <3>4. QED BY <1>0, <1>t, <3>1, <3>2, <3>3, OneEntry
    <2>5. op'.kind = op.kind /\ op'.plan = op.plan /\ op'.pc = "effect" /\ op'.item = f
          /\ op'.todo = op.todo /\ op.kind = "undo" /\ op.pc = "next"
        BY <1>11, <1>t DEF UndoIntent, Operation
    <2>6. mem' = SetItem(mem', f, mem'.item[f])
        BY <1>t, SetItemSame
    <2>7. \A g \in op.todo : g \in File /\ (g = f \/ mem.item[g] = "Quarantined")
        BY <1>0, <2>1, <2>5, <1>t DEF OperationConsistent, Operation
    <2>8. OperationConsistent'
        BY <2>1, <2>2, <2>3, <2>5, <2>6, <2>7 DEF OperationConsistent
    <2>9. QED BY <2>4, <2>8
<1>12. CASE UndoEffect
    <2> DEFINE f == op.item
               p == op.plan
    <2>1. /\ op # Idle /\ p \in Plan /\ f \in File /\ phase = "running"
          /\ f \in op.todo /\ disk[p].item[f] = "Mutating"
          /\ mem = SetItem(disk[p], f, "Mutating") /\ op.kind = "undo"
          /\ at[f] = InRecovery(p)
        BY <1>0, <1>12, <1>i DEF UndoEffect, OperationConsistent, TypeOK
    <2>2. /\ mem' = SetItem(mem, f, "Restored") /\ disk' = disk /\ phase' = phase
          /\ at' = [at EXCEPT ![f] = AtSource]
        BY <1>12 DEF UndoEffect, RenameToOriginal
    <2>3. at'[f] = AtSource /\ \A g \in File : g # f => at'[g] = at[g]
        BY <1>t, <2>1, <2>2
    <2>4. \A q \in Plan : disk[q].item[f] \notin {"Purged", "Quarantined"}
        BY <1>0, <2>1, PlaceFacts DEF Truthful
    <2>5. WriteAhead' /\ Truthful'
        BY <1>0, <2>1, <2>2, <2>3, <2>4, PlaceFacts DEF WriteAhead, Truthful
    <2>6. op'.kind = op.kind /\ op'.plan = p /\ op'.pc = "record" /\ op'.item = f
          /\ op'.todo = op.todo
        BY <1>12, <1>t DEF UndoEffect, Operation
    <2>7. mem'.item[f] = "Restored" /\ \A g \in File : g # f => mem'.item[g] = mem.item[g]
        BY <1>t, <2>1, <2>2 DEF SetItem, Journal, ItemState
    <2>8. mem' = SetItem(disk'[p], f, mem'.item[f])
        BY <1>t, <2>1, <2>2, <2>7, SetItemTwice DEF ItemState
    <2>9. \A g \in op.todo : g \in File /\ (g = f \/ mem.item[g] = "Quarantined")
        BY <1>0, <2>1, <1>t DEF OperationConsistent, Operation
    <2>10. Outcome(p, f, "Restored")'
        BY <2>1, <2>3, <2>6, PlaceFacts DEF Outcome
    <2>11. OperationConsistent'
        BY <2>1, <2>2, <2>6, <2>7, <2>8, <2>9, <2>10 DEF OperationConsistent
    <2>12. QED BY <2>5, <2>11
<1>13. CASE UndoRefuse
    <2> DEFINE f == op.item
               p == op.plan
    <2>1. /\ op # Idle /\ p \in Plan /\ f \in File /\ phase = "running"
          /\ f \in op.todo /\ disk[p].item[f] = "Mutating"
          /\ mem = SetItem(disk[p], f, "Mutating") /\ op.kind = "undo"
          /\ at[f] = InRecovery(p)
        BY <1>0, <1>13, <1>i DEF UndoRefuse, OperationConsistent, TypeOK
    <2>2. /\ mem' = SetItem(mem, f, "Quarantined") /\ disk' = disk /\ phase' = phase
          /\ at' = at
        BY <1>13 DEF UndoRefuse
    <2>3. WriteAhead' /\ Truthful'
        BY <1>0, <2>2, SameEntries
    <2>4. op'.kind = op.kind /\ op'.plan = p /\ op'.pc = "record" /\ op'.item = f
          /\ op'.todo = op.todo
        BY <1>13, <1>t DEF UndoRefuse, Operation
    <2>5. mem'.item[f] = "Quarantined" /\ \A g \in File : g # f => mem'.item[g] = mem.item[g]
        BY <1>t, <2>1, <2>2 DEF SetItem, Journal, ItemState
    <2>6. mem' = SetItem(disk'[p], f, mem'.item[f])
        BY <1>t, <2>1, <2>2, <2>5, SetItemTwice DEF ItemState
    <2>7. \A g \in op.todo : g \in File /\ (g = f \/ mem.item[g] = "Quarantined")
        BY <1>0, <2>1, <1>t DEF OperationConsistent, Operation
    <2>8. OperationConsistent'
        BY <2>1, <2>2, <2>4, <2>5, <2>6, <2>7 DEF OperationConsistent, Outcome
    <2>9. QED BY <2>3, <2>8
<1>14. CASE Start
    <2>1. op = Idle
        BY <1>0, <1>14 DEF Start, OperationConsistent
    <2>2. QED BY <1>0, <1>14, <2>1, SameEntries DEF Start, OperationConsistent
<1>15. ASSUME NEW p \in Plan, Reconcile(p)
      PROVE  WriteAhead' /\ Truthful' /\ OperationConsistent'
    <2> PICK proven \in SUBSET {f \in File : RecoveryGuard(p, f)} :
          disk' = [disk EXCEPT ![p] =
                     [item |-> [f \in File |-> Reconciled(p, f, proven)], open |-> FALSE]]
        BY <1>15 DEF Reconcile
    <2>1. \A f \in proven : f \in File /\ at[f] = InRecovery(p)
        BY DEF RecoveryGuard
    <2>2. \A f \in File : disk'[p].item[f] = Reconciled(p, f, proven)
        BY <1>t
    <2>3. \A f \in File :
            \/ disk'[p].item[f] = disk[p].item[f]
            \/ disk'[p].item[f] = "Quarantined" /\ at[f] = InRecovery(p)
            \/ disk'[p].item[f] = "Unknown" /\ disk[p].item[f] \in {"Pending", "Mutating"}
        BY <2>1, <2>2 DEF Reconciled
    <2>4. \A q \in Plan : q # p => disk'[q] = disk[q]
        BY <1>t
    <2>5. at' = at /\ op' = op /\ phase = "starting"
        BY <1>15 DEF Reconcile
    <2>6. WriteAhead' /\ Truthful'
        BY <1>0, <2>3, <2>4, <2>5, PlaceFacts DEF WriteAhead, Truthful
    <2>7. OperationConsistent'
        BY <1>0, <2>5 DEF OperationConsistent
    <2>8. QED BY <2>6, <2>7
<1>16. CASE StartFails
    <2>1. op = Idle
        BY <1>0, <1>16 DEF StartFails, OperationConsistent
    <2>2. QED BY <1>0, <1>16, <2>1, SameEntries DEF StartFails, OperationConsistent
<1>17. CASE Started
    <2>1. op = Idle
        BY <1>0, <1>17 DEF Started, OperationConsistent
    <2>2. QED BY <1>0, <1>17, <2>1, SameEntries DEF Started, OperationConsistent
<1>18. CASE WriteFails
    BY <1>0, <1>18, SameEntries DEF WriteFails, OperationConsistent
<1>19. CASE Crash
    BY <1>0, <1>19, SameEntries DEF Crash, OperationConsistent
<1>20. ASSUME NEW f \in File, UserDeletes(f)
      PROVE  WriteAhead' /\ Truthful' /\ OperationConsistent'
    <2>1. /\ at' = [at EXCEPT ![f] = Lost] /\ at[f].kind \in {"source", "recovery"}
          /\ disk' = disk /\ mem' = mem /\ op' = op /\ phase' = phase /\ f \notin Pinned
        BY <1>20 DEF UserDeletes
    <2>2. at'[f] = Lost /\ \A g \in File : g # f => at'[g] = at[g]
        BY <1>t, <2>1
    <2>3. \A q \in Plan : at[f] # RemovedBy(q)
        BY <2>1, PlaceFacts
    <2>4. WriteAhead' /\ Truthful'
        BY <1>0, <2>1, <2>2, <2>3, PlaceFacts DEF WriteAhead, Truthful
    <2>5. op # Idle /\ op.kind = "undo" /\ op.pc = "effect" => op.item # f
        BY <2>1 DEF Pinned
    <2>6. \A q \in Plan, g \in File, s \in ItemState : Outcome(q, g, s) => Outcome(q, g, s)'
        BY <2>1, <2>2, <2>3, PlaceFacts DEF Outcome, ItemState
    <2>7. op.pc = "record" /\ op # Idle => mem.item[op.item] \in ItemState /\ op.item \in File
        BY <1>0, <1>t DEF TypeOK, Journal
    <2>8. op.pc # "next" => op.item \in File
        BY <1>0 DEF TypeOK
    <2>9. OperationConsistent'
        BY <1>0, <2>1, <2>2, <2>5, <2>6, <2>7, <2>8, PlaceFacts DEF OperationConsistent
    <2>10. QED BY <2>4, <2>9
<1>21. ASSUME NEW f \in File, UserCreates(f)
      PROVE  WriteAhead' /\ Truthful' /\ OperationConsistent'
    BY <1>0, <1>21, SameEntries DEF UserCreates, OperationConsistent, Outcome
<1>22. CASE UNCHANGED vars
    BY <1>0, <1>22, SameEntries DEF vars, OperationConsistent, Outcome
<1>23. QED
    BY <1>1, <1>2, <1>3, <1>4, <1>5, <1>6, <1>7, <1>8, <1>9, <1>10, <1>11, <1>12,
       <1>13, <1>14, <1>15, <1>16, <1>17, <1>18, <1>19, <1>20, <1>21, <1>22
    DEF Next, Execution, Undo, StartUp, Environment

\* Every effect of every plan is admitted by its journal on disk.
THEOREM JournalsWrittenAhead == Spec => []WriteAhead
<1>1. IInv => WriteAhead
    BY DEF IInv
<1>2. QED BY InvInit, InvStep, <1>1, PTL DEF Spec

\* Settled journal entries are true of the file system.
THEOREM JournalsTruthful == Spec => []Truthful
<1>1. IInv => Truthful
    BY DEF IInv
<1>2. QED BY InvInit, InvStep, <1>1, PTL DEF Spec

-----------------------------------------------------------------------------
(* Journal entries only move forward *)

\* A write of the journal in progress that changes the entry of f alone, forward.
LEMMA OneForward ==
    ASSUME NEW p \in Plan, NEW f \in File,
           \A q \in Plan, g \in File :
               (q # p \/ g # f) => disk'[q].item[g] = disk[q].item[g],
           disk'[p].item[f] \in Successors(disk[p].item[f])
    PROVE  \A q \in Plan, g \in File :
               disk'[q].item[g] # disk[q].item[g] =>
                   disk'[q].item[g] \in Successors(disk[q].item[g])
OBVIOUS

LEMMA ForwardStep ==
    ASSUME IInv, [Next]_vars
    PROVE  \A p \in Plan, f \in File :
               disk'[p].item[f] # disk[p].item[f] =>
                   disk'[p].item[f] \in Successors(disk[p].item[f])
<1> DEFINE Forward == \A p \in Plan, f \in File :
               disk'[p].item[f] # disk[p].item[f] =>
                   disk'[p].item[f] \in Successors(disk[p].item[f])
<1>0. TypeOK /\ OperationConsistent /\ disk \in [Plan -> Journal] /\ mem \in Journal
    BY DEF IInv, TypeOK
<1>i. Idle.kind = "idle"
    BY DEF Idle
<1>1. ASSUME NEW p \in Plan, BeginExecute(p) PROVE Forward
    <2>1. /\ \A q \in Plan : q # p => disk'[q] = disk[q]
          /\ \A f \in File : disk'[p].item[f] \in {"Pending", "None"}
          /\ \A f \in File : disk[p].item[f] = "None"
        BY <1>1, <1>0 DEF BeginExecute, HasExecution
    <2>2. QED BY <2>1 DEF Successors
<1>2. ASSUME NEW f \in File, ExecuteIntent(f) PROVE Forward
    <2>1. /\ op.plan \in Plan /\ mem = disk[op.plan] /\ mem.item[f] = "Pending"
        BY <1>0, <1>2, <1>i, DistinctConstants DEF ExecuteIntent, OperationConsistent
    <2>2. disk' = [disk EXCEPT ![op.plan] = SetItem(mem, f, "Mutating")]
        BY <1>2 DEF ExecuteIntent, Persist
    <2>3. /\ \A q \in Plan, g \in File :
               (q # op.plan \/ g # f) => disk'[q].item[g] = disk[q].item[g]
          /\ disk'[op.plan].item[f] = "Mutating"
        BY <1>0, <2>1, <2>2 DEF SetItem, Journal, ItemState
    <2>4. QED BY <2>1, <2>3, OneForward DEF Successors
<1>3. CASE RecordItem
    <2>1. /\ op # Idle /\ op.plan \in Plan /\ op.item \in File
          /\ mem = SetItem(disk[op.plan], op.item, mem.item[op.item])
          /\ Outcome(op.plan, op.item, mem.item[op.item])
          /\ disk[op.plan].item[op.item] = "Mutating"
        BY <1>0, <1>3, <1>i DEF RecordItem, OperationConsistent, TypeOK
    <2>2. disk' = [disk EXCEPT ![op.plan] = mem]
        BY <1>3 DEF RecordItem, Persist
    <2>3. mem.item[op.item] \in ItemState
        BY <1>0, <2>1 DEF Journal
    <2>4. \A g \in File : g # op.item => mem.item[g] = disk[op.plan].item[g]
        BY <1>0, <2>1, <2>3, SetItemFacts
    <2>5. \A q \in Plan, g \in File :
              (q # op.plan \/ g # op.item) => disk'[q].item[g] = disk[q].item[g]
        BY <1>0, <2>1, <2>2, <2>4
    <2>6. mem.item[op.item] \in {"Quarantined", "Purged", "Failed", "Restored"}
        BY <2>1 DEF Outcome
    <2>7. disk'[op.plan].item[op.item] \in Successors(disk[op.plan].item[op.item])
        BY <1>0, <2>1, <2>2, <2>6 DEF Successors
    <2>8. QED BY <2>1, <2>5, <2>7, OneForward
<1>4. CASE Finish
    <2>1. op.plan \in Plan /\ mem = disk[op.plan]
        BY <1>0, <1>4, <1>i DEF Finish, OperationConsistent
    <2>2. disk' = [disk EXCEPT ![op.plan] = [mem EXCEPT !.open = FALSE]]
        BY <1>4 DEF Finish
    <2>3. QED BY <1>0, <2>1, <2>2, OpenFacts
<1>5. ASSUME NEW f \in File, UndoProtected(f) PROVE Forward
    <2>1. op.plan \in Plan /\ mem = disk[op.plan]
        BY <1>0, <1>5, <1>i DEF UndoProtected, OperationConsistent
    <2>2. QED BY <1>0, <1>5, <2>1 DEF UndoProtected, Persist
<1>6. ASSUME NEW f \in File, UndoUnproven(f) PROVE Forward
    <2>1. op.plan \in Plan /\ mem = disk[op.plan] /\ mem.item[f] = "Quarantined"
        BY <1>0, <1>6, <1>i, DistinctConstants DEF UndoUnproven, OperationConsistent
    <2>2. disk' = [disk EXCEPT ![op.plan] = SetItem(mem, f, "Unknown")]
        BY <1>6 DEF UndoUnproven, Persist
    <2>3. /\ \A q \in Plan, g \in File :
               (q # op.plan \/ g # f) => disk'[q].item[g] = disk[q].item[g]
          /\ disk'[op.plan].item[f] = "Unknown"
        BY <1>0, <2>1, <2>2 DEF SetItem, Journal, ItemState
    <2>4. QED BY <2>1, <2>3, OneForward DEF Successors
<1>7. ASSUME NEW f \in File, UndoIntent(f) PROVE Forward
    <2>1. op.plan \in Plan /\ mem = disk[op.plan] /\ mem.item[f] = "Quarantined"
        BY <1>0, <1>7, <1>i, DistinctConstants DEF UndoIntent, OperationConsistent
    <2> DEFINE j == SetItem(mem, f, "Mutating")
    <2>2. /\ j \in Journal /\ j.item[f] = "Mutating"
          /\ \A g \in File : g # f => j.item[g] = mem.item[g]
        BY <1>0 DEF SetItem, Journal, ItemState
    <2>3. disk' = [disk EXCEPT ![op.plan] = [j EXCEPT !.open = TRUE]]
        BY <1>7 DEF UndoIntent, Persist
    <2>4. [j EXCEPT !.open = TRUE].item = j.item
        BY <2>2, OpenFacts
    <2> HIDE DEF j
    <2>5. /\ disk'[op.plan].item = j.item
          /\ \A q \in Plan : q # op.plan => disk'[q] = disk[q]
        BY <1>0, <2>1, <2>3, <2>4
    <2>6. /\ \A q \in Plan, g \in File :
               (q # op.plan \/ g # f) => disk'[q].item[g] = disk[q].item[g]
          /\ disk'[op.plan].item[f] = "Mutating"
        BY <2>1, <2>2, <2>5
    <2>7. QED BY <2>1, <2>6, OneForward DEF Successors
<1>8. ASSUME NEW p \in Plan, Reconcile(p) PROVE Forward
    <2> PICK proven \in SUBSET {f \in File : RecoveryGuard(p, f)} :
          disk' = [disk EXCEPT ![p] =
                     [item |-> [f \in File |-> Reconciled(p, f, proven)], open |-> FALSE]]
        BY <1>8 DEF Reconcile
    <2>1. /\ \A f \in File : disk'[p].item[f] = Reconciled(p, f, proven)
          /\ \A q \in Plan : q # p => disk'[q] = disk[q]
        BY <1>0
    <2>2. \A f \in File : \/ disk'[p].item[f] = disk[p].item[f]
                         \/ /\ disk'[p].item[f] = "Unknown"
                            /\ disk[p].item[f] \in {"Pending", "Mutating"}
                         \/ /\ disk'[p].item[f] = "Quarantined"
                            /\ disk[p].item[f] \in {"Pending", "Mutating"} /\ f \in proven
        BY <2>1 DEF Reconciled
    <2>3. \A f \in proven : disk[p].item[f] # "Pending"
        BY DEF RecoveryGuard, IInv, WriteAhead
    <2>4. \A f \in File : disk'[p].item[f] # disk[p].item[f] =>
              disk'[p].item[f] \in Successors(disk[p].item[f])
        BY <2>2, <2>3 DEF Successors
    <2>5. QED BY <2>1, <2>4
<1>9. CASE disk' = disk
    BY <1>9
<1>10. QED
    BY <1>1, <1>2, <1>3, <1>4, <1>5, <1>6, <1>7, <1>8, <1>9
    DEF Next, Execution, Undo, StartUp, Environment, vars, CreatePlan, ExecuteEffect,
        ExecuteRefuse, BeginUndo, UndoEffect, UndoRefuse, Start, StartFails, Started,
        WriteFails, Crash, UserDeletes, UserCreates

\* No item that was settled for good ever gets another state, through crashes,
\* restarts and repeated undo.
THEOREM JournalsMoveForward == Spec => JournalLifecycle
<1>1. IInv /\ [Next]_vars =>
          [\A p \in Plan, f \in File :
              disk'[p].item[f] # disk[p].item[f] =>
                  disk'[p].item[f] \in Successors(disk[p].item[f])]_vars
    BY ForwardStep
<1>2. QED BY InvInit, InvStep, <1>1, PTL DEF Spec, JournalLifecycle

-----------------------------------------------------------------------------
(* A copy remains *)

\* Only plans that keep a copy were made, and the user touched nothing.
AllKeep == edits = 0 /\ \A p \in Plan : plan[p] = Unplanned \/ plan[p].keeper \in File

\* No plan removes the copy it names to be kept.
KeepersApart == \A p \in Plan : plan[p].keeper \notin plan[p].items

\* An execution is that of a plan, over the files of the plan.
ExecutesItsPlan ==
    op.kind = "execute" => plan[op.plan] # Unplanned /\ op.todo \subseteq plan[op.plan].items

\* Whatever other plans removed before, the copy that the plan being executed keeps
\* was there when the scope was validated, and this plan alone removes files now.
KeeperStays ==
    AllKeep => /\ \E f \in File : at[f] = AtSource
               /\ op.kind = "execute" => at[plan[op.plan].keeper] = AtSource

KInv == IInv /\ KeepersApart /\ ExecutesItsPlan /\ KeeperStays

LEMMA KInvInit == File # {} /\ Init => KInv
<1> SUFFICES ASSUME File # {}, Init PROVE KInv
    OBVIOUS
<1>1. KeepersApart /\ ExecutesItsPlan
    BY DEF Init, KeepersApart, ExecutesItsPlan, Unplanned, Idle
<1>2. \A f \in File : at[f] = AtSource
    BY DEF Init
<1>3. op.kind # "execute"
    BY DEF Init, Idle
<1>4. KeeperStays
    BY <1>2, <1>3 DEF KeeperStays
<1>5. QED BY InvInit, <1>1, <1>4 DEF KInv

\* A plan that is there stays as it is; with every plan keeping a copy after a step,
\* every plan kept one before it.
LEMMA PlansStay ==
    ASSUME KInv, [Next]_vars
    PROVE  /\ KeepersApart'
           /\ \A p \in Plan : plan[p] # Unplanned => plan'[p] = plan[p]
           /\ AllKeep' => AllKeep
<1>0. /\ plan \in [Plan -> PlanRecord] /\ KeepersApart /\ edits \in Nat
    BY DEF KInv, IInv, TypeOK
<1>1. ASSUME NEW p \in Plan, NEW items \in SUBSET File, NEW d \in Disposition,
             NEW keeper \in File \cup {NoFile}, CreatePlan(p, items, d, keeper)
      PROVE  /\ KeepersApart' /\ edits' = edits
             /\ \A q \in Plan : plan[q] # Unplanned => plan'[q] = plan[q]
    BY <1>0, <1>1 DEF CreatePlan, KeepersApart, bounds
<1>2. \/ edits' = edits
      \/ edits' = edits + 1
    BY DEF Next, Execution, Undo, StartUp, Environment, vars, CreatePlan, BeginExecute,
           ExecuteIntent, ExecuteEffect, ExecuteRefuse, RecordItem, Finish, BeginUndo,
           UndoProtected, UndoUnproven, UndoIntent, UndoEffect, UndoRefuse, Start,
           Reconcile, StartFails, Started, WriteFails, Crash, UserDeletes, UserCreates,
           bounds
<1>3. CASE plan' = plan
    <2>1. KeepersApart'
        BY <1>0, <1>3 DEF KeepersApart
    <2>2. AllKeep' => AllKeep
        BY <1>0, <1>2, <1>3 DEF AllKeep
    <2>3. QED BY <1>3, <2>1, <2>2
<1>4. CASE \E p \in Plan, items \in SUBSET File, d \in Disposition,
              keeper \in File \cup {NoFile} : CreatePlan(p, items, d, keeper)
    <2>1. /\ KeepersApart' /\ edits' = edits
          /\ \A q \in Plan : plan[q] # Unplanned => plan'[q] = plan[q]
        BY <1>1, <1>4
    <2>2. AllKeep' => AllKeep
        BY <2>1 DEF AllKeep
    <2>3. QED BY <2>1, <2>2
<1>5. QED
    BY <1>3, <1>4
    DEF Next, Execution, Undo, StartUp, Environment, vars, BeginExecute, ExecuteIntent,
        ExecuteEffect, ExecuteRefuse, RecordItem, Finish, BeginUndo, UndoProtected,
        UndoUnproven, UndoIntent, UndoEffect, UndoRefuse, Start, Reconcile, StartFails,
        Started, WriteFails, Crash, UserDeletes, UserCreates

LEMMA ExecutesStep == KInv /\ [Next]_vars => ExecutesItsPlan'
<1> SUFFICES ASSUME KInv, [Next]_vars, op'.kind = "execute"
             PROVE  plan'[op'.plan] # Unplanned /\ op'.todo \subseteq plan'[op'.plan].items
    BY DEF ExecutesItsPlan
<1>0. TypeOK /\ ExecutesItsPlan
    BY DEF KInv, IInv
<1>1. ASSUME op'.plan = op.plan, op.kind = "execute", op'.todo \subseteq op.todo
      PROVE  plan'[op'.plan] # Unplanned /\ op'.todo \subseteq plan'[op'.plan].items
    <2>1. op.plan \in Plan /\ plan[op.plan] # Unplanned /\ op.todo \subseteq plan[op.plan].items
        BY <1>0, <1>1 DEF TypeOK, ExecutesItsPlan
    <2>2. plan'[op.plan] = plan[op.plan]
        BY <2>1, PlansStay
    <2>3. QED BY <1>1, <2>1, <2>2
<1>2. ASSUME NEW p \in Plan, BeginExecute(p)
      PROVE  plan'[op'.plan] # Unplanned /\ op'.todo \subseteq plan'[op'.plan].items
    BY <1>2 DEF BeginExecute, Idle
<1>3. CASE op' = op
    BY <1>1, <1>3
<1>4. ASSUME NEW f \in File, ExecuteIntent(f)
      PROVE  op'.plan = op.plan /\ op.kind = "execute" /\ op'.todo \subseteq op.todo
    BY <1>0, <1>4 DEF ExecuteIntent, TypeOK, Operation
<1>5. ASSUME ExecuteEffect \/ ExecuteRefuse \/ RecordItem
      PROVE  op'.plan = op.plan /\ op.kind = "execute" /\ op'.todo \subseteq op.todo
    <2>1. CASE ExecuteEffect
        BY <1>0, <2>1 DEF ExecuteEffect, TypeOK, Operation
    <2>2. CASE ExecuteRefuse
        BY <1>0, <2>2 DEF ExecuteRefuse, TypeOK, Operation
    <2>3. CASE RecordItem
        <3>1. op' = [op EXCEPT !.pc = "next", !.item = NoFile, !.todo = op.todo \ {op.item}]
            BY <2>3 DEF RecordItem
        <3>2. op'.kind = op.kind /\ op'.plan = op.plan /\ op'.todo = op.todo \ {op.item}
            BY <1>0, <3>1 DEF TypeOK, Operation
        <3>3. QED BY <3>2
    <2>4. QED BY <1>5, <2>1, <2>2, <2>3
<1>6. CASE Finish \/ WriteFails \/ Crash
    BY <1>6 DEF Finish, WriteFails, Crash, Idle
<1>7. ASSUME Undo PROVE FALSE
    <2>1. op \in Operation
        BY <1>0 DEF TypeOK
    <2>2. ASSUME NEW p \in Plan, BeginUndo(p) PROVE FALSE
        BY <2>2 DEF BeginUndo, Idle
    <2>3. ASSUME NEW f \in File, UndoProtected(f) PROVE FALSE
        BY <2>1, <2>3 DEF UndoProtected, Operation
    <2>4. ASSUME NEW f \in File, UndoUnproven(f) PROVE FALSE
        BY <2>1, <2>4 DEF UndoUnproven, Operation
    <2>5. ASSUME NEW f \in File, UndoIntent(f) PROVE FALSE
        BY <2>1, <2>5 DEF UndoIntent, Operation
    <2>6. ASSUME UndoEffect \/ UndoRefuse PROVE FALSE
        BY <2>1, <2>6 DEF UndoEffect, UndoRefuse, Operation
    <2>7. QED BY <1>7, <2>2, <2>3, <2>4, <2>5, <2>6 DEF Undo
<1>8. QED
    BY <1>1, <1>2, <1>3, <1>4, <1>5, <1>6, <1>7
    DEF Next, Execution, StartUp, Environment, vars, CreatePlan, Start, Reconcile,
        StartFails, Started, UserDeletes, UserCreates

LEMMA KeeperStep == KInv /\ [Next]_vars => KeeperStays'
<1> SUFFICES ASSUME KInv, [Next]_vars, AllKeep'
             PROVE  /\ \E f \in File : at'[f] = AtSource
                    /\ op'.kind = "execute" => at'[plan'[op'.plan].keeper] = AtSource
    BY DEF KeeperStays
<1>0. /\ TypeOK /\ OperationConsistent /\ KeepersApart /\ ExecutesItsPlan /\ AllKeep
      /\ edits' = 0 /\ edits \in Nat /\ at \in [File -> Place] /\ plan \in [Plan -> PlanRecord]
      /\ \A p \in Plan : plan[p] # Unplanned => plan'[p] = plan[p] /\ plan[p].keeper \in File
    BY PlansStay DEF KInv, IInv, AllKeep, TypeOK
<1>i. Idle.kind = "idle"
    BY DEF Idle
<1>k. /\ \E f \in File : at[f] = AtSource
      /\ op.kind = "execute" => /\ at[plan[op.plan].keeper] = AtSource
                                /\ op.plan \in Plan /\ plan[op.plan] # Unplanned
    BY <1>0 DEF KInv, KeeperStays, ExecutesItsPlan, TypeOK
\* The operation goes on, or another one begins that executes nothing.
<1>1. ASSUME at' = at, op'.kind = "execute" => op.kind = "execute" /\ op'.plan = op.plan
      PROVE  /\ \E f \in File : at'[f] = AtSource
             /\ op'.kind = "execute" => at'[plan'[op'.plan].keeper] = AtSource
    BY <1>0, <1>1, <1>k
<1>2. ASSUME NEW p \in Plan, BeginExecute(p)
      PROVE  /\ \E f \in File : at'[f] = AtSource
             /\ op'.kind = "execute" => at'[plan'[op'.plan].keeper] = AtSource
    <2>1. plan[p] # Unplanned /\ ScopeValid(p) /\ at' = at /\ op'.plan = p
        BY <1>2 DEF BeginExecute, Idle, fileVars
    <2>2. plan[p].keeper \in File /\ plan[p].keeper # NoFile /\ plan'[p] = plan[p]
        BY <1>0, <2>1, DistinctConstants
    <2>3. at[plan[p].keeper] = AtSource
        BY <2>1, <2>2 DEF ScopeValid, GuardEntry
    <2>4. QED BY <2>1, <2>2, <2>3
\* The file in hand is one of the plan's, hence not the copy it keeps.
<1>3. CASE ExecuteEffect
    <2>1. op.kind = "execute" /\ op.pc = "effect" /\ op # Idle /\ op.item \in File
        BY <1>0, <1>3, <1>i DEF ExecuteEffect, TypeOK
    <2>2. op.item \in plan[op.plan].items /\ plan[op.plan].keeper # op.item
        BY <1>0, <1>k, <2>1 DEF OperationConsistent, ExecutesItsPlan, KeepersApart
    <2>3. \A f \in File : f # op.item => at'[f] = at[f]
        BY <1>0, <1>3 DEF ExecuteEffect
    <2>4. op'.plan = op.plan
        BY <1>0, <1>3 DEF ExecuteEffect, TypeOK, Operation
    <2>5. plan[op.plan].keeper \in File /\ plan'[op.plan] = plan[op.plan]
        BY <1>0, <1>k, <2>1
    <2>6. at'[plan[op.plan].keeper] = AtSource
        BY <1>k, <2>1, <2>2, <2>3, <2>5
    <2>7. QED BY <2>4, <2>5, <2>6
<1>4. CASE UndoEffect
    <2>1. at' = [at EXCEPT ![op.item] = AtSource] /\ op.kind = "undo"
        BY <1>4 DEF UndoEffect, RenameToOriginal
    <2>2. op'.kind = "undo"
        BY <1>0, <1>4 DEF UndoEffect, TypeOK, Operation
    <2>3. QED BY <1>0, <1>k, <2>1, <2>2
<1>5. ASSUME NEW f \in File, UserDeletes(f) PROVE FALSE
    BY <1>0, <1>5 DEF UserDeletes
<1>6. ASSUME \/ \E f \in File : ExecuteIntent(f) \/ UserCreates(f)
             \/ ExecuteRefuse \/ RecordItem \/ Finish \/ StartUp \/ WriteFails \/ Crash
             \/ UNCHANGED vars
             \/ \E p \in Plan, items \in SUBSET File, d \in Disposition,
                   keeper \in File \cup {NoFile} : CreatePlan(p, items, d, keeper)
      PROVE  at' = at /\ (op'.kind = "execute" => op.kind = "execute" /\ op'.plan = op.plan)
    <2>1. ASSUME NEW f \in File, ExecuteIntent(f)
          PROVE  at' = at /\ op'.kind = op.kind /\ op'.plan = op.plan
        BY <1>0, <2>1 DEF ExecuteIntent, fileVars, TypeOK, Operation
    <2>2. CASE ExecuteRefuse
        BY <1>0, <2>2 DEF ExecuteRefuse, fileVars, TypeOK, Operation
    <2>3. CASE RecordItem
        BY <1>0, <2>3 DEF RecordItem, fileVars, TypeOK, Operation
    <2>4. CASE Finish \/ WriteFails \/ Crash
        BY <1>i, <2>4 DEF Finish, WriteFails, Crash, fileVars
    <2>5. CASE StartUp
        BY <2>5 DEF StartUp, Start, Reconcile, StartFails, Started, fileVars
    <2>6. ASSUME NEW f \in File, UserCreates(f) PROVE at' = at /\ op' = op
        BY <2>6 DEF UserCreates
    <2>7. ASSUME NEW p \in Plan, NEW items \in SUBSET File, NEW d \in Disposition,
                 NEW keeper \in File \cup {NoFile}, CreatePlan(p, items, d, keeper)
          PROVE  at' = at /\ op' = op
        BY <2>7 DEF CreatePlan, fileVars
    <2>8. CASE UNCHANGED vars
        BY <2>8 DEF vars
    <2>9. QED BY <1>6, <2>1, <2>2, <2>3, <2>4, <2>5, <2>6, <2>7, <2>8
<1>7. ASSUME \/ \E p \in Plan : BeginUndo(p)
             \/ \E f \in File : UndoProtected(f) \/ UndoUnproven(f) \/ UndoIntent(f)
             \/ UndoRefuse
      PROVE  at' = at /\ op'.kind = "undo"
    BY <1>0, <1>7
    DEF BeginUndo, UndoProtected, UndoUnproven, UndoIntent, UndoRefuse, fileVars, Idle,
        TypeOK, Operation
<1>8. QED
    BY <1>1, <1>2, <1>3, <1>4, <1>5, <1>6, <1>7
    DEF Next, Execution, Undo, Environment

\* As long as nobody but the program touches the files, plans of duplicates never remove
\* the last copy (create_storage_plan's keeper, the scope check of execute_inner and the
\* handles that pin the group).  With no file at all there is no copy to remain.
THEOREM ACopyRemains == File # {} => (Spec => []CopyRemains)
<1> SUFFICES ASSUME File # {} PROVE Spec => []CopyRemains
    OBVIOUS
<1>1. Init => KInv
    BY KInvInit
<1>2. KInv /\ [Next]_vars => KInv'
    BY InvStep, PlansStay, ExecutesStep, KeeperStep DEF KInv
<1>3. KInv => CopyRemains
    BY DEF KInv, KeeperStays, AllKeep, CopyRemains
<1>4. QED BY <1>1, <1>2, <1>3, PTL DEF Spec

-----------------------------------------------------------------------------
(* StorageCleanup implements RecoveryVault: each step of the journalled    *)
(* program, crashes and restarts included, is a step of the contract or    *)
(* leaves it unchanged.                                                    *)

\* The mapped variable: the authority of every plan over every file.
Authorities == [p \in Plan |-> [f \in File |-> Authority(p, f)]]

\* The journal of a plan has entries for the plan's own files only.
OwnItems ==
    \A p \in Plan, f \in File : disk[p].item[f] # "None" => f \in plan[p].items

VInv == IInv /\ OwnItems

\* A plan's attempt on a file has begun: its entry is past Pending.
Begun(p, f) == disk[p].item[f] \notin {"None", "Pending"}

\* The operation in progress is at the effect of plan p on f.
AtEffect(p, f) ==
    op.kind = "execute" /\ op.plan = p /\ op.item = f /\ op.pc = "effect"

-----------------------------------------------------------------------------
(* The authorities of a state and of the next *)

LEMMA AuthorityCases ==
    ASSUME NEW p \in Plan, NEW f \in File
    PROVE  Authority(p, f) =
               IF ~ Begun(p, f) THEN "unused"
               ELSE IF AtEffect(p, f) THEN "armed" ELSE "spent"
BY DEF Authority, Begun, AtEffect

LEMMA AuthorityCasesNext ==
    ASSUME NEW p \in Plan, NEW f \in File
    PROVE  Authority(p, f)' =
               IF ~ Begun(p, f)' THEN "unused"
               ELSE IF AtEffect(p, f)' THEN "armed" ELSE "spent"
BY DEF Authority, Begun, AtEffect

\* Authorities stand where no attempt begins and no effect comes or goes.
LEMMA AuthoritiesStand ==
    ASSUME \A p \in Plan, f \in File : Begun(p, f)' <=> Begun(p, f),
           \A p \in Plan, f \in File : AtEffect(p, f)' <=> AtEffect(p, f)
    PROVE  Authorities' = Authorities
<1>1. \A p \in Plan, f \in File : Authority(p, f)' = Authority(p, f)
    BY AuthorityCases, AuthorityCasesNext
<1>2. QED BY <1>1 DEF Authorities

\* One authority changes and the others stand.
LEMMA OneAuthority ==
    ASSUME NEW p \in Plan, NEW f \in File, NEW a,
           Authority(p, f)' = a,
           \A q \in Plan, g \in File :
               (q # p \/ g # f) => Authority(q, g)' = Authority(q, g)
    PROVE  Authorities' = [Authorities EXCEPT ![p][f] = a]
BY DEF Authorities

\* The authorities of one plan over some files are spent and the others stand.
LEMMA SomeSpent ==
    ASSUME NEW p \in Plan, NEW F \in SUBSET File,
           \A q \in Plan, g \in File :
               Authority(q, g)' = IF q = p /\ g \in F THEN "spent" ELSE Authority(q, g)
    PROVE  Authorities' = [Authorities EXCEPT ![p] =
               [g \in File |-> IF g \in F THEN "spent" ELSE @[g]]]
BY DEF Authorities

-----------------------------------------------------------------------------
(* What each write of a journal does to its entries *)

\* Recording an outcome, completing a journal and the writes of an undo change
\* entries whose attempt has begun, and leave it begun.
LEMMA WritesOfBegun ==
    ASSUME IInv,
           \/ RecordItem \/ Finish
           \/ \E f \in File : UndoProtected(f) \/ UndoUnproven(f) \/ UndoIntent(f)
    PROVE  \A q \in Plan, g \in File :
               disk'[q].item[g] = disk[q].item[g] \/ (Begun(q, g) /\ Begun(q, g)')
<1> DEFINE Stays == \A q \in Plan, g \in File :
               disk'[q].item[g] = disk[q].item[g] \/ (Begun(q, g) /\ Begun(q, g)')
<1>0. OperationConsistent /\ disk \in [Plan -> Journal] /\ mem \in Journal
    BY DEF IInv, TypeOK
<1>1. op # Idle /\ op.plan \in Plan
    <2>1. op.kind \in {"execute", "undo"}
        BY DEF RecordItem, Finish, UndoProtected, UndoUnproven, UndoIntent
    <2>2. Idle.kind = "idle"
        BY DEF Idle
    <2>3. QED BY <2>1, <2>2 DEF IInv, TypeOK
\* It is enough that the journal of the operation is replaced by one that
\* differs at a begun entry.
<1>2. ASSUME NEW j \in Journal, NEW f \in File,
             disk' = [disk EXCEPT ![op.plan] = j],
             \A g \in File : g # f => j.item[g] = disk[op.plan].item[g],
             Begun(op.plan, f), j.item[f] \notin {"None", "Pending"}
      PROVE  Stays
    <2>1. disk'[op.plan] = j /\ \A q \in Plan : q # op.plan => disk'[q] = disk[q]
        BY <1>0, <1>1, <1>2
    <2>2. QED BY <1>2, <2>1 DEF Begun
<1>3. CASE RecordItem
    <2>1. /\ op.item \in File
          /\ mem = SetItem(disk[op.plan], op.item, mem.item[op.item])
          /\ Outcome(op.plan, op.item, mem.item[op.item])
          /\ disk[op.plan].item[op.item] = "Mutating"
        BY <1>0, <1>1, <1>3 DEF RecordItem, OperationConsistent, IInv, TypeOK
    <2>2. \A g \in File : g # op.item => mem.item[g] = disk[op.plan].item[g]
        <3>1. mem.item[op.item] \in ItemState
            BY <1>0, <2>1 DEF Journal
        <3>2. QED BY <1>0, <1>1, <2>1, <3>1, SetItemFacts
    <2>3. mem.item[op.item] \notin {"None", "Pending"} /\ Begun(op.plan, op.item)
        BY <2>1 DEF Outcome, Begun
    <2>4. QED BY <1>0, <1>2, <1>3, <2>1, <2>2, <2>3 DEF RecordItem, Persist
<1>4. CASE Finish
    <2>1. mem = disk[op.plan] /\ disk' = [disk EXCEPT ![op.plan] = [mem EXCEPT !.open = FALSE]]
        BY <1>0, <1>1, <1>4 DEF Finish, OperationConsistent
    <2>2. QED BY <1>0, <1>1, <2>1, OpenFacts
<1>5. ASSUME NEW f \in File, UndoProtected(f) PROVE Stays
    BY <1>0, <1>1, <1>5 DEF UndoProtected, Persist, OperationConsistent
<1>6. ASSUME NEW f \in File, UndoUnproven(f) PROVE Stays
    <2>1. mem = disk[op.plan] /\ mem.item[f] = "Quarantined"
        BY <1>0, <1>1, <1>6, DistinctConstants DEF UndoUnproven, OperationConsistent
    <2>2. /\ SetItem(mem, f, "Unknown") \in Journal
          /\ SetItem(mem, f, "Unknown").item[f] = "Unknown"
          /\ \A g \in File : g # f => SetItem(mem, f, "Unknown").item[g] = mem.item[g]
        BY <1>0, SetItemFacts DEF ItemState
    <2>3. Begun(op.plan, f)
        BY <2>1 DEF Begun
    <2>4. QED BY <1>2, <1>6, <2>1, <2>2, <2>3 DEF UndoUnproven, Persist
<1>7. ASSUME NEW f \in File, UndoIntent(f) PROVE Stays
    <2>1. mem = disk[op.plan] /\ mem.item[f] = "Quarantined"
        BY <1>0, <1>1, <1>7, DistinctConstants DEF UndoIntent, OperationConsistent
    <2> DEFINE j == SetItem(mem, f, "Mutating")
    <2>2. /\ j \in Journal /\ j.item[f] = "Mutating"
          /\ \A g \in File : g # f => j.item[g] = mem.item[g]
        BY <1>0, SetItemFacts DEF ItemState
    <2>3. disk' = [disk EXCEPT ![op.plan] = [j EXCEPT !.open = TRUE]]
        BY <1>7 DEF UndoIntent, Persist
    <2> DEFINE k == [j EXCEPT !.open = TRUE]
    <2> HIDE DEF j
    <2>4. k.item = j.item /\ k \in Journal
        BY <2>2, OpenFacts
    <2>5. Begun(op.plan, f) /\ disk' = [disk EXCEPT ![op.plan] = k]
        BY <2>1, <2>3 DEF Begun
    <2> HIDE DEF k
    <2>6. /\ \A g \in File : g # f => k.item[g] = disk[op.plan].item[g]
          /\ k.item[f] \notin {"None", "Pending"}
        BY <2>1, <2>2, <2>4
    <2>7. QED BY <1>2, <2>4, <2>5, <2>6
<1>8. QED BY <1>3, <1>4, <1>5, <1>6, <1>7

\* The write of an intent turns the entry of f from Pending to Mutating.
LEMMA WriteOfIntent ==
    ASSUME IInv, NEW f \in File, ExecuteIntent(f)
    PROVE  /\ op.plan \in Plan
           /\ disk[op.plan].item[f] = "Pending"
           /\ disk'[op.plan].item[f] = "Mutating"
           /\ \A q \in Plan, g \in File :
                  (q # op.plan \/ g # f) => disk'[q].item[g] = disk[q].item[g]
<1>0. OperationConsistent /\ disk \in [Plan -> Journal] /\ mem \in Journal
    BY DEF IInv, TypeOK
<1>1. op.plan \in Plan /\ mem = disk[op.plan] /\ mem.item[f] = "Pending"
    BY <1>0, DistinctConstants DEF ExecuteIntent, OperationConsistent, Idle
<1>2. disk' = [disk EXCEPT ![op.plan] = SetItem(mem, f, "Mutating")]
    BY DEF ExecuteIntent, Persist
<1>3. /\ SetItem(mem, f, "Mutating").item[f] = "Mutating"
      /\ \A g \in File : g # f => SetItem(mem, f, "Mutating").item[g] = mem.item[g]
    BY <1>0, SetItemFacts DEF ItemState
<1>4. QED BY <1>0, <1>1, <1>2, <1>3

\* Reconciliation settles every open entry of one journal.
LEMMA WriteOfReconcile ==
    ASSUME IInv, NEW p \in Plan, Reconcile(p)
    PROVE  /\ \A q \in Plan : q # p => disk'[q] = disk[q]
           /\ \A g \in File :
                  disk'[p].item[g] = IF disk[p].item[g] \in {"Pending", "Mutating"}
                                     THEN disk'[p].item[g] ELSE disk[p].item[g]
           /\ \A g \in File :
                  disk[p].item[g] \in {"Pending", "Mutating"} =>
                      disk'[p].item[g] \in {"Quarantined", "Unknown"}
<1> PICK proven \in SUBSET {f \in File : RecoveryGuard(p, f)} :
      disk' = [disk EXCEPT ![p] =
                 [item |-> [f \in File |-> Reconciled(p, f, proven)], open |-> FALSE]]
    BY DEF Reconcile
<1>1. disk \in [Plan -> Journal]
    BY DEF IInv, TypeOK
<1>2. /\ \A g \in File : disk'[p].item[g] = Reconciled(p, g, proven)
      /\ \A q \in Plan : q # p => disk'[q] = disk[q]
    BY <1>1
<1>3. QED BY <1>2 DEF Reconciled

-----------------------------------------------------------------------------
(* The journal's entries are the plan's *)

LEMMA OwnStep == VInv /\ [Next]_vars => OwnItems'
<1> SUFFICES ASSUME VInv, [Next]_vars, NEW q \in Plan, NEW g \in File,
                    disk'[q].item[g] # "None"
             PROVE  g \in plan'[q].items
    BY DEF OwnItems
<1>0. IInv /\ OwnItems /\ TypeOK /\ plan \in [Plan -> PlanRecord]
    BY DEF VInv, IInv, TypeOK
<1>1. CASE disk[q].item[g] # "None"
    <2>1. g \in plan[q].items
        BY <1>0, <1>1 DEF OwnItems
    <2>2. plan[q] # Unplanned
        BY <2>1 DEF Unplanned
    <2>3. ASSUME NEW p \in Plan, NEW items \in SUBSET File, NEW d \in Disposition,
                 NEW keeper \in File \cup {NoFile}, CreatePlan(p, items, d, keeper)
          PROVE  plan'[q] = plan[q]
        BY <1>0, <2>2, <2>3 DEF CreatePlan
    <2>4. plan'[q] = plan[q]
        BY <2>3
        DEF Next, Execution, Undo, StartUp, Environment, vars, BeginExecute, ExecuteIntent,
            ExecuteEffect, ExecuteRefuse, RecordItem, Finish, BeginUndo, UndoProtected,
            UndoUnproven, UndoIntent, UndoEffect, UndoRefuse, Start, Reconcile,
            StartFails, Started, WriteFails, Crash, UserDeletes, UserCreates
    <2>5. QED BY <2>1, <2>4
<1>2. CASE disk[q].item[g] = "None"
    <2>1. disk'[q].item[g] = "Pending"
        BY <1>0, <1>2, ForwardStep DEF Successors
    <2>2. ASSUME NEW p \in Plan, BeginExecute(p) PROVE g \in plan'[q].items
        <3>1. q = p
            BY <1>0, <1>2, <2>1, <2>2 DEF BeginExecute, TypeOK
        <3>2. disk'[p].item = [f \in File |-> IF f \in plan[p].items
                                              THEN "Pending" ELSE "None"]
            BY <1>0, <2>2 DEF BeginExecute, TypeOK
        <3>3. QED BY <2>1, <2>2, <3>1, <3>2 DEF BeginExecute
    <2>3. ASSUME NEW f \in File, ExecuteIntent(f) PROVE FALSE
        BY <1>0, <1>2, <2>1, <2>3, WriteOfIntent
    <2>4. ASSUME NEW p \in Plan, Reconcile(p) PROVE FALSE
        BY <1>0, <1>2, <2>1, <2>4, WriteOfReconcile
    <2>5. ASSUME \/ RecordItem \/ Finish
                 \/ \E f \in File : UndoProtected(f) \/ UndoUnproven(f) \/ UndoIntent(f)
          PROVE  FALSE
        BY <1>0, <1>2, <2>1, <2>5, WritesOfBegun DEF Begun
    <2>6. disk' # disk
        BY <1>2, <2>1
    <2>7. QED
        BY <2>2, <2>3, <2>4, <2>5, <2>6
        DEF Next, Execution, Undo, StartUp, Environment, vars, CreatePlan, ExecuteEffect,
            ExecuteRefuse, BeginUndo, UndoEffect, UndoRefuse, Start, StartFails, Started,
            WriteFails, Crash, UserDeletes, UserCreates
<1>3. QED BY <1>1, <1>2

LEMMA VInvInit == Init => VInv
BY InvInit DEF VInv, OwnItems, Init, NoJournal

LEMMA VInvStep == VInv /\ [Next]_vars => VInv'
BY InvStep, OwnStep DEF VInv

-----------------------------------------------------------------------------
(* The refinement *)

\* The contract's stuttering step.
LEMMA Stutter ==
    ASSUME plan' = plan, at' = at, Authorities' = Authorities
    PROVE  [Vault!Next]_Vault!vars
BY DEF Vault!vars, Authorities

\* Recording, completing and undoing leave the contract's state alone.
LEMMA BookkeepingStutters ==
    ASSUME VInv, plan' = plan, at' = at, op.pc # "effect" \/ op.kind # "execute",
           op'.kind # "execute" \/ op'.pc # "effect",
           \A q \in Plan, g \in File :
               disk'[q].item[g] = disk[q].item[g] \/ (Begun(q, g) /\ Begun(q, g)')
    PROVE  [Vault!Next]_Vault!vars
<1>1. \A q \in Plan, g \in File : Begun(q, g)' <=> Begun(q, g)
    BY DEF Begun
<1>2. \A q \in Plan, g \in File : AtEffect(q, g)' <=> AtEffect(q, g)
    BY DEF AtEffect
<1>3. QED BY <1>1, <1>2, AuthoritiesStand, Stutter

\* Some of a plan's own authorities lapse.
LEMMA LapseStep ==
    ASSUME plan' = plan, at' = at, NEW p \in Plan, NEW F \in SUBSET File,
           F \subseteq plan[p].items,
           \A q \in Plan, g \in File :
               Authority(q, g)' = IF q = p /\ g \in F THEN "spent" ELSE Authority(q, g)
    PROVE  Vault!Lapse(p)
<1>1. Authorities' = [Authorities EXCEPT ![p] =
               [g \in File |-> IF g \in F THEN "spent" ELSE @[g]]]
    BY SomeSpent
<1>2. QED BY <1>1 DEF Vault!Lapse, Authorities

LEMMA VaultInit == Init => Vault!Init
<1> SUFFICES ASSUME Init PROVE Vault!Init
    OBVIOUS
<1>1. \A p \in Plan, f \in File : Authority(p, f) = "unused"
    BY DEF Init, NoJournal, Authority
<1>2. plan = [p \in Plan |-> Vault!Unplanned] /\ at = [f \in File |-> Vault!AtSource]
    BY DEF Init, Unplanned, AtSource, Vault!Unplanned, Vault!AtSource
<1>3. QED BY <1>1, <1>2 DEF Vault!Init

LEMMA VaultStep == VInv /\ [Next]_vars => [Vault!Next]_Vault!vars
<1> SUFFICES ASSUME VInv, [Next]_vars PROVE [Vault!Next]_Vault!vars
    OBVIOUS
<1> USE DEF fileVars, bounds
<1>0. IInv /\ TypeOK /\ OperationConsistent /\ OwnItems
    BY DEF VInv, IInv
<1>t. /\ plan \in [Plan -> PlanRecord] /\ op \in Operation /\ at \in [File -> Place]
      /\ disk \in [Plan -> Journal] /\ mem \in Journal
    BY <1>0 DEF TypeOK
<1>i. Idle.kind = "idle" /\ Idle.pc = "next"
    BY DEF Idle
<1>1. ASSUME NEW p \in Plan, NEW items \in SUBSET File, NEW d \in Disposition,
             NEW keeper \in File \cup {NoFile}, CreatePlan(p, items, d, keeper)
      PROVE  [Vault!Next]_Vault!vars
    <2>1. Authorities' = Authorities
        BY <1>1, AuthoritiesStand DEF CreatePlan, Begun, AtEffect
    <2>2. plan[p] = Vault!Unplanned
        BY <1>1 DEF CreatePlan, Unplanned, Vault!Unplanned
    <2> DEFINE r == [items |-> items, disposition |-> d, keeper |-> keeper]
    <2>3. r \in Vault!PlanRecord
        BY DEF Vault!PlanRecord, Disposition
    <2>4. plan' = [plan EXCEPT ![p] = r] /\ at' = at
        BY <1>1 DEF CreatePlan
    <2> HIDE DEF r
    <2>5. Vault!MakePlan(p)
        BY <2>1, <2>2, <2>3, <2>4 DEF Vault!MakePlan, Authorities
    <2>6. QED BY <2>5 DEF Vault!Next
<1>2. ASSUME NEW p \in Plan, BeginExecute(p) PROVE [Vault!Next]_Vault!vars
    <2>1. /\ \A q \in Plan : q # p => disk'[q] = disk[q]
          /\ \A f \in File : disk'[p].item[f] \in {"Pending", "None"}
          /\ \A f \in File : disk[p].item[f] = "None"
          /\ op = Idle /\ plan' = plan /\ at' = at
        BY <1>2, <1>t DEF BeginExecute, HasExecution, WriterFree
    <2>2. op'.pc = "next"
        BY <1>2 DEF BeginExecute, Idle
    <2>3. \A q \in Plan, g \in File : Begun(q, g)' <=> Begun(q, g)
        BY <2>1 DEF Begun
    <2>4. \A q \in Plan, g \in File : AtEffect(q, g)' <=> AtEffect(q, g)
        BY <1>i, <2>1, <2>2 DEF AtEffect
    <2>5. QED BY <2>1, <2>3, <2>4, AuthoritiesStand, Stutter
<1>3. ASSUME NEW f \in File, ExecuteIntent(f) PROVE [Vault!Next]_Vault!vars
    <2> PICK p \in Plan : p = op.plan
        BY <1>0, <1>3, WriteOfIntent
    <2>1. /\ ~ Begun(p, f) /\ Begun(p, f)'
          /\ \A q \in Plan, g \in File :
                 (q # p \/ g # f) => (Begun(q, g)' <=> Begun(q, g))
        BY <1>0, <1>3, WriteOfIntent DEF Begun
    <2>2. f \in plan[p].items
        BY <1>0, <1>3, WriteOfIntent DEF OwnItems
    <2>3. op.pc = "next" /\ plan' = plan /\ at' = at
        BY <1>3 DEF ExecuteIntent
    <2>4. op'.kind = "execute" /\ op'.plan = p /\ op'.item = f /\ op'.pc = "effect"
        BY <1>3, <1>t DEF ExecuteIntent, Operation
    <2>5. /\ AtEffect(p, f)'
          /\ \A q \in Plan, g \in File :
                 (q # p \/ g # f) => (AtEffect(q, g)' <=> AtEffect(q, g))
        BY <2>3, <2>4 DEF AtEffect
    <2>6. Authority(p, f) = "unused" /\ Authority(p, f)' = "armed"
        BY <2>1, <2>5, AuthorityCases, AuthorityCasesNext
    <2>7. \A q \in Plan, g \in File :
              (q # p \/ g # f) => Authority(q, g)' = Authority(q, g)
        BY <2>1, <2>5, AuthorityCases, AuthorityCasesNext
    <2>8. Authorities' = [Authorities EXCEPT ![p][f] = "armed"]
        BY <2>1, <2>6, <2>7, OneAuthority
    <2>9. Vault!Arm(p, f)
        BY <2>1, <2>2, <2>3, <2>6, <2>8 DEF Vault!Arm, Authorities
    <2>10. QED BY <2>1, <2>9 DEF Vault!Next
<1>4. CASE ExecuteEffect
    <2> PICK p \in Plan, f \in File : p = op.plan /\ f = op.item
        BY <1>0, <1>4 DEF ExecuteEffect, TypeOK
    <2>1. disk[p].item[f] = "Mutating"
        BY <1>0, <1>4, <1>i DEF ExecuteEffect, OperationConsistent
    <2>2. /\ AtEffect(p, f) /\ at[f] = Vault!AtSource /\ plan' = plan /\ disk' = disk
          /\ plan[p].disposition # "RecycleBin"
        BY <1>4 DEF ExecuteEffect, GuardEntry, AtEffect, AtSource, Vault!AtSource
    <2>3. op'.pc = "record"
        BY <1>4, <1>t DEF ExecuteEffect, Operation
    <2>4. at' = [at EXCEPT ![f] = IF plan[p].disposition = "Quarantine"
                                  THEN Vault!InRecovery(p) ELSE Vault!RemovedBy(p)]
        BY <1>4 DEF ExecuteEffect, InRecovery, RemovedBy, Vault!InRecovery, Vault!RemovedBy
    <2>5. plan[p].disposition \in {"Quarantine", "Permanent"}
        BY <1>t, <2>1, <2>2 DEF PlanRecord, Disposition
    <2>6. \A q \in Plan, g \in File : AtEffect(q, g) => q = p /\ g = f
        BY DEF AtEffect
    <2>7. \A q \in Plan, g \in File : ~ AtEffect(q, g)' /\ (Begun(q, g)' <=> Begun(q, g))
        BY <2>2, <2>3 DEF AtEffect, Begun
    <2>8. Begun(p, f)
        BY <2>1 DEF Begun
    <2>9. Authority(p, f) = "armed" /\ Authority(p, f)' = "spent"
        BY <2>1, <2>2, <2>7, <2>8, AuthorityCases, AuthorityCasesNext
    <2>10. \A q \in Plan, g \in File :
              (q # p \/ g # f) => Authority(q, g)' = Authority(q, g)
        BY <2>6, <2>7, AuthorityCases, AuthorityCasesNext
    <2>11. Authorities' = [Authorities EXCEPT ![p][f] = "spent"]
        BY <2>1, <2>9, <2>10, OneAuthority
    <2>12. Vault!Use(p, f)
        BY <2>1, <2>2, <2>4, <2>5, <2>9, <2>11 DEF Vault!Use, Authorities
    <2>13. QED BY <2>1, <2>12 DEF Vault!Next
<1>5. CASE ExecuteRefuse \/ Crash
    <2>1. plan' = plan /\ at' = at /\ disk' = disk /\ op'.pc # "effect"
        BY <1>5, <1>i, <1>t DEF ExecuteRefuse, Crash, Operation
    <2>2. \A q \in Plan, g \in File : ~ AtEffect(q, g)' /\ (Begun(q, g)' <=> Begun(q, g))
        BY <2>1 DEF AtEffect, Begun
    <2>3. CASE op.kind = "execute" /\ op.pc = "effect"
        <3> PICK p \in Plan, f \in File : p = op.plan /\ f = op.item
            BY <1>0, <2>3 DEF TypeOK
        <3>1. disk[p].item[f] = "Mutating"
            BY <1>0, <1>i, <2>3 DEF OperationConsistent
        <3>2. f \in plan[p].items /\ Begun(p, f)
            BY <1>0, <3>1 DEF OwnItems, Begun
        <3>3. \A q \in Plan, g \in File : AtEffect(q, g) <=> q = p /\ g = f
            BY <2>3 DEF AtEffect
        <3>4. \A q \in Plan, g \in File :
                  Authority(q, g)' = IF q = p /\ g \in {f} THEN "spent" ELSE Authority(q, g)
            BY <2>2, <3>2, <3>3, AuthorityCases, AuthorityCasesNext
        <3> DEFINE F == {f}
        <3>5. F \in SUBSET File /\ F \subseteq plan[p].items
            BY <3>2
        <3>6. \A q \in Plan, g \in File :
                  Authority(q, g)' = IF q = p /\ g \in F THEN "spent" ELSE Authority(q, g)
            BY <3>4
        <3> HIDE DEF F
        <3>7. Vault!Lapse(p)
            BY <2>1, <3>5, <3>6, LapseStep
        <3>8. QED BY <3>7 DEF Vault!Next
    <2>4. CASE ~ (op.kind = "execute" /\ op.pc = "effect")
        <3>1. \A q \in Plan, g \in File : ~ AtEffect(q, g)
            BY <2>4 DEF AtEffect
        <3>2. QED BY <2>1, <2>2, <3>1, AuthoritiesStand, Stutter
    <2>5. QED BY <2>3, <2>4
<1>6. CASE RecordItem \/ Finish
           \/ \E f \in File : UndoProtected(f) \/ UndoUnproven(f) \/ UndoIntent(f)
    <2>1. \A q \in Plan, g \in File :
               disk'[q].item[g] = disk[q].item[g] \/ (Begun(q, g) /\ Begun(q, g)')
        BY <1>0, <1>6, WritesOfBegun
    <2>2. plan' = plan /\ at' = at /\ op.pc # "effect"
        BY <1>6 DEF RecordItem, Finish, UndoProtected, UndoUnproven, UndoIntent
    <2>3. op'.kind # "execute" \/ op'.pc # "effect"
        BY <1>6, <1>t, <1>i
        DEF RecordItem, Finish, UndoProtected, UndoUnproven, UndoIntent, Operation
    <2>4. QED BY <2>1, <2>2, <2>3, BookkeepingStutters
<1>7. CASE UndoEffect
    <2> PICK p \in Plan, f \in File : p = op.plan /\ f = op.item
        BY <1>0, <1>7 DEF UndoEffect, TypeOK
    <2>1. /\ disk[p].item[f] = "Mutating" /\ at[f] = InRecovery(p)
          /\ op.kind = "undo"
        BY <1>0, <1>7, <1>i DEF UndoEffect, OperationConsistent
    <2>2. /\ at' = [at EXCEPT ![f] = Vault!AtSource] /\ plan' = plan /\ disk' = disk
          /\ op'.pc = "record"
        BY <1>7, <1>t DEF UndoEffect, RenameToOriginal, AtSource, Vault!AtSource, Operation
    <2>3. at[f] = Vault!InRecovery(p)
        BY <2>1 DEF InRecovery, Vault!InRecovery
    <2>4. \A q \in Plan, g \in File : ~ AtEffect(q, g) /\ ~ AtEffect(q, g)'
        BY <2>1, <2>2 DEF AtEffect
    <2>5. Begun(p, f) /\ \A q \in Plan, g \in File : Begun(q, g)' <=> Begun(q, g)
        BY <2>1, <2>2 DEF Begun
    <2>6. Authority(p, f) = "spent"
        BY <2>1, <2>4, <2>5, AuthorityCases
    <2>7. Authorities' = Authorities
        BY <2>4, <2>5, AuthoritiesStand
    <2>8. Vault!Return(p, f)
        BY <2>1, <2>2, <2>3, <2>6, <2>7 DEF Vault!Return, Authorities
    <2>9. QED BY <2>1, <2>8 DEF Vault!Next
<1>8. ASSUME NEW p \in Plan, Reconcile(p) PROVE [Vault!Next]_Vault!vars
    <2>1. op = Idle /\ op' = op /\ plan' = plan /\ at' = at
        BY <1>0, <1>8 DEF Reconcile, OperationConsistent
    <2> DEFINE F == {g \in File : disk[p].item[g] \in {"Pending", "Mutating"}}
    <2>2. F \subseteq plan[p].items
        BY <1>0 DEF OwnItems
    <2>3. \A q \in Plan, g \in File : ~ AtEffect(q, g) /\ ~ AtEffect(q, g)'
        BY <1>i, <2>1 DEF AtEffect
    <2>4. \A g \in F : Begun(p, g)'
        BY <1>0, <1>8, WriteOfReconcile DEF Begun
    <2>5. \A q \in Plan, g \in File : q # p \/ g \notin F => (Begun(q, g)' <=> Begun(q, g))
        BY <1>0, <1>8, WriteOfReconcile DEF Begun
    <2>6. F \in SUBSET File
        OBVIOUS
    <2> HIDE DEF F
    <2>7. \A q \in Plan, g \in File :
              Authority(q, g)' = IF q = p /\ g \in F THEN "spent" ELSE Authority(q, g)
        BY <2>3, <2>4, <2>5, AuthorityCases, AuthorityCasesNext
    <2>8. Vault!Lapse(p)
        BY <2>1, <2>2, <2>6, <2>7, LapseStep
    <2>9. QED BY <2>8 DEF Vault!Next
<1>9. CASE WriteFails \/ UndoRefuse \/ \E p \in Plan : BeginUndo(p)
    <2>1. /\ plan' = plan /\ at' = at /\ disk' = disk
          /\ op.kind # "execute" \/ op.pc # "effect"
        BY <1>9, <1>i DEF WriteFails, UndoRefuse, BeginUndo, WriterFree
    <2>2. op'.pc # "effect"
        BY <1>9, <1>t, <1>i DEF WriteFails, UndoRefuse, BeginUndo, Operation, Idle
    <2>3. QED BY <2>1, <2>2, BookkeepingStutters
<1>10. ASSUME NEW f \in File, UserDeletes(f) PROVE [Vault!Next]_Vault!vars
    <2>1. Authorities' = Authorities
        BY <1>10, AuthoritiesStand DEF UserDeletes, Begun, AtEffect
    <2>2. Vault!Lose(f)
        BY <1>10, <2>1 DEF UserDeletes, Vault!Lose, Lost, Vault!Lost, Authorities
    <2>3. QED BY <2>2 DEF Vault!Next
<1>11. CASE \/ Start \/ StartFails \/ Started \/ UNCHANGED vars
            \/ \E f \in File : UserCreates(f)
    <2>1. plan' = plan /\ at' = at /\ disk' = disk /\ op' = op
        BY <1>11 DEF Start, StartFails, Started, UserCreates, vars
    <2>2. Authorities' = Authorities
        BY <2>1, AuthoritiesStand DEF Begun, AtEffect
    <2>3. QED BY <2>1, <2>2, Stutter
<1>12. QED
    BY <1>1, <1>2, <1>3, <1>4, <1>5, <1>6, <1>7, <1>8, <1>9, <1>10, <1>11
    DEF Next, Execution, Undo, StartUp, Environment

\* StorageCleanup implements RecoveryVault: a plan is used at most once per file
\* and only in its own way, a file is returned only by the plan that holds it,
\* and nothing else moves it but its user (execute_inner, undo_storage,
\* reconcile_interrupted).
THEOREM ImplementsVault == Spec => VaultSpec
<1>1. QED
    BY VInvInit, VInvStep, VaultInit, VaultStep, PTL DEF Spec, VaultSpec, Vault!Spec

-----------------------------------------------------------------------------
(* Start-up accounts for every payload *)

\* Only plans that quarantine have payloads in recovery.
HeldByQuarantines ==
    \A p \in Plan, f \in File : at[f] = InRecovery(p) => plan[p].disposition = "Quarantine"

\* The journal of an execution is open until it is finished.
ExecutionOpen == op.kind = "execute" => mem.open

\* The operation in progress is between intent and outcome of plan p on f.
InHand(p, f) == op.plan = p /\ op.item = f /\ op.pc # "next"

\* An undo would find the payload of p, or the next start will.
Accounted(p, f) ==
    \/ disk[p].item[f] = "Quarantined"
    \/ disk[p].item[f] = "Mutating" /\ disk[p].open /\ (phase = "running" => InHand(p, f))

\* As long as no journal write failed, no payload is left in recovery that is neither
\* quarantined nor interrupted in a journal that is still open.
NoStrays ==
    writeFaults = 0 => \A p \in Plan, f \in File : at[f] = InRecovery(p) => Accounted(p, f)

SInv == VInv /\ HeldByQuarantines /\ ExecutionOpen /\ NoStrays

LEMMA SInvInit == Init => SInv
<1> SUFFICES ASSUME Init PROVE SInv
    OBVIOUS
<1>1. \A p \in Plan, f \in File : at[f] # InRecovery(p)
    BY PlaceFacts DEF Init
<1>2. op.kind # "execute"
    BY DEF Init, Idle
<1>3. QED BY VInvInit, <1>1, <1>2 DEF SInv, HeldByQuarantines, ExecutionOpen, NoStrays

LEMMA HeldStep == SInv /\ [Next]_vars => HeldByQuarantines'
<1> SUFFICES ASSUME SInv, [Next]_vars, NEW p \in Plan, NEW f \in File,
                    at'[f] = InRecovery(p)
             PROVE  plan'[p].disposition = "Quarantine"
    BY DEF HeldByQuarantines
<1>0. TypeOK /\ WriteAhead /\ OwnItems /\ HeldByQuarantines /\ at \in [File -> Place]
      /\ plan \in [Plan -> PlanRecord]
    BY DEF SInv, VInv, IInv, TypeOK
<1>1. ASSUME plan' = plan, at'[f] = at[f] PROVE plan'[p].disposition = "Quarantine"
    BY <1>0, <1>1 DEF HeldByQuarantines
<1>2. ASSUME NEW q \in Plan, NEW items \in SUBSET File, NEW d \in Disposition,
             NEW keeper \in File \cup {NoFile}, CreatePlan(q, items, d, keeper)
      PROVE  plan'[p].disposition = "Quarantine"
    <2>1. at[f] = InRecovery(p)
        BY <1>2 DEF CreatePlan, fileVars
    <2>2. disk[p].item[f] # "None"
        BY <1>0, <2>1 DEF WriteAhead
    <2>3. plan[p] # Unplanned
        BY <1>0, <2>2 DEF OwnItems, Unplanned
    <2>4. plan'[p] = plan[p]
        BY <1>0, <1>2, <2>3 DEF CreatePlan
    <2>5. QED BY <1>0, <2>1, <2>4 DEF HeldByQuarantines
<1>3. CASE ExecuteEffect
    <2>1. op.item \in File /\ plan' = plan
        BY <1>0, <1>3 DEF ExecuteEffect, TypeOK
    <2>2. CASE f = op.item
        <3>1. at'[f] = IF plan[op.plan].disposition = "Quarantine" THEN InRecovery(op.plan)
                       ELSE RemovedBy(op.plan)
            BY <1>0, <1>3, <2>1, <2>2 DEF ExecuteEffect
        <3>2. op.plan \in Plan
            BY <1>0, <1>3 DEF ExecuteEffect, TypeOK
        <3>3. QED BY <2>1, <3>1, <3>2, PlaceFacts
    <2>3. CASE f # op.item
        BY <1>0, <1>1, <1>3, <2>1, <2>3 DEF ExecuteEffect
    <2>4. QED BY <2>2, <2>3
<1>4. CASE UndoEffect
    <2>1. plan' = plan /\ at' = [at EXCEPT ![op.item] = AtSource]
        BY <1>4 DEF UndoEffect, RenameToOriginal
    <2>2. at'[f] = AtSource \/ at'[f] = at[f]
        BY <1>0, <2>1
    <2>3. QED BY <1>1, <2>1, <2>2, PlaceFacts
<1>5. ASSUME NEW g \in File, UserDeletes(g) PROVE plan'[p].disposition = "Quarantine"
    <2>1. at'[f] = Lost \/ at'[f] = at[f]
        BY <1>0, <1>5 DEF UserDeletes
    <2>2. plan' = plan
        BY <1>5 DEF UserDeletes
    <2>3. QED BY <1>1, <2>1, <2>2, PlaceFacts
<1>6. CASE plan' = plan /\ at' = at
    BY <1>1, <1>6
<1>7. QED
    BY <1>2, <1>3, <1>4, <1>5, <1>6
    DEF Next, Execution, Undo, StartUp, Environment, vars, fileVars, BeginExecute,
        ExecuteIntent, ExecuteRefuse, RecordItem, Finish, BeginUndo, UndoProtected,
        UndoUnproven, UndoIntent, UndoRefuse, Start, Reconcile, StartFails, Started,
        WriteFails, Crash, UserCreates

LEMMA OpenStep == SInv /\ [Next]_vars => ExecutionOpen'
<1> SUFFICES ASSUME SInv, [Next]_vars, op'.kind = "execute" PROVE mem'.open
    BY DEF ExecutionOpen
<1>0. op \in Operation /\ mem \in Journal /\ ExecutionOpen
    BY DEF SInv, VInv, IInv, TypeOK
<1>1. ASSUME NEW p \in Plan, BeginExecute(p) PROVE mem'.open
    BY <1>1 DEF BeginExecute
<1>2. ASSUME NEW f \in File, ExecuteIntent(f) PROVE mem'.open
    BY <1>0, <1>2 DEF ExecuteIntent, Persist, SetItem, Journal, ExecutionOpen
<1>3. CASE ExecuteEffect
    <2>1. mem' \in {SetItem(mem, op.item, "Quarantined"), SetItem(mem, op.item, "Purged")}
        BY <1>3 DEF ExecuteEffect
    <2>2. mem.open
        BY <1>0, <1>3 DEF ExecuteEffect, ExecutionOpen
    <2>3. QED BY <1>0, <2>1, <2>2 DEF SetItem, Journal
<1>4. CASE ExecuteRefuse
    BY <1>0, <1>4 DEF ExecuteRefuse, SetItem, Journal, ExecutionOpen
<1>5. CASE RecordItem
    <2>1. mem' = mem /\ op'.kind = op.kind
        BY <1>0, <1>5 DEF RecordItem, Persist, Operation
    <2>2. QED BY <1>0, <2>1 DEF ExecutionOpen
<1>6. CASE Finish \/ WriteFails \/ Crash
    BY <1>6 DEF Finish, WriteFails, Crash, Idle
<1>7. ASSUME Undo PROVE FALSE
    <2>1. ASSUME NEW p \in Plan, BeginUndo(p) PROVE FALSE
        BY <2>1 DEF BeginUndo, Idle
    <2>2. ASSUME NEW f \in File, UndoProtected(f) PROVE FALSE
        BY <1>0, <2>2 DEF UndoProtected, Operation
    <2>3. ASSUME NEW f \in File, UndoUnproven(f) PROVE FALSE
        BY <1>0, <2>3 DEF UndoUnproven, Operation
    <2>4. ASSUME NEW f \in File, UndoIntent(f) PROVE FALSE
        BY <1>0, <2>4 DEF UndoIntent, Operation
    <2>5. ASSUME UndoEffect \/ UndoRefuse PROVE FALSE
        BY <1>0, <2>5 DEF UndoEffect, UndoRefuse, Operation
    <2>6. QED BY <1>7, <2>1, <2>2, <2>3, <2>4, <2>5 DEF Undo
<1>8. CASE op' = op /\ mem' = mem
    BY <1>0, <1>8 DEF ExecutionOpen
<1>9. QED
    BY <1>1, <1>2, <1>3, <1>4, <1>5, <1>6, <1>7, <1>8
    DEF Next, Execution, StartUp, Environment, vars, CreatePlan, Start, Reconcile,
        StartFails, Started, UserDeletes, UserCreates

\* A recovery file that is there can be opened; then reconciliation and undo lose none.
LEMMA StrayStep == ~ SpuriousGuard /\ SInv /\ [Next]_vars => NoStrays'
<1> SUFFICES ASSUME ~ SpuriousGuard, SInv, [Next]_vars, writeFaults' = 0,
                    NEW p \in Plan, NEW f \in File, at'[f] = InRecovery(p)
             PROVE  Accounted(p, f)'
    BY DEF NoStrays
<1>t. /\ disk \in [Plan -> Journal] /\ mem \in Journal /\ op \in Operation
      /\ at \in [File -> Place] /\ writeFaults \in Nat
    BY DEF SInv, VInv, IInv, TypeOK
<1>0. WriteAhead /\ OperationConsistent /\ HeldByQuarantines /\ ExecutionOpen
    BY DEF SInv, VInv, IInv
<1>i. Idle.kind = "idle" /\ Idle.pc = "next"
    BY DEF Idle
<1>w. writeFaults = 0
    <2>1. WriteFails \/ UNCHANGED writeFaults
        <3>1. \/ \E q \in Plan, items \in SUBSET File, d \in Disposition,
                   keeper \in File \cup {NoFile} : CreatePlan(q, items, d, keeper)
              \/ Execution
              => UNCHANGED writeFaults
            BY DEF Execution, bounds, CreatePlan, BeginExecute, ExecuteIntent,
                ExecuteEffect, ExecuteRefuse, RecordItem, Finish
        <3>2. Undo => UNCHANGED writeFaults
            BY DEF Undo, bounds, BeginUndo, UndoProtected, UndoUnproven, UndoIntent,
                UndoEffect, UndoRefuse
        <3>3. StartUp \/ Environment \/ UNCHANGED vars => WriteFails \/ UNCHANGED writeFaults
            BY DEF StartUp, Environment, vars, bounds, Start, Reconcile, StartFails,
                Started, Crash, UserDeletes, UserCreates
        <3>4. QED BY <3>1, <3>2, <3>3 DEF Next
    <2>2. QED BY <1>t, <2>1 DEF WriteFails
<1>b. at[f] = InRecovery(p) => Accounted(p, f)
    BY <1>w DEF SInv, NoStrays
\* Between two items of a running program every payload is quarantined.
<1>q. phase = "running" /\ op.pc = "next" /\ at[f] = InRecovery(p)
          => disk[p].item[f] = "Quarantined"
    BY <1>b DEF Accounted, InHand
\* The operation in progress is that of a running program.
<1>r. ASSUME op.kind # "idle" PROVE phase = "running" /\ op.plan \in Plan
    BY <1>0, <1>i, <1>r DEF OperationConsistent
<1>1. ASSUME at' = at, disk'[p].item[f] = disk[p].item[f],
             phase = "running", op.pc = "next"
      PROVE  Accounted(p, f)'
    BY <1>q, <1>1 DEF Accounted
<1>2. ASSUME at'[f] = at[f], disk' = disk, phase' = phase, op'.plan = op.plan,
             op'.item = op.item, op'.pc = op.pc \/ op'.pc = "record"
      PROVE  Accounted(p, f)'
    BY <1>b, <1>2 DEF Accounted, InHand
<1>3. ASSUME at' = at, disk' = disk, phase' # "running"
      PROVE  Accounted(p, f)'
    BY <1>b, <1>3 DEF Accounted
<1>4. ASSUME NEW q \in Plan, BeginExecute(q) PROVE Accounted(p, f)'
    <2>1. phase = "running" /\ op.pc = "next" /\ at' = at
        BY <1>i, <1>4 DEF BeginExecute, WriterFree, fileVars
    <2>2. q # p
        <3>1. disk[p].item[f] = "Quarantined"
            BY <1>q, <2>1
        <3>2. QED BY <1>4, <3>1 DEF BeginExecute, HasExecution
    <2>3. disk'[p] = disk[p]
        BY <1>t, <1>4, <2>2 DEF BeginExecute
    <2>4. QED BY <1>1, <2>1, <2>3
<1>5. ASSUME NEW g \in File, ExecuteIntent(g) PROVE Accounted(p, f)'
    <2>1. op.kind = "execute" /\ op.pc = "next" /\ at' = at
        BY <1>5 DEF ExecuteIntent, fileVars
    <2>2. disk[p].item[f] = "Quarantined"
        BY <1>q, <1>r, <2>1
    <2>3. mem = disk[op.plan] /\ mem.item[g] = "Pending"
        BY <1>0, <1>5, <1>i, DistinctConstants DEF ExecuteIntent, OperationConsistent
    <2>4. p # op.plan \/ f # g
        BY <2>2, <2>3
    <2>5. disk' = [disk EXCEPT ![op.plan] = SetItem(mem, g, "Mutating")]
        BY <1>5 DEF ExecuteIntent, Persist
    <2>6. \A h \in File : h # g => SetItem(mem, g, "Mutating").item[h] = mem.item[h]
        BY <1>t, SetItemFacts DEF ItemState
    <2>7. disk'[p].item[f] = disk[p].item[f]
        BY <1>t, <2>3, <2>4, <2>5, <2>6
    <2>8. QED BY <1>1, <1>r, <2>1, <2>7
<1>6. CASE ExecuteEffect
    <2>1. /\ op.kind = "execute" /\ op.pc = "effect" /\ op # Idle /\ op.item \in File
          /\ disk' = disk /\ phase' = phase
        BY <1>6, <1>i DEF ExecuteEffect, SInv, VInv, IInv, TypeOK
    <2>2. op'.plan = op.plan /\ op'.item = op.item /\ op'.pc = "record"
        BY <1>t, <1>6 DEF ExecuteEffect, Operation
    <2>3. CASE f # op.item
        BY <1>2, <1>6, <1>t, <2>1, <2>2, <2>3 DEF ExecuteEffect
    <2>4. CASE f = op.item
        <3>1. at'[f] \in {InRecovery(op.plan), RemovedBy(op.plan)}
            BY <1>6, <1>t, <2>1, <2>4 DEF ExecuteEffect
        <3>2. p = op.plan
            BY <1>r, <2>1, <3>1, PlaceFacts
        <3>3. /\ disk[op.plan].item[op.item] = "Mutating"
              /\ mem = SetItem(disk[op.plan], op.item, mem.item[op.item])
            BY <1>0, <2>1 DEF OperationConsistent
        <3>4. mem.item[op.item] \in ItemState
            BY <1>t, <2>1 DEF Journal
        <3>5. disk[op.plan].open
            BY <1>0, <1>t, <1>r, <2>1, <3>3, <3>4, SetItemFacts DEF ExecutionOpen
        <3>6. QED BY <2>1, <2>2, <2>4, <3>2, <3>3, <3>5 DEF Accounted, InHand
    <2>5. QED BY <2>3, <2>4
<1>7. CASE ExecuteRefuse
    BY <1>2, <1>7, <1>t DEF ExecuteRefuse, fileVars, Operation
<1>8. CASE RecordItem
    <2>1. /\ op.kind # "idle" /\ op # Idle /\ op.pc = "record" /\ op.item \in File
          /\ at' = at /\ phase' = phase /\ disk' = [disk EXCEPT ![op.plan] = mem]
        BY <1>8, <1>i DEF RecordItem, Persist, fileVars, SInv, VInv, IInv, TypeOK
    <2>2. /\ mem = SetItem(disk[op.plan], op.item, mem.item[op.item])
          /\ Outcome(op.plan, op.item, mem.item[op.item])
        BY <1>0, <2>1 DEF OperationConsistent
    <2>3. mem.item[op.item] \in ItemState
        BY <1>t, <2>1 DEF Journal
    <2>4. CASE p = op.plan /\ f = op.item
        <3>1. mem.item[op.item] = "Quarantined"
            BY <2>1, <2>2, <2>4, PlaceFacts DEF Outcome
        <3>2. disk'[p] = mem
            BY <1>t, <2>1, <2>4
        <3>3. QED BY <2>4, <3>1, <3>2 DEF Accounted
    <2>5. CASE ~ (p = op.plan /\ f = op.item)
        <3>1. disk[p].item[f] = "Quarantined"
            BY <1>b, <1>r, <2>1, <2>5 DEF Accounted, InHand
        <3>2. disk'[p].item[f] = disk[p].item[f]
            <4>1. CASE p # op.plan
                BY <1>t, <2>1, <4>1
            <4>2. CASE p = op.plan
                BY <1>t, <2>1, <2>2, <2>3, <2>5, <4>2, SetItemFacts
            <4>3. QED BY <4>1, <4>2
        <3>3. QED BY <3>1, <3>2 DEF Accounted
    <2>6. QED BY <2>4, <2>5
<1>9. CASE Finish
    <2>1. op.kind # "idle" /\ op # Idle /\ op.pc = "next" /\ at' = at
        BY <1>9, <1>i DEF Finish, fileVars
    <2>2. mem = disk[op.plan] /\ disk' = [disk EXCEPT ![op.plan] = [mem EXCEPT !.open = FALSE]]
        BY <1>0, <1>9, <2>1 DEF Finish, OperationConsistent
    <2>3. [mem EXCEPT !.open = FALSE].item = mem.item
        BY <1>t, OpenFacts
    <2>4. disk'[p].item = disk[p].item
        BY <1>t, <2>2, <2>3
    <2>5. QED BY <1>1, <1>r, <2>1, <2>4
<1>10. ASSUME NEW q \in Plan, BeginUndo(q) PROVE Accounted(p, f)'
    BY <1>1, <1>10, <1>i DEF BeginUndo, WriterFree, fileVars
<1>11. ASSUME NEW g \in File, UndoProtected(g) PROVE Accounted(p, f)'
    <2>1. op.kind # "idle" /\ op # Idle /\ op.pc = "next" /\ at' = at
        BY <1>11, <1>i DEF UndoProtected, fileVars
    <2>2. mem = disk[op.plan] /\ disk' = [disk EXCEPT ![op.plan] = mem]
        BY <1>0, <1>11, <2>1 DEF UndoProtected, Persist, OperationConsistent
    <2>3. disk' = disk
        BY <1>t, <2>2
    <2>4. QED BY <1>1, <1>r, <2>1, <2>3
<1>12. ASSUME NEW g \in File, UndoUnproven(g) PROVE Accounted(p, f)'
    <2>1. op.kind # "idle" /\ op # Idle /\ op.pc = "next" /\ at' = at
        BY <1>12, <1>i DEF UndoUnproven, fileVars
    <2>2. mem = disk[op.plan]
        BY <1>0, <2>1 DEF OperationConsistent
    <2>3. p # op.plan \/ f # g
        BY <1>0, <1>12, <2>1 DEF UndoUnproven, RecoveryGuard, HeldByQuarantines
    <2>4. disk' = [disk EXCEPT ![op.plan] = SetItem(mem, g, "Unknown")]
        BY <1>12 DEF UndoUnproven, Persist
    <2>5. \A h \in File : h # g => SetItem(mem, g, "Unknown").item[h] = mem.item[h]
        BY <1>t, SetItemFacts DEF ItemState
    <2>6. disk'[p].item[f] = disk[p].item[f]
        BY <1>t, <2>2, <2>3, <2>4, <2>5
    <2>7. QED BY <1>1, <1>r, <2>1, <2>6
<1>13. ASSUME NEW g \in File, UndoIntent(g) PROVE Accounted(p, f)'
    <2>1. /\ op.kind # "idle" /\ op # Idle /\ op.pc = "next" /\ at' = at
          /\ op' = [op EXCEPT !.pc = "effect", !.item = g]
        BY <1>13, <1>i DEF UndoIntent, fileVars
    <2>2. mem = disk[op.plan]
        BY <1>0, <2>1 DEF OperationConsistent
    <2> DEFINE j == SetItem(mem, g, "Mutating")
               k == [j EXCEPT !.open = TRUE]
    <2>3. /\ j \in Journal /\ j.item[g] = "Mutating"
          /\ \A h \in File : h # g => j.item[h] = mem.item[h]
        BY <1>t, SetItemFacts DEF ItemState
    <2>4. disk' = [disk EXCEPT ![op.plan] = k]
        BY <1>13 DEF UndoIntent, Persist
    <2> HIDE DEF j
    <2>5. k.open /\ k.item = j.item
        BY <2>3 DEF Journal
    <2> HIDE DEF k
    <2>6. CASE p = op.plan /\ f = g
        <3>1. disk'[p] = k
            BY <1>t, <2>4, <2>6
        <3>2. op'.plan = p /\ op'.item = f /\ op'.pc # "next"
            BY <1>t, <2>1, <2>6 DEF Operation
        <3>3. QED BY <2>3, <2>5, <2>6, <3>1, <3>2 DEF Accounted, InHand
    <2>7. CASE ~ (p = op.plan /\ f = g)
        <3>1. disk'[p].item[f] = disk[p].item[f]
            BY <1>t, <2>2, <2>3, <2>4, <2>5, <2>7
        <3>2. QED BY <1>1, <1>r, <2>1, <3>1
    <2>8. QED BY <2>6, <2>7
<1>14. CASE UndoEffect
    <2>1. at' = [at EXCEPT ![op.item] = AtSource] /\ disk' = disk /\ phase' = phase
        BY <1>14 DEF UndoEffect, RenameToOriginal
    <2>2. at'[f] = AtSource \/ at'[f] = at[f]
        BY <1>t, <2>1
    <2>3. op'.plan = op.plan /\ op'.item = op.item /\ op'.pc = "record"
        BY <1>t, <1>14 DEF UndoEffect, Operation
    <2>4. QED BY <1>2, <2>1, <2>2, <2>3, PlaceFacts
<1>15. CASE UndoRefuse
    BY <1>2, <1>15, <1>t DEF UndoRefuse, fileVars, Operation
<1>16. CASE WriteFails
    BY <1>16, <1>t DEF WriteFails
<1>17. CASE Crash \/ Start \/ StartFails
    BY <1>3, <1>17 DEF Crash, Start, StartFails, fileVars
<1>18. ASSUME NEW q \in Plan, Reconcile(q) PROVE Accounted(p, f)'
    <2> DEFINE proven == {g \in File : RecoveryGuard(q, g)}
    <2>1. /\ at' = at /\ phase' = phase /\ phase = "starting"
          /\ disk' = [disk EXCEPT ![q] =
                 [item |-> [g \in File |-> Reconciled(q, g, proven)], open |-> FALSE]]
        BY <1>18 DEF Reconcile, fileVars
    <2>2. CASE p = q
        <3>1. f \in proven
            BY <1>0, <2>1, <2>2 DEF RecoveryGuard, HeldByQuarantines
        <3>2. disk'[p].item[f] = Reconciled(p, f, proven)
            BY <1>t, <2>1, <2>2
        <3>3. disk[p].item[f] \in {"Quarantined", "Mutating"}
            BY <1>b, <2>1 DEF Accounted
        <3>4. QED BY <3>1, <3>2, <3>3 DEF Reconciled, Accounted
    <2>3. CASE p # q
        BY <1>3, <1>b, <1>t, <2>1, <2>3 DEF Accounted
    <2>4. QED BY <2>2, <2>3
<1>19. CASE Started
    <2>1. at' = at /\ disk' = disk /\ ~ disk[p].open
        BY <1>19 DEF Started, fileVars
    <2>2. QED BY <1>b, <2>1 DEF Accounted
<1>20. ASSUME NEW g \in File, UserDeletes(g) PROVE Accounted(p, f)'
    <2>1. at'[f] = Lost \/ at'[f] = at[f]
        BY <1>t, <1>20 DEF UserDeletes
    <2>2. QED BY <1>2, <1>20, <2>1, PlaceFacts DEF UserDeletes
<1>21. ASSUME \/ \E g \in File : UserCreates(g)
              \/ \E q \in Plan, items \in SUBSET File, d \in Disposition,
                    keeper \in File \cup {NoFile} : CreatePlan(q, items, d, keeper)
              \/ UNCHANGED vars
       PROVE  Accounted(p, f)'
    BY <1>2, <1>21 DEF UserCreates, CreatePlan, vars, fileVars
<1>22. QED
    BY <1>4, <1>5, <1>6, <1>7, <1>8, <1>9, <1>10, <1>11, <1>12, <1>13, <1>14, <1>15,
       <1>16, <1>17, <1>18, <1>19, <1>20, <1>21
    DEF Next, Execution, Undo, StartUp, Environment

\* docs/cleanup-recovery.md: "If the source is absent and its quarantine payload exists,
\* the item is recorded as quarantined."  Where a recovery file that is there can be
\* opened and no journal write failed before, no start leaves a payload that no undo would
\* return (reconcile_interrupted, undo_storage's reopened journal).
THEOREM StartUpAccounts == ~ SpuriousGuard => (Spec => StartUpAccountsForPayloads)
<1> SUFFICES ASSUME ~ SpuriousGuard PROVE Spec => StartUpAccountsForPayloads
    OBVIOUS
<1>1. SInv /\ [Next]_vars => SInv'
    BY VInvStep, HeldStep, OpenStep, StrayStep DEF SInv
<1>2. SInv /\ [Next]_vars =>
          [phase = "starting" /\ phase' = "running" /\ writeFaults = 0 =>
              \A p \in Plan, f \in File :
                  at[f] = InRecovery(p) => disk[p].item[f] = "Quarantined"]_vars
    <2> SUFFICES ASSUME SInv, [Next]_vars, phase = "starting", phase' = "running",
                        writeFaults = 0, NEW p \in Plan, NEW f \in File,
                        at[f] = InRecovery(p)
                 PROVE  disk[p].item[f] = "Quarantined"
        OBVIOUS
    <2>1. OperationConsistent
        BY DEF SInv, VInv, IInv
    <2>2. Started
        BY <2>1 DEF Next, Execution, Undo, StartUp, Environment, vars, CreatePlan,
            BeginExecute, ExecuteIntent, ExecuteEffect, ExecuteRefuse, RecordItem, Finish,
            BeginUndo, UndoProtected, UndoUnproven, UndoIntent, UndoEffect, UndoRefuse,
            Start, Reconcile, StartFails, WriteFails, Crash, UserDeletes, UserCreates
    <2>3. QED BY <2>2 DEF Started, SInv, NoStrays, Accounted
<1>3. QED BY SInvInit, <1>1, <1>2, PTL DEF Spec, StartUpAccountsForPayloads
=============================================================================
