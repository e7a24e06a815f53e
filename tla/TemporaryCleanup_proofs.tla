----------------------- MODULE TemporaryCleanup_proofs -----------------------
(***************************************************************************)
(* Theorems about TemporaryCleanup for every set of items, plans and       *)
(* maintenance runs and every bound: type correctness, that no whole copy  *)
(* of an item is lost but where the program means to delete, and that      *)
(* nothing stays behind of what is reported as restored or purged.         *)
(***************************************************************************)
EXTENDS TemporaryCleanup, TLAPS

(* The inductive invariant *)

\* The quarantine and the Recycle Bin hold items of plans that are meant for them.
PayloadsPlanned ==
    /\ \A p \in Plan, i \in Item :
           /\ pay[p][i] # "none" =>
                  plan[p] # Unplanned /\ plan[p].disposition = "Quarantine"
           /\ i \in bin[p] => plan[p] # Unplanned /\ plan[p].disposition = "RecycleBin"
    /\ op.kind = "execute" => plan[op.plan] # Unplanned

\* The intent is on disk before an execution touches the item.
IntentWritten ==
    op.kind = "execute" /\ op.pc \in {"effect", "copied", "removing"} =>
        mem.item[op.item] = "Mutating" /\ disk[op.plan].item[op.item] = "Mutating"

\* What a journal says is gone from the vaults of plan p is.
Clean(j, p) ==
    \A i \in Item : j.item[i] \in {"Restored", "Purged"} => pay[p][i] = "none" /\ i \notin bin[p]

JournalsClean ==
    /\ \A p \in Plan : Clean(disk[p], p)
    /\ op.plan \in Plan => Clean(mem, op.plan)

\* Between the volumes: what is about to be removed was copied whole.
CopiedWhole ==
    /\ op.kind = "execute" /\ op.pc \in {"copied", "removing"}
    /\ plan[op.plan].disposition # "Permanent" /\ edits = 0
    /\ src[op.item] = "whole"
    => pay[op.plan][op.item] = "whole"

\* An undo puts the payload where nothing is, and removes it after that.
PathFree == op.kind = "undo" /\ op.pc = "effect" /\ edits = 0 => src[op.item] = "none"

PutBackWhole ==
    op.kind = "undo" /\ op.pc = "removing" =>
        /\ pay[op.plan][op.item] # "none"
        /\ edits = 0 /\ pay[op.plan][op.item] = "whole" => src[op.item] = "whole"

\* A purge takes payloads whose grace is over, under a policy that cannot change meanwhile.
PurgesWhatIsDue ==
    op.kind = "purge" =>
        /\ enabled /\ op.pc = "next" /\ op.queue \subseteq due
        /\ op.plan = None => op.todo = {}
        /\ op.plan # None =>
               /\ op.plan \in due
               /\ \A i \in op.todo : disk[op.plan].item[i] = "Quarantined"

IInv == /\ TypeOK /\ PayloadsPlanned /\ IntentWritten /\ JournalsClean
        /\ CopiedWhole /\ PathFree /\ PutBackWhole /\ PurgesWhatIsDue

-----------------------------------------------------------------------------
(* Lemmas about the operators the model is built from *)

SrcState == {"whole", "part", "none", "new"}
PayState == {"whole", "part", "none"}

LEMMA TypeFacts ==
    ASSUME TypeOK
    PROVE  /\ plan \in [Plan -> PlanRecord] /\ disk \in [Plan -> Journal] /\ mem \in Journal
           /\ op \in Operation /\ run \in [Run -> RunRecord]
           /\ op.kind \in {"execute", "undo"} => op.plan \in Plan
           /\ op.pc # "next" => op.plan \in Plan /\ op.item \in Item
           /\ \A r \in Run : run[r].pc = "execute" => run[r].plan \in Plan
           /\ enabled \in BOOLEAN /\ due \subseteq Plan
           /\ src \in [Item -> SrcState] /\ pay \in [Plan -> [Item -> PayState]]
           /\ bin \in [Plan -> SUBSET Item]
           /\ crashes \in Nat /\ edits \in Nat /\ switches \in Nat
BY DEF TypeOK, SrcState, PayState

LEMMA TypeNext ==
    ASSUME plan' \in [Plan -> PlanRecord], disk' \in [Plan -> Journal], mem' \in Journal,
           op' \in Operation, op'.kind \in {"execute", "undo"} => op'.plan \in Plan,
           op'.pc # "next" => op'.plan \in Plan /\ op'.item \in Item,
           run' \in [Run -> RunRecord],
           \A r \in Run : run'[r].pc = "execute" => run'[r].plan \in Plan,
           enabled' \in BOOLEAN, due' \subseteq Plan,
           src' \in [Item -> SrcState], pay' \in [Plan -> [Item -> PayState]],
           bin' \in [Plan -> SUBSET Item],
           crashes' \in Nat, edits' \in Nat, switches' \in Nat
    PROVE  TypeOK'
BY DEF TypeOK, SrcState, PayState

LEMMA IdleFacts ==
    /\ Idle \in Operation /\ Idle.kind = "idle" /\ Idle.plan = None /\ Idle.pc = "next"
    /\ Idle.item = None /\ Idle.todo = {} /\ Idle.queue = {} /\ Idle.by = None
    /\ None \notin Item /\ None \notin Plan /\ None \notin Run
BY TemporaryAssumption DEF Idle, Operation

LEMMA NoJournalFacts ==
    /\ NoJournal \in Journal /\ \A i \in Item : NoJournal.item[i] = "None"
BY DEF NoJournal, Journal, ItemState

LEMMA UnplannedFacts ==
    /\ Unplanned \in PlanRecord /\ Unplanned.items = {}
    /\ NoRun \in RunRecord /\ NoRun.pc = "idle" /\ NoRun.plan = None /\ NoRun.items = {}
BY DEF Unplanned, PlanRecord, Disposition, NoRun, RunRecord

\* The state of one item of a journal is set.
LEMMA SetItemFacts ==
    ASSUME NEW j \in Journal, NEW i \in Item, NEW s \in ItemState
    PROVE  /\ SetItem(j, i, s) \in Journal /\ SetItem(j, i, s).item[i] = s
           /\ \A k \in Item : k # i => SetItem(j, i, s).item[k] = j.item[k]
           /\ SetItem(j, i, s).open = j.open
<1>1. j.item \in [Item -> ItemState] /\ j.open \in BOOLEAN
    BY DEF Journal
<1>2. [j.item EXCEPT ![i] = s] \in [Item -> ItemState]
    BY <1>1
<1>3. /\ SetItem(j, i, s) = [item |-> [j.item EXCEPT ![i] = s], open |-> j.open]
    BY DEF SetItem, Journal
<1>4. QED BY <1>1, <1>2, <1>3 DEF Journal

\* The item in hand gets its outcome in memory.
LEMMA OutcomeFacts ==
    ASSUME mem \in Journal, op \in Operation, NEW i \in Item, op.item = i,
           NEW s \in ItemState, Outcome(s)
    PROVE  /\ mem' \in Journal /\ mem'.item[i] = s
           /\ \A k \in Item : k # i => mem'.item[k] = mem.item[k]
           /\ op' \in Operation /\ op'.pc = "record" /\ op'.kind = op.kind
           /\ op'.plan = op.plan /\ op'.item = i
<1>1. mem' = SetItem(mem, i, s) /\ op' = [op EXCEPT !.pc = "record"]
    BY DEF Outcome
<1>2. QED BY <1>1, SetItemFacts DEF Operation

\* The operation goes on with the item in hand.
LEMMA PlaceFacts ==
    ASSUME op \in Operation, NEW place \in {"next", "effect", "copied", "removing", "record"},
           op' = [op EXCEPT !.pc = place]
    PROVE  /\ op' \in Operation /\ op'.pc = place /\ op'.kind = op.kind
           /\ op'.plan = op.plan /\ op'.item = op.item
BY DEF Operation

LEMMA PersistFacts ==
    ASSUME disk \in [Plan -> Journal], NEW p \in Plan, op.plan = p, NEW j \in Journal,
           disk' = [disk EXCEPT ![op.plan] = j]
    PROVE  /\ disk' \in [Plan -> Journal] /\ disk'[p] = j
           /\ \A q \in Plan : q # p => disk'[q] = disk[q]
OBVIOUS

LEMMA SourceFacts ==
    ASSUME src \in [Item -> SrcState], NEW i \in Item, NEW v \in SrcState,
           src' = [src EXCEPT ![i] = v]
    PROVE  /\ src' \in [Item -> SrcState] /\ src'[i] = v
           /\ \A k \in Item : k # i => src'[k] = src[k]
OBVIOUS

LEMMA PayloadFacts ==
    ASSUME pay \in [Plan -> [Item -> PayState]], NEW p \in Plan, NEW i \in Item,
           NEW v \in PayState, pay' = [pay EXCEPT ![p][i] = v]
    PROVE  /\ pay' \in [Plan -> [Item -> PayState]] /\ pay'[p][i] = v
           /\ \A q \in Plan, k \in Item : q # p \/ k # i => pay'[q][k] = pay[q][k]
<1>1. pay[p] \in [Item -> PayState] /\ [pay[p] EXCEPT ![i] = v] \in [Item -> PayState]
    OBVIOUS
<1>2. /\ pay' \in [Plan -> [Item -> PayState]] /\ pay'[p] = [pay[p] EXCEPT ![i] = v]
      /\ \A q \in Plan : q # p => pay'[q] = pay[q]
    BY <1>1
<1>3. QED BY <1>1, <1>2

LEMMA BinFacts ==
    ASSUME bin \in [Plan -> SUBSET Item], NEW p \in Plan, NEW set \in SUBSET Item,
           bin' = [bin EXCEPT ![p] = set]
    PROVE  /\ bin' \in [Plan -> SUBSET Item] /\ bin'[p] = set
           /\ \A q \in Plan : q # p => bin'[q] = bin[q]
OBVIOUS

-----------------------------------------------------------------------------
(* What an operation may do with the item in hand *)

\* Only its own place in the journal in memory and the content of its item change.
ItsOwn(p, i) ==
    /\ op.kind \in {"execute", "undo"} /\ op.plan = p /\ op.item = i
    /\ op'.kind = op.kind /\ op'.plan = p /\ op'.item = i
    /\ op'.pc \in {"copied", "removing", "record"}
    /\ plan' = plan /\ disk' = disk /\ edits' = edits
    /\ \A k \in Item : k # i => mem'.item[k] = mem.item[k] /\ src'[k] = src[k]
    /\ \A q \in Plan, k \in Item : q # p \/ k # i =>
           pay'[q][k] = pay[q][k] /\ (k \in bin'[q] <=> k \in bin[q])

\* What comes into a vault is of a plan for that vault, under an intent; what is reported
\* as gone is.
Books(p, i) ==
    /\ pay'[p][i] # "none" => plan[p] # Unplanned /\ plan[p].disposition = "Quarantine"
    /\ i \in bin'[p] => plan[p] # Unplanned /\ plan[p].disposition = "RecycleBin"
    /\ disk[p].item[i] \in {"Restored", "Purged"} => pay'[p][i] = "none" /\ i \notin bin'[p]
    /\ mem'.item[i] \in {"Restored", "Purged"} => pay'[p][i] = "none" /\ i \notin bin'[p]
    /\ op'.kind = "execute" /\ op'.pc # "record" =>
           mem'.item[i] = "Mutating" /\ disk[p].item[i] = "Mutating"

\* What is removed in the next steps is elsewhere.
KeptElsewhere(p, i) ==
    /\ edits = 0 /\ Whole(i) =>
           Whole(i)' \/ (op.kind = "execute" /\ plan[op.plan].disposition = "Permanent")
    /\ op'.kind = "execute" /\ op'.pc # "record" /\ plan[p].disposition # "Permanent"
       /\ edits = 0 /\ src'[i] = "whole" => pay'[p][i] = "whole"
    /\ op'.kind = "undo" /\ op'.pc # "record" =>
           /\ op'.pc = "removing" /\ pay'[p][i] # "none"
           /\ edits = 0 /\ pay'[p][i] = "whole" => src'[i] = "whole"

Handles(p, i) == TypeOK' /\ ItsOwn(p, i) /\ Books(p, i) /\ KeptElsewhere(p, i)

\* A step that handles its item like that keeps the invariant.
LEMMA HandlingKeeps ==
    ASSUME IInv, NEW p \in Plan, NEW i \in Item, Handles(p, i)
    PROVE  IInv'
<1>0. TypeOK' /\ ItsOwn(p, i) /\ Books(p, i) /\ KeptElsewhere(p, i)
    BY DEF Handles
<1>1. PayloadsPlanned'
    BY <1>0 DEF IInv, PayloadsPlanned, ItsOwn, Books
<1>2. IntentWritten'
    BY <1>0 DEF IntentWritten, ItsOwn, Books
<1>3. JournalsClean'
    <2>1. ASSUME NEW q \in Plan PROVE Clean(disk[q], q)'
        BY <1>0 DEF IInv, JournalsClean, Clean, ItsOwn, Books
    <2>2. Clean(mem, p)'
        BY <1>0 DEF IInv, JournalsClean, Clean, ItsOwn, Books
    <2>3. op'.plan = p
        BY <1>0 DEF ItsOwn
    <2>4. QED BY <1>0, <2>1, <2>2, <2>3 DEF JournalsClean, Clean
<1>4. CopiedWhole' /\ PathFree' /\ PutBackWhole' /\ PurgesWhatIsDue'
    BY <1>0 DEF CopiedWhole, PathFree, PutBackWhole, PurgesWhatIsDue, ItsOwn, KeptElsewhere
<1>5. QED BY <1>0, <1>1, <1>2, <1>3, <1>4 DEF IInv

\* And it takes the last whole copy of an item only where the plan says so.
LEMMA HandlingPreserves ==
    ASSUME IInv, NEW p \in Plan, NEW i \in Item, Handles(p, i), edits' = 0,
           NEW k \in Item, Whole(k), ~ Whole(k)'
    PROVE  op.kind = "execute" /\ plan[op.plan].disposition = "Permanent"
<1>0. ItsOwn(p, i) /\ KeptElsewhere(p, i) /\ edits = 0
    BY DEF Handles, ItsOwn
<1>1. CASE k = i
    BY <1>0, <1>1 DEF KeptElsewhere
<1>2. CASE k # i
    BY <1>0, <1>2 DEF ItsOwn, Whole
<1>3. QED BY <1>1, <1>2

-----------------------------------------------------------------------------
(* The item in hand of an execution *)

LEMMA HandFacts ==
    ASSUME IInv, NEW p \in Plan, NEW i \in Item, op.plan = p, op.item = i
    PROVE  /\ plan \in [Plan -> PlanRecord] /\ disk \in [Plan -> Journal] /\ mem \in Journal
           /\ op \in Operation /\ run \in [Run -> RunRecord]
           /\ \A r \in Run : run[r].pc = "execute" => run[r].plan \in Plan
           /\ enabled \in BOOLEAN /\ due \subseteq Plan
           /\ src \in [Item -> SrcState] /\ pay \in [Plan -> [Item -> PayState]]
           /\ bin \in [Plan -> SUBSET Item]
           /\ crashes \in Nat /\ edits \in Nat /\ switches \in Nat
           /\ pay[p][i] # "none" => plan[p] # Unplanned /\ plan[p].disposition = "Quarantine"
           /\ i \in bin[p] => plan[p] # Unplanned /\ plan[p].disposition = "RecycleBin"
           /\ op.kind = "execute" => plan[p] # Unplanned
           /\ disk[p].item[i] \in {"Restored", "Purged"} => pay[p][i] = "none" /\ i \notin bin[p]
           /\ mem.item[i] \in {"Restored", "Purged"} => pay[p][i] = "none" /\ i \notin bin[p]
           /\ op.kind = "execute" /\ op.pc \in {"effect", "copied", "removing"} =>
                  mem.item[i] = "Mutating" /\ disk[p].item[i] = "Mutating"
BY TypeFacts DEF IInv, PayloadsPlanned, JournalsClean, Clean, IntentWritten

\* The content stays as it is and the item fails or keeps its state.
LEMMA FailsHandles ==
    ASSUME IInv, NEW p \in Plan, NEW i \in Item, op.plan = p, op.item = i,
           ExecuteFails \/ UndoFails
    PROVE  Handles(p, i)
<1>0. /\ op.kind \in {"execute", "undo"} /\ plan' = plan /\ disk' = disk /\ run' = run
      /\ enabled' = enabled /\ due' = due /\ src' = src /\ pay' = pay /\ bin' = bin
      /\ crashes' = crashes /\ edits' = edits /\ switches' = switches
    BY DEF ExecuteFails, UndoFails, content, bounds
<1>1. /\ mem' \in Journal /\ mem'.item[i] \in {mem.item[i], "Failed"}
      /\ \A k \in Item : k # i => mem'.item[k] = mem.item[k]
      /\ op' \in Operation /\ op'.pc = "record" /\ op'.kind = op.kind
      /\ op'.plan = p /\ op'.item = i
    <2>1. CASE ExecuteFails
        BY <2>1, HandFacts, OutcomeFacts DEF ExecuteFails, ItemState
    <2>2. CASE UndoFails
        BY <2>2, HandFacts, PlaceFacts DEF UndoFails
    <2>3. QED BY <2>1, <2>2
<1>2. TypeOK'
    BY <1>0, <1>1, HandFacts, TypeNext
<1>3. ItsOwn(p, i)
    BY <1>0, <1>1 DEF ItsOwn
<1>4. Books(p, i)
    BY <1>0, <1>1, HandFacts DEF Books
<1>5. KeptElsewhere(p, i)
    BY <1>0, <1>1 DEF KeptElsewhere, Whole
<1>6. QED BY <1>2, <1>3, <1>4, <1>5 DEF Handles

LEMMA RecycleHandles ==
    ASSUME IInv, NEW p \in Plan, NEW i \in Item, op.plan = p, op.item = i, Recycle
    PROVE  Handles(p, i)
<1>0. /\ op.kind = "execute" /\ op.pc = "effect" /\ plan[p].disposition = "RecycleBin"
      /\ plan' = plan /\ disk' = disk /\ run' = run
      /\ enabled' = enabled /\ due' = due /\ pay' = pay
      /\ crashes' = crashes /\ edits' = edits /\ switches' = switches
    BY DEF Recycle, bounds
<1>1. PICK s \in {"Recycled", "Failed"} : Outcome(s)
    BY DEF Recycle
<1>2. /\ mem' \in Journal /\ mem'.item[i] = s
      /\ \A k \in Item : k # i => mem'.item[k] = mem.item[k]
      /\ op' \in Operation /\ op'.pc = "record" /\ op'.kind = op.kind
      /\ op'.plan = p /\ op'.item = i
    BY <1>1, HandFacts, OutcomeFacts DEF ItemState
<1>3. /\ src' \in [Item -> SrcState] /\ src'[i] = "none"
      /\ \A k \in Item : k # i => src'[k] = src[k]
    BY HandFacts, SourceFacts DEF Recycle, SrcState
<1>4. /\ bin' \in [Plan -> SUBSET Item]
      /\ \A q \in Plan, k \in Item : q # p \/ k # i => (k \in bin'[q] <=> k \in bin[q])
      /\ i \in bin[p] \/ src[i] = "whole" => i \in bin'[p]
    <2>1. CASE src[i] = "whole"
        <3>1. bin[p] \cup {i} \in SUBSET Item /\ bin' = [bin EXCEPT ![p] = bin[p] \cup {i}]
            BY <2>1, HandFacts DEF Recycle
        <3>2. bin' \in [Plan -> SUBSET Item] /\ bin'[p] = bin[p] \cup {i}
              /\ \A q \in Plan : q # p => bin'[q] = bin[q]
            BY <3>1, HandFacts, BinFacts
        <3>3. QED BY <3>2
    <2>2. CASE src[i] # "whole"
        BY <2>2, HandFacts DEF Recycle
    <2>3. QED BY <2>1, <2>2
<1>5. TypeOK'
    BY <1>0, <1>2, <1>3, <1>4, HandFacts, TypeNext
<1>6. ItsOwn(p, i)
    BY <1>0, <1>2, <1>3, <1>4 DEF ItsOwn
<1>7. Books(p, i)
    BY <1>0, <1>2, HandFacts DEF Books
<1>8. KeptElsewhere(p, i)
    <2>1. Whole(i) => Whole(i)'
        BY <1>0, <1>4 DEF Whole
    <2>2. QED BY <1>2, <2>1 DEF KeptElsewhere
<1>9. QED BY <1>5, <1>6, <1>7, <1>8 DEF Handles

LEMMA MoveHandles ==
    ASSUME IInv, NEW p \in Plan, NEW i \in Item, op.plan = p, op.item = i, Move
    PROVE  Handles(p, i)
<1>0. /\ op.kind = "execute" /\ op.pc = "effect" /\ plan[p].disposition = "Quarantine"
      /\ plan' = plan /\ disk' = disk /\ run' = run
      /\ enabled' = enabled /\ due' = due /\ bin' = bin
      /\ crashes' = crashes /\ edits' = edits /\ switches' = switches
      /\ src[i] \in PayState /\ pay[p][i] = "none"
    BY DEF Move, bounds, Present, PayState
<1>1. /\ mem' \in Journal /\ mem'.item[i] = "Quarantined"
      /\ \A k \in Item : k # i => mem'.item[k] = mem.item[k]
      /\ op' \in Operation /\ op'.pc = "record" /\ op'.kind = op.kind
      /\ op'.plan = p /\ op'.item = i
    BY HandFacts, OutcomeFacts DEF Move, ItemState
<1>2. /\ src' \in [Item -> SrcState] /\ src'[i] = "none"
      /\ \A k \in Item : k # i => src'[k] = src[k]
    BY HandFacts, SourceFacts DEF Move, SrcState
<1>3. /\ pay' \in [Plan -> [Item -> PayState]] /\ pay'[p][i] = src[i]
      /\ \A q \in Plan, k \in Item : q # p \/ k # i => pay'[q][k] = pay[q][k]
    BY <1>0, HandFacts, PayloadFacts DEF Move
<1>4. TypeOK'
    BY <1>0, <1>1, <1>2, <1>3, HandFacts, TypeNext
<1>5. ItsOwn(p, i)
    BY <1>0, <1>1, <1>2, <1>3 DEF ItsOwn
<1>6. Books(p, i)
    BY <1>0, <1>1, HandFacts DEF Books
<1>7. KeptElsewhere(p, i)
    <2>1. Whole(i) => Whole(i)'
        BY <1>0, <1>3 DEF Whole
    <2>2. QED BY <1>1, <2>1 DEF KeptElsewhere
<1>8. QED BY <1>4, <1>5, <1>6, <1>7 DEF Handles

LEMMA CopyHandles ==
    ASSUME IInv, NEW p \in Plan, NEW i \in Item, op.plan = p, op.item = i, Copy
    PROVE  Handles(p, i)
<1>0. /\ op.kind = "execute" /\ op.pc = "effect" /\ plan[p].disposition = "Quarantine"
      /\ plan' = plan /\ disk' = disk /\ mem' = mem /\ run' = run
      /\ enabled' = enabled /\ due' = due /\ src' = src /\ bin' = bin
      /\ crashes' = crashes /\ edits' = edits /\ switches' = switches
      /\ src[i] \in PayState /\ pay[p][i] = "none"
    BY DEF Copy, bounds, Present, PayState
<1>1. /\ op' \in Operation /\ op'.pc = "copied" /\ op'.kind = op.kind
      /\ op'.plan = p /\ op'.item = i
    BY HandFacts, PlaceFacts DEF Copy
<1>2. /\ pay' \in [Plan -> [Item -> PayState]] /\ pay'[p][i] = src[i]
      /\ \A q \in Plan, k \in Item : q # p \/ k # i => pay'[q][k] = pay[q][k]
    BY <1>0, HandFacts, PayloadFacts DEF Copy
<1>3. TypeOK'
    BY <1>0, <1>1, <1>2, HandFacts, TypeNext
<1>4. ItsOwn(p, i)
    BY <1>0, <1>1, <1>2 DEF ItsOwn
<1>5. Books(p, i)
    BY <1>0, <1>1, HandFacts DEF Books
<1>6. KeptElsewhere(p, i)
    <2>1. Whole(i) => Whole(i)'
        BY <1>0, <1>2 DEF Whole
    <2>2. QED BY <1>0, <1>1, <1>2, <2>1 DEF KeptElsewhere
<1>7. QED BY <1>3, <1>4, <1>5, <1>6 DEF Handles

\* The removal of the original, whose payload is whole if the original still is.
LEMMA RemovalHandles ==
    ASSUME IInv, NEW p \in Plan, NEW i \in Item, op.plan = p, op.item = i,
           BeginRemoval \/ RemovePiece
    PROVE  Handles(p, i)
<1>0. /\ op.kind = "execute" /\ op.pc \in {"effect", "copied", "removing"}
      /\ plan' = plan /\ disk' = disk /\ mem' = mem /\ run' = run
      /\ enabled' = enabled /\ due' = due /\ pay' = pay /\ bin' = bin
      /\ crashes' = crashes /\ edits' = edits /\ switches' = switches
      /\ op.pc \in {"copied", "removing"} \/ plan[p].disposition = "Permanent"
    BY DEF BeginRemoval, RemovePiece, bounds, content
<1>1. /\ op' \in Operation /\ op'.pc = "removing" /\ op'.kind = op.kind
      /\ op'.plan = p /\ op'.item = i
    BY HandFacts, PlaceFacts DEF BeginRemoval, RemovePiece
<1>2. /\ src' \in [Item -> SrcState] /\ src'[i] \in {src[i], "part"}
      /\ \A k \in Item : k # i => src'[k] = src[k]
    BY HandFacts, SourceFacts DEF BeginRemoval, RemovePiece, SrcState, content
<1>3. plan[p].disposition # "Permanent" /\ edits = 0 /\ src[i] = "whole" => pay[p][i] = "whole"
    BY <1>0 DEF IInv, CopiedWhole
<1>4. TypeOK'
    BY <1>0, <1>1, <1>2, HandFacts, TypeNext
<1>5. ItsOwn(p, i)
    BY <1>0, <1>1, <1>2 DEF ItsOwn
<1>6. Books(p, i)
    BY <1>0, <1>1, HandFacts DEF Books
<1>7. KeptElsewhere(p, i)
    <2>1. edits = 0 /\ Whole(i) /\ plan[p].disposition # "Permanent" => Whole(i)'
        BY <1>0, <1>2, <1>3 DEF Whole
    <2>2. QED BY <1>0, <1>1, <1>2, <1>3, <2>1 DEF KeptElsewhere
<1>8. QED BY <1>4, <1>5, <1>6, <1>7 DEF Handles

LEMMA RemoveRestHandles ==
    ASSUME IInv, NEW p \in Plan, NEW i \in Item, op.plan = p, op.item = i, RemoveRest
    PROVE  Handles(p, i)
<1>0. /\ op.kind = "execute" /\ op.pc = "removing"
      /\ plan' = plan /\ disk' = disk /\ run' = run
      /\ enabled' = enabled /\ due' = due /\ pay' = pay /\ bin' = bin
      /\ crashes' = crashes /\ edits' = edits /\ switches' = switches
    BY DEF RemoveRest, bounds
<1>1. PICK s \in {"Quarantined", "Purged", "Failed"} :
          Outcome(s) /\ (s = "Purged" => plan[p].disposition = "Permanent")
    BY DEF RemoveRest
<1>2. /\ mem' \in Journal /\ mem'.item[i] = s
      /\ \A k \in Item : k # i => mem'.item[k] = mem.item[k]
      /\ op' \in Operation /\ op'.pc = "record" /\ op'.kind = op.kind
      /\ op'.plan = p /\ op'.item = i
    BY <1>1, HandFacts, OutcomeFacts DEF ItemState
<1>3. /\ src' \in [Item -> SrcState] /\ src'[i] = "none"
      /\ \A k \in Item : k # i => src'[k] = src[k]
    BY HandFacts, SourceFacts DEF RemoveRest, SrcState
<1>4. plan[p].disposition # "Permanent" /\ edits = 0 /\ src[i] = "whole" => pay[p][i] = "whole"
    BY <1>0 DEF IInv, CopiedWhole
<1>5. TypeOK'
    BY <1>0, <1>2, <1>3, HandFacts, TypeNext
<1>6. ItsOwn(p, i)
    BY <1>0, <1>2, <1>3 DEF ItsOwn
<1>7. Books(p, i)
    BY <1>0, <1>1, <1>2, HandFacts DEF Books
<1>8. KeptElsewhere(p, i)
    <2>1. edits = 0 /\ Whole(i) /\ plan[p].disposition # "Permanent" => Whole(i)'
        BY <1>0, <1>4 DEF Whole
    <2>2. QED BY <1>0, <1>2, <2>1 DEF KeptElsewhere
<1>9. QED BY <1>5, <1>6, <1>7, <1>8 DEF Handles

-----------------------------------------------------------------------------
(* The item in hand of an undo *)

LEMMA RestoreRecycledHandles ==
    ASSUME IInv, NEW p \in Plan, NEW i \in Item, op.plan = p, op.item = i, RestoreRecycled
    PROVE  Handles(p, i)
<1>0. /\ op.kind = "undo" /\ op.pc = "effect" /\ i \in bin[p]
      /\ plan' = plan /\ disk' = disk /\ run' = run
      /\ enabled' = enabled /\ due' = due /\ pay' = pay
      /\ crashes' = crashes /\ edits' = edits /\ switches' = switches
    BY DEF RestoreRecycled, bounds
<1>1. /\ mem' \in Journal /\ mem'.item[i] = "Restored"
      /\ \A k \in Item : k # i => mem'.item[k] = mem.item[k]
      /\ op' \in Operation /\ op'.pc = "record" /\ op'.kind = op.kind
      /\ op'.plan = p /\ op'.item = i
    BY HandFacts, OutcomeFacts DEF RestoreRecycled, ItemState
<1>2. /\ src' \in [Item -> SrcState] /\ src'[i] = "whole"
      /\ \A k \in Item : k # i => src'[k] = src[k]
    BY HandFacts, SourceFacts DEF RestoreRecycled, SrcState
<1>3. /\ bin' \in [Plan -> SUBSET Item] /\ i \notin bin'[p]
      /\ \A q \in Plan, k \in Item : q # p \/ k # i => (k \in bin'[q] <=> k \in bin[q])
    <2>1. bin[p] \ {i} \in SUBSET Item /\ bin' = [bin EXCEPT ![p] = bin[p] \ {i}]
        BY HandFacts DEF RestoreRecycled
    <2>2. /\ bin' \in [Plan -> SUBSET Item] /\ bin'[p] = bin[p] \ {i}
          /\ \A q \in Plan : q # p => bin'[q] = bin[q]
        BY <2>1, HandFacts, BinFacts
    <2>3. QED BY <2>2
<1>4. TypeOK'
    BY <1>0, <1>1, <1>2, <1>3, HandFacts, TypeNext
<1>5. ItsOwn(p, i)
    BY <1>0, <1>1, <1>2, <1>3 DEF ItsOwn
<1>6. Books(p, i)
    BY <1>0, <1>1, <1>3, HandFacts DEF Books
<1>7. KeptElsewhere(p, i)
    BY <1>0, <1>1, <1>2 DEF KeptElsewhere, Whole
<1>8. QED BY <1>4, <1>5, <1>6, <1>7 DEF Handles

LEMMA RestoreMovedHandles ==
    ASSUME IInv, NEW p \in Plan, NEW i \in Item, op.plan = p, op.item = i, RestoreMoved
    PROVE  Handles(p, i)
<1>0. /\ op.kind = "undo" /\ op.pc = "effect" /\ pay[p][i] # "none"
      /\ plan' = plan /\ disk' = disk /\ run' = run
      /\ enabled' = enabled /\ due' = due /\ bin' = bin
      /\ crashes' = crashes /\ edits' = edits /\ switches' = switches
    BY DEF RestoreMoved, bounds
<1>1. /\ mem' \in Journal /\ mem'.item[i] = "Restored"
      /\ \A k \in Item : k # i => mem'.item[k] = mem.item[k]
      /\ op' \in Operation /\ op'.pc = "record" /\ op'.kind = op.kind
      /\ op'.plan = p /\ op'.item = i
    BY HandFacts, OutcomeFacts DEF RestoreMoved, ItemState
<1>2. /\ src' \in [Item -> SrcState] /\ src'[i] = pay[p][i]
      /\ \A k \in Item : k # i => src'[k] = src[k]
    <2>1. pay[p][i] \in SrcState
        BY HandFacts DEF SrcState, PayState
    <2>2. QED BY <2>1, HandFacts, SourceFacts DEF RestoreMoved
<1>3. /\ pay' \in [Plan -> [Item -> PayState]] /\ pay'[p][i] = "none"
      /\ \A q \in Plan, k \in Item : q # p \/ k # i => pay'[q][k] = pay[q][k]
    BY HandFacts, PayloadFacts DEF RestoreMoved, PayState
<1>4. TypeOK'
    BY <1>0, <1>1, <1>2, <1>3, HandFacts, TypeNext
<1>5. ItsOwn(p, i)
    BY <1>0, <1>1, <1>2, <1>3 DEF ItsOwn
<1>6. Books(p, i)
    BY <1>0, <1>1, <1>3, HandFacts DEF Books
<1>7. KeptElsewhere(p, i)
    <2>1. edits = 0 => src[i] = "none"
        BY <1>0 DEF IInv, PathFree
    <2>2. edits = 0 /\ Whole(i) => Whole(i)'
        BY <1>0, <1>2, <1>3, <2>1 DEF Whole
    <2>3. QED BY <1>0, <1>1, <2>2 DEF KeptElsewhere
<1>8. QED BY <1>4, <1>5, <1>6, <1>7 DEF Handles

LEMMA RestoreCopiedHandles ==
    ASSUME IInv, NEW p \in Plan, NEW i \in Item, op.plan = p, op.item = i, RestoreCopied
    PROVE  Handles(p, i)
<1>0. /\ op.kind = "undo" /\ op.pc = "effect" /\ pay[p][i] # "none"
      /\ plan' = plan /\ disk' = disk /\ mem' = mem /\ run' = run
      /\ enabled' = enabled /\ due' = due /\ pay' = pay /\ bin' = bin
      /\ crashes' = crashes /\ edits' = edits /\ switches' = switches
    BY DEF RestoreCopied, bounds
<1>1. /\ op' \in Operation /\ op'.pc = "removing" /\ op'.kind = op.kind
      /\ op'.plan = p /\ op'.item = i
    BY HandFacts, PlaceFacts DEF RestoreCopied
<1>2. /\ src' \in [Item -> SrcState] /\ src'[i] = pay[p][i]
      /\ \A k \in Item : k # i => src'[k] = src[k]
    <2>1. pay[p][i] \in SrcState
        BY HandFacts DEF SrcState, PayState
    <2>2. QED BY <2>1, HandFacts, SourceFacts DEF RestoreCopied
<1>3. TypeOK'
    BY <1>0, <1>1, <1>2, HandFacts, TypeNext
<1>4. ItsOwn(p, i)
    BY <1>0, <1>1, <1>2 DEF ItsOwn
<1>5. Books(p, i)
    BY <1>0, <1>1, HandFacts DEF Books
<1>6. KeptElsewhere(p, i)
    <2>1. edits = 0 => src[i] = "none"
        BY <1>0 DEF IInv, PathFree
    <2>2. edits = 0 /\ Whole(i) => Whole(i)'
        BY <1>0, <1>2, <2>1 DEF Whole
    <2>3. QED BY <1>0, <1>1, <1>2, <2>2 DEF KeptElsewhere
<1>7. QED BY <1>3, <1>4, <1>5, <1>6 DEF Handles

\* The payload is removed once its content is back.
LEMMA UndoRemovesHandles ==
    ASSUME IInv, NEW p \in Plan, NEW i \in Item, op.plan = p, op.item = i,
           UndoRemovesPiece \/ UndoRemovesRest
    PROVE  Handles(p, i)
<1>0. /\ op.kind = "undo" /\ op.pc = "removing"
      /\ plan' = plan /\ disk' = disk /\ run' = run
      /\ enabled' = enabled /\ due' = due /\ src' = src /\ bin' = bin
      /\ crashes' = crashes /\ edits' = edits /\ switches' = switches
    BY DEF UndoRemovesPiece, UndoRemovesRest, bounds
<1>1. pay[p][i] # "none" /\ (edits = 0 /\ pay[p][i] = "whole" => src[i] = "whole")
    BY <1>0 DEF IInv, PutBackWhole
<1>2. PICK left \in {"none", "part"} :
          /\ pay' \in [Plan -> [Item -> PayState]] /\ pay'[p][i] = left
          /\ \A q \in Plan, k \in Item : q # p \/ k # i => pay'[q][k] = pay[q][k]
          /\ IF left = "part" THEN UndoRemovesPiece ELSE UndoRemovesRest
    <2>1. CASE UndoRemovesPiece
        BY <2>1, HandFacts, PayloadFacts DEF UndoRemovesPiece, PayState
    <2>2. CASE UndoRemovesRest
        BY <2>2, HandFacts, PayloadFacts DEF UndoRemovesRest, PayState
    <2>3. QED BY <2>1, <2>2
<1>3. /\ mem' \in Journal
      /\ IF left = "part" THEN mem' = mem /\ op' = op ELSE mem'.item[i] = "Restored"
      /\ \A k \in Item : k # i => mem'.item[k] = mem.item[k]
      /\ op' \in Operation /\ op'.pc \in {"removing", "record"} /\ op'.kind = op.kind
      /\ op'.plan = p /\ op'.item = i
      /\ left = "none" => op'.pc = "record"
    <2>1. CASE left = "part"
        BY <1>0, <1>2, <2>1, HandFacts DEF UndoRemovesPiece
    <2>2. CASE left = "none"
        BY <1>2, <2>2, HandFacts, OutcomeFacts DEF UndoRemovesRest, ItemState
    <2>3. QED BY <2>1, <2>2
<1>4. TypeOK'
    BY <1>0, <1>2, <1>3, HandFacts, TypeNext
<1>5. ItsOwn(p, i)
    BY <1>0, <1>2, <1>3 DEF ItsOwn
<1>6. Books(p, i)
    BY <1>0, <1>1, <1>2, <1>3, HandFacts DEF Books
<1>7. KeptElsewhere(p, i)
    <2>1. edits = 0 /\ Whole(i) => Whole(i)'
        BY <1>0, <1>1, <1>2 DEF Whole
    <2>2. QED BY <1>0, <1>2, <1>3, <2>1 DEF KeptElsewhere
<1>8. QED BY <1>4, <1>5, <1>6, <1>7 DEF Handles

-----------------------------------------------------------------------------
(* The steps on the item in hand, together *)

InHand ==
    \/ ExecuteFails \/ Recycle \/ Move \/ Copy \/ BeginRemoval \/ RemovePiece \/ RemoveRest
    \/ RestoreRecycled \/ RestoreMoved \/ RestoreCopied
    \/ UndoRemovesPiece \/ UndoRemovesRest \/ UndoFails

LEMMA InHandHandles ==
    ASSUME IInv, InHand
    PROVE  \E p \in Plan, i \in Item : Handles(p, i)
<1>1. op.pc # "next"
    BY DEF InHand, ExecuteFails, Recycle, Move, Copy, BeginRemoval, RemovePiece, RemoveRest,
           RestoreRecycled, RestoreMoved, RestoreCopied, UndoRemovesPiece, UndoRemovesRest,
           UndoFails
<1>2. PICK p \in Plan, i \in Item : op.plan = p /\ op.item = i
    BY <1>1, TypeFacts DEF IInv
<1>3. Handles(p, i)
    BY <1>2, FailsHandles, RecycleHandles, MoveHandles, CopyHandles, RemovalHandles,
       RemoveRestHandles, RestoreRecycledHandles, RestoreMovedHandles, RestoreCopiedHandles,
       UndoRemovesHandles
    DEF InHand
<1>4. QED BY <1>3

LEMMA InHandKeeps == ASSUME IInv, InHand PROVE IInv'
BY InHandHandles, HandlingKeeps

-----------------------------------------------------------------------------
(* An operation takes up an item or records it, begins or ends *)

\* The content and the plans stay as they are, and so do the policy and the bounds.
Bookkeeping ==
    /\ plan' = plan /\ enabled' = enabled /\ due' = due
    /\ src' = src /\ pay' = pay /\ bin' = bin
    /\ edits' = edits /\ switches' = switches

\* The writer is given up, or was free.
LEMMA ReleaseKeeps ==
    ASSUME IInv, TypeOK', op' = Idle, \A p \in Plan : Clean(disk[p], p)',
           \A p \in Plan : plan[p] # Unplanned => plan'[p] = plan[p],
           pay' = pay, bin' = bin
    PROVE  IInv'
<1>1. op'.kind = "idle" /\ op'.plan \notin Plan
    BY IdleFacts
<1>2. PayloadsPlanned'
    BY <1>1 DEF IInv, PayloadsPlanned
<1>3. JournalsClean'
    BY <1>1 DEF JournalsClean
<1>4. IntentWritten' /\ CopiedWhole' /\ PathFree' /\ PutBackWhole' /\ PurgesWhatIsDue'
    BY <1>1 DEF IntentWritten, CopiedWhole, PathFree, PutBackWhole, PurgesWhatIsDue
<1>5. QED BY <1>2, <1>3, <1>4 DEF IInv

\* An execution or an undo is between two items.
LEMMA BetweenKeeps ==
    ASSUME IInv, TypeOK', Bookkeeping, NEW p \in Plan,
           op'.kind \in {"execute", "undo"}, op'.plan = p, op'.pc = "next",
           op'.kind = "execute" => plan[p] # Unplanned,
           \A q \in Plan : Clean(disk[q], q)', Clean(mem, p)'
    PROVE  IInv'
<1>1. PayloadsPlanned'
    BY DEF IInv, PayloadsPlanned, Bookkeeping
<1>2. JournalsClean'
    BY DEF JournalsClean, Clean
<1>3. IntentWritten' /\ CopiedWhole' /\ PathFree' /\ PutBackWhole' /\ PurgesWhatIsDue'
    BY DEF IntentWritten, CopiedWhole, PathFree, PutBackWhole, PurgesWhatIsDue
<1>4. QED BY <1>1, <1>2, <1>3 DEF IInv

\* A state that is neither Restored nor Purged leaves a journal clean.
LEMMA CleanItem ==
    ASSUME NEW j \in Journal, NEW p \in Plan, NEW i \in Item,
           NEW s \in ItemState \ {"Restored", "Purged"}, Clean(j, p)
    PROVE  Clean(SetItem(j, i, s), p)
BY SetItemFacts DEF Clean

\* The journal of a new execution names no item as gone.
LEMMA BeginExecuteKeeps ==
    ASSUME IInv, NEW p \in Plan, NEW r \in Run \cup {None}, BeginExecute(p, r),
           run' \in [Run -> RunRecord],
           \A x \in Run : run'[x].pc = "execute" => run'[x].plan \in Plan
    PROVE  IInv'
<1> DEFINE items == [i \in Item |-> IF i \in plan[p].items THEN "Pending" ELSE "None"]
           fresh == [item |-> items, open |-> TRUE]
<1>0. TypeOK
    BY DEF IInv
<1>1. /\ mem' = fresh /\ disk' = [disk EXCEPT ![p] = fresh] /\ plan[p] # Unplanned
      /\ op' = [Idle EXCEPT !.kind = "execute", !.plan = p, !.todo = plan[p].items, !.by = r]
      /\ plan' = plan /\ enabled' = enabled /\ due' = due /\ src' = src /\ pay' = pay
      /\ bin' = bin /\ crashes' = crashes /\ edits' = edits /\ switches' = switches
    BY DEF BeginExecute, content, bounds
<1>2. items \in [Item -> ItemState] /\ \A i \in Item : items[i] \in {"Pending", "None"}
    BY DEF ItemState
<1>3. fresh \in Journal /\ \A i \in Item : fresh.item[i] \in {"Pending", "None"}
    <2> HIDE DEF items
    <2>1. QED BY <1>2 DEF Journal
<1> HIDE DEF fresh
<1>4. /\ disk' \in [Plan -> Journal] /\ disk'[p] = fresh
      /\ \A q \in Plan : q # p => disk'[q] = disk[q]
    BY <1>0, <1>1, <1>3, TypeFacts
<1>5. op' \in Operation /\ op'.kind = "execute" /\ op'.plan = p /\ op'.pc = "next"
    <2>1. plan[p].items \in SUBSET Item
        BY <1>0, TypeFacts DEF PlanRecord
    <2>2. QED BY <1>1, <2>1, IdleFacts DEF Operation
<1>6. TypeOK'
    BY <1>0, <1>1, <1>3, <1>4, <1>5, TypeFacts, TypeNext
<1>7. \A q \in Plan : Clean(disk[q], q)'
    BY <1>1, <1>3, <1>4 DEF IInv, JournalsClean, Clean
<1>8. Clean(mem, p)'
    BY <1>1, <1>3 DEF Clean
<1>9. QED BY <1>1, <1>5, <1>6, <1>7, <1>8, BetweenKeeps DEF Bookkeeping

LEMMA ExecuteIntentKeeps ==
    ASSUME IInv, NEW i \in Item, ExecuteIntent(i)
    PROVE  IInv'
<1>0. TypeOK
    BY DEF IInv
<1>1. /\ op.kind = "execute" /\ mem' = SetItem(mem, i, "Mutating")
      /\ disk' = [disk EXCEPT ![op.plan] = mem'] /\ op' = [op EXCEPT !.pc = "effect", !.item = i]
      /\ plan' = plan /\ run' = run /\ enabled' = enabled /\ due' = due /\ src' = src
      /\ pay' = pay /\ bin' = bin /\ crashes' = crashes /\ edits' = edits
      /\ switches' = switches
    BY DEF ExecuteIntent, Persist, content, bounds
<1>2. PICK p \in Plan : op.plan = p
    BY <1>0, <1>1, TypeFacts
<1>3. mem' \in Journal /\ mem'.item[i] = "Mutating" /\ Clean(mem', p)
    <2>1. "Mutating" \in ItemState \ {"Restored", "Purged"}
        BY DEF ItemState
    <2>2. mem \in Journal /\ Clean(mem, p)
        BY <1>0, <1>2, TypeFacts DEF IInv, JournalsClean
    <2>3. QED BY <1>1, <2>1, <2>2, SetItemFacts, CleanItem
<1>4. /\ disk' \in [Plan -> Journal] /\ disk'[p] = mem'
      /\ \A q \in Plan : q # p => disk'[q] = disk[q]
    BY <1>0, <1>1, <1>2, <1>3, TypeFacts
<1>5. op' \in Operation /\ op'.kind = "execute" /\ op'.plan = p /\ op'.pc = "effect" /\ op'.item = i
    BY <1>0, <1>1, <1>2, TypeFacts DEF Operation
<1>6. TypeOK'
    BY <1>0, <1>1, <1>3, <1>4, <1>5, TypeFacts, TypeNext
<1>7. PayloadsPlanned'
    BY <1>1, <1>2, <1>5 DEF IInv, PayloadsPlanned
<1>8. IntentWritten'
    BY <1>3, <1>4, <1>5 DEF IntentWritten
<1>9. JournalsClean'
    <2>1. \A q \in Plan : Clean(disk[q], q)'
        BY <1>1, <1>3, <1>4 DEF IInv, JournalsClean, Clean
    <2>2. Clean(mem, p)'
        BY <1>1, <1>3 DEF Clean
    <2>3. QED BY <1>5, <2>1, <2>2 DEF JournalsClean, Clean
<1>10. CopiedWhole' /\ PathFree' /\ PutBackWhole' /\ PurgesWhatIsDue'
    BY <1>5 DEF CopiedWhole, PathFree, PutBackWhole, PurgesWhatIsDue
<1>11. QED BY <1>6, <1>7, <1>8, <1>9, <1>10 DEF IInv

\* The journal in memory is written; the operation is between two items.
LEMMA RecordsKeep ==
    ASSUME IInv, NEW i \in Item, RecordItem \/ UndoCollides(i)
    PROVE  IInv'
<1>0. TypeOK
    BY DEF IInv
<1>1. /\ op.kind \in {"execute", "undo"} /\ mem' = mem /\ disk' = [disk EXCEPT ![op.plan] = mem]
      /\ plan' = plan /\ run' = run /\ enabled' = enabled /\ due' = due /\ src' = src
      /\ pay' = pay /\ bin' = bin /\ crashes' = crashes /\ edits' = edits
      /\ switches' = switches
    BY DEF RecordItem, UndoCollides, Persist, content, bounds
<1>2. PICK p \in Plan : op.plan = p
    BY <1>0, <1>1, TypeFacts
<1>3. mem \in Journal /\ Clean(mem, p)
    BY <1>0, <1>2, TypeFacts DEF IInv, JournalsClean
<1>4. /\ disk' \in [Plan -> Journal] /\ disk'[p] = mem
      /\ \A q \in Plan : q # p => disk'[q] = disk[q]
    BY <1>0, <1>1, <1>2, <1>3, TypeFacts
<1>5. op' \in Operation /\ op'.kind = op.kind /\ op'.plan = p /\ op'.pc = "next"
    <2>1. CASE RecordItem
        BY <1>0, <1>2, <2>1, TypeFacts DEF RecordItem, Operation
    <2>2. CASE UndoCollides(i)
        BY <1>0, <1>2, <2>2, TypeFacts DEF UndoCollides, Operation
    <2>3. QED BY <2>1, <2>2
<1>6. TypeOK'
    BY <1>0, <1>1, <1>4, <1>5, TypeFacts, TypeNext
<1>7. \A q \in Plan : Clean(disk[q], q)'
    BY <1>1, <1>3, <1>4 DEF IInv, JournalsClean, Clean
<1>8. Clean(mem, p)' /\ (op.kind = "execute" => plan[p] # Unplanned)
    BY <1>1, <1>2, <1>3 DEF Clean, IInv, PayloadsPlanned
<1>9. QED BY <1>1, <1>5, <1>6, <1>7, <1>8, BetweenKeeps DEF Bookkeeping

LEMMA BeginUndoKeeps ==
    ASSUME IInv, NEW p \in Plan, BeginUndo(p)
    PROVE  IInv'
<1>0. TypeOK
    BY DEF IInv
<1> DEFINE back == {i \in Item : disk[p].item[i] \in {"Recycled", "Quarantined"}}
<1>1. /\ mem' = disk[p] /\ disk' = disk
      /\ op' = [Idle EXCEPT !.kind = "undo", !.plan = p, !.todo = back]
      /\ plan' = plan /\ run' = run /\ enabled' = enabled /\ due' = due /\ src' = src
      /\ pay' = pay /\ bin' = bin /\ crashes' = crashes /\ edits' = edits
      /\ switches' = switches
    BY DEF BeginUndo, content, bounds
<1>2. op' \in Operation /\ op'.kind = "undo" /\ op'.plan = p /\ op'.pc = "next"
    <2>1. back \in SUBSET Item
        OBVIOUS
    <2> HIDE DEF back
    <2>2. QED BY <1>1, <2>1, IdleFacts DEF Operation
<1>3. TypeOK'
    BY <1>0, <1>1, <1>2, TypeFacts, TypeNext
<1>4. \A q \in Plan : Clean(disk[q], q)'
    BY <1>1 DEF IInv, JournalsClean, Clean
<1>5. Clean(mem, p)'
    BY <1>1 DEF IInv, JournalsClean, Clean
<1>6. QED BY <1>1, <1>2, <1>3, <1>4, <1>5, BetweenKeeps DEF Bookkeeping

\* The undo looks at the path and finds it free.
LEMMA UndoCheckKeeps ==
    ASSUME IInv, NEW i \in Item, UndoCheck(i)
    PROVE  IInv'
<1>0. TypeOK
    BY DEF IInv
<1>1. /\ op.kind = "undo" /\ src[i] = "none" /\ mem' = mem /\ disk' = disk
      /\ op' = [op EXCEPT !.pc = "effect", !.item = i]
      /\ plan' = plan /\ run' = run /\ enabled' = enabled /\ due' = due /\ src' = src
      /\ pay' = pay /\ bin' = bin /\ crashes' = crashes /\ edits' = edits
      /\ switches' = switches
    BY DEF UndoCheck, content, bounds
<1>2. /\ op' \in Operation /\ op'.kind = "undo" /\ op'.plan = op.plan /\ op'.pc = "effect"
      /\ op'.item = i
    BY <1>0, <1>1, TypeFacts DEF Operation
<1>3. TypeOK'
    BY <1>0, <1>1, <1>2, TypeFacts, TypeNext
<1>4. PayloadsPlanned' /\ JournalsClean'
    BY <1>1, <1>2 DEF IInv, PayloadsPlanned, JournalsClean, Clean
<1>5. IntentWritten' /\ CopiedWhole' /\ PathFree' /\ PutBackWhole' /\ PurgesWhatIsDue'
    BY <1>1, <1>2 DEF IntentWritten, CopiedWhole, PathFree, PutBackWhole, PurgesWhatIsDue
<1>6. QED BY <1>3, <1>4, <1>5 DEF IInv

\* The operation is over and the writer released.
LEMMA FinishKeeps ==
    ASSUME IInv, FinishExecute \/ FinishUndo \/ FinishPurge \/ Abort
    PROVE  IInv'
<1>0. TypeOK
    BY DEF IInv
<1>1. /\ op' = Idle /\ mem' = NoJournal
      /\ plan' = plan /\ enabled' = enabled /\ due' = due /\ src' = src
      /\ pay' = pay /\ bin' = bin /\ edits' = edits /\ switches' = switches
    BY DEF FinishExecute, FinishUndo, FinishPurge, Abort, Release, content, bounds
<1>2. crashes' \in Nat
    BY <1>0, TypeFacts DEF FinishExecute, FinishUndo, FinishPurge, Abort, bounds
<1>3. /\ run' \in [Run -> RunRecord]
      /\ \A r \in Run : run'[r].pc = "execute" => run'[r].plan \in Plan
    <2>1. CASE run' = run
        BY <1>0, <2>1, TypeFacts
    <2>2. CASE run' # run
        <3>1. PICK pc \in {"idle", "purge"} :
                  run' = [run EXCEPT ![op.by] = [NoRun EXCEPT !.pc = pc]]
            BY <2>2 DEF FinishExecute, FinishUndo, FinishPurge, Abort, Release
        <3>2. [NoRun EXCEPT !.pc = pc] \in RunRecord /\ [NoRun EXCEPT !.pc = pc].pc = pc
            BY UnplannedFacts DEF RunRecord
        <3>3. QED BY <1>0, <3>1, <3>2, TypeFacts
    <2>3. QED BY <2>1, <2>2
<1>4. /\ disk' \in [Plan -> Journal]
      /\ \A p \in Plan : Clean(disk[p], p)'
    <2>1. CASE disk' = disk
        BY <1>0, <1>1, <2>1, TypeFacts DEF IInv, JournalsClean, Clean
    <2>2. CASE disk' # disk
        <3>1. op.kind = "execute" /\ disk' = [disk EXCEPT ![op.plan] = [mem EXCEPT !.open = FALSE]]
            BY <2>2 DEF FinishExecute, FinishUndo, FinishPurge, Abort
        <3>2. PICK p \in Plan : op.plan = p
            BY <1>0, <3>1, TypeFacts
        <3> DEFINE closed == [mem EXCEPT !.open = FALSE]
        <3>3. closed \in Journal /\ closed.item = mem.item
            BY <1>0, TypeFacts DEF Journal
        <3>4. \A i \in Item :
                  mem.item[i] \in {"Restored", "Purged"} => pay[p][i] = "none" /\ i \notin bin[p]
            BY <3>2 DEF IInv, JournalsClean, Clean
        <3> HIDE DEF closed
        <3>5. /\ disk' \in [Plan -> Journal] /\ disk'[p] = closed
              /\ \A q \in Plan : q # p => disk'[q] = disk[q]
            BY <1>0, <3>1, <3>2, <3>3, TypeFacts DEF closed
        <3>6. QED BY <1>1, <3>3, <3>4, <3>5 DEF IInv, JournalsClean, Clean
    <2>3. QED BY <2>1, <2>2
<1>5. TypeOK'
    BY <1>0, <1>1, <1>2, <1>3, <1>4, TypeFacts, TypeNext, IdleFacts, NoJournalFacts
<1>6. QED BY <1>1, <1>4, <1>5, ReleaseKeeps

-----------------------------------------------------------------------------
(* A purge *)

LEMMA PurgingKeeps ==
    ASSUME IInv, TypeOK', PurgesWhatIsDue', JournalsClean', op'.kind = "purge",
           plan' = plan, bin' = bin,
           \A p \in Plan, i \in Item : pay'[p][i] # "none" => pay[p][i] # "none"
    PROVE  IInv'
<1>1. PayloadsPlanned'
    BY DEF IInv, PayloadsPlanned
<1>2. IntentWritten' /\ CopiedWhole' /\ PathFree' /\ PutBackWhole'
    BY DEF IntentWritten, CopiedWhole, PathFree, PutBackWhole
<1>3. QED BY <1>1, <1>2 DEF IInv

LEMMA BeginPurgeKeeps ==
    ASSUME IInv, NEW r \in Run, BeginPurge(r)
    PROVE  IInv'
<1>0. TypeOK
    BY DEF IInv
<1> DEFINE ready == {p \in due : HasExecution(p) /\ plan[p].disposition = "Quarantine"}
<1>1. /\ enabled /\ op' = [Idle EXCEPT !.kind = "purge", !.by = r, !.queue = ready]
      /\ run' = [run EXCEPT ![r].pc = "busy"]
      /\ mem' = mem /\ disk' = disk /\ plan' = plan /\ enabled' = enabled /\ due' = due
      /\ src' = src /\ pay' = pay /\ bin' = bin /\ crashes' = crashes /\ edits' = edits
      /\ switches' = switches
    BY DEF BeginPurge, content, bounds
<1>2. /\ op' \in Operation /\ op'.kind = "purge" /\ op'.plan = None /\ op'.pc = "next"
      /\ op'.todo = {} /\ op'.queue \subseteq due
    <2>1. ready \in SUBSET Plan /\ ready \subseteq due
        BY <1>0, TypeFacts
    <2> HIDE DEF ready
    <2>2. QED BY <1>1, <2>1, IdleFacts DEF Operation
<1>3. /\ run' \in [Run -> RunRecord]
      /\ \A x \in Run : run'[x].pc = "execute" => run'[x].plan \in Plan
    <2>1. [run[r] EXCEPT !.pc = "busy"] \in RunRecord /\ [run[r] EXCEPT !.pc = "busy"].pc = "busy"
        BY <1>0, TypeFacts DEF RunRecord
    <2>2. QED BY <1>0, <1>1, <2>1, TypeFacts
<1>4. TypeOK'
    BY <1>0, <1>1, <1>2, <1>3, TypeFacts, TypeNext
<1>5. PurgesWhatIsDue' /\ JournalsClean'
    BY <1>1, <1>2, IdleFacts DEF PurgesWhatIsDue, IInv, JournalsClean, Clean
<1>6. QED BY <1>1, <1>2, <1>4, <1>5, PurgingKeeps

LEMMA PurgeJournalKeeps ==
    ASSUME IInv, NEW p \in Plan, PurgeJournal(p)
    PROVE  IInv'
<1>0. TypeOK
    BY DEF IInv
<1> DEFINE stored == {i \in Item : disk[p].item[i] = "Quarantined"}
<1>1. /\ op.kind = "purge" /\ p \in op.queue /\ mem' = disk[p]
      /\ op' = [op EXCEPT !.plan = p, !.todo = stored]
      /\ disk' = disk /\ plan' = plan /\ run' = run /\ enabled' = enabled /\ due' = due
      /\ src' = src /\ pay' = pay /\ bin' = bin /\ crashes' = crashes /\ edits' = edits
      /\ switches' = switches
    BY DEF PurgeJournal, content, bounds
<1>2. /\ op' \in Operation /\ op'.kind = "purge" /\ op'.plan = p /\ op'.pc = op.pc
      /\ op'.queue = op.queue /\ op'.todo \subseteq Item
      /\ \A i \in op'.todo : disk[p].item[i] = "Quarantined"
    <2>1. stored \in SUBSET Item /\ \A i \in stored : disk[p].item[i] = "Quarantined"
        OBVIOUS
    <2> HIDE DEF stored
    <2>2. QED BY <1>0, <1>1, <2>1, TypeFacts DEF Operation
<1>3. PurgesWhatIsDue'
    BY <1>1, <1>2, IdleFacts DEF PurgesWhatIsDue, IInv
<1>4. TypeOK'
    BY <1>0, <1>1, <1>2, <1>3, TypeFacts, TypeNext DEF PurgesWhatIsDue
<1>5. JournalsClean'
    <2>1. \A q \in Plan : Clean(disk[q], q)'
        BY <1>1 DEF IInv, JournalsClean, Clean
    <2>2. Clean(mem, p)'
        BY <1>1 DEF IInv, JournalsClean, Clean
    <2>3. QED BY <1>2, <2>1, <2>2 DEF JournalsClean, Clean
<1>6. QED BY <1>1, <1>2, <1>3, <1>4, <1>5, PurgingKeeps

\* The plan of the journal that a purge is at, which is due, and what it still has to take.
LEMMA PurgeFacts ==
    ASSUME IInv, op.kind = "purge", op.plan # None
    PROVE  /\ op.plan \in Plan /\ op.plan \in due /\ enabled /\ op.pc = "next"
           /\ op.queue \subseteq due /\ op.todo \subseteq Item
           /\ \A i \in op.todo : disk[op.plan].item[i] = "Quarantined"
BY TypeFacts DEF IInv, PurgesWhatIsDue, Operation

\* A piece of a payload is taken; the state of its item is recorded with the last one.
LEMMA PurgeTakesKeeps ==
    ASSUME IInv, NEW i \in Item, PurgePiece(i) \/ PurgeRest(i) \/ PurgeFails(i)
    PROVE  IInv'
<1>0. TypeOK
    BY DEF IInv
<1>1. /\ op.kind = "purge" /\ i \in op.todo
      /\ disk' = disk /\ plan' = plan /\ run' = run /\ enabled' = enabled /\ due' = due
      /\ src' = src /\ bin' = bin /\ crashes' = crashes /\ edits' = edits
      /\ switches' = switches
    BY DEF PurgePiece, PurgeRest, PurgeFails, content, bounds
<1>2. op.plan # None
    BY <1>1 DEF IInv, PurgesWhatIsDue
<1>3. PICK p \in Plan : op.plan = p
    BY <1>1, <1>2, PurgeFacts
<1>4. /\ op' \in Operation /\ op'.kind = "purge" /\ op'.plan = p /\ op'.pc = "next"
      /\ op'.queue = op.queue /\ op'.todo \subseteq op.todo
    <2>1. op' = op \/ op' = [op EXCEPT !.todo = @ \ {i}]
        BY DEF PurgePiece, PurgeRest, PurgeFails
    <2>2. QED BY <1>0, <1>1, <1>2, <1>3, <2>1, TypeFacts, PurgeFacts DEF Operation
<1>5. /\ pay' \in [Plan -> [Item -> PayState]] /\ mem' \in Journal
      /\ \A q \in Plan, k \in Item : pay'[q][k] # "none" => pay[q][k] # "none"
      /\ \A k \in Item : mem'.item[k] # mem.item[k] =>
             k = i /\ pay[p][i] # "none" /\ pay'[p][i] = "none"
    <2>1. CASE PurgePiece(i)
        BY <1>0, <1>3, <2>1, TypeFacts, PayloadFacts DEF PurgePiece, PayState
    <2>2. CASE PurgeRest(i)
        <3>1. /\ pay' \in [Plan -> [Item -> PayState]] /\ pay'[p][i] = "none"
              /\ \A q \in Plan, k \in Item : q # p \/ k # i => pay'[q][k] = pay[q][k]
            BY <1>0, <1>3, <2>2, TypeFacts, PayloadFacts DEF PurgeRest, PayState
        <3>2. mem' \in Journal /\ \A k \in Item : k # i => mem'.item[k] = mem.item[k]
            <4>1. mem \in Journal /\ "Purged" \in ItemState /\ mem' = SetItem(mem, i, "Purged")
                BY <1>0, <2>2, TypeFacts DEF PurgeRest, ItemState
            <4>2. QED BY <4>1, SetItemFacts
        <3>3. pay[p][i] # "none"
            BY <1>3, <2>2 DEF PurgeRest
        <3>4. QED BY <3>1, <3>2, <3>3
    <2>3. CASE PurgeFails(i)
        BY <1>0, <2>3, TypeFacts DEF PurgeFails, content
    <2>4. QED BY <2>1, <2>2, <2>3
<1>6. PurgesWhatIsDue'
    BY <1>1, <1>2, <1>3, <1>4, PurgeFacts DEF PurgesWhatIsDue
<1>7. TypeOK'
    BY <1>0, <1>1, <1>4, <1>5, TypeFacts, TypeNext
<1>8. JournalsClean'
    <2>1. \A q \in Plan : Clean(disk[q], q)'
        BY <1>1, <1>5 DEF IInv, JournalsClean, Clean
    <2>2. Clean(mem, p)'
        <3>1. pay[p][i] # "none" => i \notin bin[p]
            BY DEF IInv, PayloadsPlanned
        <3>2. ASSUME NEW k \in Item, mem'.item[k] \in {"Restored", "Purged"}
              PROVE  pay'[p][k] = "none" /\ k \notin bin'[p]
            <4>1. CASE mem'.item[k] = mem.item[k]
                BY <1>1, <1>3, <1>5, <3>2, <4>1 DEF IInv, JournalsClean, Clean
            <4>2. CASE mem'.item[k] # mem.item[k]
                BY <1>1, <1>5, <3>1, <4>2
            <4>3. QED BY <4>1, <4>2
        <3>3. QED BY <3>2 DEF Clean
    <2>3. QED BY <1>4, <2>1, <2>2 DEF JournalsClean, Clean
<1>9. QED BY <1>1, <1>4, <1>5, <1>6, <1>7, <1>8, PurgingKeeps

LEMMA PurgeRecordKeeps ==
    ASSUME IInv, PurgeRecord
    PROVE  IInv'
<1>0. TypeOK
    BY DEF IInv
<1>1. /\ op.kind = "purge" /\ op.plan # None /\ op.todo = {}
      /\ disk' = [disk EXCEPT ![op.plan] = mem] /\ mem' = NoJournal
      /\ op' = [op EXCEPT !.plan = None, !.queue = @ \ {op.plan}]
      /\ plan' = plan /\ run' = run /\ enabled' = enabled /\ due' = due
      /\ src' = src /\ pay' = pay /\ bin' = bin /\ crashes' = crashes /\ edits' = edits
      /\ switches' = switches
    BY DEF PurgeRecord, content, bounds
<1>2. PICK p \in Plan : op.plan = p
    BY <1>1, PurgeFacts
<1>3. /\ op' \in Operation /\ op'.kind = "purge" /\ op'.plan = None /\ op'.pc = "next"
      /\ op'.queue \subseteq op.queue /\ op'.todo = {}
    BY <1>0, <1>1, TypeFacts, PurgeFacts DEF Operation
<1>4. /\ disk' \in [Plan -> Journal] /\ disk'[p] = mem
      /\ \A q \in Plan : q # p => disk'[q] = disk[q]
    BY <1>0, <1>1, <1>2, TypeFacts, PersistFacts
<1>5. PurgesWhatIsDue'
    BY <1>1, <1>3, PurgeFacts DEF PurgesWhatIsDue
<1>6. TypeOK'
    BY <1>0, <1>1, <1>3, <1>4, TypeFacts, TypeNext, NoJournalFacts
<1>7. JournalsClean'
    <2>1. Clean(mem, p)
        BY <1>2 DEF IInv, JournalsClean
    <2>2. \A q \in Plan : Clean(disk[q], q)'
        BY <1>1, <1>4, <2>1 DEF IInv, JournalsClean, Clean
    <2>3. QED BY <1>3, <2>2, IdleFacts DEF JournalsClean
<1>8. QED BY <1>1, <1>3, <1>5, <1>6, <1>7, PurgingKeeps

\* A purge takes a whole copy only of a payload that is due and recorded as stored.
LEMMA PurgePreserves ==
    ASSUME IInv, NEW i \in Item, PurgePiece(i) \/ PurgeRest(i),
           NEW k \in Item, Whole(k), ~ Whole(k)'
    PROVE  /\ op.kind = "purge" /\ enabled
           /\ \E p \in due : pay'[p][k] # pay[p][k] /\ disk[p].item[k] = "Quarantined"
<1>0. TypeOK
    BY DEF IInv
<1>1. op.kind = "purge" /\ i \in op.todo /\ src' = src /\ bin' = bin
    BY DEF PurgePiece, PurgeRest
<1>2. op.plan # None
    BY <1>1 DEF IInv, PurgesWhatIsDue
<1>3. PICK p \in Plan : op.plan = p
    BY <1>1, <1>2, PurgeFacts
<1>4. \A q \in Plan, x \in Item : q # p \/ x # i => pay'[q][x] = pay[q][x]
    <2>1. CASE PurgePiece(i)
        BY <1>0, <1>3, <2>1, TypeFacts, PayloadFacts DEF PurgePiece, PayState
    <2>2. CASE PurgeRest(i)
        BY <1>0, <1>3, <2>2, TypeFacts, PayloadFacts DEF PurgeRest, PayState
    <2>3. QED BY <2>1, <2>2
<1>5. k = i /\ pay'[p][k] # pay[p][k]
    BY <1>1, <1>4 DEF Whole
<1>6. QED BY <1>1, <1>2, <1>3, <1>5, PurgeFacts

-----------------------------------------------------------------------------
(* Plans, maintenance, the policy, other programs and crashes *)

\* What an operation in progress relies on stays as it is.
LEMMA QuietKeeps ==
    ASSUME IInv, TypeOK', plan' = plan, disk' = disk, mem' = mem, op' = op, pay' = pay,
           bin' = bin, due \subseteq due', enabled => enabled',
           (edits' = edits /\ src' = src) \/ edits' # 0
    PROVE  IInv'
<1>1. PayloadsPlanned' /\ IntentWritten' /\ JournalsClean'
    BY DEF IInv, PayloadsPlanned, IntentWritten, JournalsClean, Clean
<1>2. CopiedWhole' /\ PathFree'
    BY DEF IInv, CopiedWhole, PathFree
<1>3. PutBackWhole' /\ PurgesWhatIsDue'
    BY DEF IInv, PutBackWhole, PurgesWhatIsDue
<1>4. QED BY <1>1, <1>2, <1>3 DEF IInv

\* A plan that was not used gets its items; no operation is under way.
LEMMA CreatePlanKeeps ==
    ASSUME IInv, NEW p \in Plan, NEW items \in SUBSET Item, NEW d \in Disposition,
           CreatePlan(p, items, d), disk' = disk, mem' = mem, op' = op, enabled' = enabled,
           due' = due, src' = src, pay' = pay, bin' = bin, crashes' = crashes, edits' = edits,
           switches' = switches, run' \in [Run -> RunRecord],
           \A x \in Run : run'[x].pc = "execute" => run'[x].plan \in Plan
    PROVE  IInv'
<1>0. TypeOK
    BY DEF IInv
<1>1. /\ op' = Idle /\ plan' \in [Plan -> PlanRecord]
      /\ \A q \in Plan : plan[q] # Unplanned => plan'[q] = plan[q]
    <2>1. [items |-> items, disposition |-> d] \in PlanRecord
        BY DEF PlanRecord
    <2>2. QED BY <1>0, <2>1, TypeFacts DEF CreatePlan, WriterFree
<1>2. TypeOK'
    BY <1>0, <1>1, TypeFacts, TypeNext, IdleFacts
<1>3. \A q \in Plan : Clean(disk[q], q)'
    BY DEF IInv, JournalsClean, Clean
<1>4. QED BY <1>1, <1>2, <1>3, ReleaseKeeps

\* Every place of a maintenance run.
LEMMA RunFacts ==
    ASSUME TypeOK, NEW r \in Run, NEW x \in RunRecord, x.pc = "execute" => x.plan \in Plan,
           run' = [run EXCEPT ![r] = x]
    PROVE  /\ run' \in [Run -> RunRecord]
           /\ \A y \in Run : run'[y].pc = "execute" => run'[y].plan \in Plan
BY TypeFacts

LEMMA MaintenanceKeeps ==
    ASSUME IInv, NEW r \in Run, Maintenance(r)
    PROVE  IInv'
<1>0. TypeOK
    BY DEF IInv
<1>1. CASE ReadPolicy(r) \/ Preview(r) \/ MaintenanceFails(r) \/ PurgeDisabled(r)
    <2>1. PICK x \in RunRecord : x.pc # "execute" /\ run' = [run EXCEPT ![r] = x]
        <3>1. CASE ReadPolicy(r)
            BY <3>1, UnplannedFacts DEF ReadPolicy, RunRecord
        <3>2. CASE Preview(r)
            <4>1. PICK found \in SUBSET {i \in Item : Present(src[i])} :
                      run' = [run EXCEPT ![r] = [NoRun EXCEPT
                          !.pc = IF found = {} THEN "purge" ELSE "plan", !.items = found]]
                BY <3>2 DEF Preview
            <4>2. found \in SUBSET Item
                OBVIOUS
            <4>3. QED BY <4>1, <4>2, UnplannedFacts DEF RunRecord
        <3>3. CASE MaintenanceFails(r) \/ PurgeDisabled(r)
            BY <3>3, UnplannedFacts DEF MaintenanceFails, PurgeDisabled
        <3>4. QED BY <1>1, <3>1, <3>2, <3>3
    <2>2. /\ run' \in [Run -> RunRecord]
          /\ \A y \in Run : run'[y].pc = "execute" => run'[y].plan \in Plan
        BY <1>0, <2>1, RunFacts
    <2>3. /\ plan' = plan /\ disk' = disk /\ mem' = mem /\ op' = op /\ enabled' = enabled
          /\ due' = due /\ src' = src /\ pay' = pay /\ bin' = bin /\ crashes' = crashes
          /\ edits' = edits /\ switches' = switches
        BY <1>1 DEF ReadPolicy, Preview, MaintenanceFails, PurgeDisabled, content, bounds
    <2>4. TypeOK'
        BY <1>0, <2>2, <2>3, TypeFacts, TypeNext
    <2>5. QED BY <2>3, <2>4, QuietKeeps
<1>2. CASE MaintenanceExecutes(r)
    <2>1. run[r].plan \in Plan /\ run' = [run EXCEPT ![r].pc = "busy"]
        BY <1>0, <1>2, TypeFacts DEF MaintenanceExecutes
    <2>2. PICK p \in Plan : run[r].plan = p
        BY <2>1
    <2>3. [run[r] EXCEPT !.pc = "busy"] \in RunRecord /\ [run[r] EXCEPT !.pc = "busy"].pc = "busy"
        BY <1>0, TypeFacts DEF RunRecord
    <2>4. /\ run' \in [Run -> RunRecord]
          /\ \A x \in Run : run'[x].pc = "execute" => run'[x].plan \in Plan
        BY <1>0, <2>1, <2>3, TypeFacts
    <2>5. QED BY <1>2, <2>2, <2>4, BeginExecuteKeeps DEF MaintenanceExecutes
<1>3. CASE BeginPurge(r)
    BY <1>3, BeginPurgeKeeps
<1>4. ASSUME NEW p \in Plan, MaintenancePlans(r, p) PROVE IInv'
    <2>1. /\ CreatePlan(p, run[r].items, "Quarantine")
          /\ run' = [run EXCEPT ![r] = [NoRun EXCEPT !.pc = "execute", !.plan = p]]
          /\ disk' = disk /\ mem' = mem /\ op' = op /\ enabled' = enabled
          /\ due' = due /\ src' = src /\ pay' = pay /\ bin' = bin /\ crashes' = crashes
          /\ edits' = edits /\ switches' = switches
        BY <1>4 DEF MaintenancePlans, content, bounds
    <2>2. PICK items \in SUBSET Item : run[r].items = items
        BY <1>0, TypeFacts DEF RunRecord
    <2>3. /\ [NoRun EXCEPT !.pc = "execute", !.plan = p] \in RunRecord
          /\ [NoRun EXCEPT !.pc = "execute", !.plan = p].plan = p
        BY UnplannedFacts DEF RunRecord
    <2>4. /\ run' \in [Run -> RunRecord]
          /\ \A y \in Run : run'[y].pc = "execute" => run'[y].plan \in Plan
        BY <1>0, <2>1, <2>3, TypeFacts
    <2>5. "Quarantine" \in Disposition
        BY DEF Disposition
    <2>6. QED BY <2>1, <2>2, <2>4, <2>5, CreatePlanKeeps
<1>5. QED BY <1>1, <1>2, <1>3, <1>4 DEF Maintenance

LEMMA UserPlansKeeps ==
    ASSUME IInv, NEW p \in Plan, NEW items \in SUBSET Item, NEW d \in Disposition,
           UserPlans(p, items, d)
    PROVE  IInv'
<1>1. TypeOK
    BY DEF IInv
<1>2. QED BY <1>1, TypeFacts, CreatePlanKeeps DEF UserPlans, content, bounds

LEMMA UserExecutesKeeps ==
    ASSUME IInv, NEW p \in Plan, UserExecutes(p)
    PROVE  IInv'
<1>1. TypeOK
    BY DEF IInv
<1>2. None \in Run \cup {None}
    OBVIOUS
<1>3. QED BY <1>1, <1>2, TypeFacts, BeginExecuteKeeps DEF UserExecutes

\* Every open journal is reconciled; what is found is what is recorded.
LEMMA RestartKeeps ==
    ASSUME IInv, NEW r \in Run, Restart(r)
    PROVE  IInv'
<1>0. TypeOK
    BY DEF IInv
<1>1. /\ op' = Idle /\ mem' = NoJournal /\ plan' = plan /\ enabled' = enabled /\ due' = due
      /\ src' = src /\ pay' = pay /\ bin' = bin /\ edits' = edits /\ switches' = switches
      /\ crashes' \in Nat
    BY <1>0, TypeFacts DEF Restart, content
<1>2. /\ run' \in [Run -> RunRecord]
      /\ \A y \in Run : run'[y].pc = "execute" => run'[y].plan \in Plan
    <2>1. run' = [x \in Run |-> IF x = r THEN [NoRun EXCEPT !.pc = "policy"] ELSE NoRun]
        BY DEF Restart
    <2>2. /\ [NoRun EXCEPT !.pc = "policy"] \in RunRecord
          /\ [NoRun EXCEPT !.pc = "policy"].pc = "policy"
        BY UnplannedFacts DEF RunRecord
    <2>3. QED BY <2>1, <2>2, UnplannedFacts
<1>3. ASSUME NEW p \in Plan
      PROVE  /\ disk'[p] \in Journal
             /\ \A i \in Item : disk'[p].item[i] \in {"Restored", "Purged"} =>
                    disk[p].item[i] \in {"Restored", "Purged"}
    <2> DEFINE items == [i \in Item |-> Reconciled(p, i)]
    <2>1. disk[p] \in Journal
        BY <1>0, TypeFacts
    <2>2. CASE ~ disk[p].open
        BY <2>1, <2>2 DEF Restart
    <2>3. CASE disk[p].open
        <3>1. disk'[p] = [disk[p] EXCEPT !.item = items]
            BY <2>3 DEF Restart
        <3>2. ASSUME NEW i \in Item
              PROVE  /\ items[i] \in ItemState
                     /\ items[i] \in {"Restored", "Purged"} => items[i] = disk[p].item[i]
            BY <2>1 DEF Reconciled, Journal, ItemState
        <3>3. items \in [Item -> ItemState]
            BY <3>2
        <3> HIDE DEF items
        <3>4. disk'[p] \in Journal /\ disk'[p].item = items
            BY <2>1, <3>1, <3>3 DEF Journal
        <3>5. QED BY <3>2, <3>4
    <2>4. QED BY <2>2, <2>3
<1>4. disk' \in [Plan -> Journal]
    <2>1. disk' = [p \in Plan |-> disk'[p]]
        BY DEF Restart
    <2>2. QED BY <1>3, <2>1
<1>5. \A p \in Plan : Clean(disk[p], p)'
    BY <1>1, <1>3 DEF IInv, JournalsClean, Clean
<1>6. TypeOK'
    BY <1>0, <1>1, <1>2, <1>4, TypeFacts, TypeNext, IdleFacts, NoJournalFacts
<1>7. QED BY <1>1, <1>5, <1>6, ReleaseKeeps

LEMMA EnvironmentKeeps ==
    ASSUME IInv, Environment
    PROVE  IInv'
<1>0. TypeOK
    BY DEF IInv
<1>1. CASE Abort
    BY <1>1, FinishKeeps
<1>2. CASE DisablePolicy
    <2>1. /\ op' = Idle /\ plan' = plan /\ disk' = disk /\ mem' = mem /\ op' = op
          /\ run' = run /\ due' = due /\ enabled' = FALSE
          /\ src' = src /\ pay' = pay /\ bin' = bin /\ crashes' = crashes /\ edits' = edits
          /\ switches' \in Nat
        BY <1>0, <1>2, TypeFacts DEF DisablePolicy, WriterFree, content
    <2>2. TypeOK'
        BY <1>0, <2>1, TypeFacts, TypeNext
    <2>3. \A p \in Plan : Clean(disk[p], p)'
        BY <2>1 DEF IInv, JournalsClean, Clean
    <2>4. QED BY <2>1, <2>2, <2>3, ReleaseKeeps
<1>3. ASSUME NEW r \in Run, EnablePolicy(r) PROVE IInv'
    <2>1. /\ [NoRun EXCEPT !.pc = "policy"] \in RunRecord
          /\ [NoRun EXCEPT !.pc = "policy"].pc = "policy"
        BY UnplannedFacts DEF RunRecord
    <2>2. /\ run' \in [Run -> RunRecord]
          /\ \A y \in Run : run'[y].pc = "execute" => run'[y].plan \in Plan
        BY <1>0, <1>3, <2>1, TypeFacts DEF EnablePolicy
    <2>3. /\ plan' = plan /\ disk' = disk /\ mem' = mem /\ op' = op
          /\ due' = due /\ enabled' = TRUE
          /\ src' = src /\ pay' = pay /\ bin' = bin /\ crashes' = crashes /\ edits' = edits
          /\ switches' \in Nat
        BY <1>0, <1>3, TypeFacts DEF EnablePolicy, content
    <2>4. TypeOK'
        BY <1>0, <2>2, <2>3, TypeFacts, TypeNext
    <2>5. QED BY <2>3, <2>4, QuietKeeps
<1>4. ASSUME NEW r \in Run, Restart(r) PROVE IInv'
    BY <1>4, RestartKeeps
<1>5. ASSUME NEW p \in Plan, GraceEnds(p) PROVE IInv'
    <2>1. /\ plan' = plan /\ disk' = disk /\ mem' = mem /\ op' = op /\ run' = run
          /\ due' = due \cup {p} /\ enabled' = enabled
          /\ src' = src /\ pay' = pay /\ bin' = bin /\ crashes' = crashes /\ edits' = edits
          /\ switches' = switches
        BY <1>5 DEF GraceEnds, content, bounds
    <2>2. TypeOK'
        BY <1>0, <2>1, TypeFacts, TypeNext
    <2>3. QED BY <2>1, <2>2, QuietKeeps
<1>6. ASSUME NEW i \in Item, OutsideEdit(i) PROVE IInv'
    <2>1. /\ plan' = plan /\ disk' = disk /\ mem' = mem /\ op' = op /\ run' = run
          /\ due' = due /\ enabled' = enabled
          /\ pay' = pay /\ bin' = bin /\ crashes' = crashes /\ switches' = switches
          /\ edits' \in Nat /\ edits' # 0
        BY <1>0, <1>6, TypeFacts DEF OutsideEdit
    <2>2. src' \in [Item -> SrcState]
        BY <1>0, <1>6, TypeFacts DEF OutsideEdit, SrcState
    <2>3. TypeOK'
        BY <1>0, <2>1, <2>2, TypeFacts, TypeNext
    <2>4. QED BY <2>1, <2>3, QuietKeeps
<1>7. QED BY <1>1, <1>2, <1>3, <1>4, <1>5, <1>6 DEF Environment

-----------------------------------------------------------------------------
(* Every step keeps the invariant *)

LEMMA InvInit == Init => IInv
<1> SUFFICES ASSUME Init PROVE IInv
    OBVIOUS
<1>1. /\ op = Idle /\ op.kind = "idle" /\ op.plan \notin Plan /\ op.pc = "next"
      /\ \A p \in Plan, i \in Item :
             disk[p].item[i] = "None" /\ pay[p][i] = "none" /\ i \notin bin[p]
    BY IdleFacts, NoJournalFacts DEF Init
<1>2. /\ run \in [Run -> RunRecord] /\ \A x \in Run : run[x].pc # "execute"
    <2>1. PICK r \in Run : run = [[x \in Run |-> NoRun] EXCEPT ![r].pc = "policy"]
        BY DEF Init
    <2>2. /\ [NoRun EXCEPT !.pc = "policy"] \in RunRecord
          /\ [NoRun EXCEPT !.pc = "policy"].pc = "policy"
        BY UnplannedFacts DEF RunRecord
    <2>3. QED BY <2>1, <2>2, UnplannedFacts
<1>3. TypeOK
    BY <1>1, <1>2, IdleFacts, NoJournalFacts, UnplannedFacts DEF Init, TypeOK
<1>4. PayloadsPlanned /\ JournalsClean
    BY <1>1 DEF PayloadsPlanned, JournalsClean, Clean
<1>5. IntentWritten /\ CopiedWhole /\ PathFree /\ PutBackWhole /\ PurgesWhatIsDue
    BY <1>1 DEF IntentWritten, CopiedWhole, PathFree, PutBackWhole, PurgesWhatIsDue
<1>6. QED BY <1>3, <1>4, <1>5 DEF IInv

LEMMA InvNext == IInv /\ [Next]_vars => IInv'
<1> SUFFICES ASSUME IInv, [Next]_vars PROVE IInv'
    OBVIOUS
<1>1. ASSUME NEW p \in Plan, NEW items \in SUBSET Item, NEW d \in Disposition,
             UserPlans(p, items, d)
      PROVE  IInv'
    BY <1>1, UserPlansKeeps
<1>2. CASE Execution
    <2>1. \/ \E p \in Plan : UserExecutes(p)
          \/ \E i \in Item : ExecuteIntent(i)
          \/ InHand
          \/ RecordItem
          \/ FinishExecute
        BY <1>2 DEF Execution, InHand
    <2>2. ASSUME NEW p \in Plan, UserExecutes(p) PROVE IInv'
        BY <2>2, UserExecutesKeeps
    <2>3. ASSUME NEW i \in Item, ExecuteIntent(i) PROVE IInv'
        BY <2>3, ExecuteIntentKeeps
    <2>4. CASE InHand
        BY <2>4, InHandKeeps
    <2>5. CASE RecordItem
        <3>1. PICK i \in Item : op.item = i
            BY <2>5, TypeFacts DEF IInv, RecordItem
        <3>2. QED BY <2>5, RecordsKeep
    <2>6. CASE FinishExecute
        BY <2>6, FinishKeeps
    <2>7. QED BY <2>1, <2>2, <2>3, <2>4, <2>5, <2>6
<1>3. CASE Undo
    BY <1>3, BeginUndoKeeps, UndoCheckKeeps, RecordsKeep, InHandKeeps, FinishKeeps
    DEF Undo, InHand
<1>4. CASE Purge
    BY <1>4, PurgeJournalKeeps, PurgeTakesKeeps, PurgeRecordKeeps, FinishKeeps DEF Purge
<1>5. ASSUME NEW r \in Run, Maintenance(r) PROVE IInv'
    BY <1>5, MaintenanceKeeps
<1>6. CASE Environment
    BY <1>6, EnvironmentKeeps
<1>7. CASE UNCHANGED vars
    BY <1>7
    DEF vars, content, bounds, IInv, TypeOK, PayloadsPlanned, IntentWritten, JournalsClean, Clean,
        CopiedWhole, PathFree, PutBackWhole, PurgesWhatIsDue
<1>8. QED BY <1>1, <1>2, <1>3, <1>4, <1>5, <1>6, <1>7 DEF Next

LEMMA InvHolds == Spec => []IInv
BY InvInit, InvNext, PTL DEF Spec

-----------------------------------------------------------------------------
(* Theorems *)

\* Plans, journals, the operation in progress, maintenance runs and content have their
\* types in every state of the cleanup of temporary caches (cleanup/execution.rs).
THEOREM TypeCorrect == Spec => []TypeOK
<1>1. IInv => TypeOK
    BY DEF IInv
<1>2. QED BY <1>1, InvHolds, PTL

\* What a journal reports as restored or purged left nothing in the quarantine or the
\* Recycle Bin, whatever failed or was cut off on the way (undo_inner, purge_due).
THEOREM NothingStaysBehind == Spec => []NothingLeftBehind
<1>1. IInv => NothingLeftBehind
    BY DEF IInv, JournalsClean, Clean, NothingLeftBehind
<1>2. QED BY <1>1, InvHolds, PTL

\* While no other program touches the items, the last whole copy of one goes only with
\* the execution of a permanent plan, or with the purge, under an enabled policy, of a
\* payload that is due: no copy between volumes, undo, failure, crash or start-up
\* reconciliation takes it (execute_inner, undo_inner, purge_due, reconcile).
THEOREM DataIsPreserved == Spec => DataPreserved
<1> DEFINE Preserved ==
        \A i \in Item : Whole(i) /\ ~ Whole(i)' =>
            \/ op.kind = "execute" /\ plan[op.plan].disposition = "Permanent"
            \/ /\ op.kind = "purge" /\ enabled
               /\ \E p \in due : pay'[p][i] # pay[p][i] /\ disk[p].item[i] = "Quarantined"
            \/ edits' # 0
<1>1. ASSUME IInv, Next PROVE Preserved
    <2>1. CASE InHand
        BY <1>1, <2>1, InHandHandles, HandlingPreserves
    <2>2. CASE \E i \in Item : PurgePiece(i) \/ PurgeRest(i)
        BY <1>1, <2>2, PurgePreserves
    <2>3. CASE \E i \in Item : OutsideEdit(i)
        <3>1. edits' # 0
            BY <1>1, <2>3, TypeFacts DEF IInv, OutsideEdit
        <3>2. QED BY <3>1
    <2>4. CASE UNCHANGED content
        BY <2>4 DEF content, Whole
    <2>5. InHand \/ UNCHANGED content \/ \E i \in Item : PurgePiece(i) \/ PurgeRest(i) \/ OutsideEdit(i)
        <3>1. ASSUME NEW p \in Plan, NEW items \in SUBSET Item, NEW d \in Disposition,
                     UserPlans(p, items, d)
              PROVE  UNCHANGED content
            BY <3>1 DEF UserPlans
        <3>2. CASE Execution
            BY <3>2
            DEF Execution, InHand, UserExecutes, BeginExecute, ExecuteIntent, RecordItem, FinishExecute
        <3>3. CASE Undo
            BY <3>3 DEF Undo, InHand, BeginUndo, UndoCheck, UndoCollides, FinishUndo
        <3>4. CASE Purge
            BY <3>4 DEF Purge, PurgeJournal, PurgeFails, PurgeRecord, FinishPurge
        <3>5. ASSUME NEW r \in Run, Maintenance(r) PROVE UNCHANGED content
            BY <3>5
            DEF Maintenance, ReadPolicy, Preview, MaintenanceExecutes, BeginExecute,
                MaintenanceFails, MaintenancePlans, BeginPurge, PurgeDisabled
        <3>6. CASE Environment
            BY <3>6 DEF Environment, Abort, DisablePolicy, EnablePolicy, Restart, GraceEnds
        <3>7. QED BY <1>1, <3>1, <3>2, <3>3, <3>4, <3>5, <3>6 DEF Next
    <2>6. QED BY <2>1, <2>2, <2>3, <2>4, <2>5
<1>2. IInv /\ [Next]_vars => [Preserved]_vars
    BY <1>1
<1>3. QED BY <1>2, InvHolds, PTL DEF Spec, DataPreserved
=============================================================================
