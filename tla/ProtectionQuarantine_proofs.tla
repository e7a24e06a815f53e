-------------------- MODULE ProtectionQuarantine_proofs --------------------
(***************************************************************************)
(* Theorems about ProtectionQuarantine for every set of files, entries and *)
(* threads and every bound: type correctness, that no content of a scanned *)
(* file is lost, that what users put at a path stays, and that no entry is *)
(* left hidden.                                                            *)
(***************************************************************************)
EXTENDS ProtectionQuarantine, TLAPS

(* The inductive invariant *)

Quarantining == Holding \cup {"complete"}
Restoring == {"begin", "create", "write", "undo"}
Removing(t, e) == op[t].at = "remove" /\ op[t].entry = e

\* Whoever works works on an entry, and an entry that shows anything has its file.
FilesNamed ==
    /\ \A e \in Entry : entry[e].dir \/ entry[e].payload # "none" \/ entry[e].record # "none"
           => entry[e].file \in File
    /\ \A e \in waiting : entry[e].file \in File
    /\ \A t \in Thread \cup {Start} :
           IF op[t].at = "idle" THEN op[t] = Idle
           ELSE op[t].entry \in Entry /\ FileOf(t) \in File

\* Until the start is over it works alone.
StartAlone ==
    /\ op[Start].at \in {"idle", "settle", "remove"}
    /\ \A t \in Thread : op[t].at # "settle" /\ (op[t].at # "idle" => Up)

\* A file is held by one quarantine at a time.
OneHolder ==
    \A t, u \in Thread :
        op[t].at \in Holding /\ op[u].at \in Holding /\ FileOf(t) = FileOf(u) => t = u

\* Others reach the entry of a quarantine only to delete it for a user.
EntryIsOwn ==
    \A t, u \in Thread :
        op[t].at \in Quarantining /\ t # u /\ op[u].entry = op[t].entry =>
            op[u].at = "remove" /\ FileOf(t) \in discarded

\* What the entry shows of how far the operation of t is.
InStep(t) ==
    LET place == op[t].at
        x == entry[op[t].entry]
    IN  /\ place = "copy" => x.payload = "none"
        /\ place = "publish" => x.payload # "bin"
        /\ place \in {"pending", "delete"} => x.payload = "bin" \/ x.file \in discarded
        /\ place \in {"pending", "delete", "complete"} \cup Restoring => x.payload # "tmp"
        /\ place \in {"copy", "publish", "pending"} => x.record = "none"
        /\ place \in {"delete", "complete"} => x.record \in {"none", "SourcePending"}

EntriesInStep == \A t \in Thread : InStep(t)

\* A copy that is not published has no record.
TemporaryUnrecorded == \A e \in Entry : entry[e].payload = "tmp" => entry[e].record = "none"

\* What a quarantine copied and still holds is the file that was scanned.
SourceWhole ==
    \A t \in Thread : op[t].at \in {"publish", "pending", "delete"} => at[FileOf(t)] = "whole"

\* A restore writes the file it created, and alone, unless a user removed that file.
WritesItsOwn ==
    \A t \in Thread : op[t].at = "write" =>
        /\ at[FileOf(t)] # "whole"
        /\ FileOf(t) \notin discarded =>
               /\ at[FileOf(t)] = "partial"
               /\ \A u \in Thread : op[u].at = "write" /\ FileOf(u) = FileOf(t) => u = t

ChangedGivenUp == \A f \in File : at[f] = "edited" => f \in discarded

\* An unfinished entry without its payload is torn, or given up, or about to go.
HollowKnown ==
    \A e \in Entry : Hollow(e) =>
        \/ entry[e].file \in torn \cup discarded
        \/ \E t \in Thread \cup {Start} : Removing(t, e)

\* An entry has the content of f and nobody is removing that entry.
Kept(f) ==
    \E e \in Entry : /\ entry[e].file = f /\ entry[e].payload = "bin"
                     /\ \A t \in Thread \cup {Start} : ~ Removing(t, e)

ContentKept == \A f \in File \ (discarded \cup torn) : Same(f) \/ Kept(f)

\* Somebody works on a hidden entry or the start still has to look at it.
HiddenTaken ==
    count.faults = 0 =>
        \A e \in Entry : Hidden(e) =>
            e \in waiting \/ \E t \in Thread \cup {Start} : op[t].entry = e

IInv == /\ TypeOK /\ FilesNamed /\ StartAlone /\ OneHolder /\ EntryIsOwn /\ EntriesInStep
        /\ TemporaryUnrecorded /\ SourceWhole /\ WritesItsOwn /\ ChangedGivenUp
        /\ HollowKnown /\ ContentKept /\ HiddenTaken

-----------------------------------------------------------------------------
(* Lemmas about the operators the model is built from *)

EntryRecord == [file : File \cup {None}, dir : BOOLEAN,
                payload : {"none", "tmp", "bin"}, record : EntryState]
OpRecord == [at : At, entry : Entry \cup {None}]
CountRecord == [faults : 0 .. MaxFaults, crashes : 0 .. MaxCrashes, edits : 0 .. MaxEdits]

LEMMA TypeFacts ==
    ASSUME TypeOK
    PROVE  /\ at \in [File -> Content] /\ entry \in [Entry -> EntryRecord]
           /\ op \in [Thread \cup {Start} -> OpRecord] /\ count \in CountRecord
           /\ waiting \subseteq Entry /\ discarded \subseteq File /\ torn \subseteq File
BY DEF TypeOK, EntryRecord, OpRecord, CountRecord

LEMMA IdleFacts ==
    /\ Idle \in OpRecord /\ Idle.at = "idle" /\ Idle.entry = None
    /\ NoEntry \in EntryRecord /\ NoEntry.file = None /\ NoEntry.dir = FALSE
    /\ NoEntry.payload = "none" /\ NoEntry.record = "none"
BY DEF Idle, OpRecord, At, NoEntry, EntryRecord, EntryState

\* An operation goes on to another place and the others stay where they are.
LEMMA GoFacts ==
    ASSUME op \in [Thread \cup {Start} -> OpRecord], NEW t \in Thread \cup {Start},
           NEW place \in At, Go(t, place)
    PROVE  /\ op' \in [Thread \cup {Start} -> OpRecord]
           /\ op'[t].at = place /\ op'[t].entry = op[t].entry
           /\ \A u \in Thread \cup {Start} : u # t => op'[u] = op[u]
BY DEF Go, OpRecord

LEMMA EndFacts ==
    ASSUME op \in [Thread \cup {Start} -> OpRecord], NEW t \in Thread \cup {Start}, End(t)
    PROVE  /\ op' \in [Thread \cup {Start} -> OpRecord] /\ op'[t] = Idle
           /\ \A u \in Thread \cup {Start} : u # t => op'[u] = op[u]
BY IdleFacts DEF End

\* One field of one entry is set.
LEMMA PayloadFacts ==
    ASSUME entry \in [Entry -> EntryRecord], NEW e \in Entry, NEW v \in {"none", "tmp", "bin"},
           SetEntry(e, "payload", v)
    PROVE  /\ entry' \in [Entry -> EntryRecord]
           /\ \A x \in Entry : x # e => entry'[x] = entry[x]
           /\ entry'[e].payload = v /\ entry'[e].file = entry[e].file
           /\ entry'[e].dir = entry[e].dir /\ entry'[e].record = entry[e].record
BY DEF SetEntry, EntryRecord

LEMMA RecordFacts ==
    ASSUME entry \in [Entry -> EntryRecord], NEW e \in Entry, NEW s \in EntryState,
           SetEntry(e, "record", s)
    PROVE  /\ entry' \in [Entry -> EntryRecord]
           /\ \A x \in Entry : x # e => entry'[x] = entry[x]
           /\ entry'[e].record = s /\ entry'[e].file = entry[e].file
           /\ entry'[e].dir = entry[e].dir /\ entry'[e].payload = entry[e].payload
BY DEF SetEntry, EntryRecord

LEMMA DirectoryFacts ==
    ASSUME entry \in [Entry -> EntryRecord], NEW e \in Entry, SetEntry(e, "dir", FALSE)
    PROVE  /\ entry' \in [Entry -> EntryRecord]
           /\ \A x \in Entry : x # e => entry'[x] = entry[x]
           /\ entry'[e].dir = FALSE /\ entry'[e].file = entry[e].file
           /\ entry'[e].record = entry[e].record /\ entry'[e].payload = entry[e].payload
BY DEF SetEntry, EntryRecord

\* A fault is counted, for good.
LEMMA FaultFacts ==
    ASSUME count \in CountRecord, Fault
    PROVE  count' \in CountRecord /\ count'.faults # 0
BY QuarantineAssumption DEF Fault, CountRecord

-----------------------------------------------------------------------------
(* What a step of a thread that works may change *)

\* Only its own place, its own entry and the file of that entry.
ItsOwn(t, own, file) ==
    /\ op[t].at # "idle" /\ op[t].entry = own /\ entry[own].file = file
    /\ waiting' = waiting /\ discarded' = discarded /\ torn \subseteq torn'
    /\ \A u \in Thread \cup {Start} : u # t => op'[u] = op[u]
    /\ op'[t] = Idle \/ (op'[t].at # "idle" /\ op'[t].entry = own)
    /\ \A x \in Entry : x # own => entry'[x] = entry[x]
    /\ entry'[own].file = file
    /\ \A g \in File : g # file => at'[g] = at[g]

\* Where it may go from where it is.
GoesOn(t, own, file) ==
    /\ op'[t].at \in Holding => op[t].at \in Holding
    /\ op'[t].at \in Quarantining => op[t].at \in Quarantining
    /\ op[t].at = "remove" => op'[t] \in {op[t], Idle}
    /\ IF t = Start THEN op'[t].at \in {"idle", "settle", "remove"} ELSE op'[t].at # "settle"

\* Only a quarantine brings a payload, only a removal takes one away.
TouchesEntry(t, own, file) ==
    /\ op[t].at # "remove" /\ entry[own].payload = "bin" => entry'[own].payload = "bin"
    /\ op[t].at \notin Quarantining => entry'[own].payload \in {entry[own].payload, "none"}
    /\ op[t].at = "remove" => entry'[own].record \in {entry[own].record, "none"}
    /\ entry'[own].payload = "tmp" => entry'[own].record = "none"
    /\ t \in Thread => InStep(t)'

\* Only a quarantine or the start removes a file that was scanned, and only its writer
\* changes a file that is being written.
TouchesFile(t, own, file) ==
    /\ at'[file] # at[file] => /\ at'[file] \notin {"whole", "edited"}
                               /\ at[file] # "whole" \/ op[t].at = "delete" \/ t = Start
                               /\ at[file] = "partial" => op[t].at = "write"
    /\ op'[t].at \in {"publish", "pending", "delete"} => at'[file] = "whole"
    /\ op'[t].at = "write" => at[file] = "gone" /\ at'[file] = "partial"

\* What it removes from the path is kept in an entry, and what it removes from an
\* entry is at the path.
KeepsContent(t, own, file) ==
    /\ file \notin discarded \cup torn' /\ Same(file) => Same(file)' \/ Kept(file)'
    /\ /\ file \notin discarded /\ entry[own].payload = "bin"
       /\ op[t].at # "remove" /\ op'[t].at = "remove"
       => Same(file)'

LeavesNothingHollow(t, own, file) ==
    /\ Hollow(own)' => Hollow(own) \/ file \in discarded \/ op'[t].at = "remove"
    /\ op[t].at = "remove" => op'[t] = op[t] \/ ~ Hollow(own)' \/ file \in torn'

LeavesNothingHidden(t, own, file) ==
    count'.faults = 0 =>
        /\ count.faults = 0
        /\ Hidden(own)' => \/ op'[t].at # "idle"
                           \/ \E u \in Thread : u # t /\ op[u].entry = own

Works(t, own, file) ==
    /\ TypeOK' /\ ItsOwn(t, own, file) /\ GoesOn(t, own, file) /\ TouchesEntry(t, own, file)
    /\ TouchesFile(t, own, file) /\ KeepsContent(t, own, file)
    /\ LeavesNothingHollow(t, own, file) /\ LeavesNothingHidden(t, own, file)

\* The thread that works has an entry, and the entry a file.
LEMMA WorkersHave ==
    ASSUME TypeOK, FilesNamed, NEW t \in Thread \cup {Start}, op[t].at # "idle"
    PROVE  op[t].entry \in Entry /\ FileOf(t) \in File /\ op[t].entry # None
BY QuarantineAssumption DEF FilesNamed

\* No entry gets another file, and who works on goes on with its own.
LEMMA FilesStay ==
    ASSUME IInv, NEW t \in Thread \cup {Start}, NEW own \in Entry, NEW file \in File,
           ItsOwn(t, own, file)
    PROVE  /\ FileOf(t) = file
           /\ \A x \in Entry : entry'[x].file = entry[x].file
           /\ \A u \in Thread \cup {Start} : op'[u].at # "idle" =>
                  /\ op[u].at # "idle" /\ op'[u].entry = op[u].entry
                  /\ FileOf(u)' = FileOf(u) /\ op[u].entry \in Entry /\ FileOf(u) \in File
<1>0. TypeOK /\ FilesNamed
    BY DEF IInv
<1>1. FileOf(t) = file
    BY DEF ItsOwn, FileOf
<1>2. \A x \in Entry : entry'[x].file = entry[x].file
    BY <1>1 DEF ItsOwn
<1>3. ASSUME NEW u \in Thread \cup {Start}, op'[u].at # "idle"
      PROVE  op[u].at # "idle" /\ op'[u].entry = op[u].entry
    BY <1>3, IdleFacts DEF ItsOwn
<1>4. ASSUME NEW u \in Thread \cup {Start}, op'[u].at # "idle"
      PROVE  /\ op[u].entry \in Entry /\ FileOf(u) \in File
             /\ FileOf(u)' = FileOf(u)
    <2>1. op[u].entry \in Entry /\ FileOf(u) \in File
        BY <1>0, <1>3, <1>4, WorkersHave
    <2>2. FileOf(u)' = entry'[op'[u].entry].file
        BY DEF FileOf
    <2>3. QED BY <1>2, <1>3, <1>4, <2>1, <2>2 DEF FileOf
<1>5. QED BY <1>1, <1>2, <1>3, <1>4

LEMMA KeepsFilesNamed ==
    ASSUME IInv, NEW t \in Thread \cup {Start}, NEW own \in Entry, NEW file \in File,
           Works(t, own, file)
    PROVE  FilesNamed'
<1>0. TypeOK /\ FilesNamed /\ ItsOwn(t, own, file)
    BY DEF IInv, Works
<1>1. ASSUME NEW e \in Entry,
             entry'[e].dir \/ entry'[e].payload # "none" \/ entry'[e].record # "none"
      PROVE  entry'[e].file \in File
    <2>1. CASE e = own
        BY <1>0, <2>1, FilesStay, WorkersHave DEF ItsOwn, FileOf
    <2>2. CASE e # own
        BY <1>0, <1>1, <2>2 DEF ItsOwn, FilesNamed
    <2>3. QED BY <2>1, <2>2
<1>2. \A e \in waiting' : entry'[e].file \in File
    <2>1. waiting' = waiting /\ waiting \subseteq Entry
        BY <1>0, TypeFacts DEF ItsOwn
    <2>2. QED BY <1>0, <2>1, FilesStay DEF FilesNamed
<1>3. ASSUME NEW u \in Thread \cup {Start}
      PROVE  IF op'[u].at = "idle" THEN op'[u] = Idle
             ELSE op'[u].entry \in Entry /\ FileOf(u)' \in File
    <2>1. CASE op'[u].at = "idle"
        BY <1>0, <2>1 DEF ItsOwn, FilesNamed
    <2>2. CASE op'[u].at # "idle"
        BY <1>0, <2>2, FilesStay
    <2>3. QED BY <2>1, <2>2
<1>4. QED BY <1>1, <1>2, <1>3 DEF FilesNamed

LEMMA KeepsStartAlone ==
    ASSUME IInv, NEW t \in Thread \cup {Start}, NEW own \in Entry, NEW file \in File,
           Works(t, own, file)
    PROVE  StartAlone'
<1>0. StartAlone /\ ItsOwn(t, own, file) /\ GoesOn(t, own, file) /\ FilesNamed
    BY DEF IInv, Works
<1>1. op'[Start].at \in {"idle", "settle", "remove"}
    BY <1>0 DEF StartAlone, ItsOwn, GoesOn
<1>2. ASSUME NEW u \in Thread, op'[u].at # "idle" PROVE Up' /\ op'[u].at # "settle"
    <2>1. u # Start
        BY QuarantineAssumption
    <2>2. op[u].at # "idle" /\ Up
        BY <1>0, <1>2, FilesStay DEF StartAlone
    <2>3. t # Start
        BY <1>0, <2>2, IdleFacts DEF Up, ItsOwn
    <2>4. Up'
        BY <1>0, <2>2, <2>3 DEF Up, ItsOwn
    <2>5. op'[u].at # "settle"
        BY <1>0, <2>1 DEF StartAlone, ItsOwn, GoesOn
    <2>6. QED BY <2>4, <2>5
<1>3. QED BY <1>1, <1>2 DEF StartAlone

LEMMA KeepsOneHolder ==
    ASSUME IInv, NEW t \in Thread \cup {Start}, NEW own \in Entry, NEW file \in File,
           Works(t, own, file)
    PROVE  OneHolder'
<1>0. OneHolder /\ ItsOwn(t, own, file) /\ GoesOn(t, own, file)
    BY DEF IInv, Works
<1>1. ASSUME NEW u \in Thread, op'[u].at \in Holding
      PROVE  op[u].at \in Holding /\ FileOf(u)' = FileOf(u)
    <2>1. op[u].at \in Holding
        BY <1>0, <1>1 DEF ItsOwn, GoesOn
    <2>2. op'[u].at # "idle"
        BY <1>1 DEF Holding
    <2>3. QED BY <1>0, <2>1, <2>2, FilesStay
<1>2. QED BY <1>0, <1>1 DEF OneHolder

LEMMA KeepsEntryIsOwn ==
    ASSUME IInv, NEW t \in Thread \cup {Start}, NEW own \in Entry, NEW file \in File,
           Works(t, own, file)
    PROVE  EntryIsOwn'
<1>0. EntryIsOwn /\ ItsOwn(t, own, file) /\ GoesOn(t, own, file) /\ FilesNamed /\ TypeOK
    BY DEF IInv, Works
<1> SUFFICES ASSUME NEW v \in Thread, NEW u \in Thread, op'[v].at \in Quarantining, v # u,
                    op'[u].entry = op'[v].entry
             PROVE  op'[u].at = "remove" /\ FileOf(v)' \in discarded'
    BY DEF EntryIsOwn
<1>1. op'[v].at # "idle" /\ op[v].at \in Quarantining
    BY <1>0 DEF ItsOwn, GoesOn, Quarantining, Holding
<1>2. /\ op[v].entry = op'[v].entry /\ FileOf(v)' = FileOf(v) /\ op[v].entry # None
    BY <1>0, <1>1, FilesStay, QuarantineAssumption
<1>3. op'[u].at # "idle"
    BY <1>2, IdleFacts, KeepsFilesNamed DEF FilesNamed
<1>4. op[u].entry = op'[u].entry
    BY <1>0, <1>3, FilesStay
<1>5. op[u].at = "remove" /\ FileOf(v) \in discarded
    BY <1>0, <1>1, <1>2, <1>4 DEF EntryIsOwn
<1>6. op'[u].at = "remove"
    BY <1>0, <1>3, <1>5, IdleFacts DEF ItsOwn, GoesOn
<1>7. QED BY <1>0, <1>2, <1>5, <1>6 DEF ItsOwn

LEMMA KeepsEntriesInStep ==
    ASSUME IInv, NEW t \in Thread \cup {Start}, NEW own \in Entry, NEW file \in File,
           Works(t, own, file)
    PROVE  EntriesInStep'
<1>0. /\ EntriesInStep /\ EntryIsOwn /\ StartAlone /\ ItsOwn(t, own, file) /\ TouchesEntry(t, own, file)
      /\ FilesNamed /\ TypeOK
    BY DEF IInv, Works
<1>1. ASSUME NEW u \in Thread, u # t PROVE InStep(u)'
    <2>1. op'[u] = op[u] /\ InStep(u) /\ discarded' = discarded
        BY <1>0, <1>1 DEF ItsOwn, EntriesInStep
    <2>2. CASE op[u].at = "idle"
        BY <2>1, <2>2 DEF InStep, Restoring
    <2>3. CASE op[u].at # "idle" /\ op[u].entry # own
        <3>1. op[u].entry \in Entry
            BY <1>0, <2>3, WorkersHave
        <3>2. entry'[op'[u].entry] = entry[op[u].entry]
            BY <1>0, <2>1, <2>3, <3>1 DEF ItsOwn
        <3>3. QED BY <2>1, <3>2 DEF InStep
    <2>4. CASE op[u].at # "idle" /\ op[u].entry = own
        <3>1. t \in Thread /\ t # Start
            BY <1>0, <2>4, IdleFacts, QuarantineAssumption DEF StartAlone, Up, ItsOwn
        <3> DEFINE x == entry[op[u].entry]
                   later == entry'[op[u].entry]
        <3>2. later.file = x.file
            BY <1>0, <2>4 DEF ItsOwn
        <3>3. CASE op[u].at \in Quarantining
            <4>1. op[t].at = "remove" /\ x.file \in discarded
                BY <1>0, <1>1, <2>4, <3>1, <3>3 DEF EntryIsOwn, FileOf, ItsOwn
            <4>2. later.payload \in {x.payload, "none"} /\ later.record \in {x.record, "none"}
                BY <1>0, <2>4, <4>1 DEF TouchesEntry, Quarantining, Holding
            <4>3. QED BY <2>1, <3>2, <3>3, <4>1, <4>2 DEF InStep, Quarantining, Holding
        <3>4. CASE op[u].at \notin Quarantining
            <4>1. op[u].at \in Restoring => op[t].at \notin Quarantining
                BY <1>0, <1>1, <2>4, <3>1 DEF EntryIsOwn, Restoring, ItsOwn
            <4>2. op[u].at \in Restoring => later.payload \in {x.payload, "none"}
                BY <1>0, <2>4, <4>1 DEF TouchesEntry
            <4>3. QED BY <2>1, <3>4, <4>2 DEF InStep, Quarantining, Holding
        <3>5. QED BY <3>3, <3>4
    <2>5. QED BY <2>2, <2>3, <2>4
<1>2. QED BY <1>0, <1>1 DEF EntriesInStep, TouchesEntry

LEMMA KeepsTemporaryUnrecorded ==
    ASSUME IInv, NEW t \in Thread \cup {Start}, NEW own \in Entry, NEW file \in File,
           Works(t, own, file)
    PROVE  TemporaryUnrecorded'
BY DEF IInv, Works, TemporaryUnrecorded, ItsOwn, TouchesEntry

LEMMA KeepsSourceWhole ==
    ASSUME IInv, NEW t \in Thread \cup {Start}, NEW own \in Entry, NEW file \in File,
           Works(t, own, file)
    PROVE  SourceWhole'
<1>0. /\ SourceWhole /\ OneHolder /\ StartAlone /\ ItsOwn(t, own, file) /\ TouchesFile(t, own, file)
      /\ FilesNamed /\ TypeOK
    BY DEF IInv, Works
<1> SUFFICES ASSUME NEW u \in Thread, op'[u].at \in {"publish", "pending", "delete"}
             PROVE  at'[FileOf(u)'] = "whole"
    BY DEF SourceWhole
<1>1. op'[u].at # "idle" /\ FileOf(u)' = FileOf(u) /\ FileOf(u) \in File
    BY <1>0, FilesStay
<1>f. FileOf(t) = file
    BY <1>0, FilesStay
<1>2. CASE u = t
    BY <1>0, <1>1, <1>2, <1>f DEF TouchesFile
<1>3. CASE u # t
    <2>1. op[u] = op'[u] /\ at[FileOf(u)] = "whole"
        BY <1>0, <1>3 DEF ItsOwn, SourceWhole
    <2>2. t \in Thread /\ t # Start
        BY <1>0, <1>1, <2>1, IdleFacts, QuarantineAssumption DEF StartAlone, Up, ItsOwn
    <2>3. FileOf(u) = file => op[t].at # "delete"
        BY <1>0, <1>3, <1>f, <2>1, <2>2 DEF OneHolder, Holding
    <2>4. at'[FileOf(u)] = at[FileOf(u)]
        BY <1>0, <1>1, <2>1, <2>2, <2>3 DEF ItsOwn, TouchesFile
    <2>5. QED BY <1>1, <2>1, <2>4
<1>4. QED BY <1>2, <1>3

LEMMA KeepsWritesItsOwn ==
    ASSUME IInv, NEW t \in Thread \cup {Start}, NEW own \in Entry, NEW file \in File,
           Works(t, own, file)
    PROVE  WritesItsOwn'
<1>0. /\ WritesItsOwn /\ StartAlone /\ ItsOwn(t, own, file) /\ TouchesFile(t, own, file)
      /\ FilesNamed /\ TypeOK /\ discarded' = discarded
    BY DEF IInv, Works, ItsOwn
\* A file that a thread begins to write was gone, so nobody else's writing of it stands.
<1>1. ASSUME NEW u \in Thread, op'[u].at = "write", u # t
      PROVE  /\ op[u].at = "write" /\ FileOf(u)' = FileOf(u)
             /\ at[FileOf(u)] # "whole" /\ at'[FileOf(u)] # "whole"
             /\ FileOf(u) \notin discarded => at'[FileOf(u)] = "partial"
    <2>1. op[u].at = "write" /\ FileOf(u)' = FileOf(u) /\ FileOf(u) \in File
        BY <1>0, <1>1, FilesStay DEF ItsOwn
    <2>2. /\ at[FileOf(u)] # "whole"
          /\ FileOf(u) \notin discarded =>
                 at[FileOf(u)] = "partial" /\ (op[t].at = "write" => file # FileOf(u))
        <3>1. t = Start => op[t].at # "write"
            BY <1>0 DEF StartAlone
        <3>2. FileOf(t) = file
            BY <1>0, FilesStay
        <3>3. QED BY <1>0, <1>1, <2>1, <3>1, <3>2 DEF WritesItsOwn
    <2>3. at'[FileOf(u)] # at[FileOf(u)] => FileOf(u) = file
        BY <1>0, <2>1 DEF ItsOwn
    <2>4. QED BY <1>0, <2>1, <2>2, <2>3 DEF TouchesFile
<1>2. ASSUME op'[t].at = "write", t \in Thread
      PROVE  /\ FileOf(t)' = file /\ at[file] = "gone" /\ at'[file] = "partial"
    BY <1>0, <1>2, FilesStay DEF TouchesFile
<1> SUFFICES ASSUME NEW u \in Thread, op'[u].at = "write"
             PROVE  /\ at'[FileOf(u)'] # "whole"
                    /\ FileOf(u)' \notin discarded =>
                           /\ at'[FileOf(u)'] = "partial"
                           /\ \A v \in Thread :
                                  op'[v].at = "write" /\ FileOf(v)' = FileOf(u)' => v = u
    BY <1>0 DEF WritesItsOwn
<1>3. /\ at'[FileOf(u)'] # "whole"
      /\ FileOf(u)' \notin discarded => at'[FileOf(u)'] = "partial"
    BY <1>1, <1>2
<1>4. ASSUME FileOf(u)' \notin discarded, NEW v \in Thread, op'[v].at = "write",
             FileOf(v)' = FileOf(u)'
      PROVE  v = u
    <2>1. CASE u # t /\ v # t
        <3>1. op[u].at = "write" /\ op[v].at = "write" /\ FileOf(u) \notin discarded
              /\ FileOf(v) = FileOf(u)
            BY <1>1, <1>4, <2>1
        <3>2. QED BY <1>0, <3>1 DEF WritesItsOwn
    <2>2. ASSUME NEW w \in Thread, w # t, op'[w].at = "write", op'[t].at = "write",
                 t \in Thread, FileOf(w)' = FileOf(t)', FileOf(w)' \notin discarded
          PROVE  FALSE
        <3>1. op[w].at = "write" /\ FileOf(w) = file /\ FileOf(w) \notin discarded
            BY <1>1, <1>2, <2>2
        <3>2. at[FileOf(w)] = "partial"
            BY <1>0, <3>1 DEF WritesItsOwn
        <3>3. QED BY <1>2, <2>2, <3>1, <3>2
    <2>3. QED BY <1>4, <2>1, <2>2
<1>5. QED BY <1>3, <1>4

LEMMA KeepsChangedGivenUp ==
    ASSUME IInv, NEW t \in Thread \cup {Start}, NEW own \in Entry, NEW file \in File,
           Works(t, own, file)
    PROVE  ChangedGivenUp'
<1>0. ChangedGivenUp /\ ItsOwn(t, own, file) /\ TouchesFile(t, own, file)
    BY DEF IInv, Works
<1>1. \A f \in File : at'[f] = "edited" => at[f] = "edited"
    BY <1>0 DEF ItsOwn, TouchesFile
<1>2. QED BY <1>0, <1>1 DEF ChangedGivenUp, ItsOwn

LEMMA KeepsHollowKnown ==
    ASSUME IInv, NEW t \in Thread \cup {Start}, NEW own \in Entry, NEW file \in File,
           Works(t, own, file)
    PROVE  HollowKnown'
<1>0. /\ HollowKnown /\ ItsOwn(t, own, file) /\ GoesOn(t, own, file) /\ LeavesNothingHollow(t, own, file)
      /\ FilesNamed /\ TypeOK
    BY DEF IInv, Works
<1> SUFFICES ASSUME NEW e \in Entry, Hollow(e)',
                    \A u \in Thread \cup {Start} : ~ Removing(u, e)'
             PROVE  entry'[e].file \in torn' \cup discarded'
    BY DEF HollowKnown
<1>1. entry'[e].file = entry[e].file /\ torn \subseteq torn' /\ discarded' = discarded
    BY <1>0, FilesStay DEF ItsOwn
<1>2. \A u \in Thread \cup {Start} : u # t => ~ Removing(u, e)
    BY <1>0 DEF Removing, ItsOwn
<1>3. CASE e # own
    <2>1. Hollow(e) /\ ~ Removing(t, e)
        BY <1>0, <1>3 DEF Hollow, Removing, ItsOwn
    <2>2. QED BY <1>0, <1>1, <1>2, <2>1 DEF HollowKnown
<1>4. CASE e = own
    <2>1. op'[t].at # "remove"
        BY <1>0, <1>4, IdleFacts DEF Removing, ItsOwn
    <2>2. CASE op[t].at = "remove"
        BY <1>0, <1>1, <1>4, <2>1, <2>2 DEF LeavesNothingHollow, ItsOwn
    <2>3. CASE op[t].at # "remove"
        <3>1. Hollow(e) \/ file \in discarded
            BY <1>0, <1>4, <2>1 DEF LeavesNothingHollow
        <3>2. QED BY <1>0, <1>1, <1>2, <1>4, <2>3, <3>1 DEF HollowKnown, Removing, ItsOwn
    <2>4. QED BY <2>2, <2>3
<1>5. QED BY <1>3, <1>4

LEMMA KeepsContentKept ==
    ASSUME IInv, NEW t \in Thread \cup {Start}, NEW own \in Entry, NEW file \in File,
           Works(t, own, file)
    PROVE  ContentKept'
<1>0. /\ ContentKept /\ ItsOwn(t, own, file) /\ GoesOn(t, own, file) /\ TouchesEntry(t, own, file) /\ KeepsContent(t, own, file)
      /\ FilesNamed /\ TypeOK
    BY DEF IInv, Works
<1> SUFFICES ASSUME NEW f \in File, f \notin discarded' \cup torn' PROVE Same(f)' \/ Kept(f)'
    BY DEF ContentKept
<1>1. f \notin discarded \cup torn
    BY <1>0 DEF ItsOwn
<1>2. CASE Same(f)
    <2>1. CASE f = file
        BY <1>0, <1>1, <1>2, <2>1 DEF KeepsContent
    <2>2. CASE f # file
        BY <1>0, <1>2, <2>2 DEF ItsOwn, Same
    <2>3. QED BY <2>1, <2>2
<1>3. CASE Kept(f)
    <2>1. PICK e \in Entry : /\ entry[e].file = f /\ entry[e].payload = "bin"
                             /\ \A u \in Thread \cup {Start} : ~ Removing(u, e)
        BY <1>3 DEF Kept
    <2>2. entry'[e].file = f
        BY <1>0, <2>1, FilesStay
    <2>3. \A u \in Thread \cup {Start} : u # t => ~ Removing(u, e)'
        BY <1>0, <2>1 DEF Removing, ItsOwn
    <2>4. CASE e # own
        <3>1. entry'[e].payload = "bin" /\ ~ Removing(t, e)'
            BY <1>0, <2>1, <2>4, IdleFacts DEF Removing, ItsOwn
        <3>2. QED BY <2>2, <2>3, <3>1 DEF Kept
    <2>5. CASE e = own
        <3>1. op[t].at # "remove" /\ f = file
            BY <1>0, <2>1, <2>5 DEF Removing, ItsOwn
        <3>2. entry'[e].payload = "bin"
            BY <1>0, <2>1, <2>5, <3>1 DEF TouchesEntry
        <3>3. CASE op'[t].at = "remove"
            BY <1>0, <1>1, <2>1, <2>5, <3>1, <3>3 DEF KeepsContent
        <3>4. CASE op'[t].at # "remove"
            <4>1. ~ Removing(t, e)'
                BY <3>4 DEF Removing
            <4>2. QED BY <2>2, <2>3, <3>2, <4>1 DEF Kept
        <3>5. QED BY <3>3, <3>4
    <2>6. QED BY <2>4, <2>5
<1>4. QED BY <1>0, <1>1, <1>2, <1>3 DEF ContentKept

LEMMA KeepsHiddenTaken ==
    ASSUME IInv, NEW t \in Thread \cup {Start}, NEW own \in Entry, NEW file \in File,
           Works(t, own, file)
    PROVE  HiddenTaken'
<1>0. HiddenTaken /\ ItsOwn(t, own, file) /\ LeavesNothingHidden(t, own, file) /\ FilesNamed /\ TypeOK
    BY DEF IInv, Works
<1> SUFFICES ASSUME count'.faults = 0, NEW e \in Entry, Hidden(e)', e \notin waiting'
             PROVE  \E u \in Thread \cup {Start} : op'[u].entry = e
    BY DEF HiddenTaken
<1>1. count.faults = 0 /\ e \notin waiting
    BY <1>0 DEF LeavesNothingHidden, ItsOwn
<1>2. CASE e = own
    <2>1. CASE op'[t].at # "idle"
        BY <1>0, <1>2, <2>1, IdleFacts DEF ItsOwn
    <2>2. CASE \E u \in Thread : u # t /\ op[u].entry = e
        BY <1>0, <2>2 DEF ItsOwn
    <2>3. QED BY <1>0, <1>2, <2>1, <2>2 DEF LeavesNothingHidden
<1>3. CASE e # own
    <2>1. Hidden(e)
        BY <1>0, <1>3 DEF Hidden, ItsOwn
    <2>2. PICK u \in Thread \cup {Start} : op[u].entry = e
        BY <1>0, <1>1, <2>1 DEF HiddenTaken
    <2>3. op'[u].entry = e
        BY <1>0, <1>3, <2>2 DEF ItsOwn
    <2>4. QED BY <2>3
<1>4. QED BY <1>2, <1>3

\* A step of a thread that works keeps the invariant.
LEMMA WorkKeeps ==
    ASSUME IInv, NEW t \in Thread \cup {Start}, NEW own \in Entry, NEW file \in File,
           Works(t, own, file)
    PROVE  IInv'
BY KeepsFilesNamed, KeepsStartAlone, KeepsOneHolder, KeepsEntryIsOwn, KeepsEntriesInStep,
   KeepsTemporaryUnrecorded, KeepsSourceWhole, KeepsWritesItsOwn, KeepsChangedGivenUp,
   KeepsHollowKnown, KeepsContentKept, KeepsHiddenTaken DEF IInv, Works

-----------------------------------------------------------------------------
(* The steps of a quarantine *)

LEMMA TypeNext ==
    ASSUME at' \in [File -> Content], entry' \in [Entry -> EntryRecord],
           op' \in [Thread \cup {Start} -> OpRecord], count' \in CountRecord,
           waiting' \subseteq Entry, discarded' \subseteq File, torn' \subseteq File
    PROVE  TypeOK'
BY DEF TypeOK, EntryRecord, OpRecord, CountRecord

\* What is known of a thread that works.
LEMMA WorkingFacts ==
    ASSUME IInv, NEW t \in Thread, NEW own \in Entry, NEW file \in File,
           op[t].entry = own, entry[own].file = file
    PROVE  /\ at \in [File -> Content] /\ entry \in [Entry -> EntryRecord]
           /\ op \in [Thread \cup {Start} -> OpRecord] /\ count \in CountRecord
           /\ waiting \subseteq Entry /\ discarded \subseteq File /\ torn \subseteq File
           /\ t \in Thread \cup {Start} /\ t # Start /\ FileOf(t) = file /\ InStep(t)
           /\ entry[own].payload = "tmp" => entry[own].record = "none"
           /\ op[t].at \in {"publish", "pending", "delete"} => at[file] = "whole"
BY TypeFacts, QuarantineAssumption
DEF IInv, FileOf, EntriesInStep, TemporaryUnrecorded, SourceWhole

LEMMA CopySourceWorks ==
    ASSUME IInv, NEW t \in Thread, NEW own \in Entry, NEW file \in File,
           op[t].entry = own, entry[own].file = file, CopySource(t)
    PROVE  Works(t, own, file)
<1>0. /\ at \in [File -> Content] /\ entry \in [Entry -> EntryRecord]
      /\ op \in [Thread \cup {Start} -> OpRecord] /\ count \in CountRecord
      /\ waiting \subseteq Entry /\ discarded \subseteq File /\ torn \subseteq File
      /\ t \in Thread \cup {Start} /\ t # Start /\ FileOf(t) = file /\ InStep(t)
    BY WorkingFacts
<1>1. /\ op[t].at = "copy" /\ at[file] = "whole"
      /\ at' = at /\ count' = count /\ waiting' = waiting /\ discarded' = discarded /\ torn' = torn
    BY <1>0 DEF CopySource, Unchanged
<1>2. /\ entry' \in [Entry -> EntryRecord]
      /\ \A x \in Entry : x # own => entry'[x] = entry[x]
      /\ entry'[own].payload = "tmp" /\ entry'[own].file = entry[own].file
      /\ entry'[own].dir = entry[own].dir /\ entry'[own].record = entry[own].record
    BY <1>0, PayloadFacts DEF CopySource
<1>3. /\ op' \in [Thread \cup {Start} -> OpRecord]
      /\ op'[t].at = "publish" /\ op'[t].entry = own
      /\ \A u \in Thread \cup {Start} : u # t => op'[u] = op[u]
    BY <1>0, GoFacts DEF CopySource, At
<1>4. entry[own].payload = "none" /\ entry[own].record = "none"
    BY <1>0, <1>1 DEF InStep
<1>5. TypeOK'
    BY <1>0, <1>1, <1>2, <1>3, TypeNext
<1>6. ItsOwn(t, own, file)
    BY <1>1, <1>2, <1>3 DEF ItsOwn
<1>7. GoesOn(t, own, file)
    BY <1>0, <1>1, <1>3 DEF GoesOn, Quarantining, Holding
<1>8. TouchesEntry(t, own, file) /\ TouchesFile(t, own, file) /\ KeepsContent(t, own, file)
      /\ LeavesNothingHollow(t, own, file) /\ LeavesNothingHidden(t, own, file)
    BY <1>1, <1>2, <1>3, <1>4
    DEF TouchesEntry, InStep, TouchesFile, KeepsContent, Same, LeavesNothingHollow, Hollow,
        LeavesNothingHidden, Restoring, Quarantining, Holding
<1>9. QED BY <1>5, <1>6, <1>7, <1>8 DEF Works

\* A write that fails without a fault fails because the directory is gone.
LEMMA WriteFailsFacts ==
    ASSUME count \in CountRecord, NEW t, WriteFails(t)
    PROVE  /\ count' \in CountRecord
           /\ count'.faults = 0 => count.faults = 0 /\ ~ entry[op[t].entry].dir
BY FaultFacts, QuarantineAssumption DEF WriteFails, Fault, CountRecord

\* A quarantine is given up: its entry is removed and the source, still held, stays.
LEMMA GivesUpWorks ==
    ASSUME IInv, NEW t \in Thread, NEW own \in Entry, NEW file \in File,
           op[t].entry = own, entry[own].file = file,
           op[t].at \in {"copy", "publish", "pending", "delete"}, Go(t, "remove"),
           at' = at, entry' = entry, waiting' = waiting, discarded' = discarded, torn' = torn,
           count' \in CountRecord, count'.faults = 0 => count.faults = 0
    PROVE  Works(t, own, file)
<1>0. /\ at \in [File -> Content] /\ entry \in [Entry -> EntryRecord]
      /\ op \in [Thread \cup {Start} -> OpRecord] /\ count \in CountRecord
      /\ waiting \subseteq Entry /\ discarded \subseteq File /\ torn \subseteq File
      /\ t \in Thread \cup {Start} /\ t # Start /\ FileOf(t) = file /\ InStep(t)
    BY WorkingFacts
<1>1. /\ op' \in [Thread \cup {Start} -> OpRecord]
      /\ op'[t].at = "remove" /\ op'[t].entry = own
      /\ \A u \in Thread \cup {Start} : u # t => op'[u] = op[u]
    BY <1>0, GoFacts DEF At
<1>2. file \notin discarded /\ entry[own].payload = "bin" => at[file] = "whole"
    BY <1>0, WorkingFacts DEF InStep
<1>3. entry[own].payload = "tmp" => entry[own].record = "none"
    BY WorkingFacts
<1>4. TypeOK'
    BY <1>0, <1>1, TypeNext
<1>5. ItsOwn(t, own, file)
    BY <1>1 DEF ItsOwn
<1>6. GoesOn(t, own, file)
    BY <1>0, <1>1 DEF GoesOn, Quarantining, Holding
<1>7. TouchesEntry(t, own, file) /\ TouchesFile(t, own, file) /\ KeepsContent(t, own, file)
      /\ LeavesNothingHollow(t, own, file) /\ LeavesNothingHidden(t, own, file)
    BY <1>0, <1>1, <1>2, <1>3
    DEF TouchesEntry, InStep, TouchesFile, KeepsContent, Same, LeavesNothingHollow, Hollow,
        LeavesNothingHidden, Hidden, Restoring, Quarantining, Holding
<1>8. QED BY <1>4, <1>5, <1>6, <1>7 DEF Works

LEMMA CopyRefusedWorks ==
    ASSUME IInv, NEW t \in Thread, NEW own \in Entry, NEW file \in File,
           op[t].entry = own, entry[own].file = file, CopyRefused(t)
    PROVE  Works(t, own, file)
<1>0. count \in CountRecord
    BY WorkingFacts
<1>1. /\ op[t].at = "copy" /\ Go(t, "remove") /\ at' = at /\ entry' = entry
      /\ waiting' = waiting /\ discarded' = discarded /\ torn' = torn
      /\ count' = count \/ WriteFails(t)
    BY DEF CopyRefused, Unchanged
<1>2. count' \in CountRecord /\ (count'.faults = 0 => count.faults = 0)
    BY <1>0, <1>1, WriteFailsFacts
<1>3. QED BY <1>1, <1>2, GivesUpWorks

LEMMA PublishWorks ==
    ASSUME IInv, NEW t \in Thread, NEW own \in Entry, NEW file \in File,
           op[t].entry = own, entry[own].file = file, Publish(t)
    PROVE  Works(t, own, file)
<1>0. /\ at \in [File -> Content] /\ entry \in [Entry -> EntryRecord]
      /\ op \in [Thread \cup {Start} -> OpRecord] /\ count \in CountRecord
      /\ waiting \subseteq Entry /\ discarded \subseteq File /\ torn \subseteq File
      /\ t \in Thread \cup {Start} /\ t # Start /\ FileOf(t) = file /\ InStep(t)
    BY WorkingFacts
<1>1. /\ op[t].at = "publish" /\ at' = at /\ count' = count
      /\ waiting' = waiting /\ discarded' = discarded /\ torn' = torn
    BY DEF Publish, Unchanged
<1>2. /\ entry' \in [Entry -> EntryRecord]
      /\ \A x \in Entry : x # own => entry'[x] = entry[x]
      /\ entry'[own].payload = "bin" /\ entry'[own].file = entry[own].file
      /\ entry'[own].dir = entry[own].dir /\ entry'[own].record = entry[own].record
    BY <1>0, PayloadFacts DEF Publish
<1>3. /\ op' \in [Thread \cup {Start} -> OpRecord]
      /\ op'[t].at = "pending" /\ op'[t].entry = own
      /\ \A u \in Thread \cup {Start} : u # t => op'[u] = op[u]
    BY <1>0, GoFacts DEF Publish, At
<1>4. entry[own].record = "none" /\ at[file] = "whole"
    BY <1>1, WorkingFacts DEF InStep
<1>5. TypeOK'
    BY <1>0, <1>1, <1>2, <1>3, TypeNext
<1>6. ItsOwn(t, own, file)
    BY <1>1, <1>2, <1>3 DEF ItsOwn
<1>7. GoesOn(t, own, file)
    BY <1>0, <1>1, <1>3 DEF GoesOn, Quarantining, Holding
<1>8. TouchesEntry(t, own, file) /\ TouchesFile(t, own, file) /\ KeepsContent(t, own, file)
      /\ LeavesNothingHollow(t, own, file) /\ LeavesNothingHidden(t, own, file)
    BY <1>1, <1>2, <1>3, <1>4
    DEF TouchesEntry, InStep, TouchesFile, KeepsContent, Same, LeavesNothingHollow, Hollow,
        LeavesNothingHidden, Hidden, Restoring, Quarantining, Holding
<1>9. QED BY <1>5, <1>6, <1>7, <1>8 DEF Works

LEMMA PublishFailsWorks ==
    ASSUME IInv, NEW t \in Thread, NEW own \in Entry, NEW file \in File,
           op[t].entry = own, entry[own].file = file, PublishFails(t)
    PROVE  Works(t, own, file)
<1>0. count \in CountRecord
    BY WorkingFacts
<1>1. /\ op[t].at = "publish" /\ Go(t, "remove") /\ at' = at /\ entry' = entry
      /\ waiting' = waiting /\ discarded' = discarded /\ torn' = torn
      /\ count' = count \/ Fault
    BY DEF PublishFails, Unchanged
<1>2. count' \in CountRecord /\ (count'.faults = 0 => count.faults = 0)
    BY <1>0, <1>1, FaultFacts
<1>3. QED BY <1>1, <1>2, GivesUpWorks

LEMMA RecordPendingWorks ==
    ASSUME IInv, NEW t \in Thread, NEW own \in Entry, NEW file \in File,
           op[t].entry = own, entry[own].file = file, RecordPending(t)
    PROVE  Works(t, own, file)
<1>0. /\ at \in [File -> Content] /\ entry \in [Entry -> EntryRecord]
      /\ op \in [Thread \cup {Start} -> OpRecord] /\ count \in CountRecord
      /\ waiting \subseteq Entry /\ discarded \subseteq File /\ torn \subseteq File
      /\ t \in Thread \cup {Start} /\ t # Start /\ FileOf(t) = file /\ InStep(t)
    BY WorkingFacts
<1>1. /\ op[t].at = "pending" /\ at' = at
      /\ waiting' = waiting /\ discarded' = discarded /\ torn' = torn
    BY DEF RecordPending, Unchanged
<1>2. CASE WriteFails(t) /\ Go(t, "remove") /\ entry' = entry
    <2>1. count' \in CountRecord /\ (count'.faults = 0 => count.faults = 0)
        BY <1>0, <1>2, WriteFailsFacts
    <2>2. QED BY <1>1, <1>2, <2>1, GivesUpWorks
<1>3. CASE WriteRecord(t, "SourcePending") /\ Go(t, "delete") /\ count' = count
    <2>1. /\ entry' \in [Entry -> EntryRecord]
          /\ \A x \in Entry : x # own => entry'[x] = entry[x]
          /\ entry'[own].record = "SourcePending" /\ entry'[own].file = entry[own].file
          /\ entry'[own].payload = entry[own].payload
        BY <1>0, <1>3, RecordFacts DEF WriteRecord, EntryState
    <2>2. /\ op' \in [Thread \cup {Start} -> OpRecord]
          /\ op'[t].at = "delete" /\ op'[t].entry = own
          /\ \A u \in Thread \cup {Start} : u # t => op'[u] = op[u]
        BY <1>0, <1>3, GoFacts DEF At
    <2>3. /\ entry[own].payload = "bin" \/ file \in discarded
          /\ entry[own].payload # "tmp" /\ at[file] = "whole"
        BY <1>1, WorkingFacts DEF InStep
    <2>4. TypeOK'
        BY <1>0, <1>1, <1>3, <2>1, <2>2, TypeNext
    <2>5. ItsOwn(t, own, file)
        BY <1>1, <2>1, <2>2 DEF ItsOwn
    <2>6. GoesOn(t, own, file)
        BY <1>0, <1>1, <2>2 DEF GoesOn, Quarantining, Holding
    <2>7. TouchesEntry(t, own, file) /\ TouchesFile(t, own, file) /\ KeepsContent(t, own, file)
          /\ LeavesNothingHollow(t, own, file) /\ LeavesNothingHidden(t, own, file)
        BY <1>1, <1>3, <2>1, <2>2, <2>3
        DEF TouchesEntry, InStep, TouchesFile, KeepsContent, Same, LeavesNothingHollow, Hollow,
            LeavesNothingHidden, Hidden, Restoring, Quarantining, Holding
    <2>8. QED BY <2>4, <2>5, <2>6, <2>7 DEF Works
<1>4. QED BY <1>2, <1>3 DEF RecordPending

\* The source is removed while its content is in the entry, and nobody removes that
\* entry unless a user gave the content up.
LEMMA DeleteSourceWorks ==
    ASSUME IInv, NEW t \in Thread, NEW own \in Entry, NEW file \in File,
           op[t].entry = own, entry[own].file = file, DeleteSource(t)
    PROVE  Works(t, own, file)
<1>0. /\ at \in [File -> Content] /\ entry \in [Entry -> EntryRecord]
      /\ op \in [Thread \cup {Start} -> OpRecord] /\ count \in CountRecord
      /\ waiting \subseteq Entry /\ discarded \subseteq File /\ torn \subseteq File
      /\ t \in Thread \cup {Start} /\ t # Start /\ FileOf(t) = file /\ InStep(t)
    BY WorkingFacts
<1>1. /\ op[t].at = "delete" /\ entry' = entry /\ count' = count
      /\ waiting' = waiting /\ discarded' = discarded /\ torn' = torn
      /\ at' = [at EXCEPT ![file] = "gone"]
    BY <1>0 DEF DeleteSource, Unchanged
<1>2. at' \in [File -> Content] /\ at'[file] = "gone" /\ \A g \in File : g # file => at'[g] = at[g]
    BY <1>0, <1>1 DEF Content
<1>3. /\ op' \in [Thread \cup {Start} -> OpRecord]
      /\ op'[t].at = "complete" /\ op'[t].entry = own
      /\ \A u \in Thread \cup {Start} : u # t => op'[u] = op[u]
    BY <1>0, GoFacts DEF DeleteSource, At
<1>4. /\ entry[own].payload = "bin" \/ file \in discarded
      /\ entry[own].payload # "tmp" /\ at[file] = "whole"
      /\ entry[own].record \in {"none", "SourcePending"}
    BY <1>1, WorkingFacts DEF InStep
<1>5. ASSUME file \notin discarded PROVE Kept(file)'
    <2>1. EntryIsOwn /\ StartAlone
        BY DEF IInv
    <2>2. \A u \in Thread : u # t => op[u].entry # own
        BY <1>0, <1>1, <1>5, <2>1 DEF EntryIsOwn, Quarantining, Holding
    <2>3. op[Start].entry # own
        BY <1>1, <2>1, IdleFacts, QuarantineAssumption DEF StartAlone, Up
    <2>4. \A u \in Thread \cup {Start} : ~ Removing(u, own)'
        BY <1>0, <1>3, <2>2, <2>3 DEF Removing
    <2>5. entry'[own].file = file /\ entry'[own].payload = "bin"
        BY <1>1, <1>4, <1>5
    <2>6. QED BY <2>4, <2>5 DEF Kept
<1>6. TypeOK'
    BY <1>0, <1>1, <1>2, <1>3, TypeNext
<1>7. ItsOwn(t, own, file)
    BY <1>1, <1>2, <1>3 DEF ItsOwn
<1>8. GoesOn(t, own, file)
    BY <1>0, <1>1, <1>3 DEF GoesOn, Quarantining, Holding
<1>9. TouchesEntry(t, own, file) /\ TouchesFile(t, own, file) /\ KeepsContent(t, own, file)
      /\ LeavesNothingHollow(t, own, file) /\ LeavesNothingHidden(t, own, file)
    BY <1>1, <1>2, <1>3, <1>4, <1>5
    DEF TouchesEntry, InStep, TouchesFile, KeepsContent, Same, LeavesNothingHollow, Hollow,
        LeavesNothingHidden, Hidden, Restoring, Quarantining, Holding
<1>10. QED BY <1>6, <1>7, <1>8, <1>9 DEF Works

LEMMA DeleteSourceFailsWorks ==
    ASSUME IInv, NEW t \in Thread, NEW own \in Entry, NEW file \in File,
           op[t].entry = own, entry[own].file = file, DeleteSourceFails(t)
    PROVE  Works(t, own, file)
<1>0. count \in CountRecord
    BY WorkingFacts
<1>1. /\ op[t].at = "delete" /\ Go(t, "remove") /\ at' = at /\ entry' = entry
      /\ waiting' = waiting /\ discarded' = discarded /\ torn' = torn
      /\ Fault
    BY DEF DeleteSourceFails, Unchanged
<1>2. count' \in CountRecord /\ (count'.faults = 0 => count.faults = 0)
    BY <1>0, <1>1, FaultFacts
<1>3. QED BY <1>1, <1>2, GivesUpWorks

\* A write of a record fails and the operation ends with the entry as it is.
LEMMA FailsToRecordWorks ==
    ASSUME IInv, NEW t \in Thread, NEW own \in Entry, NEW file \in File,
           op[t].entry = own, entry[own].file = file,
           op[t].at \in {"complete", "begin", "undo"}, WriteFails(t), End(t), at' = at,
           entry' = entry, waiting' = waiting, discarded' = discarded, torn' = torn
    PROVE  Works(t, own, file)
<1>0. /\ at \in [File -> Content] /\ entry \in [Entry -> EntryRecord]
      /\ op \in [Thread \cup {Start} -> OpRecord] /\ count \in CountRecord
      /\ waiting \subseteq Entry /\ discarded \subseteq File /\ torn \subseteq File
      /\ t \in Thread \cup {Start} /\ t # Start /\ FileOf(t) = file /\ InStep(t)
    <2>1. TypeOK
        BY DEF IInv
    <2>2. t \in Thread \cup {Start} /\ t # Start /\ FileOf(t) = file
        BY QuarantineAssumption DEF FileOf
    <2>3. InStep(t)
        BY DEF IInv, EntriesInStep
    <2>4. QED BY <2>1, <2>2, <2>3, TypeFacts
<1>1. /\ op' \in [Thread \cup {Start} -> OpRecord] /\ op'[t] = Idle
      /\ \A u \in Thread \cup {Start} : u # t => op'[u] = op[u]
    BY <1>0, EndFacts
<1>2. op'[t].at = "idle"
    BY <1>1, IdleFacts
<1>3. count' \in CountRecord /\ (count'.faults = 0 => count.faults = 0 /\ ~ entry[own].dir)
    BY <1>0, WriteFailsFacts
<1>4. entry[own].payload = "tmp" => entry[own].record = "none"
    BY WorkingFacts
<1>5. TypeOK'
    BY <1>0, <1>1, <1>3, TypeNext
<1>6. ItsOwn(t, own, file)
    BY <1>1 DEF ItsOwn
<1>7. GoesOn(t, own, file)
    BY <1>0, <1>2 DEF GoesOn, Quarantining, Holding
<1>8. TouchesEntry(t, own, file) /\ TouchesFile(t, own, file) /\ KeepsContent(t, own, file)
      /\ LeavesNothingHollow(t, own, file) /\ LeavesNothingHidden(t, own, file)
    BY <1>0, <1>2, <1>3, <1>4
    DEF TouchesEntry, InStep, TouchesFile, KeepsContent, Same, LeavesNothingHollow, Hollow,
        LeavesNothingHidden, Hidden, Restoring, Quarantining, Holding
<1>9. QED BY <1>5, <1>6, <1>7, <1>8 DEF Works

\* The entry is recorded as complete and the operation ends.
LEMMA RecordsCompleteWorks ==
    ASSUME IInv, NEW t \in Thread, NEW own \in Entry, NEW file \in File,
           op[t].entry = own, entry[own].file = file,
           op[t].at \in {"complete", "undo"}, WriteRecord(t, "Complete"), End(t), at' = at,
           count' = count, waiting' = waiting, discarded' = discarded, torn' = torn
    PROVE  Works(t, own, file)
<1>0. /\ at \in [File -> Content] /\ entry \in [Entry -> EntryRecord]
      /\ op \in [Thread \cup {Start} -> OpRecord] /\ count \in CountRecord
      /\ waiting \subseteq Entry /\ discarded \subseteq File /\ torn \subseteq File
      /\ t \in Thread \cup {Start} /\ t # Start /\ FileOf(t) = file /\ InStep(t)
    <2>1. TypeOK
        BY DEF IInv
    <2>2. t \in Thread \cup {Start} /\ t # Start /\ FileOf(t) = file
        BY QuarantineAssumption DEF FileOf
    <2>3. InStep(t)
        BY DEF IInv, EntriesInStep
    <2>4. QED BY <2>1, <2>2, <2>3, TypeFacts
<1>1. /\ op' \in [Thread \cup {Start} -> OpRecord] /\ op'[t] = Idle
      /\ \A u \in Thread \cup {Start} : u # t => op'[u] = op[u]
    BY <1>0, EndFacts
<1>2. op'[t].at = "idle"
    BY <1>1, IdleFacts
<1>3. /\ entry' \in [Entry -> EntryRecord]
      /\ \A x \in Entry : x # own => entry'[x] = entry[x]
      /\ entry'[own].record = "Complete" /\ entry'[own].file = entry[own].file
      /\ entry'[own].payload = entry[own].payload
    BY <1>0, RecordFacts DEF WriteRecord, EntryState
<1>4. entry[own].payload # "tmp"
    BY <1>0 DEF InStep, Restoring
<1>5. TypeOK'
    BY <1>0, <1>1, <1>3, TypeNext
<1>6. ItsOwn(t, own, file)
    BY <1>1, <1>3 DEF ItsOwn
<1>7. GoesOn(t, own, file)
    BY <1>0, <1>2 DEF GoesOn, Quarantining, Holding
<1>8. TouchesEntry(t, own, file) /\ TouchesFile(t, own, file) /\ KeepsContent(t, own, file)
      /\ LeavesNothingHollow(t, own, file) /\ LeavesNothingHidden(t, own, file)
    BY <1>0, <1>2, <1>3, <1>4
    DEF TouchesEntry, InStep, TouchesFile, KeepsContent, Same, LeavesNothingHollow, Hollow,
        LeavesNothingHidden, Hidden, Restoring, Quarantining, Holding
<1>9. QED BY <1>5, <1>6, <1>7, <1>8 DEF Works

LEMMA RecordCompleteWorks ==
    ASSUME IInv, NEW t \in Thread, NEW own \in Entry, NEW file \in File,
           op[t].entry = own, entry[own].file = file, RecordComplete(t)
    PROVE  Works(t, own, file)
<1>1. /\ op[t].at = "complete" /\ End(t) /\ at' = at
      /\ waiting' = waiting /\ discarded' = discarded /\ torn' = torn
      /\ \/ WriteRecord(t, "Complete") /\ count' = count
         \/ WriteFails(t) /\ entry' = entry
    BY DEF RecordComplete, Unchanged
<1>2. QED BY <1>1, RecordsCompleteWorks, FailsToRecordWorks

-----------------------------------------------------------------------------
(* The steps of a restore *)

LEMMA RecordRestoringWorks ==
    ASSUME IInv, NEW t \in Thread, NEW own \in Entry, NEW file \in File,
           op[t].entry = own, entry[own].file = file, RecordRestoring(t)
    PROVE  Works(t, own, file)
<1>0. /\ at \in [File -> Content] /\ entry \in [Entry -> EntryRecord]
      /\ op \in [Thread \cup {Start} -> OpRecord] /\ count \in CountRecord
      /\ waiting \subseteq Entry /\ discarded \subseteq File /\ torn \subseteq File
      /\ t \in Thread \cup {Start} /\ t # Start /\ FileOf(t) = file /\ InStep(t)
    BY WorkingFacts
<1>1. /\ op[t].at = "begin" /\ at' = at
      /\ waiting' = waiting /\ discarded' = discarded /\ torn' = torn
      /\ \/ WriteRecord(t, "Restoring") /\ Go(t, "create") /\ count' = count
         \/ WriteFails(t) /\ End(t) /\ entry' = entry
    BY DEF RecordRestoring, Unchanged
<1>2. CASE WriteFails(t) /\ End(t) /\ entry' = entry
    BY <1>1, <1>2, FailsToRecordWorks
<1>3. CASE WriteRecord(t, "Restoring") /\ Go(t, "create") /\ count' = count
    <2>1. /\ entry' \in [Entry -> EntryRecord]
          /\ \A x \in Entry : x # own => entry'[x] = entry[x]
          /\ entry'[own].record = "Restoring" /\ entry'[own].file = entry[own].file
          /\ entry'[own].payload = entry[own].payload
        BY <1>0, <1>3, RecordFacts DEF WriteRecord, EntryState
    <2>2. /\ op' \in [Thread \cup {Start} -> OpRecord]
          /\ op'[t].at = "create" /\ op'[t].entry = own
          /\ \A u \in Thread \cup {Start} : u # t => op'[u] = op[u]
        BY <1>0, <1>3, GoFacts DEF At
    <2>3. entry[own].payload # "tmp"
        BY <1>0, <1>1 DEF InStep, Restoring
    <2>4. TypeOK'
        BY <1>0, <1>1, <1>3, <2>1, <2>2, TypeNext
    <2>5. ItsOwn(t, own, file)
        BY <1>1, <2>1, <2>2 DEF ItsOwn
    <2>6. GoesOn(t, own, file)
        BY <1>0, <1>1, <2>2 DEF GoesOn, Quarantining, Holding
    <2>7. TouchesEntry(t, own, file) /\ TouchesFile(t, own, file) /\ KeepsContent(t, own, file)
          /\ LeavesNothingHollow(t, own, file) /\ LeavesNothingHidden(t, own, file)
        BY <1>0, <1>1, <1>3, <2>1, <2>2, <2>3
        DEF TouchesEntry, InStep, TouchesFile, KeepsContent, Same, LeavesNothingHollow, Hollow,
            LeavesNothingHidden, Hidden, Restoring, Quarantining, Holding
    <2>8. QED BY <2>4, <2>5, <2>6, <2>7 DEF Works
<1>4. QED BY <1>1, <1>2, <1>3

\* What is at the path already stays there.
LEMMA CreateTargetWorks ==
    ASSUME IInv, NEW t \in Thread, NEW own \in Entry, NEW file \in File,
           op[t].entry = own, entry[own].file = file, CreateTarget(t)
    PROVE  Works(t, own, file)
<1>0. /\ at \in [File -> Content] /\ entry \in [Entry -> EntryRecord]
      /\ op \in [Thread \cup {Start} -> OpRecord] /\ count \in CountRecord
      /\ waiting \subseteq Entry /\ discarded \subseteq File /\ torn \subseteq File
      /\ t \in Thread \cup {Start} /\ t # Start /\ FileOf(t) = file /\ InStep(t)
    BY WorkingFacts
<1>1. /\ op[t].at = "create" /\ entry' = entry
      /\ waiting' = waiting /\ discarded' = discarded /\ torn' = torn
    BY DEF CreateTarget, Unchanged
<1>2. /\ at' \in [File -> Content] /\ \A g \in File : g # file => at'[g] = at[g]
      /\ count' \in CountRecord /\ (count'.faults = 0 => count.faults = 0)
    BY <1>0, FaultFacts DEF CreateTarget, Content
<1>3. \/ Go(t, "write") /\ at[file] = "gone" /\ at'[file] = "partial"
      \/ Go(t, "undo") /\ at' = at
    BY <1>0 DEF CreateTarget
<1>4. /\ op' \in [Thread \cup {Start} -> OpRecord]
      /\ \/ op'[t].at = "write" /\ at[file] = "gone" /\ at'[file] = "partial"
         \/ op'[t].at = "undo" /\ at' = at
      /\ op'[t].entry = own
      /\ \A u \in Thread \cup {Start} : u # t => op'[u] = op[u]
    BY <1>0, <1>3, GoFacts DEF At
<1>5. entry[own].payload # "tmp"
    BY <1>0, <1>1 DEF InStep, Restoring
<1>6. TypeOK'
    BY <1>0, <1>1, <1>2, <1>4, TypeNext
<1>7. ItsOwn(t, own, file)
    BY <1>1, <1>2, <1>4 DEF ItsOwn
<1>8. GoesOn(t, own, file)
    BY <1>0, <1>1, <1>4 DEF GoesOn, Quarantining, Holding
<1>9. TouchesEntry(t, own, file) /\ TouchesFile(t, own, file) /\ KeepsContent(t, own, file)
      /\ LeavesNothingHollow(t, own, file) /\ LeavesNothingHidden(t, own, file)
    BY <1>0, <1>1, <1>2, <1>4, <1>5
    DEF TouchesEntry, InStep, TouchesFile, KeepsContent, Same, LeavesNothingHollow, Hollow,
        LeavesNothingHidden, Hidden, Restoring, Quarantining, Holding
<1>10. QED BY <1>6, <1>7, <1>8, <1>9 DEF Works

LEMMA WriteTargetWorks ==
    ASSUME IInv, NEW t \in Thread, NEW own \in Entry, NEW file \in File,
           op[t].entry = own, entry[own].file = file, WriteTarget(t)
    PROVE  Works(t, own, file)
<1>0. /\ at \in [File -> Content] /\ entry \in [Entry -> EntryRecord]
      /\ op \in [Thread \cup {Start} -> OpRecord] /\ count \in CountRecord
      /\ waiting \subseteq Entry /\ discarded \subseteq File /\ torn \subseteq File
      /\ t \in Thread \cup {Start} /\ t # Start /\ FileOf(t) = file /\ InStep(t)
    BY WorkingFacts
<1>1. /\ op[t].at = "write" /\ entry' = entry /\ count' = count
      /\ waiting' = waiting /\ discarded' = discarded /\ torn' = torn
      /\ at' = [at EXCEPT ![file] = IF at[file] = "partial" THEN "copy" ELSE at[file]]
    BY <1>0 DEF WriteTarget, Unchanged
<1>2. /\ at' \in [File -> Content] /\ \A g \in File : g # file => at'[g] = at[g]
      /\ at'[file] = IF at[file] = "partial" THEN "copy" ELSE at[file]
    BY <1>0, <1>1 DEF Content
<1>3. /\ op' \in [Thread \cup {Start} -> OpRecord]
      /\ op'[t].at = "remove" /\ op'[t].entry = own
      /\ \A u \in Thread \cup {Start} : u # t => op'[u] = op[u]
    BY <1>0, GoFacts DEF WriteTarget, At
<1>4. /\ entry[own].payload # "tmp"
      /\ at[file] # "whole" /\ (file \notin discarded => at[file] = "partial")
    BY <1>0, <1>1 DEF InStep, Restoring, IInv, WritesItsOwn
<1>5. TypeOK'
    BY <1>0, <1>1, <1>2, <1>3, TypeNext
<1>6. ItsOwn(t, own, file)
    BY <1>1, <1>2, <1>3 DEF ItsOwn
<1>7. GoesOn(t, own, file)
    BY <1>0, <1>1, <1>3 DEF GoesOn, Quarantining, Holding
<1>8. TouchesEntry(t, own, file) /\ TouchesFile(t, own, file) /\ KeepsContent(t, own, file)
      /\ LeavesNothingHollow(t, own, file) /\ LeavesNothingHidden(t, own, file)
    BY <1>0, <1>1, <1>2, <1>3, <1>4
    DEF TouchesEntry, InStep, TouchesFile, KeepsContent, Same, LeavesNothingHollow, Hollow,
        LeavesNothingHidden, Hidden, Restoring, Quarantining, Holding
<1>9. QED BY <1>5, <1>6, <1>7, <1>8 DEF Works

\* The file that is removed by its path is the unfinished one, unless a user took that away.
LEMMA WriteTargetFailsWorks ==
    ASSUME IInv, NEW t \in Thread, NEW own \in Entry, NEW file \in File,
           op[t].entry = own, entry[own].file = file, WriteTargetFails(t)
    PROVE  Works(t, own, file)
<1>0. /\ at \in [File -> Content] /\ entry \in [Entry -> EntryRecord]
      /\ op \in [Thread \cup {Start} -> OpRecord] /\ count \in CountRecord
      /\ waiting \subseteq Entry /\ discarded \subseteq File /\ torn \subseteq File
      /\ t \in Thread \cup {Start} /\ t # Start /\ FileOf(t) = file /\ InStep(t)
    BY WorkingFacts
<1>1. /\ op[t].at = "write" /\ entry' = entry
      /\ waiting' = waiting /\ discarded' = discarded /\ torn' = torn
      /\ at' = [at EXCEPT ![file] = "gone"]
      /\ count' = count \/ Fault
    BY <1>0 DEF WriteTargetFails, Unchanged
<1>2. /\ at' \in [File -> Content] /\ \A g \in File : g # file => at'[g] = at[g]
      /\ at'[file] = "gone"
      /\ count' \in CountRecord /\ (count'.faults = 0 => count.faults = 0)
    BY <1>0, <1>1, FaultFacts DEF Content
<1>3. /\ op' \in [Thread \cup {Start} -> OpRecord]
      /\ op'[t].at = "undo" /\ op'[t].entry = own
      /\ \A u \in Thread \cup {Start} : u # t => op'[u] = op[u]
    BY <1>0, GoFacts DEF WriteTargetFails, At
<1>4. /\ entry[own].payload # "tmp"
      /\ at[file] # "whole" /\ (file \notin discarded => at[file] = "partial")
    BY <1>0, <1>1 DEF InStep, Restoring, IInv, WritesItsOwn
<1>5. TypeOK'
    BY <1>0, <1>1, <1>2, <1>3, TypeNext
<1>6. ItsOwn(t, own, file)
    BY <1>1, <1>2, <1>3 DEF ItsOwn
<1>7. GoesOn(t, own, file)
    BY <1>0, <1>1, <1>3 DEF GoesOn, Quarantining, Holding
<1>8. TouchesEntry(t, own, file) /\ TouchesFile(t, own, file) /\ KeepsContent(t, own, file)
      /\ LeavesNothingHollow(t, own, file) /\ LeavesNothingHidden(t, own, file)
    BY <1>0, <1>1, <1>2, <1>3, <1>4
    DEF TouchesEntry, InStep, TouchesFile, KeepsContent, Same, LeavesNothingHollow, Hollow,
        LeavesNothingHidden, Hidden, Restoring, Quarantining, Holding
<1>9. QED BY <1>5, <1>6, <1>7, <1>8 DEF Works

LEMMA RecordRestoredWorks ==
    ASSUME IInv, NEW t \in Thread, NEW own \in Entry, NEW file \in File,
           op[t].entry = own, entry[own].file = file, RecordRestored(t)
    PROVE  Works(t, own, file)
<1>1. /\ op[t].at = "undo" /\ End(t) /\ at' = at
      /\ waiting' = waiting /\ discarded' = discarded /\ torn' = torn
      /\ \/ WriteRecord(t, "Complete") /\ count' = count
         \/ WriteFails(t) /\ entry' = entry
    BY DEF RecordRestored, Unchanged
<1>2. QED BY <1>1, RecordsCompleteWorks, FailsToRecordWorks

-----------------------------------------------------------------------------
(* The steps of a removal *)

LEMMA RemovePieceWorks ==
    ASSUME IInv, NEW t \in Thread \cup {Start}, NEW own \in Entry, NEW file \in File,
           op[t].entry = own, entry[own].file = file,
           NEW piece \in {"payload", "record"}, RemovePiece(t, piece)
    PROVE  Works(t, own, file)
<1>0. /\ at \in [File -> Content] /\ entry \in [Entry -> EntryRecord]
      /\ op \in [Thread \cup {Start} -> OpRecord] /\ count \in CountRecord
      /\ waiting \subseteq Entry /\ discarded \subseteq File /\ torn \subseteq File
      /\ FileOf(t) = file /\ Start \notin Thread
    BY TypeFacts, QuarantineAssumption DEF IInv, FileOf
<1>1. /\ op[t].at = "remove" /\ op' = op /\ at' = at /\ count' = count
      /\ waiting' = waiting /\ discarded' = discarded /\ torn' = torn
    BY DEF RemovePiece, Unchanged
<1>2. /\ entry' \in [Entry -> EntryRecord]
      /\ \A x \in Entry : x # own => entry'[x] = entry[x]
      /\ entry'[own].file = entry[own].file
      /\ \/ entry'[own].payload = "none" /\ entry'[own].record = entry[own].record
         \/ entry'[own].payload = entry[own].payload /\ entry'[own].record = "none"
    <2>1. CASE piece = "payload"
        BY <1>0, <2>1, PayloadFacts DEF RemovePiece
    <2>2. CASE piece = "record"
        BY <1>0, <2>2, RecordFacts DEF RemovePiece, EntryState
    <2>3. QED BY <2>1, <2>2
<1>3. t = Start => op'[t].at \in {"idle", "settle", "remove"}
    BY <1>1
<1>4. entry[own].payload = "tmp" => entry[own].record = "none"
    BY DEF IInv, TemporaryUnrecorded
<1>5. TypeOK'
    BY <1>0, <1>1, <1>2, TypeNext
<1>6. ItsOwn(t, own, file)
    BY <1>1, <1>2 DEF ItsOwn
<1>7. GoesOn(t, own, file)
    BY <1>0, <1>1, <1>3 DEF GoesOn, Quarantining, Holding
<1>8. TouchesEntry(t, own, file) /\ TouchesFile(t, own, file) /\ KeepsContent(t, own, file)
      /\ LeavesNothingHollow(t, own, file) /\ LeavesNothingHidden(t, own, file)
    BY <1>0, <1>1, <1>2, <1>4
    DEF TouchesEntry, InStep, TouchesFile, KeepsContent, Same, LeavesNothingHollow, Hollow,
        LeavesNothingHidden, Hidden, Restoring, Quarantining, Holding
<1>9. QED BY <1>5, <1>6, <1>7, <1>8 DEF Works

LEMMA RemoveDirectoryWorks ==
    ASSUME IInv, NEW t \in Thread \cup {Start}, NEW own \in Entry, NEW file \in File,
           op[t].entry = own, entry[own].file = file, RemoveDirectory(t)
    PROVE  Works(t, own, file)
<1>0. /\ at \in [File -> Content] /\ entry \in [Entry -> EntryRecord]
      /\ op \in [Thread \cup {Start} -> OpRecord] /\ count \in CountRecord
      /\ waiting \subseteq Entry /\ discarded \subseteq File /\ torn \subseteq File
      /\ FileOf(t) = file /\ Start \notin Thread
    BY TypeFacts, QuarantineAssumption DEF IInv, FileOf
<1>1. /\ op[t].at = "remove" /\ at' = at /\ count' = count
      /\ entry[own].payload = "none" /\ entry[own].record = "none"
      /\ waiting' = waiting /\ discarded' = discarded /\ torn' = torn
    BY DEF RemoveDirectory, Unchanged
<1>2. /\ entry' \in [Entry -> EntryRecord]
      /\ \A x \in Entry : x # own => entry'[x] = entry[x]
      /\ entry'[own].file = entry[own].file
      /\ entry'[own].payload = "none" /\ entry'[own].record = "none"
    BY <1>0, <1>1, DirectoryFacts DEF RemoveDirectory
<1>3. /\ op' \in [Thread \cup {Start} -> OpRecord] /\ op'[t] = Idle /\ op'[t].at = "idle"
      /\ \A u \in Thread \cup {Start} : u # t => op'[u] = op[u]
    BY <1>0, EndFacts, IdleFacts DEF RemoveDirectory
<1>4. TypeOK'
    BY <1>0, <1>1, <1>2, <1>3, TypeNext
<1>5. ItsOwn(t, own, file)
    BY <1>1, <1>2, <1>3 DEF ItsOwn
<1>6. GoesOn(t, own, file)
    BY <1>0, <1>1, <1>3 DEF GoesOn, Quarantining, Holding
<1>7. TouchesEntry(t, own, file) /\ TouchesFile(t, own, file) /\ KeepsContent(t, own, file)
      /\ LeavesNothingHollow(t, own, file) /\ LeavesNothingHidden(t, own, file)
    BY <1>0, <1>1, <1>2, <1>3
    DEF TouchesEntry, InStep, TouchesFile, KeepsContent, Same, LeavesNothingHollow, Hollow,
        LeavesNothingHidden, Hidden, Restoring, Quarantining, Holding
<1>8. QED BY <1>4, <1>5, <1>6, <1>7 DEF Works

LEMMA RemovalStopsWorks ==
    ASSUME IInv, NEW t \in Thread \cup {Start}, NEW own \in Entry, NEW file \in File,
           op[t].entry = own, entry[own].file = file, RemovalStops(t)
    PROVE  Works(t, own, file)
<1>0. /\ at \in [File -> Content] /\ entry \in [Entry -> EntryRecord]
      /\ op \in [Thread \cup {Start} -> OpRecord] /\ count \in CountRecord
      /\ waiting \subseteq Entry /\ discarded \subseteq File /\ torn \subseteq File
      /\ FileOf(t) = file /\ Start \notin Thread
    BY TypeFacts, QuarantineAssumption DEF IInv, FileOf
<1>1. /\ op[t].at = "remove" /\ at' = at /\ entry' = entry
      /\ waiting' = waiting /\ discarded' = discarded
      /\ torn' = IF Hollow(own) THEN torn \cup {file} ELSE torn
      /\ \/ Fault
         \/ (\E u \in Thread \ {t} : op[u].entry = own) /\ count' = count
    BY DEF RemovalStops
<1>2. /\ torn \subseteq torn' /\ torn' \subseteq File /\ (Hollow(own) => file \in torn')
      /\ count' \in CountRecord
      /\ count'.faults = 0 => /\ count.faults = 0
                              /\ \E u \in Thread : u # t /\ op[u].entry = own
    BY <1>0, <1>1, FaultFacts
<1>3. /\ op' \in [Thread \cup {Start} -> OpRecord] /\ op'[t] = Idle /\ op'[t].at = "idle"
      /\ \A u \in Thread \cup {Start} : u # t => op'[u] = op[u]
    BY <1>0, EndFacts, IdleFacts DEF RemovalStops
<1>4. entry[own].payload = "tmp" => entry[own].record = "none"
    BY DEF IInv, TemporaryUnrecorded
<1>5. TypeOK'
    BY <1>0, <1>1, <1>2, <1>3, TypeNext
<1>6. ItsOwn(t, own, file)
    BY <1>1, <1>2, <1>3 DEF ItsOwn
<1>7. GoesOn(t, own, file)
    BY <1>0, <1>1, <1>3 DEF GoesOn, Quarantining, Holding
<1>8. TouchesEntry(t, own, file) /\ TouchesFile(t, own, file) /\ KeepsContent(t, own, file)
      /\ LeavesNothingHollow(t, own, file) /\ LeavesNothingHidden(t, own, file)
    BY <1>0, <1>1, <1>2, <1>3, <1>4
    DEF TouchesEntry, InStep, TouchesFile, KeepsContent, Same, LeavesNothingHollow, Hollow,
        LeavesNothingHidden, Hidden, Restoring, Quarantining, Holding
<1>9. QED BY <1>5, <1>6, <1>7, <1>8 DEF Works

-----------------------------------------------------------------------------
(* The steps of the start *)

\* The start takes an entry down whose content is not needed or is at the path.
LEMMA StartRemoves ==
    ASSUME IInv, NEW own \in Entry, NEW file \in File, op[Start].at = "settle",
           op[Start].entry = own, entry[own].file = file, Go(Start, "remove"),
           at' = at, entry' = entry, count' = count, waiting' = waiting,
           discarded' = discarded, torn' = torn,
           file \notin discarded /\ entry[own].payload = "bin" => Same(file)
    PROVE  Works(Start, own, file)
<1>0. /\ at \in [File -> Content] /\ entry \in [Entry -> EntryRecord]
      /\ op \in [Thread \cup {Start} -> OpRecord] /\ count \in CountRecord
      /\ waiting \subseteq Entry /\ discarded \subseteq File /\ torn \subseteq File
      /\ Start \in Thread \cup {Start} /\ Start \notin Thread
      /\ entry[own].payload = "tmp" => entry[own].record = "none"
    BY TypeFacts, QuarantineAssumption DEF IInv, TemporaryUnrecorded
<1>1. /\ op' \in [Thread \cup {Start} -> OpRecord]
      /\ op'[Start].at = "remove" /\ op'[Start].entry = own
      /\ \A u \in Thread \cup {Start} : u # Start => op'[u] = op[u]
    BY <1>0, GoFacts DEF At
<1>2. TypeOK'
    BY <1>0, <1>1, TypeNext
<1>3. ItsOwn(Start, own, file)
    BY <1>1 DEF ItsOwn
<1>4. GoesOn(Start, own, file)
    BY <1>0, <1>1 DEF GoesOn, Quarantining, Holding
<1>5. /\ TouchesEntry(Start, own, file) /\ TouchesFile(Start, own, file)
      /\ KeepsContent(Start, own, file) /\ LeavesNothingHollow(Start, own, file)
      /\ LeavesNothingHidden(Start, own, file)
    BY <1>0, <1>1
    DEF TouchesEntry, TouchesFile, KeepsContent, Same, LeavesNothingHollow, Hollow,
        LeavesNothingHidden, Hidden, Quarantining, Holding
<1>6. QED BY <1>2, <1>3, <1>4, <1>5 DEF Works

\* The start leaves an entry as it is.
LEMMA StartLeaves ==
    ASSUME IInv, NEW own \in Entry, NEW file \in File, op[Start].at = "settle",
           op[Start].entry = own, entry[own].file = file, End(Start),
           at' = at, entry' = entry, waiting' = waiting, discarded' = discarded, torn' = torn,
           count' \in CountRecord, count'.faults = 0 => count.faults = 0 /\ ~ Hidden(own)
    PROVE  Works(Start, own, file)
<1>0. /\ at \in [File -> Content] /\ entry \in [Entry -> EntryRecord]
      /\ op \in [Thread \cup {Start} -> OpRecord] /\ count \in CountRecord
      /\ waiting \subseteq Entry /\ discarded \subseteq File /\ torn \subseteq File
      /\ Start \in Thread \cup {Start} /\ Start \notin Thread
      /\ entry[own].payload = "tmp" => entry[own].record = "none"
    BY TypeFacts, QuarantineAssumption DEF IInv, TemporaryUnrecorded
<1>1. /\ op' \in [Thread \cup {Start} -> OpRecord] /\ op'[Start] = Idle
      /\ op'[Start].at = "idle"
      /\ \A u \in Thread \cup {Start} : u # Start => op'[u] = op[u]
    BY <1>0, EndFacts, IdleFacts
<1>2. TypeOK'
    BY <1>0, <1>1, TypeNext
<1>3. ItsOwn(Start, own, file)
    BY <1>1 DEF ItsOwn
<1>4. GoesOn(Start, own, file)
    BY <1>0, <1>1 DEF GoesOn, Quarantining, Holding
<1>5. /\ TouchesEntry(Start, own, file) /\ TouchesFile(Start, own, file)
      /\ KeepsContent(Start, own, file) /\ LeavesNothingHollow(Start, own, file)
      /\ LeavesNothingHidden(Start, own, file)
    BY <1>0, <1>1
    DEF TouchesEntry, TouchesFile, KeepsContent, Same, LeavesNothingHollow, Hollow,
        LeavesNothingHidden, Hidden, Quarantining, Holding
<1>6. QED BY <1>2, <1>3, <1>4, <1>5 DEF Works

\* The start records an entry as complete.
LEMMA StartCompletes ==
    ASSUME IInv, NEW own \in Entry, NEW file \in File, op[Start].at = "settle",
           op[Start].entry = own, entry[own].file = file, End(Start),
           SetEntry(own, "record", "Complete"), entry[own].record # "none",
           at' = at, waiting' = waiting, discarded' = discarded, torn' = torn,
           count' \in CountRecord, count'.faults = 0 => count.faults = 0
    PROVE  Works(Start, own, file)
<1>0. /\ at \in [File -> Content] /\ entry \in [Entry -> EntryRecord]
      /\ op \in [Thread \cup {Start} -> OpRecord] /\ count \in CountRecord
      /\ waiting \subseteq Entry /\ discarded \subseteq File /\ torn \subseteq File
      /\ Start \in Thread \cup {Start} /\ Start \notin Thread
      /\ entry[own].payload = "tmp" => entry[own].record = "none"
    BY TypeFacts, QuarantineAssumption DEF IInv, TemporaryUnrecorded
<1>1. /\ op' \in [Thread \cup {Start} -> OpRecord] /\ op'[Start] = Idle
      /\ op'[Start].at = "idle"
      /\ \A u \in Thread \cup {Start} : u # Start => op'[u] = op[u]
    BY <1>0, EndFacts, IdleFacts
<1>2. /\ entry' \in [Entry -> EntryRecord]
      /\ \A x \in Entry : x # own => entry'[x] = entry[x]
      /\ entry'[own].record = "Complete" /\ entry'[own].file = entry[own].file
      /\ entry'[own].payload = entry[own].payload
    BY <1>0, RecordFacts DEF EntryState
<1>3. TypeOK'
    BY <1>0, <1>1, <1>2, TypeNext
<1>4. ItsOwn(Start, own, file)
    BY <1>1, <1>2 DEF ItsOwn
<1>5. GoesOn(Start, own, file)
    BY <1>0, <1>1 DEF GoesOn, Quarantining, Holding
<1>6. /\ TouchesEntry(Start, own, file) /\ TouchesFile(Start, own, file)
      /\ KeepsContent(Start, own, file) /\ LeavesNothingHollow(Start, own, file)
      /\ LeavesNothingHidden(Start, own, file)
    BY <1>0, <1>1, <1>2
    DEF TouchesEntry, TouchesFile, KeepsContent, Same, LeavesNothingHollow, Hollow,
        LeavesNothingHidden, Hidden, Quarantining, Holding
<1>7. QED BY <1>3, <1>4, <1>5, <1>6 DEF Works

\* The start removes the original of an unfinished quarantine: either its content is in
\* the entry, for nobody else is at work, or it was given up or torn before.
LEMMA FinishDeleteWorks ==
    ASSUME IInv, NEW own \in Entry, NEW file \in File, op[Start].at = "settle",
           op[Start].entry = own, entry[own].file = file, FinishDelete(own)
    PROVE  Works(Start, own, file)
<1>0. /\ at \in [File -> Content] /\ entry \in [Entry -> EntryRecord]
      /\ op \in [Thread \cup {Start} -> OpRecord] /\ count \in CountRecord
      /\ waiting \subseteq Entry /\ discarded \subseteq File /\ torn \subseteq File
      /\ Start \in Thread \cup {Start} /\ Start \notin Thread
      /\ entry[own].payload = "tmp" => entry[own].record = "none"
    BY TypeFacts, QuarantineAssumption DEF IInv, TemporaryUnrecorded
<1>1. /\ op' \in [Thread \cup {Start} -> OpRecord] /\ op'[Start] = Idle
      /\ op'[Start].at = "idle"
      /\ \A u \in Thread \cup {Start} : u # Start => op'[u] = op[u]
    BY <1>0, EndFacts, IdleFacts DEF FinishDelete
<1>2. /\ at' = [at EXCEPT ![file] = "gone"] /\ entry[own].record = "SourcePending"
      /\ waiting' = waiting /\ discarded' = discarded /\ torn' = torn
      /\ \/ SetEntry(own, "record", "Complete") /\ count' = count
         \/ Fault /\ entry' = entry
    BY DEF FinishDelete, Settling
<1>10. at[file] = "whole"
    BY DEF FinishDelete
<1>3. /\ at' \in [File -> Content] /\ at'[file] = "gone"
      /\ \A g \in File : g # file => at'[g] = at[g]
    BY <1>0, <1>2 DEF Content
<1>4. /\ entry' \in [Entry -> EntryRecord]
      /\ \A x \in Entry : x # own => entry'[x] = entry[x]
      /\ entry'[own].record \in {"Complete", "SourcePending"}
      /\ entry'[own].file = entry[own].file /\ entry'[own].payload = entry[own].payload
    <2>1. CASE SetEntry(own, "record", "Complete")
        BY <1>0, <2>1, RecordFacts DEF EntryState
    <2>2. CASE entry' = entry
        BY <1>0, <1>2, <2>2
    <2>3. QED BY <1>2, <2>1, <2>2
<1>5. /\ count' \in CountRecord
      /\ count'.faults = 0 => count.faults = 0 /\ entry'[own].record = "Complete"
    <2>1. CASE SetEntry(own, "record", "Complete") /\ count' = count
        BY <1>0, <2>1, RecordFacts DEF EntryState
    <2>2. CASE Fault
        BY <1>0, <2>2, FaultFacts
    <2>3. QED BY <1>2, <2>1, <2>2
<1>6. ASSUME file \notin discarded \cup torn PROVE Kept(file)'
    <2>1. \A u \in Thread : op[u] = Idle
        BY <1>0, IdleFacts DEF IInv, StartAlone, FilesNamed, Up
    <2>2. \A u \in Thread \cup {Start} : ~ Removing(u, own) /\ ~ Removing(u, own)'
        BY <1>0, <1>1, <2>1, IdleFacts DEF Removing
    <2>3. entry[own].payload = "bin"
        <3>1. ~ Hollow(own)
            BY <1>6, <2>2 DEF IInv, HollowKnown
        <3>2. entry[own].payload \in {"none", "tmp", "bin"}
            BY <1>0 DEF EntryRecord
        <3>3. QED BY <1>0, <1>2, <3>1, <3>2 DEF Hollow
    <2>4. QED BY <1>4, <2>2, <2>3 DEF Kept
<1>7. TypeOK'
    BY <1>0, <1>1, <1>2, <1>3, <1>4, <1>5, TypeNext
<1>8. ItsOwn(Start, own, file)
    BY <1>1, <1>2, <1>3, <1>4 DEF ItsOwn
<1>9. GoesOn(Start, own, file)
    BY <1>0, <1>1 DEF GoesOn, Quarantining, Holding
<1>11. TouchesEntry(Start, own, file)
    BY <1>0, <1>2, <1>4 DEF TouchesEntry, Quarantining, Holding
<1>12. TouchesFile(Start, own, file)
    BY <1>1, <1>2, <1>3, <1>10 DEF TouchesFile
<1>13. KeepsContent(Start, own, file)
    BY <1>1, <1>2, <1>6 DEF KeepsContent
<1>14. LeavesNothingHollow(Start, own, file)
    BY <1>2, <1>4 DEF LeavesNothingHollow, Hollow
<1>15. LeavesNothingHidden(Start, own, file)
    BY <1>5 DEF LeavesNothingHidden, Hidden
<1>16. QED BY <1>7, <1>8, <1>9, <1>11, <1>12, <1>13, <1>14, <1>15 DEF Works

LEMMA SettlesWork ==
    ASSUME IInv, NEW own \in Entry, NEW file \in File, op[Start].at = "settle",
           op[Start].entry = own, entry[own].file = file,
           \/ DiscardPartial(own) \/ LeaveEntry(own) \/ FinishDelete(own)
           \/ FinishDeleteFails(own) \/ DropStale(own) \/ AssumeDeleted(own)
           \/ FinishRestore(own) \/ TakeBackRestore(own)
    PROVE  Works(Start, own, file)
<1>0. count \in CountRecord /\ op[Start] # Idle
    BY TypeFacts, IdleFacts DEF IInv
<1>1. CASE DiscardPartial(own)
    BY <1>1, StartRemoves DEF DiscardPartial, Unchanged
<1>2. CASE LeaveEntry(own)
    BY <1>0, <1>2, StartLeaves DEF LeaveEntry, Settling, Hidden, Unchanged
<1>3. CASE FinishDelete(own)
    BY <1>3, FinishDeleteWorks
<1>4. CASE FinishDeleteFails(own)
    <2>1. count' \in CountRecord /\ count'.faults # 0
        BY <1>0, <1>4, FaultFacts DEF FinishDeleteFails
    <2>2. QED BY <1>4, <2>1, StartLeaves DEF FinishDeleteFails, Unchanged
<1>5. CASE DropStale(own)
    <2>1. file \in discarded
        BY <1>5 DEF DropStale, IInv, ChangedGivenUp
    <2>2. QED BY <1>5, <2>1, StartRemoves DEF DropStale, Unchanged
<1>6. CASE AssumeDeleted(own)
    <2>1. count' \in CountRecord /\ (count'.faults = 0 => count.faults = 0)
        BY <1>0, <1>6, FaultFacts DEF AssumeDeleted
    <2>2. QED BY <1>6, <2>1, StartCompletes DEF AssumeDeleted, Settling, Unchanged
<1>7. CASE FinishRestore(own)
    BY <1>7, StartRemoves DEF FinishRestore, Unchanged
<1>8. CASE TakeBackRestore(own)
    <2>1. /\ entry[own].record # "none" /\ End(Start) /\ at' = at /\ waiting' = waiting
          /\ discarded' = discarded /\ torn' = torn
          /\ \/ SetEntry(own, "record", "Complete") /\ count' = count
             \/ Fault /\ entry' = entry
        BY <1>8 DEF TakeBackRestore, Settling, Unchanged
    <2>2. CASE SetEntry(own, "record", "Complete") /\ count' = count
        BY <1>0, <2>1, <2>2, StartCompletes
    <2>3. CASE Fault /\ entry' = entry
        <3>1. count' \in CountRecord /\ count'.faults # 0
            BY <1>0, <2>3, FaultFacts
        <3>2. QED BY <2>1, <2>3, <3>1, StartLeaves
    <2>4. QED BY <2>1, <2>2, <2>3
<1>9. QED BY <1>1, <1>2, <1>3, <1>4, <1>5, <1>6, <1>7, <1>8

-----------------------------------------------------------------------------
(* A command or the start takes up an entry *)

\* An operation begins and the others stay where they are.
LEMMA BeginFacts ==
    ASSUME op \in [Thread \cup {Start} -> OpRecord], NEW t \in Thread \cup {Start},
           NEW e \in Entry, NEW place \in At,
           op' = [op EXCEPT ![t] = [at |-> place, entry |-> e]]
    PROVE  /\ op' \in [Thread \cup {Start} -> OpRecord]
           /\ op'[t].at = place /\ op'[t].entry = e
           /\ \A u \in Thread \cup {Start} : u # t => op'[u] = op[u]
BY DEF OpRecord

\* Nobody works on an entry that was not used.
LEMMA UnusedUntouched ==
    ASSUME TypeOK, FilesNamed, NEW e \in Entry, entry[e] = NoEntry
    PROVE  \A u \in Thread \cup {Start} : op[u].entry # e
BY WorkersHave, IdleFacts, QuarantineAssumption DEF FilesNamed, FileOf

\* The entry of a new quarantine is nobody else's, and its file is not held.
LEMMA QuarantineKeeps ==
    ASSUME IInv, NEW t \in Thread, NEW e \in Entry, NEW f \in File, Quarantine(t, e, f)
    PROVE  IInv'
<1>0. /\ at \in [File -> Content] /\ entry \in [Entry -> EntryRecord]
      /\ op \in [Thread \cup {Start} -> OpRecord] /\ count \in CountRecord
      /\ waiting \subseteq Entry /\ discarded \subseteq File /\ torn \subseteq File
      /\ Start \in Thread \cup {Start} /\ Start \notin Thread
    BY TypeFacts, QuarantineAssumption DEF IInv
<1>1. /\ op' \in [Thread \cup {Start} -> OpRecord]
      /\ op'[t].at = "copy" /\ op'[t].entry = e
      /\ \A u \in Thread \cup {Start} : u # t => op'[u] = op[u]
    BY <1>0, BeginFacts DEF Quarantine, At
<1>2. /\ Up /\ op[t] = Idle /\ entry[e] = NoEntry /\ ~ Held(f)
      /\ at' = at /\ count' = count /\ waiting' = waiting /\ discarded' = discarded
      /\ torn' = torn /\ entry[e].file = None /\ entry[e].payload = "none"
      /\ op[t].at = "idle"
    BY IdleFacts DEF Quarantine, Unchanged
<1>3. /\ entry' \in [Entry -> EntryRecord]
      /\ \A x \in Entry : x # e => entry'[x] = entry[x]
      /\ entry'[e].file = f /\ entry'[e].payload = "none" /\ entry'[e].record = "none"
    BY <1>0, IdleFacts DEF Quarantine, EntryRecord, NoEntry
<1>4. \A u \in Thread \cup {Start} : op[u].entry # e
    BY <1>2, UnusedUntouched DEF IInv
<1>5. \A u \in Thread \cup {Start} : op[u].at # "idle" =>
          /\ u # t /\ op'[u] = op[u] /\ op[u].entry \in Entry /\ FileOf(u) \in File
          /\ entry'[op'[u].entry] = entry[op[u].entry] /\ FileOf(u)' = FileOf(u)
    BY <1>1, <1>2, <1>3, <1>4, WorkersHave DEF IInv, FileOf
<1>6. FileOf(t)' = f
    BY <1>1, <1>3 DEF FileOf
<1>7. TypeOK'
    BY <1>0, <1>1, <1>2, <1>3, TypeNext
<1>8. FilesNamed'
    <2>1. \A x \in Entry : entry'[x].dir \/ entry'[x].payload # "none" \/ entry'[x].record # "none"
              => entry'[x].file \in File
        BY <1>3 DEF IInv, FilesNamed
    <2>2. \A x \in waiting' : entry'[x].file \in File
        BY <1>0, <1>2, <1>3 DEF IInv, FilesNamed
    <2>3. ASSUME NEW u \in Thread \cup {Start}
          PROVE  IF op'[u].at = "idle" THEN op'[u] = Idle
                 ELSE op'[u].entry \in Entry /\ FileOf(u)' \in File
        <3>1. CASE u = t
            BY <1>1, <1>6, <3>1
        <3>2. CASE u # t
            BY <1>1, <1>5, <3>2 DEF IInv, FilesNamed
        <3>3. QED BY <3>1, <3>2
    <2>4. QED BY <2>1, <2>2, <2>3 DEF FilesNamed
<1>9. StartAlone'
    BY <1>0, <1>1, <1>2 DEF IInv, StartAlone, Up
<1>10. OneHolder'
    <2>1. ASSUME NEW u \in Thread, u # t, op'[u].at \in Holding
          PROVE  op[u].at \in Holding /\ FileOf(u)' = FileOf(u) /\ FileOf(u) # f
        <3>1. op[u] = op'[u] /\ op[u].at # "idle"
            BY <1>1, <2>1 DEF Holding
        <3>2. FileOf(u)' = FileOf(u)
            BY <1>5, <3>1
        <3>3. FileOf(u) # f
            BY <1>2, <2>1, <3>1 DEF Held, FileOf
        <3>4. QED BY <2>1, <3>1, <3>2, <3>3
    <2>2. QED BY <1>6, <2>1 DEF IInv, OneHolder
<1>11. EntryIsOwn'
    <2>1. ASSUME NEW u \in Thread, NEW v \in Thread, u # v,
                 op'[u].at \in Quarantining, op'[v].entry = op'[u].entry
          PROVE  op'[v].at = "remove" /\ FileOf(u)' \in discarded'
        <3>1. u # t
            BY <1>1, <1>4, <2>1
        <3>2. op'[u] = op[u] /\ op[u].at # "idle" /\ FileOf(u)' = FileOf(u)
            BY <1>1, <1>5, <2>1, <3>1 DEF Quarantining, Holding
        <3>3. v # t /\ op'[v] = op[v]
            BY <1>1, <1>4, <2>1, <3>2
        <3>4. QED BY <1>2, <2>1, <3>2, <3>3 DEF IInv, EntryIsOwn
    <2>2. QED BY <2>1 DEF EntryIsOwn
<1>12. EntriesInStep'
    <2>1. InStep(t)'
        BY <1>1, <1>3 DEF InStep, Restoring
    <2>2. ASSUME NEW u \in Thread, u # t PROVE InStep(u)'
        <3>1. op'[u] = op[u] /\ InStep(u)
            BY <1>1, <2>2 DEF IInv, EntriesInStep
        <3>2. CASE op[u].at = "idle"
            BY <3>1, <3>2 DEF InStep, Restoring
        <3>3. CASE op[u].at # "idle"
            BY <1>2, <1>5, <3>1, <3>3 DEF InStep
        <3>4. QED BY <3>2, <3>3
    <2>3. QED BY <2>1, <2>2 DEF EntriesInStep
<1>13. TemporaryUnrecorded' /\ ChangedGivenUp'
    BY <1>2, <1>3 DEF IInv, TemporaryUnrecorded, ChangedGivenUp
<1>14. SourceWhole'
    BY <1>1, <1>2, <1>5 DEF IInv, SourceWhole
<1>15. WritesItsOwn'
    <2>1. \A u \in Thread : op'[u].at = "write" => op[u].at = "write" /\ FileOf(u)' = FileOf(u)
        BY <1>1, <1>5
    <2>2. QED BY <1>2, <2>1 DEF IInv, WritesItsOwn
<1>16. \A x \in Entry, u \in Thread \cup {Start} : Removing(u, x)' <=> Removing(u, x)
    BY <1>1, <1>2 DEF Removing
<1>17. HollowKnown'
    BY <1>2, <1>3, <1>16 DEF IInv, HollowKnown, Hollow
<1>18. ContentKept'
    <2>1. ASSUME NEW g \in File, Kept(g) PROVE Kept(g)'
        BY <1>2, <1>3, <1>16, <2>1 DEF Kept
    <2>2. QED BY <1>2, <2>1 DEF IInv, ContentKept, Same
<1>19. HiddenTaken'
    BY <1>1, <1>2, <1>3, <1>4, IdleFacts, QuarantineAssumption DEF IInv, HiddenTaken, Hidden
<1>20. QED
    BY <1>7, <1>8, <1>9, <1>10, <1>11, <1>12, <1>13, <1>14, <1>15, <1>17, <1>18, <1>19 DEF IInv

\* A restore takes a complete entry, which no quarantine has.
LEMMA RestoreKeeps ==
    ASSUME IInv, NEW t \in Thread, NEW e \in Entry, Restore(t, e)
    PROVE  IInv'
<1>0. /\ at \in [File -> Content] /\ entry \in [Entry -> EntryRecord]
      /\ op \in [Thread \cup {Start} -> OpRecord] /\ count \in CountRecord
      /\ waiting \subseteq Entry /\ discarded \subseteq File /\ torn \subseteq File
      /\ Start \in Thread \cup {Start} /\ Start \notin Thread
    BY TypeFacts, QuarantineAssumption DEF IInv
<1>1. /\ op' \in [Thread \cup {Start} -> OpRecord]
      /\ op'[t].at = "begin" /\ op'[t].entry = e
      /\ \A u \in Thread \cup {Start} : u # t => op'[u] = op[u]
    BY <1>0, BeginFacts DEF Restore, At
<1>2. /\ Up /\ op[t].at = "idle" /\ op[t].entry = None
      /\ entry[e].record = "Complete" /\ entry[e].payload = "bin"
      /\ at' = at /\ entry' = entry /\ count' = count /\ waiting' = waiting
      /\ discarded' = discarded /\ torn' = torn
    BY IdleFacts DEF Restore, Unchanged
<1>3. entry[e].file \in File
    BY <1>2 DEF IInv, FilesNamed
<1>4. \A u \in Thread : op[u].at \in Quarantining => op[u].entry # e
    BY <1>2 DEF IInv, EntriesInStep, InStep, Quarantining, Holding
<1>5. \A u \in Thread \cup {Start} : u # t => FileOf(u)' = FileOf(u)
    BY <1>1, <1>2 DEF FileOf
<1>6. TypeOK'
    BY <1>0, <1>1, <1>2, TypeNext
<1>7. FilesNamed'
    <2>1. FileOf(t)' \in File
        BY <1>1, <1>2, <1>3 DEF FileOf
    <2>2. ASSUME NEW u \in Thread \cup {Start}
          PROVE  IF op'[u].at = "idle" THEN op'[u] = Idle
                 ELSE op'[u].entry \in Entry /\ FileOf(u)' \in File
        BY <1>1, <1>5, <2>1 DEF IInv, FilesNamed
    <2>3. QED BY <1>2, <2>2 DEF IInv, FilesNamed
<1>8. StartAlone'
    BY <1>0, <1>1, <1>2 DEF IInv, StartAlone, Up
<1>9. OneHolder'
    <2>1. \A u \in Thread : op'[u].at \in Holding => u # t /\ op[u].at \in Holding
        BY <1>1 DEF Holding
    <2>2. QED BY <1>5, <2>1 DEF IInv, OneHolder
<1>10. EntryIsOwn'
    <2>1. ASSUME NEW u \in Thread, NEW v \in Thread, u # v,
                 op'[u].at \in Quarantining, op'[v].entry = op'[u].entry
          PROVE  op'[v].at = "remove" /\ FileOf(u)' \in discarded'
        <3>1. u # t /\ op'[u] = op[u]
            BY <1>1, <2>1 DEF Quarantining, Holding
        <3>2. v # t /\ op'[v] = op[v]
            BY <1>1, <1>4, <2>1, <3>1
        <3>3. QED BY <1>2, <1>5, <2>1, <3>1, <3>2 DEF IInv, EntryIsOwn
    <2>2. QED BY <2>1 DEF EntryIsOwn
<1>11. EntriesInStep'
    <2>1. InStep(t)'
        BY <1>1, <1>2 DEF InStep, Restoring
    <2>2. ASSUME NEW u \in Thread, u # t PROVE InStep(u)'
        BY <1>1, <1>2, <2>2 DEF IInv, EntriesInStep, InStep
    <2>3. QED BY <2>1, <2>2 DEF EntriesInStep
<1>12. TemporaryUnrecorded' /\ ChangedGivenUp'
    BY <1>2 DEF IInv, TemporaryUnrecorded, ChangedGivenUp
<1>13. SourceWhole'
    BY <1>1, <1>2, <1>5 DEF IInv, SourceWhole
<1>14. WritesItsOwn'
    <2>1. \A u \in Thread : op'[u].at = "write" => op[u].at = "write" /\ FileOf(u)' = FileOf(u)
        BY <1>1, <1>5
    <2>2. QED BY <1>2, <2>1 DEF IInv, WritesItsOwn
<1>15. \A x \in Entry, u \in Thread \cup {Start} : Removing(u, x)' <=> Removing(u, x)
    BY <1>1, <1>2 DEF Removing
<1>16. HollowKnown' /\ ContentKept'
    BY <1>2, <1>15 DEF IInv, HollowKnown, Hollow, ContentKept, Kept, Same
<1>17. HiddenTaken'
    BY <1>1, <1>2, QuarantineAssumption DEF IInv, HiddenTaken, Hidden
<1>18. QED
    BY <1>6, <1>7, <1>8, <1>9, <1>10, <1>11, <1>12, <1>13, <1>14, <1>16, <1>17 DEF IInv

\* Deleting an entry gives its content up.
LEMMA DeleteKeeps ==
    ASSUME IInv, NEW t \in Thread, NEW e \in Entry, Delete(t, e)
    PROVE  IInv'
<1>0. /\ at \in [File -> Content] /\ entry \in [Entry -> EntryRecord]
      /\ op \in [Thread \cup {Start} -> OpRecord] /\ count \in CountRecord
      /\ waiting \subseteq Entry /\ discarded \subseteq File /\ torn \subseteq File
      /\ Start \in Thread \cup {Start} /\ Start \notin Thread
    BY TypeFacts, QuarantineAssumption DEF IInv
<1>1. /\ op' \in [Thread \cup {Start} -> OpRecord]
      /\ op'[t].at = "remove" /\ op'[t].entry = e
      /\ \A u \in Thread \cup {Start} : u # t => op'[u] = op[u]
    BY <1>0, BeginFacts DEF Delete, At
<1>2. /\ Up /\ op[t].at = "idle" /\ op[t].entry = None /\ entry[e].dir
      /\ at' = at /\ entry' = entry /\ count' = count /\ waiting' = waiting
      /\ torn' = torn
    BY IdleFacts DEF Delete
<1>3. /\ entry[e].file \in File /\ discarded' = discarded \cup {entry[e].file}
      /\ discarded' \subseteq File
    BY <1>0, <1>2 DEF IInv, FilesNamed, Delete
<1>5. \A u \in Thread \cup {Start} : u # t => FileOf(u)' = FileOf(u)
    BY <1>1, <1>2 DEF FileOf
<1>6. TypeOK'
    BY <1>0, <1>1, <1>2, <1>3, TypeNext
<1>7. FilesNamed'
    <2>1. FileOf(t)' \in File
        BY <1>1, <1>2, <1>3 DEF FileOf
    <2>2. ASSUME NEW u \in Thread \cup {Start}
          PROVE  IF op'[u].at = "idle" THEN op'[u] = Idle
                 ELSE op'[u].entry \in Entry /\ FileOf(u)' \in File
        BY <1>1, <1>5, <2>1 DEF IInv, FilesNamed
    <2>3. QED BY <1>2, <2>2 DEF IInv, FilesNamed
<1>8. StartAlone'
    BY <1>0, <1>1, <1>2 DEF IInv, StartAlone, Up
<1>9. OneHolder'
    <2>1. \A u \in Thread : op'[u].at \in Holding => u # t /\ op[u].at \in Holding
        BY <1>1 DEF Holding
    <2>2. QED BY <1>5, <2>1 DEF IInv, OneHolder
<1>10. EntryIsOwn'
    <2>1. ASSUME NEW u \in Thread, NEW v \in Thread, u # v,
                 op'[u].at \in Quarantining, op'[v].entry = op'[u].entry
          PROVE  op'[v].at = "remove" /\ FileOf(u)' \in discarded'
        <3>1. u # t /\ op'[u] = op[u] /\ FileOf(u)' = FileOf(u)
            BY <1>1, <1>5, <2>1 DEF Quarantining, Holding
        <3>2. CASE v = t
            BY <1>1, <1>3, <2>1, <3>1, <3>2 DEF FileOf
        <3>3. CASE v # t
            BY <1>1, <1>3, <2>1, <3>1, <3>3 DEF IInv, EntryIsOwn
        <3>4. QED BY <3>2, <3>3
    <2>2. QED BY <2>1 DEF EntryIsOwn
<1>11. EntriesInStep'
    <2>1. InStep(t)'
        BY <1>1, <1>2 DEF InStep, Restoring
    <2>2. ASSUME NEW u \in Thread, u # t PROVE InStep(u)'
        BY <1>1, <1>2, <1>3, <2>2 DEF IInv, EntriesInStep, InStep
    <2>3. QED BY <2>1, <2>2 DEF EntriesInStep
<1>12. TemporaryUnrecorded' /\ ChangedGivenUp'
    BY <1>2, <1>3 DEF IInv, TemporaryUnrecorded, ChangedGivenUp
<1>13. SourceWhole'
    BY <1>1, <1>2, <1>5 DEF IInv, SourceWhole
<1>14. WritesItsOwn'
    <2>1. \A u \in Thread : op'[u].at = "write" => op[u].at = "write" /\ FileOf(u)' = FileOf(u)
        BY <1>1, <1>5
    <2>2. QED BY <1>2, <1>3, <2>1 DEF IInv, WritesItsOwn
<1>15. \A x \in Entry, u \in Thread \cup {Start} :
           /\ Removing(u, x) => Removing(u, x)'
           /\ Removing(u, x)' => Removing(u, x) \/ x = e
    BY <1>1, <1>2 DEF Removing
<1>16. HollowKnown'
    BY <1>2, <1>3, <1>15 DEF IInv, HollowKnown, Hollow
<1>17. ContentKept'
    <2>1. ASSUME NEW f \in File \ discarded', Kept(f) PROVE Kept(f)'
        BY <1>2, <1>3, <1>15, <2>1 DEF Kept
    <2>2. QED BY <1>2, <1>3, <2>1 DEF IInv, ContentKept, Same
<1>18. HiddenTaken'
    BY <1>1, <1>2, QuarantineAssumption DEF IInv, HiddenTaken, Hidden
<1>19. QED
    BY <1>6, <1>7, <1>8, <1>9, <1>10, <1>11, <1>12, <1>13, <1>14, <1>16, <1>17, <1>18 DEF IInv

\* The start takes up an entry it still had to look at, while no command runs.
LEMMA ReconcileNextKeeps ==
    ASSUME IInv, NEW e \in Entry, ReconcileNext(e)
    PROVE  IInv'
<1>0. /\ at \in [File -> Content] /\ entry \in [Entry -> EntryRecord]
      /\ op \in [Thread \cup {Start} -> OpRecord] /\ count \in CountRecord
      /\ waiting \subseteq Entry /\ discarded \subseteq File /\ torn \subseteq File
      /\ Start \in Thread \cup {Start} /\ Start \notin Thread
    BY TypeFacts, QuarantineAssumption DEF IInv
<1>1. /\ op' \in [Thread \cup {Start} -> OpRecord]
      /\ op'[Start].at = "settle" /\ op'[Start].entry = e
      /\ \A u \in Thread \cup {Start} : u # Start => op'[u] = op[u]
    BY <1>0, BeginFacts DEF ReconcileNext, At
<1>2. /\ op[Start].at = "idle" /\ op[Start].entry = None
      /\ e \in waiting /\ waiting' = waiting \ {e}
      /\ at' = at /\ entry' = entry /\ count' = count
      /\ discarded' = discarded /\ torn' = torn
    BY IdleFacts DEF ReconcileNext
<1>3. \A u \in Thread : op[u].at = "idle" /\ op'[u].at = "idle" /\ op'[u] = op[u] /\ op[u] = Idle
    BY <1>0, <1>1, <1>2 DEF IInv, StartAlone, Up, FilesNamed
<1>4. TypeOK'
    BY <1>0, <1>1, <1>2, TypeNext
<1>5. FilesNamed'
    <2>1. FileOf(Start)' \in File
        BY <1>1, <1>2 DEF IInv, FilesNamed, FileOf
    <2>2. ASSUME NEW u \in Thread \cup {Start}
          PROVE  IF op'[u].at = "idle" THEN op'[u] = Idle
                 ELSE op'[u].entry \in Entry /\ FileOf(u)' \in File
        BY <1>1, <1>3, <2>1
    <2>3. QED BY <1>2, <2>2 DEF IInv, FilesNamed
<1>6. StartAlone'
    BY <1>1, <1>3 DEF StartAlone
<1>7. OneHolder' /\ SourceWhole' /\ WritesItsOwn'
    BY <1>3 DEF OneHolder, Holding, SourceWhole, WritesItsOwn
<1>8. EntryIsOwn'
    BY <1>3 DEF EntryIsOwn, Quarantining, Holding
<1>9. EntriesInStep'
    BY <1>3 DEF EntriesInStep, InStep, Restoring
<1>10. TemporaryUnrecorded' /\ ChangedGivenUp'
    BY <1>2 DEF IInv, TemporaryUnrecorded, ChangedGivenUp
<1>11. \A x \in Entry, u \in Thread \cup {Start} : Removing(u, x)' <=> Removing(u, x)
    BY <1>1, <1>2 DEF Removing
<1>12. HollowKnown' /\ ContentKept'
    BY <1>2, <1>11 DEF IInv, HollowKnown, Hollow, ContentKept, Kept, Same
<1>13. HiddenTaken'
    <2>1. ASSUME count.faults = 0, NEW x \in Entry, Hidden(x)
          PROVE  x \in waiting' \/ \E u \in Thread \cup {Start} : op'[u].entry = x
        <3>1. CASE x = e
            BY <1>1, <3>1
        <3>2. CASE x # e
            BY <1>1, <1>2, <2>1, <3>2, QuarantineAssumption DEF IInv, HiddenTaken
        <3>3. QED BY <3>1, <3>2
    <2>2. QED BY <1>2, <2>1 DEF HiddenTaken, Hidden
<1>14. QED
    BY <1>4, <1>5, <1>6, <1>7, <1>8, <1>9, <1>10, <1>12, <1>13 DEF IInv

-----------------------------------------------------------------------------
(* The death of the program, and users *)

\* Every operation is cut off; the next start looks at every entry that has a directory.
LEMMA CrashKeeps ==
    ASSUME IInv, Crash
    PROVE  IInv'
<1>0. /\ at \in [File -> Content] /\ entry \in [Entry -> EntryRecord]
      /\ op \in [Thread \cup {Start} -> OpRecord] /\ count \in CountRecord
      /\ waiting \subseteq Entry /\ discarded \subseteq File /\ torn \subseteq File
    BY TypeFacts DEF IInv
<1>1. /\ at' = at /\ entry' = entry /\ discarded' = discarded /\ torn \subseteq torn'
      /\ waiting' = {e \in Entry : entry[e].dir}
      /\ \A t \in Thread \cup {Start} : op'[t] = Idle /\ op'[t].at = "idle"
    BY IdleFacts DEF Crash
<1>2. \A e \in Entry : Hollow(e) => entry[e].file \in torn'
    BY DEF Crash
<1>3. torn' \subseteq File
    <2>1. \A e \in Entry : Hollow(e) => entry[e].file \in File
        BY DEF IInv, FilesNamed, Hollow
    <2>2. QED BY <1>0, <2>1 DEF Crash
<1>4. op' \in [Thread \cup {Start} -> OpRecord]
    BY IdleFacts DEF Crash
<1>5. count' \in CountRecord /\ count'.faults = count.faults
    BY <1>0, QuarantineAssumption DEF Crash, CountRecord
<1>6. TypeOK'
    BY <1>0, <1>1, <1>3, <1>4, <1>5, TypeNext
<1>7. FilesNamed'
    <2>1. \A e \in waiting' : entry'[e].file \in File
        BY <1>1 DEF IInv, FilesNamed
    <2>2. \A t \in Thread \cup {Start} :
              IF op'[t].at = "idle" THEN op'[t] = Idle
              ELSE op'[t].entry \in Entry /\ FileOf(t)' \in File
        BY <1>1
    <2>3. QED BY <1>1, <2>1, <2>2 DEF IInv, FilesNamed
<1>8. StartAlone' /\ OneHolder' /\ SourceWhole' /\ WritesItsOwn'
    BY <1>1 DEF StartAlone, OneHolder, Holding, SourceWhole, WritesItsOwn
<1>9. EntryIsOwn' /\ EntriesInStep'
    BY <1>1 DEF EntryIsOwn, Quarantining, Holding, EntriesInStep, InStep, Restoring
<1>10. TemporaryUnrecorded' /\ ChangedGivenUp'
    BY <1>1 DEF IInv, TemporaryUnrecorded, ChangedGivenUp
<1>11. HollowKnown'
    BY <1>1, <1>2 DEF HollowKnown, Hollow
<1>12. ContentKept'
    <2>1. \A t \in Thread \cup {Start}, e \in Entry : ~ Removing(t, e)'
        BY <1>1 DEF Removing
    <2>2. QED BY <1>1, <2>1 DEF IInv, ContentKept, Kept, Same
<1>13. HiddenTaken'
    BY <1>1 DEF HiddenTaken, Hidden
<1>14. QED
    BY <1>6, <1>7, <1>8, <1>9, <1>10, <1>11, <1>12, <1>13 DEF IInv

\* What a user does to a file that is not held: content that was scanned, or that a
\* restore is writing, is given up with it.
LEMMA EditKeeps ==
    ASSUME IInv, NEW f \in File, NEW what \in {"gone", "edited", "new"}, Edit(f, what),
           discarded' \in {discarded, discarded \cup {f}},
           at[f] \in {"whole", "copy", "partial"} \/ what = "edited" => f \in discarded'
    PROVE  IInv'
<1>0. /\ at \in [File -> Content] /\ entry \in [Entry -> EntryRecord]
      /\ op \in [Thread \cup {Start} -> OpRecord] /\ count \in CountRecord
      /\ waiting \subseteq Entry /\ discarded \subseteq File /\ torn \subseteq File
    BY TypeFacts DEF IInv
<1>1. /\ entry' = entry /\ op' = op /\ waiting' = waiting /\ torn' = torn
      /\ discarded \subseteq discarded' /\ discarded' \subseteq File /\ ~ Held(f)
    BY <1>0 DEF Edit
<1>2. /\ at' \in [File -> Content] /\ at'[f] = what
      /\ \A g \in File : g # f => at'[g] = at[g]
    BY <1>0 DEF Edit, Content
<1>3. count' \in CountRecord /\ count'.faults = count.faults
    BY <1>0, QuarantineAssumption DEF Edit, CountRecord
<1>4. TypeOK'
    BY <1>0, <1>1, <1>2, <1>3, TypeNext
<1>5. FilesNamed' /\ StartAlone' /\ OneHolder' /\ TemporaryUnrecorded' /\ HiddenTaken'
    BY <1>1, <1>3
    DEF IInv, FilesNamed, StartAlone, OneHolder, TemporaryUnrecorded, HiddenTaken, Hidden,
        FileOf, Up
<1>6. EntryIsOwn' /\ HollowKnown'
    BY <1>1 DEF IInv, EntryIsOwn, HollowKnown, Hollow, Removing, FileOf
<1>7. EntriesInStep'
    BY <1>1 DEF IInv, EntriesInStep, InStep
<1>8. \A t \in Thread : op[t].at # "idle" => FileOf(t) \in File /\ FileOf(t)' = FileOf(t)
    BY <1>1 DEF IInv, FilesNamed, FileOf
<1>9. SourceWhole'
    <2>1. \A t \in Thread : op[t].at \in {"publish", "pending", "delete"} => FileOf(t) # f
        BY <1>1 DEF Held, Holding, FileOf
    <2>2. QED BY <1>1, <1>2, <1>8, <2>1 DEF IInv, SourceWhole
<1>10. WritesItsOwn'
    <2>1. ASSUME NEW t \in Thread, op[t].at = "write"
          PROVE  /\ at'[FileOf(t)] # "whole"
                 /\ FileOf(t) \notin discarded' =>
                        /\ at'[FileOf(t)] = "partial"
                        /\ \A u \in Thread : op[u].at = "write" /\ FileOf(u) = FileOf(t) => u = t
        <3>1. CASE FileOf(t) = f
            BY <1>1, <1>2, <2>1, <3>1 DEF IInv, WritesItsOwn
        <3>2. CASE FileOf(t) # f
            BY <1>1, <1>2, <1>8, <2>1, <3>2 DEF IInv, WritesItsOwn
        <3>3. QED BY <3>1, <3>2
    <2>2. \A t \in Thread : op'[t].at = "write" => op[t].at = "write" /\ FileOf(t)' = FileOf(t)
        BY <1>1, <1>8
    <2>3. QED BY <2>1, <2>2 DEF WritesItsOwn
<1>11. ChangedGivenUp'
    BY <1>1, <1>2 DEF IInv, ChangedGivenUp
<1>12. ContentKept'
    <2>1. \A g \in File : Kept(g)' <=> Kept(g)
        BY <1>1 DEF Kept, Removing
    <2>2. \A g \in File \ discarded' : Same(g) => Same(g)'
        BY <1>2 DEF Same
    <2>3. QED BY <1>1, <2>1, <2>2 DEF IInv, ContentKept
<1>13. QED BY <1>4, <1>5, <1>6, <1>7, <1>9, <1>10, <1>11, <1>12 DEF IInv

LEMMA UserKeeps ==
    ASSUME IInv, User
    PROVE  IInv'
<1>1. PICK f \in File : UserChanges(f) \/ UserDeletes(f) \/ UserCreates(f)
    BY DEF User
<1>2. CASE UserChanges(f)
    BY <1>2, EditKeeps DEF UserChanges
<1>3. CASE UserDeletes(f)
    BY <1>3, EditKeeps DEF UserDeletes
<1>4. CASE UserCreates(f)
    BY <1>4, EditKeeps DEF UserCreates
<1>5. QED BY <1>1, <1>2, <1>3, <1>4

-----------------------------------------------------------------------------
(* Every step keeps the invariant *)

LEMMA StepsKeep ==
    ASSUME IInv, NEW t \in Thread, Quarantines(t) \/ Restores(t)
    PROVE  IInv'
<1>1. op[t].at # "idle"
    BY DEF Quarantines, Restores, CopySource, CopyRefused, Publish, PublishFails, RecordPending,
           DeleteSource, DeleteSourceFails, RecordComplete, RecordRestoring, CreateTarget,
           WriteTarget, WriteTargetFails, RecordRestored
<1>2. op[t].entry \in Entry /\ FileOf(t) \in File
    BY <1>1, WorkersHave DEF IInv
<1>3. PICK own \in Entry : op[t].entry = own
    BY <1>2
<1>4. PICK file \in File : entry[own].file = file
    BY <1>2, <1>3 DEF FileOf
<1>5. Works(t, own, file)
    <2>1. CASE Quarantines(t)
        BY <1>3, <1>4, <2>1, CopySourceWorks, CopyRefusedWorks, PublishWorks, PublishFailsWorks,
           RecordPendingWorks, DeleteSourceWorks, DeleteSourceFailsWorks, RecordCompleteWorks
        DEF Quarantines
    <2>2. CASE Restores(t)
        BY <1>3, <1>4, <2>2, RecordRestoringWorks, CreateTargetWorks, WriteTargetWorks,
           WriteTargetFailsWorks, RecordRestoredWorks
        DEF Restores
    <2>3. QED BY <2>1, <2>2
<1>6. QED BY <1>5, WorkKeeps

LEMMA RemovesKeep ==
    ASSUME IInv, NEW t \in Thread \cup {Start}, Removes(t)
    PROVE  IInv'
<1>1. op[t].at = "remove"
    BY DEF Removes, RemovePiece, RemoveDirectory, RemovalStops
<1>2. op[t].entry \in Entry /\ FileOf(t) \in File
    BY <1>1, WorkersHave DEF IInv
<1>3. PICK own \in Entry : op[t].entry = own
    BY <1>2
<1>4. PICK file \in File : entry[own].file = file
    BY <1>2, <1>3 DEF FileOf
<1>5. Works(t, own, file)
    BY <1>3, <1>4, RemovePieceWorks, RemoveDirectoryWorks, RemovalStopsWorks DEF Removes
<1>6. QED BY <1>5, WorkKeeps

LEMMA SettlesKeep ==
    ASSUME IInv, NEW e \in Entry, Settles(e)
    PROVE  IInv'
<1>1. CASE ReconcileNext(e)
    BY <1>1, ReconcileNextKeeps
<1>2. CASE ~ ReconcileNext(e)
    <2>1. /\ \/ DiscardPartial(e) \/ LeaveEntry(e) \/ FinishDelete(e)
             \/ FinishDeleteFails(e) \/ DropStale(e) \/ AssumeDeleted(e)
             \/ FinishRestore(e) \/ TakeBackRestore(e)
          /\ op[Start] = [at |-> "settle", entry |-> e]
        BY <1>2 DEF Settles, DiscardPartial, LeaveEntry, FinishDelete, FinishDeleteFails,
                    DropStale, AssumeDeleted, FinishRestore, TakeBackRestore, Settling
    <2>2. op[Start].at = "settle" /\ op[Start].entry = e
        BY <2>1
    <2>3. FileOf(Start) \in File
        BY <2>2, WorkersHave DEF IInv
    <2>4. PICK file \in File : entry[e].file = file
        BY <2>2, <2>3 DEF FileOf
    <2>5. Works(Start, e, file)
        BY <2>1, <2>2, <2>4, SettlesWork
    <2>6. QED BY <2>5, WorkKeeps
<1>3. QED BY <1>1, <1>2

LEMMA InvInit == Init => IInv
<1> SUFFICES ASSUME Init PROVE IInv
    OBVIOUS
<1>1. /\ \A t \in Thread \cup {Start} : op[t] = Idle /\ op[t].at = "idle"
      /\ \A e \in Entry : /\ entry[e] = NoEntry /\ entry[e].file = None /\ ~ entry[e].dir
                          /\ entry[e].payload = "none" /\ entry[e].record = "none"
      /\ \A f \in File : at[f] = "whole"
      /\ waiting = {} /\ discarded = {} /\ torn = {}
    BY IdleFacts DEF Init
<1>2. TypeOK
    BY IdleFacts, QuarantineAssumption DEF Init, TypeOK, Content, EntryRecord, OpRecord
<1>3. FilesNamed /\ StartAlone /\ OneHolder /\ SourceWhole /\ WritesItsOwn
    BY <1>1 DEF FilesNamed, StartAlone, OneHolder, Holding, SourceWhole, WritesItsOwn
<1>4. EntryIsOwn /\ EntriesInStep
    BY <1>1 DEF EntryIsOwn, Quarantining, Holding, EntriesInStep, InStep, Restoring
<1>5. TemporaryUnrecorded /\ ChangedGivenUp /\ HollowKnown /\ HiddenTaken
    BY <1>1 DEF TemporaryUnrecorded, ChangedGivenUp, HollowKnown, Hollow, HiddenTaken, Hidden
<1>6. ContentKept
    BY <1>1 DEF ContentKept, Same
<1>7. QED BY <1>2, <1>3, <1>4, <1>5, <1>6 DEF IInv

LEMMA InvNext == IInv /\ [Next]_vars => IInv'
<1> SUFFICES ASSUME IInv, [Next]_vars PROVE IInv'
    OBVIOUS
<1>1. ASSUME NEW t \in Thread, NEW e \in Entry,
             (\E f \in File : Quarantine(t, e, f)) \/ Restore(t, e) \/ Delete(t, e)
      PROVE  IInv'
    BY <1>1, QuarantineKeeps, RestoreKeeps, DeleteKeeps
<1>2. ASSUME NEW t \in Thread, Quarantines(t) \/ Restores(t) PROVE IInv'
    BY <1>2, StepsKeep
<1>3. ASSUME NEW t \in Thread \cup {Start}, Removes(t) PROVE IInv'
    BY <1>3, RemovesKeep
<1>4. ASSUME NEW e \in Entry, Settles(e) PROVE IInv'
    BY <1>4, SettlesKeep
<1>5. CASE User \/ Crash
    BY <1>5, UserKeeps, CrashKeeps
<1>6. CASE UNCHANGED vars
    <2>1. TypeOK' /\ FilesNamed' /\ StartAlone'
        BY <1>6 DEF vars, IInv, TypeOK, FilesNamed, StartAlone, FileOf, Up
    <2>2. OneHolder' /\ EntryIsOwn' /\ EntriesInStep'
        BY <1>6 DEF vars, IInv, OneHolder, EntryIsOwn, EntriesInStep, InStep, FileOf
    <2>3. TemporaryUnrecorded' /\ SourceWhole' /\ WritesItsOwn' /\ ChangedGivenUp'
        BY <1>6 DEF vars, IInv, TemporaryUnrecorded, SourceWhole, WritesItsOwn, ChangedGivenUp,
                    FileOf
    <2>4. HollowKnown'
        BY <1>6 DEF vars, IInv, HollowKnown, Hollow, Removing
    <2>5. ContentKept'
        BY <1>6 DEF vars, IInv, ContentKept, Kept, Same, Removing
    <2>6. HiddenTaken'
        BY <1>6 DEF vars, IInv, HiddenTaken, Hidden
    <2>7. QED BY <2>1, <2>2, <2>3, <2>4, <2>5, <2>6 DEF IInv
<1>7. QED BY <1>1, <1>2, <1>3, <1>4, <1>5, <1>6 DEF Next

LEMMA InvHolds == Spec => []IInv
BY InvInit, InvNext, PTL DEF Spec

-----------------------------------------------------------------------------
(* Theorems *)

\* Every state of the quarantine (QuarantineStore in protection/quarantine.rs) has its type.
THEOREM TypeCorrect == Spec => []TypeOK
<1>1. IInv => TypeOK
    BY DEF IInv
<1>2. QED BY <1>1, InvHolds, PTL

\* The content of a scanned file is at its path or whole in an entry, whatever commands run
\* at the same time, fail or are cut off by the death of the program, and whatever the
\* start makes of what it finds, unless a user gave it up or the removal of an aborted
\* entry stopped half-way (quarantine_file, restore, delete and reconcile).
THEOREM ContentIsKept == Spec => []ContentSurvives
<1>1. IInv => ContentSurvives
    BY DEF IInv, ContentKept, Kept, ContentSurvives, Stored
<1>2. QED BY <1>1, InvHolds, PTL

\* Once the start is over, an entry that list does not show is one that a command works on,
\* unless a system call failed: no death of the program leaves one behind.
THEOREM HiddenIsTaken == Spec => []HiddenIsAtWork
<1>1. IInv => HiddenIsAtWork
    <2> SUFFICES ASSUME IInv, NEW e \in Entry, Hidden(e), Up, count.faults = 0
                 PROVE  \E t \in Thread : op[t].entry = e
        BY DEF HiddenIsAtWork
    <2>1. op[Start].entry # e
        BY IdleFacts, QuarantineAssumption DEF Up
    <2>2. QED BY <2>1 DEF IInv, HiddenTaken, Up
<1>2. QED BY <1>1, InvHolds, PTL

\* No step of the program takes away what a user changed or created at a path, but for the
\* removal, by its path, of what a failed restore wrote there.
LEMMA UsersStep ==
    ASSUME IInv, Next, NEW f \in File, at[f] \in {"edited", "new"}, at'[f] # at[f]
    PROVE  \/ count'.edits > count.edits
           \/ \E t \in Thread : op[t].at = "write" /\ FileOf(t) = f
<1>0. at \in [File -> Content] /\ count \in CountRecord
    BY TypeFacts DEF IInv
<1>1. ASSUME NEW t \in Thread, NEW e \in Entry,
             (\E g \in File : Quarantine(t, e, g)) \/ Restore(t, e) \/ Delete(t, e)
      PROVE  FALSE
    BY <1>1 DEF Quarantine, Restore, Delete, Unchanged
<1>2. ASSUME NEW t \in Thread, Quarantines(t) PROVE FALSE
    <2>1. CASE DeleteSource(t)
        BY <1>0, <2>1 DEF DeleteSource, IInv, SourceWhole
    <2>2. CASE ~ DeleteSource(t)
        BY <1>2, <2>2
        DEF Quarantines, CopySource, CopyRefused, Publish, PublishFails, RecordPending,
            DeleteSourceFails, RecordComplete, Unchanged
    <2>3. QED BY <2>1, <2>2
<1>3. ASSUME NEW t \in Thread, Restores(t) PROVE op[t].at = "write" /\ FileOf(t) = f
    <2>1. CASE WriteTargetFails(t)
        BY <1>0, <2>1 DEF WriteTargetFails
    <2>2. CASE CreateTarget(t)
        BY <1>0, <2>2 DEF CreateTarget
    <2>3. CASE WriteTarget(t)
        BY <1>0, <2>3 DEF WriteTarget
    <2>4. CASE RecordRestoring(t) \/ RecordRestored(t)
        BY <2>4 DEF RecordRestoring, RecordRestored, Unchanged
    <2>5. QED BY <1>3, <2>1, <2>2, <2>3, <2>4 DEF Restores
<1>4. ASSUME NEW t \in Thread \cup {Start}, Removes(t) PROVE FALSE
    BY <1>4 DEF Removes, RemovePiece, RemoveDirectory, RemovalStops, Unchanged
<1>5. ASSUME NEW e \in Entry, Settles(e) PROVE FALSE
    <2>1. CASE FinishDelete(e)
        BY <1>0, <2>1 DEF FinishDelete
    <2>2. CASE ~ FinishDelete(e)
        BY <1>5, <2>2
        DEF Settles, ReconcileNext, DiscardPartial, LeaveEntry, FinishDeleteFails, DropStale,
            AssumeDeleted, FinishRestore, TakeBackRestore, Unchanged
    <2>3. QED BY <2>1, <2>2
<1>6. ASSUME User PROVE count'.edits > count.edits
    BY <1>0, <1>6 DEF User, UserChanges, UserDeletes, UserCreates, Edit, CountRecord
<1>7. ASSUME Crash PROVE FALSE
    BY <1>7 DEF Crash
<1>8. QED BY <1>1, <1>2, <1>3, <1>4, <1>5, <1>6, <1>7 DEF Next

\* What users and other programs put at a path stays there: a restore creates its target
\* anew (CREATE_NEW in restore) and the start deletes only the very file that was copied
\* (finish_source_pending).
THEOREM UsersFilesAreKept == Spec => UsersFilesStay
<1> DEFINE Stay == \A f \in File :
                       at[f] \in {"edited", "new"} /\ at'[f] # at[f] =>
                           \/ count'.edits > count.edits
                           \/ \E t \in Thread : op[t].at = "write" /\ FileOf(t) = f
<1>1. IInv /\ [Next]_vars => [Stay]_vars
    BY UsersStep
<1>2. QED BY <1>1, InvHolds, PTL DEF Spec, UsersFilesStay
=============================================================================
