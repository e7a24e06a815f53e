------------------------ MODULE ProtectionQuarantine ------------------------
(***************************************************************************)
(* The quarantine of the antivirus pages (protection/quarantine.rs).       *)
(*                                                                         *)
(* An entry is a directory with a payload and a record.  Quarantining      *)
(* copies the file under a handle that keeps writers out, publishes the    *)
(* payload, writes the record as SourcePending, deletes the original       *)
(* through the same handle and writes Complete.  Restoring writes          *)
(* Restoring, creates the original path anew, copies and removes the       *)
(* entry.  Nothing serialises these operations with each other: commands   *)
(* run on blocking threads and the service takes no lock around them.  The *)
(* program may be killed between any two steps; the next start settles     *)
(* what it finds, entry by entry, before it accepts commands.              *)
(***************************************************************************)
EXTENDS Naturals, FiniteSets

CONSTANTS
    File,       \* scanned files, each with its path
    Entry,      \* entry identifiers; an identifier is random and used once
    Thread,     \* threads that run commands
    Start,      \* the thread that starts the program
    None,
    MaxFaults,  \* bound on system calls that fail without a reason in the model
    MaxCrashes, \* bound on deaths of the program
    MaxEdits    \* bound on what users and other programs do to the files

ASSUME QuarantineAssumption ==
    /\ Start \notin Thread
    /\ None \notin File \cup Entry
    /\ MaxFaults \in Nat /\ MaxCrashes \in Nat /\ MaxEdits \in Nat

VARIABLES
    at,        \* what is at each file's path
    entry,     \* the entry directories
    op,        \* the operation of each thread
    waiting,   \* entries the start still has to look at
    discarded, \* files whose content a user gave up: deleted, changed or confirmed
    torn,      \* files whose unfinished entry lost its payload but not its record
    count      \* what the bounds bound

vars == <<at, entry, op, waiting, discarded, torn, count>>

\* whole: the file that was scanned; edited: the same file with other content;
\* partial: what a restore has written so far; copy: a file restored in full;
\* new: anything else.
Content == {"gone", "whole", "edited", "partial", "copy", "new"}
EntryState == {"none", "SourcePending", "Complete", "Restoring"}
NoEntry == [file |-> None, dir |-> FALSE, payload |-> "none", record |-> "none"]
Idle == [at |-> "idle", entry |-> None]

At == {"idle", "copy", "publish", "pending", "delete", "complete", "begin",
       "create", "write", "undo", "remove", "settle"}

TypeOK ==
    /\ at \in [File -> Content]
    /\ entry \in [Entry -> [file : File \cup {None}, dir : BOOLEAN,
                            payload : {"none", "tmp", "bin"}, record : EntryState]]
    /\ op \in [Thread \cup {Start} -> [at : At, entry : Entry \cup {None}]]
    /\ waiting \subseteq Entry
    /\ discarded \subseteq File /\ torn \subseteq File
    /\ count \in [faults : 0 .. MaxFaults, crashes : 0 .. MaxCrashes, edits : 0 .. MaxEdits]

Init ==
    /\ at = [f \in File |-> "whole"]
    /\ entry = [e \in Entry |-> NoEntry]
    /\ op = [t \in Thread \cup {Start} |-> Idle]
    /\ waiting = {}
    /\ discarded = {} /\ torn = {}
    /\ count = [faults |-> 0, crashes |-> 0, edits |-> 0]

-----------------------------------------------------------------------------
(* A quarantine holds the source open without sharing writes or deletion   *)
(* until it has removed it; the handle dies with the program.              *)

Holding == {"copy", "publish", "pending", "delete"}
Held(f) == \E t \in Thread : op[t].at \in Holding /\ entry[op[t].entry].file = f

Up == waiting = {} /\ op[Start] = Idle
Same(f) == at[f] \in {"whole", "copy"}   \* the content that was scanned
FileOf(t) == entry[op[t].entry].file
Go(t, place) == op' = [op EXCEPT ![t].at = place]
End(t) == op' = [op EXCEPT ![t] = Idle]
Fault == count.faults < MaxFaults /\ count' = [count EXCEPT !.faults = @ + 1]

SetEntry(e, field, value) ==
    entry' = [entry EXCEPT ![e] = [@ EXCEPT ![field] = value]]
Unchanged(vs) == UNCHANGED <<vs, waiting, discarded, torn>>

\* write_record: the directory must still be there.
WriteRecord(t, state) ==
    /\ entry[op[t].entry].dir
    /\ SetEntry(op[t].entry, "record", state)

\* The write fails: for no reason of the model's, or because the directory is gone.
WriteFails(t) ==
    \/ entry[op[t].entry].dir /\ Fault
    \/ ~entry[op[t].entry].dir /\ UNCHANGED count

-----------------------------------------------------------------------------
(* quarantine                                                              *)

\* The source is opened and the entry's directory created.
Quarantine(t, e, f) ==
    /\ Up /\ op[t] = Idle
    /\ entry[e] = NoEntry
    /\ at[f] # "gone" /\ ~Held(f)
    /\ entry' = [entry EXCEPT ![e] = [NoEntry EXCEPT !.file = f, !.dir = TRUE]]
    /\ op' = [op EXCEPT ![t] = [at |-> "copy", entry |-> e]]
    /\ Unchanged(<<at, count>>)

\* The copy is written and verified; what is not the scanned content is refused.
CopySource(t) ==
    /\ op[t].at = "copy"
    /\ at[FileOf(t)] = "whole"
    /\ entry[op[t].entry].dir
    /\ SetEntry(op[t].entry, "payload", "tmp")
    /\ Go(t, "publish")
    /\ Unchanged(<<at, count>>)

CopyRefused(t) ==
    /\ op[t].at = "copy"
    /\ \/ at[FileOf(t)] # "whole" /\ UNCHANGED count
       \/ WriteFails(t)
    /\ Go(t, "remove")
    /\ Unchanged(<<at, entry>>)

Publish(t) ==
    /\ op[t].at = "publish"
    /\ entry[op[t].entry].payload = "tmp"
    /\ SetEntry(op[t].entry, "payload", "bin")
    /\ Go(t, "pending")
    /\ Unchanged(<<at, count>>)

PublishFails(t) ==
    /\ op[t].at = "publish"
    /\ \/ entry[op[t].entry].payload = "tmp" /\ Fault
       \/ entry[op[t].entry].payload # "tmp" /\ UNCHANGED count
    /\ Go(t, "remove")
    /\ Unchanged(<<at, entry>>)

RecordPending(t) ==
    /\ op[t].at = "pending"
    /\ \/ /\ WriteRecord(t, "SourcePending")
          /\ Go(t, "delete")
          /\ UNCHANGED count
       \/ /\ WriteFails(t)
          /\ Go(t, "remove")
          /\ UNCHANGED entry
    /\ Unchanged(at)

\* delete_by_handle removes the very file that was copied.
DeleteSource(t) ==
    /\ op[t].at = "delete"
    /\ at' = [at EXCEPT ![FileOf(t)] = "gone"]
    /\ Go(t, "complete")
    /\ Unchanged(<<entry, count>>)

DeleteSourceFails(t) ==
    /\ op[t].at = "delete"
    /\ Fault
    /\ Go(t, "remove")
    /\ Unchanged(<<at, entry>>)

\* If this write fails the entry stays SourcePending until the next start.
RecordComplete(t) ==
    /\ op[t].at = "complete"
    /\ \/ WriteRecord(t, "Complete") /\ UNCHANGED count
       \/ WriteFails(t) /\ UNCHANGED entry
    /\ End(t)
    /\ Unchanged(at)

-----------------------------------------------------------------------------
(* restore: the record is read and the payload verified first, then        *)
(* Restoring is written.                                                   *)

Restore(t, e) ==
    /\ Up /\ op[t] = Idle
    /\ entry[e].record = "Complete" /\ entry[e].payload = "bin"
    /\ op' = [op EXCEPT ![t] = [at |-> "begin", entry |-> e]]
    /\ Unchanged(<<at, entry, count>>)

RecordRestoring(t) ==
    /\ op[t].at = "begin"
    /\ \/ /\ WriteRecord(t, "Restoring")
          /\ Go(t, "create")
          /\ UNCHANGED count
       \/ /\ WriteFails(t)
          /\ End(t)
          /\ UNCHANGED entry
    /\ Unchanged(at)

\* Mutant: what is at the original path is replaced.
CreateTarget_Replacing(t) ==
    /\ op[t].at = "create"
    /\ at' = [at EXCEPT ![FileOf(t)] = "partial"]
    /\ Go(t, "write")
    /\ Unchanged(<<entry, count>>)

\* CREATE_NEW: a file that is there is a collision.
CreateTarget(t) ==
    /\ op[t].at = "create"
    /\ \/ /\ at[FileOf(t)] = "gone"
          /\ at' = [at EXCEPT ![FileOf(t)] = "partial"]
          /\ Go(t, "write")
          /\ UNCHANGED count
       \/ /\ at[FileOf(t)] # "gone" /\ UNCHANGED count
          /\ Go(t, "undo")
          /\ UNCHANGED at
       \/ /\ at[FileOf(t)] = "gone" /\ Fault
          /\ Go(t, "undo")
          /\ UNCHANGED at
    /\ Unchanged(entry)

\* The digest is that of what was read, so the file may have lost its name meanwhile.
WriteTarget(t) ==
    /\ op[t].at = "write"
    /\ entry[op[t].entry].payload = "bin"
    /\ at' = [at EXCEPT ![FileOf(t)] = IF @ = "partial" THEN "copy" ELSE @]
    /\ Go(t, "remove")
    /\ Unchanged(<<entry, count>>)

\* What was written so far is removed by its path.
WriteTargetFails(t) ==
    /\ op[t].at = "write"
    /\ \/ entry[op[t].entry].payload # "bin" /\ UNCHANGED count
       \/ Fault
    /\ at' = [at EXCEPT ![FileOf(t)] = "gone"]
    /\ Go(t, "undo")
    /\ Unchanged(entry)

RecordRestored(t) ==
    /\ op[t].at = "undo"
    /\ \/ WriteRecord(t, "Complete") /\ UNCHANGED count
       \/ WriteFails(t) /\ UNCHANGED entry
    /\ End(t)
    /\ Unchanged(at)

-----------------------------------------------------------------------------
(* delete, after the user confirmed it, and remove_owned_tree, which takes *)
(* the files of a directory one by one in the order it lists them.         *)

Delete(t, e) ==
    /\ Up /\ op[t] = Idle
    /\ entry[e].dir
    /\ op' = [op EXCEPT ![t] = [at |-> "remove", entry |-> e]]
    /\ discarded' = discarded \cup {entry[e].file}
    /\ UNCHANGED <<at, entry, waiting, torn, count>>

RemovePiece(t, piece) ==
    /\ op[t].at = "remove"
    /\ entry[op[t].entry][piece] # "none"
    /\ SetEntry(op[t].entry, piece, "none")
    /\ Unchanged(<<at, op, count>>)

RemoveDirectory(t) ==
    /\ op[t].at = "remove"
    /\ entry[op[t].entry].payload = "none" /\ entry[op[t].entry].record = "none"
    /\ SetEntry(op[t].entry, "dir", FALSE)
    /\ End(t)
    /\ Unchanged(<<at, count>>)

Hollow(e) == entry[e].record = "SourcePending" /\ entry[e].payload = "none"

\* A piece cannot be removed, or another thread added one; the error is ignored.
RemovalStops(t) ==
    LET e == op[t].entry IN
    /\ op[t].at = "remove"
    /\ \/ Fault
       \/ (\E u \in Thread \ {t} : op[u].entry = e) /\ UNCHANGED count
    /\ torn' = IF Hollow(e) THEN torn \cup {entry[e].file} ELSE torn
    /\ End(t)
    /\ UNCHANGED <<at, entry, waiting, discarded>>

-----------------------------------------------------------------------------
(* The program dies; the next start opens the quarantine.                  *)

Crash ==
    /\ count.crashes < MaxCrashes
    /\ count' = [count EXCEPT !.crashes = @ + 1]
    /\ waiting' = {e \in Entry : entry[e].dir}
    /\ op' = [t \in Thread \cup {Start} |-> Idle]
    /\ torn' = torn \cup {entry[e].file : e \in {e \in Entry : Hollow(e)}}
    /\ UNCHANGED <<at, entry, discarded>>

\* reconcile takes up the next entry.
ReconcileNext(e) ==
    /\ op[Start] = Idle /\ e \in waiting
    /\ waiting' = waiting \ {e}
    /\ op' = [op EXCEPT ![Start] = [at |-> "settle", entry |-> e]]
    /\ UNCHANGED <<at, entry, discarded, torn, count>>

Settling(e, record) ==
    op[Start] = [at |-> "settle", entry |-> e] /\ entry[e].record = record

\* No record and no payload: a quarantine that had not come far.
DiscardPartial(e) ==
    /\ Settling(e, "none") /\ entry[e].payload # "bin"
    /\ Go(Start, "remove")
    /\ Unchanged(<<at, entry, count>>)

\* A complete or a damaged entry stays as it is.
LeaveEntry(e) ==
    /\ \/ Settling(e, "none") /\ entry[e].payload = "bin"
       \/ Settling(e, "Complete")
    /\ End(Start)
    /\ Unchanged(<<at, entry, count>>)

\* finish_source_pending: the very file that was copied is still there.
FinishDelete(e) ==
    /\ Settling(e, "SourcePending") /\ at[entry[e].file] = "whole"
    /\ at' = [at EXCEPT ![entry[e].file] = "gone"]
    /\ \/ SetEntry(e, "record", "Complete") /\ UNCHANGED count
       \/ Fault /\ UNCHANGED entry
    /\ End(Start)
    /\ UNCHANGED <<waiting, discarded, torn>>

FinishDeleteFails(e) ==
    /\ Settling(e, "SourcePending") /\ at[entry[e].file] = "whole"
    /\ Fault
    /\ End(Start)
    /\ Unchanged(<<at, entry>>)

\* Mutant: an entry whose original is gone counts as stale too.
DropStale_Gone(e) ==
    /\ Settling(e, "SourcePending") /\ at[entry[e].file] \in {"edited", "gone"}
    /\ Go(Start, "remove")
    /\ Unchanged(<<at, entry, count>>)

\* The same file with other content: the entry is dropped.
DropStale(e) ==
    /\ Settling(e, "SourcePending") /\ at[entry[e].file] = "edited"
    /\ Go(Start, "remove")
    /\ Unchanged(<<at, entry, count>>)

\* There is no such file, or it cannot be opened: taken for deleted.
AssumeDeleted(e) ==
    /\ Settling(e, "SourcePending")
    /\ \/ at[entry[e].file] \notin {"whole", "edited"} /\ UNCHANGED count
       \/ at[entry[e].file] \in {"whole", "edited"} /\ Fault
    /\ SetEntry(e, "record", "Complete")
    /\ End(Start)
    /\ Unchanged(at)

\* A restore that got as far as the last byte is finished, any other is taken back.
FinishRestore(e) ==
    /\ Settling(e, "Restoring") /\ Same(entry[e].file)
    /\ Go(Start, "remove")
    /\ Unchanged(<<at, entry, count>>)

\* Mutant: an unfinished restore is left as it is.
TakeBackRestore_Leaves(e) ==
    /\ Settling(e, "Restoring") /\ ~Same(entry[e].file)
    /\ End(Start)
    /\ Unchanged(<<at, entry, count>>)

TakeBackRestore(e) ==
    /\ Settling(e, "Restoring") /\ ~Same(entry[e].file)
    /\ \/ SetEntry(e, "record", "Complete") /\ UNCHANGED count
       \/ Fault /\ UNCHANGED entry
    /\ End(Start)
    /\ Unchanged(at)

-----------------------------------------------------------------------------
(* Users and other programs.  A file a quarantine holds is out of reach.   *)

Edit(f, what) ==
    /\ count.edits < MaxEdits /\ ~Held(f)
    /\ count' = [count EXCEPT !.edits = @ + 1]
    /\ at' = [at EXCEPT ![f] = what]
    /\ UNCHANGED <<entry, op, waiting, torn>>

UserChanges(f) ==
    /\ at[f] \in {"whole", "copy"}
    /\ Edit(f, IF at[f] = "whole" THEN "edited" ELSE "new")
    /\ discarded' = discarded \cup {f}

\* Deleting what a restore is writing gives its content up too.
UserDeletes(f) ==
    /\ at[f] # "gone"
    /\ Edit(f, "gone")
    /\ discarded' = IF at[f] \in {"whole", "copy", "partial"} THEN discarded \cup {f}
                                                             ELSE discarded

UserCreates(f) == at[f] = "gone" /\ Edit(f, "new") /\ UNCHANGED discarded

Quarantines(t) ==
    \/ CopySource(t) \/ CopyRefused(t) \/ Publish(t) \/ PublishFails(t) \/ RecordPending(t)
    \/ DeleteSource(t) \/ DeleteSourceFails(t) \/ RecordComplete(t)
Restores(t) ==
    \/ RecordRestoring(t) \/ CreateTarget(t) \/ WriteTarget(t) \/ WriteTargetFails(t)
    \/ RecordRestored(t)
Removes(t) ==
    \/ \E piece \in {"payload", "record"} : RemovePiece(t, piece)
    \/ RemoveDirectory(t) \/ RemovalStops(t)
Settles(e) ==
    \/ ReconcileNext(e) \/ DiscardPartial(e) \/ LeaveEntry(e) \/ FinishDelete(e)
    \/ FinishDeleteFails(e) \/ DropStale(e) \/ AssumeDeleted(e) \/ FinishRestore(e)
    \/ TakeBackRestore(e)
User == \E f \in File : UserChanges(f) \/ UserDeletes(f) \/ UserCreates(f)

Next ==
    \/ \E t \in Thread, e \in Entry :
        (\E f \in File : Quarantine(t, e, f)) \/ Restore(t, e) \/ Delete(t, e)
    \/ \E t \in Thread : Quarantines(t) \/ Restores(t)
    \/ \E t \in Thread \cup {Start} : Removes(t)
    \/ \E e \in Entry : Settles(e)
    \/ User \/ Crash

Spec == Init /\ [][Next]_vars

-----------------------------------------------------------------------------
(* Properties                                                              *)

Stored(f) == \E e \in Entry : entry[e].file = f /\ entry[e].payload = "bin"

\* Whatever is interrupted, fails or runs at the same time, the content of a scanned file
\* that no user gave up is at the file's path or whole in an entry.  The one exception is a
\* quarantine that was aborted and whose removal of the entry stopped half-way.
ContentSurvives == \A f \in File \ (discarded \cup torn) : Same(f) \/ Stored(f)

\* What a user changed or created at a path is never replaced or removed by the program,
\* but for what took the place of a file that a restore is writing at that moment.
UsersFilesStay ==
    [][\A f \in File :
        at[f] \in {"edited", "new"} /\ at'[f] # at[f] =>
            \/ count'.edits > count.edits
            \/ \E t \in Thread : op[t].at = "write" /\ FileOf(t) = f]_vars

\* An entry the user is not shown (neither complete nor damaged) is one that a command or
\* the start is working on: unless a system call failed, no interruption leaves one behind.
Hidden(e) == entry[e].dir /\ entry[e].record \in {"SourcePending", "Restoring"}
HiddenIsAtWork ==
    \A e \in Entry : Hidden(e) /\ Up /\ count.faults = 0 => \E t \in Thread : op[t].entry = e
=============================================================================
