----------------------------- MODULE SelfUpdate -----------------------------
(***************************************************************************)
(* The self-updater (self_update/mod.rs): a signed manifest, an installer  *)
(* staged in a directory of its own, a state file that says how far it got, *)
(* and the recovery of the next start.                                     *)
(*                                                                         *)
(* Operations exclude each other and never wait; status and the            *)
(* acknowledgement of a notice only take the inner lock, so they see an     *)
(* operation half-way.  The program may end at any step.  Installers run    *)
(* outside the program, on what was staged, and a user may install a        *)
(* release by hand; both change the version of the next start.             *)
(***************************************************************************)
EXTENDS Naturals

CONSTANTS
    MaxVersion,       \* releases are 1 .. MaxVersion; 0 stands for none
    MaxUpdateFaults,  \* bound on failing fetches and launches and on failing state file writes
    MaxUpdateCrashes, \* bound on ends of the program
    MaxEdits          \* bound on what others do to staged files

ASSUME UpdateAssumption ==
    /\ MaxVersion \in Nat \ {0}
    /\ MaxUpdateFaults \in Nat /\ MaxUpdateCrashes \in Nat /\ MaxEdits \in Nat

VARIABLES
    running,     \* the version of the running program
    disk,        \* the state file
    file,        \* the installer of each release in the staging directory
    inner,       \* what the service keeps in memory
    op,          \* the operation in progress
    opened,      \* the version of the installer that was opened last, until it ends
    unseen,      \* whether a launch is still to be accounted for by a start
    updateCount  \* what the bounds bound

updateVars == <<running, disk, file, inner, op, opened, unseen, updateCount>>

Version == 1 .. MaxVersion
Stored == [state : {"Idle", "Verified", "Launched"}, version : Version \cup {0}]
Nothing == [state |-> "Idle", version |-> 0]
NoOp == [at |-> "none", version |-> 0]
\* "none", a download that is not finished, the installer of the manifest, anything else
Staging == {"none", "part", "good", "bad"}
Outcome == {"none", "Updated", "Interrupted", "Discarded"}
Fresh == [stored |-> Nothing, checked |-> 0, downloading |-> 0, interrupted |-> 0,
          recovery |-> "none", pending |-> TRUE]

UpdateTypeOK ==
    /\ running \in Version
    /\ disk \in Stored
    /\ file \in [Version -> Staging]
    /\ inner \in [stored : Stored, checked : Version \cup {0}, downloading : Version \cup {0},
                  interrupted : Version \cup {0}, recovery : Outcome, pending : BOOLEAN]
    /\ op \in [at : {"none", "swept", "fetching", "fetched", "staged", "asking", "recorded",
                     "refused", "unverified", "discarding"}, version : Version \cup {0}]
    /\ opened \in Version \cup {0} /\ unseen \in BOOLEAN
    /\ updateCount \in [faults : 0 .. MaxUpdateFaults, writes : 0 .. MaxUpdateFaults,
                        crashes : 0 .. MaxUpdateCrashes, edits : 0 .. MaxEdits]

UpdateInit ==
    /\ running = 1
    /\ disk = Nothing
    /\ file = [v \in Version |-> "none"]
    /\ inner = Fresh
    /\ op = NoOp
    /\ opened = 0 /\ unseen = FALSE
    /\ updateCount = [faults |-> 0, writes |-> 0, crashes |-> 0, edits |-> 0]

-----------------------------------------------------------------------------
UpdateFault ==
    updateCount.faults < MaxUpdateFaults /\ updateCount' = [updateCount EXCEPT !.faults = @ + 1]
WriteFails ==
    updateCount.writes < MaxUpdateFaults /\ updateCount' = [updateCount EXCEPT !.writes = @ + 1]
Reach(place, v) == op' = [at |-> place, version |-> v]
EndOp == op' = NoOp

\* lock_operation: nothing else runs and the start's recovery is done.
Free == op = NoOp /\ ~inner.pending

\* persist: the file is replaced, then the memory.
Persist(stored, mem) ==
    /\ disk' = stored
    /\ inner' = [mem EXCEPT !.stored = stored]

\* sweep removes installers and partial downloads, except the finished one of keep.
Swept(keep) ==
    [v \in Version |-> IF v = keep /\ file[v] # "part" THEN file[v] ELSE "none"]

\* verify_staged opens the installer without sharing writes and compares it with the manifest.
Verifies(v) == v \in Version /\ file[v] = "good"

\* While an operation holds that handle nobody changes or removes the file.
Guarded(v) == op.at \in {"asking", "recorded"} /\ op.version = v

-----------------------------------------------------------------------------
(* check                                                                   *)

CheckFinds(v) ==
    /\ Free
    /\ inner' = [inner EXCEPT !.checked = IF v > running THEN v ELSE 0]
    /\ UNCHANGED <<running, disk, file, op, opened, unseen, updateCount>>

CheckRefused ==
    /\ Free
    /\ UpdateFault
    /\ inner' = [inner EXCEPT !.checked = 0]
    /\ UNCHANGED <<running, disk, file, op, opened, unseen>>

-----------------------------------------------------------------------------
(* download: the staging directory is emptied and Idle recorded first.     *)

DownloadUpdate ==
    /\ Free /\ inner.checked # 0
    /\ file' = Swept(0)
    /\ Reach("swept", inner.checked)
    /\ UNCHANGED <<running, disk, inner, opened, unseen, updateCount>>

DownloadStarts ==
    /\ op.at = "swept"
    /\ file' = [file EXCEPT ![op.version] = "part"]
    /\ Persist(Nothing, [inner EXCEPT !.downloading = op.version])
    /\ Reach("fetching", op.version)
    /\ unseen' = FALSE
    /\ UNCHANGED <<running, opened, updateCount>>

\* Idle cannot be recorded, or the partial file not be created.
DownloadNotStarted ==
    /\ op.at = "swept"
    /\ EndOp
    /\ \/ WriteFails /\ UNCHANGED <<disk, inner, unseen>>
       \/ UpdateFault /\ Persist(Nothing, inner) /\ unseen' = FALSE
    /\ UNCHANGED <<running, file, opened>>

\* What was received is compared with the manifest, then the file gets its name.
Fetched ==
    /\ op.at = "fetching"
    /\ inner' = [inner EXCEPT !.downloading = 0]
    /\ \/ /\ file[op.version] # "none"
          /\ file' = [file EXCEPT ![op.version] = IF @ = "part" THEN "good" ELSE @]
          /\ Reach("fetched", op.version)
          /\ UNCHANGED updateCount
       \/ /\ \/ UpdateFault
             \/ file[op.version] = "none" /\ UNCHANGED updateCount
          /\ file' = [file EXCEPT ![op.version] = "none"]
          /\ EndOp
    /\ UNCHANGED <<running, disk, opened, unseen>>

VerifyDownload ==
    /\ op.at = "fetched"
    /\ \/ Verifies(op.version) /\ Reach("staged", op.version) /\ UNCHANGED file
       \/ /\ ~Verifies(op.version) /\ EndOp
          /\ file' = [file EXCEPT ![op.version] = "none"]
    /\ UNCHANGED <<running, disk, inner, opened, unseen, updateCount>>

DownloadEnds ==
    /\ op.at = "staged"
    /\ \/ Persist([state |-> "Verified", version |-> op.version], inner) /\ UNCHANGED updateCount
       \/ WriteFails /\ UNCHANGED <<disk, inner>>
    /\ EndOp
    /\ UNCHANGED <<running, file, opened, unseen>>

-----------------------------------------------------------------------------
(* install: verified again under a handle that is kept until the launch.   *)

InstallUpdate ==
    LET v == inner.stored.version IN
    /\ Free /\ inner.stored.state = "Verified"
    /\ \/ Verifies(v) /\ Reach("asking", v) /\ UNCHANGED file
       \/ ~Verifies(v) /\ Reach("unverified", v) /\ file' = Swept(0)
    /\ UNCHANGED <<running, disk, inner, opened, unseen, updateCount>>

ForgetUnverified ==
    /\ op.at = "unverified"
    /\ \/ Persist(Nothing, inner) /\ UNCHANGED updateCount
       \/ WriteFails /\ UNCHANGED <<disk, inner>>
    /\ EndOp
    /\ UNCHANGED <<running, file, opened, unseen>>

\* The user says no, or the launch cannot be recorded.
InstallDeclined ==
    /\ op.at = "asking"
    /\ UNCHANGED updateCount \/ WriteFails
    /\ EndOp
    /\ UNCHANGED <<running, disk, file, inner, opened, unseen>>

\* Mutant: the launch is recorded in memory only.
RecordLaunch_Memory ==
    /\ op.at = "asking"
    /\ inner' = [inner EXCEPT !.stored = [state |-> "Launched", version |-> op.version]]
    /\ Reach("recorded", op.version)
    /\ UNCHANGED <<running, disk, file, opened, unseen, updateCount>>

RecordLaunch ==
    /\ op.at = "asking"
    /\ Persist([state |-> "Launched", version |-> op.version], inner)
    /\ Reach("recorded", op.version)
    /\ UNCHANGED <<running, file, opened, unseen, updateCount>>

\* The installer is opened; the command then ends the program.
Launch ==
    /\ op.at = "recorded"
    /\ opened' = op.version /\ unseen' = TRUE
    /\ inner' = [inner EXCEPT !.interrupted = 0, !.recovery = "none"]
    /\ EndOp
    /\ UNCHANGED <<running, disk, file, updateCount>>

LaunchFails ==
    /\ op.at = "recorded"
    /\ UpdateFault
    /\ Reach("refused", op.version)
    /\ UNCHANGED <<running, disk, file, inner, opened, unseen>>

TakeLaunchBack ==
    /\ op.at = "refused"
    /\ \/ Persist([state |-> "Verified", version |-> op.version], inner) /\ UNCHANGED updateCount
       \/ WriteFails /\ UNCHANGED <<disk, inner>>
    /\ EndOp
    /\ UNCHANGED <<running, file, opened, unseen>>

-----------------------------------------------------------------------------
(* discard and acknowledge_recovery                                        *)

Discard ==
    /\ Free
    /\ file' = Swept(0)
    /\ Reach("discarding", 0)
    /\ UNCHANGED <<running, disk, inner, opened, unseen, updateCount>>

DiscardEnds ==
    /\ op.at = "discarding"
    /\ \/ /\ Persist(Nothing, [inner EXCEPT !.interrupted = 0, !.checked = 0,
                                            !.recovery = "none"])
          /\ unseen' = FALSE
          /\ UNCHANGED updateCount
       \/ WriteFails /\ UNCHANGED <<disk, inner, unseen>>
    /\ EndOp
    /\ UNCHANGED <<running, file, opened>>

Acknowledge ==
    /\ inner' = [inner EXCEPT !.recovery = "none"]
    /\ UNCHANGED <<running, disk, file, op, opened, unseen, updateCount>>

-----------------------------------------------------------------------------
(* recover_on_startup, in one step: it holds the operation lock and users'  *)
(* operations answer Busy until it is done.  Its writes may fail silently.  *)

Recovery(stored) ==
    IF stored.state = "Idle" THEN "none"
    ELSE IF running >= stored.version
    THEN IF stored.state = "Launched" THEN "Updated" ELSE "none"
    ELSE IF ~Verifies(stored.version) THEN "Discarded"
    ELSE IF stored.state = "Launched" THEN "Interrupted" ELSE "none"

\* Mutant: an installer staged by an older build is kept whatever runs now.
Kept_Any(stored) == stored.state # "Idle" /\ Verifies(stored.version)

Kept(stored) ==
    stored.state # "Idle" /\ running < stored.version /\ Verifies(stored.version)

Recover ==
    LET outcome == Recovery(disk)
        next == IF Kept(disk) THEN [state |-> "Verified", version |-> disk.version] ELSE Nothing
        told == [inner EXCEPT !.recovery = outcome, !.pending = FALSE,
                              !.interrupted = IF outcome = "Interrupted" THEN disk.version
                                              ELSE 0]
    IN
    /\ inner.pending /\ op = NoOp
    /\ file' = Swept(next.version)
    /\ \/ Persist(next, told) /\ UNCHANGED updateCount
       \/ disk # Nothing /\ WriteFails /\ inner' = told /\ UNCHANGED disk
    /\ unseen' = IF disk.state = "Launched" THEN FALSE ELSE unseen
    /\ UNCHANGED <<running, op, opened>>

-----------------------------------------------------------------------------
(* The end of the program, installers and other programs.                  *)

\* The program ends, and starts as what is installed then: the same, what the opened
\* installer put in place, or a newer release the user installed by hand.
RestartAs(v) ==
    /\ updateCount.crashes < MaxUpdateCrashes
    /\ updateCount' = [updateCount EXCEPT !.crashes = @ + 1]
    /\ v \in Version /\ v >= running
    /\ running' = v
    /\ inner' = Fresh
    /\ EndOp
    /\ UNCHANGED <<disk, file, unseen>>
    /\ opened' = 0

\* Someone replaces or removes a staged file.
Tamper(v) ==
    /\ updateCount.edits < MaxEdits /\ ~Guarded(v)
    /\ updateCount' = [updateCount EXCEPT !.edits = @ + 1]
    /\ file[v] # "none" /\ file' \in {[file EXCEPT ![v] = "none"], [file EXCEPT ![v] = "bad"]}
    /\ UNCHANGED <<running, disk, inner, op, opened, unseen>>

Operation ==
    \/ (\E v \in Version : CheckFinds(v)) \/ CheckRefused \/ DownloadUpdate \/ InstallUpdate
    \/ Discard \/ Acknowledge
UpdateWork ==
    \/ DownloadStarts \/ DownloadNotStarted \/ Fetched \/ VerifyDownload \/ DownloadEnds
    \/ ForgetUnverified \/ InstallDeclined \/ RecordLaunch \/ Launch \/ LaunchFails
    \/ TakeLaunchBack \/ DiscardEnds \/ Recover
UpdateNext ==
    \/ Operation \/ UpdateWork
    \/ \E v \in Version : RestartAs(v) \/ Tamper(v)

UpdateSpec == UpdateInit /\ [][UpdateNext]_updateVars

-----------------------------------------------------------------------------
(* Properties                                                              *)

\* status: what the page shows.
Shown ==
    IF inner.pending THEN <<"Recovering", 0>>
    ELSE IF inner.downloading # 0 THEN <<"Downloading", inner.downloading>>
    ELSE IF inner.interrupted # 0 THEN <<"Interrupted", inner.interrupted>>
    ELSE IF inner.stored.state # "Idle" THEN <<inner.stored.state, inner.stored.version>>
    ELSE IF inner.checked # 0 THEN <<"Available", inner.checked>>
    ELSE <<"Idle", 0>>

\* Nothing the page shows as available, downloading, verified, launched or interrupted is
\* older than the running program.
OffersOnlyNewer == Shown[2] # 0 => Shown[2] > running

\* Only a newer release is ever opened, from a file that is the manifest's at that moment,
\* whatever was staged by an older build, tampered with, or half downloaded.
OpensOnlyVerified ==
    [][opened' # opened /\ opened' # 0 => opened' > running /\ file[opened'] = "good"]_updateVars

\* Every opened installer is accounted for: unless a download or a discard came after it, the
\* state file says Launched until a start has looked at it, whatever fails or ends the program.
LaunchIsRemembered == unseen => disk.state = "Launched"

=============================================================================
