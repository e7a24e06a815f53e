------------------------------ MODULE RulePacks ------------------------------
(***************************************************************************)
(* The store of signed rule packs (protection/rules_store.rs), the         *)
(* download that feeds it (protection/updates.rs) and the scans that work   *)
(* on the active pack (protection/service.rs).                             *)
(*                                                                         *)
(* A pack is known by its sequence number.  An install verifies, stages    *)
(* and renames the pack's directory, replaces the pointer file, activates  *)
(* the pack in memory and prunes what the pointer no longer names; the     *)
(* rules lock is held throughout, but a failure or the end of the program  *)
(* may come after any step.  A start removes staging directories and falls *)
(* back from the current pack to the previous one to the embedded one.     *)
(***************************************************************************)
EXTENDS Naturals

CONSTANTS
    MaxSequence, \* sequence numbers are 1 .. MaxSequence
    Thread,      \* threads that run commands
    None,
    MaxFaults,   \* bound on file operations that fail
    MaxCrashes,  \* bound on restarts
    MaxDamage    \* bound on packs or pointers damaged by others

ASSUME RulesAssumption ==
    /\ MaxSequence \in Nat \ {0} /\ MaxFaults \in Nat /\ MaxCrashes \in Nat /\ MaxDamage \in Nat
    /\ None \notin Nat /\ None \notin Thread

VARIABLES
    baseline, \* the sequence of the pack embedded in the running build
    pack,     \* the pack directories
    pointer,  \* current.json
    staging,  \* the staging directory of the running or interrupted install
    mem,      \* the store in memory: active pack, where it came from, the one before
    thread,   \* what each thread is doing and the pack it has at hand
    allowed,  \* the network policy for rule downloads
    damaged,  \* whether anything was damaged since the program started
    count     \* what the bounds bound

vars == <<baseline, pack, pointer, staging, mem, thread, allowed, damaged, count>>

Sequence == 1 .. MaxSequence
NoPointer == [readable |-> TRUE, current |-> None, previous |-> None]
Source == {"Installed", "PreviousFallback", "EmbeddedBaseline"}
Place == {"idle", "fetch", "fetched", "stage", "rename", "pointer", "activate", "prune",
          "restore", "restored", "scan"}
Locked == {"stage", "rename", "pointer", "activate", "prune", "restore", "restored"}
Idle == [at |-> "idle", seq |-> None]

TypeOK ==
    /\ baseline \in Sequence
    /\ pack \in [Sequence -> {"absent", "whole", "damaged"}]
    /\ pointer \in [readable : BOOLEAN, current : Sequence \cup {None},
                    previous : Sequence \cup {None}]
    /\ staging \in {"absent", "empty", "whole"}
    /\ mem \in [active : Sequence, source : Source, previous : Sequence \cup {None}]
    /\ thread \in [Thread -> [at : Place, seq : Sequence \cup {None}]]
    /\ \A t, u \in Thread : thread[t].at \in Locked /\ thread[u].at \in Locked => t = u
    /\ allowed \in BOOLEAN
    /\ damaged \in BOOLEAN
    /\ count \in [faults : 0 .. MaxFaults, crashes : 0 .. MaxCrashes, damage : 0 .. MaxDamage]

-----------------------------------------------------------------------------
(* Recovery: what a start makes of the files.                              *)

Loads(s) == s # None /\ pack[s] = "whole"
Holding(s) == IF Loads(s) THEN s ELSE None

Recovered(build) ==
    IF ~pointer.readable
    THEN [active |-> build, source |-> "EmbeddedBaseline", previous |-> None]
    ELSE IF Loads(pointer.current)
    THEN [active |-> pointer.current, source |-> "Installed",
          previous |-> Holding(pointer.previous)]
    ELSE IF Loads(pointer.previous)
    THEN [active |-> pointer.previous, source |-> "PreviousFallback", previous |-> None]
    ELSE [active |-> build, source |-> "EmbeddedBaseline", previous |-> None]

Larger(a, b) == IF a > b THEN a ELSE b

\* Before the first start nothing was installed.
Init ==
    /\ baseline = 1
    /\ pack = [s \in Sequence |-> "absent"]
    /\ pointer = NoPointer
    /\ staging = "absent"
    /\ mem = [active |-> 1, source |-> "EmbeddedBaseline", previous |-> None]
    /\ thread = [t \in Thread |-> Idle]
    /\ allowed = FALSE
    /\ damaged = FALSE
    /\ count = [faults |-> 0, crashes |-> 0, damage |-> 0]

-----------------------------------------------------------------------------
Files == <<pack, pointer, staging>>
Unlocked == \A t \in Thread : thread[t].at \notin Locked
Go(t, place) == thread' = [thread EXCEPT ![t].at = place]
Start(t, place, s) ==
    thread[t] = Idle /\ thread' = [thread EXCEPT ![t] = [at |-> place, seq |-> s]]
End(t) == thread' = [thread EXCEPT ![t] = Idle]
Fault == count.faults < MaxFaults /\ count' = [count EXCEPT !.faults = @ + 1]

\* set_network_policy.
SetPolicy(b) ==
    /\ allowed' = b
    /\ UNCHANGED <<baseline, Files, mem, thread, damaged, count>>

\* download_rules reads the policy, then fetches without the rules lock.
Download(t) ==
    /\ allowed
    /\ Start(t, "fetch", None)
    /\ UNCHANGED <<baseline, Files, mem, allowed, damaged, count>>

\* The host serves whatever pack it has published; a bad one is refused by its signature.
Fetch(t) ==
    /\ thread[t].at = "fetch"
    /\ \/ \E s \in Sequence : thread' = [thread EXCEPT ![t] = [at |-> "fetched", seq |-> s]]
       \/ End(t)
    /\ UNCHANGED <<baseline, Files, mem, allowed, damaged, count>>

\* import_rules reads both files from a chosen folder.
Import(t, s) ==
    /\ Start(t, "fetched", s)
    /\ UNCHANGED <<baseline, Files, mem, allowed, damaged, count>>

\* Mutant: only the embedded pack is compared.
Floor_Baseline == baseline

\* check_install_sequence: newer than the active pack and the embedded one.
Floor == Larger(mem.active, baseline)
Newer(s) == s > Floor

\* install, under the rules lock: refused, or the staging directory is created.
Install(t) ==
    /\ thread[t].at = "fetched" /\ Unlocked
    /\ \/ /\ Newer(thread[t].seq)
          /\ staging' = "empty"
          /\ Go(t, "stage")
       \/ /\ ~Newer(thread[t].seq)
          /\ End(t)
          /\ UNCHANGED staging
    /\ UNCHANGED <<baseline, pack, pointer, mem, allowed, damaged, count>>

\* Both files are written and a leftover directory of that sequence is removed.
Stage(t) ==
    /\ thread[t].at = "stage"
    /\ staging' = "whole"
    /\ pack' = [pack EXCEPT ![thread[t].seq] = "absent"]
    /\ Go(t, "rename")
    /\ UNCHANGED <<baseline, pointer, mem, allowed, damaged, count>>

Rename(t) ==
    /\ thread[t].at = "rename"
    /\ staging' = "absent"
    /\ pack' = [pack EXCEPT ![thread[t].seq] = "whole"]
    /\ Go(t, "pointer")
    /\ UNCHANGED <<baseline, pointer, mem, allowed, damaged, count>>

\* Anything that fails before the rename removes the staging directory.
StagingFails(t) ==
    /\ thread[t].at \in {"stage", "rename"}
    /\ Fault
    /\ staging' = "absent"
    /\ End(t)
    /\ UNCHANGED <<baseline, pack, pointer, mem, allowed, damaged>>

Retained == IF mem.source = "Installed" THEN mem.active ELSE None
Pointing(s) == [readable |-> TRUE, current |-> s, previous |-> Retained]

\* The pointer file is replaced atomically, or not at all.
ReplacePointer(t) ==
    /\ thread[t].at = "pointer"
    /\ \/ /\ pointer' = Pointing(thread[t].seq)
          /\ Go(t, "activate")
          /\ UNCHANGED count
       \/ /\ Fault
          /\ End(t)
          /\ UNCHANGED pointer
    /\ UNCHANGED <<baseline, pack, staging, mem, allowed, damaged>>

Activate(t) ==
    /\ thread[t].at = "activate"
    /\ mem' = [active |-> thread[t].seq, source |-> "Installed", previous |-> Retained]
    /\ Go(t, "prune")
    /\ UNCHANGED <<baseline, Files, allowed, damaged, count>>

\* Mutant: the pack to go back to is pruned too.
Prune_KeepsCurrent(t) ==
    /\ thread[t].at = "prune"
    /\ pack' = [s \in Sequence |-> IF s = mem.active THEN pack[s] ELSE "absent"]
    /\ End(t)
    /\ UNCHANGED <<baseline, pointer, staging, mem, allowed, damaged, count>>

\* Whatever the new pointer does not name is removed, as far as that succeeds.
Prune(t) ==
    /\ thread[t].at = "prune"
    /\ \E stays \in SUBSET {s \in Sequence : pack[s] # "absent"} :
        /\ stays # {} => count.faults < MaxFaults
        /\ pack' = [s \in Sequence |->
                       IF s \in {mem.active, mem.previous} \cup stays THEN pack[s]
                       ELSE "absent"]
    /\ End(t)
    /\ UNCHANGED <<baseline, pointer, staging, mem, allowed, damaged, count>>

\* restore_previous: the retained pack is loaded and the pointer replaced.
RestorePrevious(t) ==
    /\ Unlocked /\ Loads(mem.previous)
    /\ Start(t, "restore", mem.previous)
    /\ UNCHANGED <<baseline, Files, mem, allowed, damaged, count>>

PointBack(t) ==
    /\ thread[t].at = "restore"
    /\ \/ /\ pointer' = [readable |-> TRUE, current |-> thread[t].seq, previous |-> None]
          /\ Go(t, "restored")
          /\ UNCHANGED count
       \/ /\ Fault
          /\ End(t)
          /\ UNCHANGED pointer
    /\ UNCHANGED <<baseline, pack, staging, mem, allowed, damaged>>

ActivateRestored(t) ==
    /\ thread[t].at = "restored"
    /\ mem' = [active |-> thread[t].seq, source |-> "Installed", previous |-> None]
    /\ Go(t, "prune")
    /\ UNCHANGED <<baseline, Files, allowed, damaged, count>>

\* A scan works on its own copy of the active pack, taken under the lock.
Scan(t) ==
    /\ Unlocked
    /\ \A u \in Thread : thread[u].at # "scan"
    /\ Start(t, "scan", mem.active)
    /\ UNCHANGED <<baseline, Files, mem, allowed, damaged, count>>

ScanEnds(t) ==
    /\ thread[t].at = "scan"
    /\ End(t)
    /\ UNCHANGED <<baseline, Files, mem, allowed, damaged, count>>

\* The program ends anywhere and starts again, perhaps as a newer build with a newer pack.
Restart(build) ==
    /\ count.crashes < MaxCrashes
    /\ count' = [count EXCEPT !.crashes = @ + 1]
    /\ build \in Sequence /\ build >= baseline
    /\ baseline' = build
    /\ staging' = "absent"
    /\ mem' = Recovered(build)
    /\ thread' = [t \in Thread |-> Idle]
    /\ damaged' = FALSE
    /\ UNCHANGED <<pack, pointer, allowed>>

\* Another program or the disk damages a pack or the pointer, or removes the pointer.
Damage ==
    /\ count.damage < MaxDamage
    /\ count' = [count EXCEPT !.damage = @ + 1]
    /\ \/ \E s \in Sequence : pack[s] = "whole" /\ pack' = [pack EXCEPT ![s] = "damaged"]
                              /\ UNCHANGED pointer
       \/ /\ pointer' \in {NoPointer, [NoPointer EXCEPT !.readable = FALSE]}
          /\ UNCHANGED pack
    /\ damaged' = TRUE
    /\ UNCHANGED <<baseline, staging, mem, thread, allowed>>

Command(t) ==
    \/ Download(t) \/ (\E s \in Sequence : Import(t, s)) \/ RestorePrevious(t) \/ Scan(t)
Work(t) ==
    \/ Fetch(t) \/ Install(t) \/ Stage(t) \/ Rename(t) \/ StagingFails(t) \/ ReplacePointer(t)
    \/ Activate(t) \/ Prune(t) \/ PointBack(t) \/ ActivateRestored(t) \/ ScanEnds(t)
Next ==
    \/ \E b \in BOOLEAN : SetPolicy(b)
    \/ \E t \in Thread : Command(t) \/ Work(t)
    \/ \E build \in Sequence : Restart(build)
    \/ Damage

Spec == Init /\ [][Next]_vars

-----------------------------------------------------------------------------
(* Properties                                                              *)

\* An install is all or nothing over a restart at any moment: the program would come up with
\* the pack that is active, or with the one that an install or a restore past its pointer is
\* about to activate, and the pack offered for going back is there.  Damage done before the
\* program started does not matter once an installed pack is active.
Pending == {thread[t].seq : t \in {t \in Thread : thread[t].at \in {"activate", "restored"}}}
RestartKeepsPack ==
    ~damaged /\ mem.source = "Installed" =>
        /\ Recovered(baseline).active \in {mem.active} \cup Pending
        /\ Pending = {} => Loads(mem.active) /\ (mem.previous # None => Loads(mem.previous))

\* The active sequence falls only when the user restores the previous pack, or at a start that
\* finds the current pack or the pointer unusable; downloads that arrive out of order never do it.
FallsOnlyOnRequest ==
    [][mem'.active < mem.active =>
        \/ \E t \in Thread : thread[t].at = "restored" /\ thread[t].seq = mem'.active
        \/ count'.crashes > count.crashes /\ count.damage > 0]_vars
=============================================================================
