----------------------------- MODULE VendorJobs -----------------------------
(***************************************************************************)
(* Vendor uninstall jobs: a job is prepared, confirmed in a native dialog, *)
(* queued, and run by a worker thread that launches the vendor's own       *)
(* uninstaller and waits for it.  What the uninstaller does cannot be      *)
(* undone or proved, so a job whose outcome is not known is kept for ever  *)
(* and its program is not uninstalled again.                               *)
(*                                                                         *)
(* The ledger is one file, written under the writer that all cleanup       *)
(* operations share.  The mutex `state' is held only within one action;    *)
(* native validation, the dialog, the launch and the wait hold no mutex.   *)
(***************************************************************************)
EXTENDS Naturals

CONSTANTS
    Job,       \* identifiers of jobs, never used twice
    Program,   \* installed programs
    Thread,    \* threads that serve prepare and confirm; a confirming thread
               \* stands for the worker it spawns as well
    None,      \* "no job", "nobody"
    Other,     \* whatever else holds the writer: a cleanup operation
    MaxFaults, \* bound: failing ledger writes
    MaxCrashes \* bound: ends of the program

ASSUME VendorAssumption ==
    /\ None \notin Job \cup Thread \cup Program
    /\ Other \notin Thread \cup {None}
    /\ MaxFaults \in Nat /\ MaxCrashes \in Nat

VARIABLES
    ledger,    \* the ledger in memory: the state of each job
    disk,      \* the ledger file
    program,   \* the program of each job
    active,    \* the one active job
    busy,      \* Active::worker: a thread works on the active job
    cancel,    \* jobs whose cancel flag is set
    expired,   \* jobs prepared more than EXPIRY ago
    thread,    \* what each thread does
    writer,    \* who holds the writer
    vendor,    \* the uninstaller of each job
    told,      \* jobs reported as cancelled before launch
    faults, crashes

vars == <<ledger, disk, program, active, busy, cancel, expired, thread, writer,
          vendor, told, faults, crashes>>
slot == <<active, busy>>
outside == <<vendor, told>>
bounds == <<faults, crashes>>

-----------------------------------------------------------------------------

Pending == {"Awaiting", "Queued", "Launching"}
\* RebootRequired is a way of being Completed.
Terminal == {"Completed", "CancelledByVendor", "CancelledBeforeLaunch", "Failed", "OutcomeUnknown"}
JobState == {"none"} \cup Pending \cup Terminal

\* pc: preparing (validating natively); asking (dialog open); confirming
\* (validating again); then the worker: validate, gate (waits for the writer),
\* locked and decided and intent (holds it), armed, shell, wait, finish.
ThreadRecord == [pc : {"idle", "preparing", "asking", "confirming", "validate", "gate",
                       "locked", "decided", "intent", "armed", "shell", "wait", "finish"},
                 job : Job \cup {None}, valid : BOOLEAN, outcome : JobState]
NoThread == [pc |-> "idle", job |-> None, valid |-> TRUE, outcome |-> "none"]

TypeOK ==
    /\ ledger \in [Job -> JobState] /\ disk \in [Job -> JobState]
    /\ program \in [Job -> Program \cup {None}]
    /\ active \in Job \cup {None} /\ busy \in BOOLEAN
    /\ cancel \in SUBSET Job /\ expired \in SUBSET Job
    /\ thread \in [Thread -> ThreadRecord]
    /\ \A t \in Thread : thread[t].pc # "idle" => thread[t].job \in Job
    /\ writer \in Thread \cup {None, Other}
    /\ \A t \in Thread : writer = t => thread[t].pc \in {"locked", "decided", "intent", "finish"}
    /\ vendor \in [Job -> {"none", "running", "ended"}]
    /\ told \in SUBSET Job
    /\ faults \in Nat /\ crashes \in Nat

Init ==
    /\ ledger = [j \in Job |-> "none"] /\ disk = ledger
    /\ program = [j \in Job |-> None]
    /\ active = None /\ busy = FALSE
    /\ cancel = {} /\ expired = {}
    /\ thread = [t \in Thread |-> NoThread]
    /\ writer = None
    /\ vendor = [j \in Job |-> "none"]
    /\ told = {}
    /\ faults = 0 /\ crashes = 0

-----------------------------------------------------------------------------
(* The ledger and the slot *)

\* write_vendor_jobs replaces the file with the whole ledger in memory.
Saved(l) == ledger' = l /\ disk' = l /\ UNCHANGED faults
WriteFails == faults < MaxFaults /\ faults' = faults + 1 /\ UNCHANGED disk

SaveJob(j, s) == Saved([ledger EXCEPT ![j] = s])

FreeSlot == active' = None /\ busy' = FALSE

At(t, pc) == thread[t].pc = pc
Goto(t, pc) == thread' = [thread EXCEPT ![t].pc = pc]
Leave(t) == thread' = [thread EXCEPT ![t] = NoThread]

\* expire_prepared, in memory only.
Expiring == active # None /\ ~ busy /\ active \in cancel \cup expired
ExpirePrepared ==
    IF Expiring
    THEN ledger' = [ledger EXCEPT ![active] = "CancelledBeforeLaunch"] /\ FreeSlot
    ELSE UNCHANGED <<ledger, active, busy>>

-----------------------------------------------------------------------------
(* prepare *)

\* The slot is reserved; the job is not in the ledger yet.
Prepare(t, j, g) ==
    /\ At(t, "idle") /\ program[j] = None
    /\ active = None \/ Expiring
    /\ \A k \in Job : program[k] = g => ledger[k] # "OutcomeUnknown"
    /\ ledger' = IF Expiring THEN [ledger EXCEPT ![active] = "CancelledBeforeLaunch"] ELSE ledger
    /\ active' = j /\ busy' = TRUE
    /\ program' = [program EXCEPT ![j] = g]
    /\ thread' = [thread EXCEPT ![t] = [NoThread EXCEPT !.pc = "preparing", !.job = j]]
    /\ UNCHANGED <<disk, cancel, expired, writer, outside, bounds>>

\* Validation fails, the writer is busy, or the ledger is full or cannot be
\* written: the reservation is dropped.
PrepareFails(t) ==
    /\ At(t, "preparing")
    /\ Leave(t)
    /\ IF active = thread[t].job THEN FreeSlot ELSE UNCHANGED slot
    /\ UNCHANGED <<ledger, disk, program, cancel, expired, writer, outside, bounds>>

Prepared(t) ==
    /\ At(t, "preparing") /\ writer = None
    /\ active = thread[t].job /\ active \notin cancel
    /\ SaveJob(active, "Awaiting")
    /\ busy' = FALSE
    /\ Leave(t)
    /\ UNCHANGED <<program, active, cancel, expired, writer, outside, crashes>>

-----------------------------------------------------------------------------
(* confirm_native and confirm *)

Confirmable(j) ==
    /\ ledger[j] = "Awaiting" /\ j \notin expired
    /\ active = j /\ ~ busy /\ j \notin cancel

Ask(t, j) ==
    /\ At(t, "idle") /\ Confirmable(j)
    /\ thread' = [thread EXCEPT ![t] = [NoThread EXCEPT !.pc = "asking", !.job = j]]
    /\ UNCHANGED <<ledger, disk, program, slot, cancel, expired, writer, outside, bounds>>

\* The evidence changed before the dialog was shown, or yes to a job that is no
\* longer confirmable.
AskFails(t) ==
    /\ At(t, "asking")
    /\ Leave(t)
    /\ UNCHANGED <<ledger, disk, program, slot, cancel, expired, writer, outside, bounds>>

AnswerNo(t) ==
    /\ At(t, "asking")
    /\ cancel' = IF active = thread[t].job THEN cancel \cup {active} ELSE cancel
    /\ Leave(t)
    /\ UNCHANGED <<ledger, disk, program, slot, expired, writer, outside, bounds>>

AnswerYes(t) ==
    /\ At(t, "asking") /\ Confirmable(thread[t].job)
    /\ busy' = TRUE
    /\ Goto(t, "confirming")
    /\ UNCHANGED <<ledger, disk, program, active, cancel, expired, writer, outside, bounds>>

\* Validation fails, the writer is busy, cancelled meanwhile, or the ledger cannot
\* be written.
ConfirmFails(t) ==
    /\ At(t, "confirming")
    /\ Leave(t)
    /\ busy' = IF active = thread[t].job THEN FALSE ELSE busy
    /\ UNCHANGED <<ledger, disk, program, active, cancel, expired, writer, outside, bounds>>

Queue(t) ==
    /\ At(t, "confirming") /\ writer = None
    /\ thread[t].job \notin cancel /\ ledger[thread[t].job] = "Awaiting"
    /\ SaveJob(thread[t].job, "Queued")
    /\ busy' = TRUE
    /\ Goto(t, "validate")
    /\ UNCHANGED <<program, active, cancel, expired, writer, outside, crashes>>

\* The worker thread cannot be spawned.
SpawnFails(t) ==
    /\ At(t, "confirming") /\ writer = None
    /\ thread[t].job \notin cancel /\ ledger[thread[t].job] = "Awaiting"
    /\ \/ SaveJob(thread[t].job, "Failed")
       \* Queued was written, Failed could not be.
       \/ /\ faults < MaxFaults /\ faults' = faults + 1
          /\ ledger' = [ledger EXCEPT ![thread[t].job] = "Queued"] /\ disk' = ledger'
    /\ FreeSlot
    /\ Leave(t)
    /\ UNCHANGED <<program, cancel, expired, writer, outside, crashes>>

-----------------------------------------------------------------------------
(* run: the worker *)

Validate(t) ==
    /\ At(t, "validate")
    /\ \E v \in BOOLEAN : thread' = [thread EXCEPT ![t].valid = v, ![t].pc = "gate"]
    /\ UNCHANGED <<ledger, disk, program, slot, cancel, expired, writer, outside, bounds>>

TakeWriter(t) ==
    /\ At(t, "gate") /\ writer = None
    /\ writer' = t
    /\ Goto(t, "locked")
    /\ UNCHANGED <<ledger, disk, program, slot, cancel, expired, outside, bounds>>

\* Mutant: the worker waits for the writer whatever happens.
GateCancelled_Waits(t) ==
    /\ At(t, "gate") /\ writer = None /\ thread[t].job \in cancel
    /\ ledger' = [ledger EXCEPT ![thread[t].job] = "CancelledBeforeLaunch"]
    /\ FreeSlot
    /\ Leave(t)
    /\ UNCHANGED <<disk, program, cancel, expired, writer, outside, bounds>>

\* Cancelled while somebody else holds the writer: the file stays as it is.
GateCancelled(t) ==
    /\ At(t, "gate") /\ writer # None /\ thread[t].job \in cancel
    /\ ledger' = [ledger EXCEPT ![thread[t].job] = "CancelledBeforeLaunch"]
    /\ FreeSlot
    /\ Leave(t)
    /\ UNCHANGED <<disk, program, cancel, expired, writer, outside, bounds>>

\* A failing write is ignored here, in memory as well.
LockedCancelled(t) ==
    /\ At(t, "locked") /\ thread[t].job \in cancel
    /\ \/ SaveJob(thread[t].job, "CancelledBeforeLaunch")
       \/ WriteFails /\ UNCHANGED ledger
    /\ FreeSlot
    /\ writer' = None
    /\ Leave(t)
    /\ UNCHANGED <<program, cancel, expired, outside, crashes>>

Locked(t) ==
    /\ At(t, "locked") /\ thread[t].job \notin cancel
    /\ Goto(t, "decided")
    /\ UNCHANGED <<ledger, disk, program, slot, cancel, expired, writer, outside, bounds>>

Finishing(t, s) == thread' = [thread EXCEPT ![t].pc = "finish", ![t].outcome = s]

\* The registry is read again; then the flag.
Decide(t) ==
    /\ At(t, "decided")
    /\ \/ Finishing(t, "Failed")
       \/ thread[t].valid /\ thread[t].job \in cancel /\ Finishing(t, "CancelledBeforeLaunch")
       \/ thread[t].valid /\ thread[t].job \notin cancel /\ Goto(t, "intent")
    /\ UNCHANGED <<ledger, disk, program, slot, cancel, expired, writer, outside, bounds>>

\* Mutant: a ledger that cannot be written does not stop the launch.
Intent_Lenient(t) ==
    /\ At(t, "intent")
    /\ \/ SaveJob(thread[t].job, "Launching")
       \/ WriteFails /\ ledger' = [ledger EXCEPT ![thread[t].job] = "Launching"]
    /\ Goto(t, "armed")
    /\ writer' = None
    /\ UNCHANGED <<program, slot, cancel, expired, outside, crashes>>

\* "No durable launch intent means NO vendor call."
Intent(t) ==
    /\ At(t, "intent")
    /\ \/ SaveJob(thread[t].job, "Launching") /\ Goto(t, "armed") /\ UNCHANGED slot
       \/ /\ WriteFails
          /\ ledger' = [ledger EXCEPT ![thread[t].job] = "Failed"]
          /\ FreeSlot
          /\ Leave(t)
    /\ writer' = None
    /\ UNCHANGED <<program, cancel, expired, outside, crashes>>

\* Mutant: the flag is not looked at after the intent.
Armed_Unchecked(t) ==
    /\ At(t, "armed")
    /\ Goto(t, "shell")
    /\ UNCHANGED <<ledger, disk, program, slot, cancel, expired, writer, outside, bounds>>

\* The last look at the flag, right before ShellExecuteEx.
Armed(t) ==
    /\ At(t, "armed")
    /\ IF thread[t].job \in cancel THEN Finishing(t, "CancelledBeforeLaunch") ELSE Goto(t, "shell")
    /\ UNCHANGED <<ledger, disk, program, slot, cancel, expired, writer, outside, bounds>>

\* UAC denied, or the launch fails.
ShellRefuses(t) ==
    /\ At(t, "shell")
    /\ \E s \in {"CancelledByVendor", "Failed"} : Finishing(t, s)
    /\ UNCHANGED <<ledger, disk, program, slot, cancel, expired, writer, outside, bounds>>

\* Without a process handle there is nothing to wait for.
ShellStarts(t) ==
    /\ At(t, "shell")
    /\ vendor' = [vendor EXCEPT ![thread[t].job] = "running"]
    /\ Goto(t, "wait") \/ Finishing(t, "OutcomeUnknown")
    /\ UNCHANGED <<ledger, disk, program, slot, cancel, expired, writer, told, bounds>>

\* The exit code of an MSI tells the outcome, that of any other uninstaller does not.
VendorExits(t) ==
    /\ At(t, "wait") /\ vendor[thread[t].job] = "ended"
    /\ \E s \in {"Completed", "CancelledByVendor", "Failed", "OutcomeUnknown"} : Finishing(t, s)
    /\ UNCHANGED <<ledger, disk, program, slot, cancel, expired, writer, outside, bounds>>

\* Cancelled, or WAIT_LIMIT is over.
WaitGivesUp(t) ==
    /\ At(t, "wait")
    /\ Finishing(t, "OutcomeUnknown")
    /\ UNCHANGED <<ledger, disk, program, slot, cancel, expired, writer, outside, bounds>>

\* A worker that gave the writer up waits for it.
Finish(t) ==
    /\ At(t, "finish") /\ writer \in {None, t}
    /\ \/ SaveJob(thread[t].job, thread[t].outcome)
       \/ WriteFails /\ ledger' = [ledger EXCEPT ![thread[t].job] = "OutcomeUnknown"]
    /\ FreeSlot
    /\ writer' = None
    /\ Leave(t)
    /\ UNCHANGED <<program, cancel, expired, outside, crashes>>

-----------------------------------------------------------------------------
(* status, cancel, release *)

Reported(j, l) ==
    IF active' = j /\ j \in cancel /\ l[j] \in Pending
    THEN IF l[j] = "Launching" THEN "OutcomeUnknown" ELSE "CancelledBeforeLaunch"
    ELSE l[j]

\* A wait that takes too long sets the flag as RequestCancel does.
Status(j) ==
    /\ ledger[j] # "none"
    /\ ExpirePrepared
    /\ told' = IF Reported(j, ledger') = "CancelledBeforeLaunch" THEN told \cup {j} ELSE told
    /\ UNCHANGED <<disk, program, cancel, expired, thread, writer, vendor, bounds>>

\* cancel sets the flag and then reports the status.
RequestCancel(j) ==
    /\ ledger[j] # "none" /\ active = j
    /\ cancel' = cancel \cup {j}
    /\ UNCHANGED <<ledger, disk, program, slot, expired, thread, writer, outside, bounds>>

Release(j) ==
    /\ writer = None
    /\ ledger[j] \notin {"none", "OutcomeUnknown"}
    /\ ~ (active = j /\ busy)
    /\ Saved([ledger EXCEPT ![j] = IF @ \in Pending THEN "CancelledBeforeLaunch" ELSE @])
    /\ IF active = j THEN FreeSlot ELSE UNCHANGED slot
    /\ UNCHANGED <<program, cancel, expired, thread, writer, outside, crashes>>

-----------------------------------------------------------------------------
(* Time, other operations, uninstallers, restarts *)

Expire(j) ==
    /\ ledger[j] = "Awaiting" /\ j \notin expired
    /\ expired' = expired \cup {j}
    /\ UNCHANGED <<ledger, disk, program, slot, cancel, thread, writer, outside, bounds>>

OtherTakesWriter ==
    /\ writer = None /\ writer' = Other
    /\ UNCHANGED <<ledger, disk, program, slot, cancel, expired, thread, outside, bounds>>

OtherReleasesWriter ==
    /\ writer = Other /\ writer' = None
    /\ UNCHANGED <<ledger, disk, program, slot, cancel, expired, thread, outside, bounds>>

VendorEnds(j) ==
    /\ vendor[j] = "running"
    /\ vendor' = [vendor EXCEPT ![j] = "ended"]
    /\ UNCHANGED <<ledger, disk, program, slot, cancel, expired, thread, writer, told, bounds>>

\* Mutant: a launch that was cut short counts as failed.
AfterRestart_Fails(s) ==
    IF s = "Launching" THEN "Failed"
    ELSE IF s \in {"Awaiting", "Queued"} THEN "CancelledBeforeLaunch" ELSE s

AfterRestart(s) ==
    IF s = "Launching" THEN "OutcomeUnknown"
    ELSE IF s \in {"Awaiting", "Queued"} THEN "CancelledBeforeLaunch" ELSE s

\* The program ends, the uninstallers it started go on, it is started again.
Restart ==
    /\ crashes < MaxCrashes /\ crashes' = crashes + 1
    /\ ledger' = [j \in Job |-> AfterRestart(disk[j])] /\ disk' = ledger'
    /\ FreeSlot
    /\ cancel' = {} /\ expired' = {}
    /\ thread' = [t \in Thread |-> NoThread]
    /\ writer' = None
    /\ UNCHANGED <<program, outside, faults>>

-----------------------------------------------------------------------------

Command(t) ==
    \/ \E j \in Job, g \in Program : Prepare(t, j, g)
    \/ PrepareFails(t) \/ Prepared(t)
    \/ \E j \in Job : Ask(t, j)
    \/ AskFails(t) \/ AnswerNo(t) \/ AnswerYes(t)
    \/ ConfirmFails(t) \/ Queue(t) \/ SpawnFails(t)

\* The steps of the worker that return by themselves.
Work(t) ==
    \/ Validate(t) \/ TakeWriter(t) \/ GateCancelled(t) \/ LockedCancelled(t) \/ Locked(t)
    \/ Decide(t) \/ Intent(t) \/ Armed(t) \/ VendorExits(t) \/ WaitGivesUp(t) \/ Finish(t)

Next ==
    \/ \E t \in Thread : Command(t) \/ Work(t) \/ ShellRefuses(t) \/ ShellStarts(t)
    \/ \E j \in Job : Status(j) \/ RequestCancel(j) \/ Release(j) \/ Expire(j) \/ VendorEnds(j)
    \/ OtherTakesWriter \/ OtherReleasesWriter
    \/ Restart

Spec == Init /\ [][Next]_vars

\* The worker runs on; nothing is assumed of ShellExecuteEx, of the user, or of
\* whoever else holds the writer.
FairSpec == Spec /\ \A t \in Thread : WF_vars(Work(t))

-----------------------------------------------------------------------------
(* Properties *)

\* A job launches at most once, and no program is launched again while an
\* uninstaller started for it may still be running, whatever was cancelled, failed
\* to be written or restarted in between ("never replay").
NoReplay ==
    [][\A j \in Job : vendor'[j] # vendor[j] /\ vendor'[j] = "running" =>
          /\ vendor[j] = "none"
          /\ \A k \in Job : program[k] = program[j] => vendor[k] # "running"]_vars

\* A job that was ever reported as cancelled before launch is not launched, although
\* cancelling takes no lock that the launching worker holds.
CancelIsFinal == \A j \in told : vendor[j] = "none"

\* Whatever the program may have launched, the ledger file admits: after any crash
\* the job is not taken for one that never started.
LaunchIsDurable ==
    \A j \in Job : vendor[j] # "none" =>
        disk[j] \notin {"none", "Awaiting", "Queued", "CancelledBeforeLaunch"}

\* While ledger writes succeed, a job is shown as under way only as long as it holds
\* the slot, so nothing waits for a job that nobody works on.
PendingHasSlot ==
    faults = 0 => \A j \in Job : ledger[j] \in Pending => active = j

\* A job that waits behind a cleanup can be cancelled: its worker ends without
\* waiting for the cleanup.
CancelEndsQueue ==
    \A t \in Thread :
        (At(t, "gate") /\ thread[t].job \in cancel) ~> At(t, "idle")
=============================================================================
