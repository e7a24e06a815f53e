----------------------- MODULE WindowsActions_proofs -----------------------
(***************************************************************************)
(* Theorems about the two components that act on Windows for the user.     *)
(*                                                                         *)
(* VendorJobs, for every set of jobs, programs and threads and every       *)
(* number of failing writes and crashes: type correctness, and the four    *)
(* safety properties of uninstalling with the vendor's own uninstaller, of *)
(* which "never replay" is the one that matters.                           *)
(*                                                                         *)
(* SystemAdapters, for every number of hosts lines, backups, changes and   *)
(* writes by other programs, and for each of the fourteen kinds of         *)
(* setting: type correctness, that a rollback restores what was observed,  *)
(* that what is offered is taken, and that a change is written over what   *)
(* the user was shown.                                                     *)
(***************************************************************************)
EXTENDS VendorJobs, SystemAdapters, FiniteSetTheorems, TLAPS

-----------------------------------------------------------------------------
(* Vendor jobs: the inductive invariant *)

\* Between the reservation of the slot and its release a thread works on a job.
WorkPc == {"preparing", "confirming", "validate", "gate", "locked", "decided", "intent",
           "armed", "shell", "wait", "finish"}
Working(t) == thread[t].pc \in WorkPc

\* Who works, works on the active job, and alone.
OneWorker ==
    /\ \A t \in Thread : Working(t) => busy /\ active = thread[t].job
    /\ \A t, u \in Thread : Working(t) /\ Working(u) => t = u

\* The active job is not over; only the active job of a working thread is Launching.
SlotLedger ==
    /\ active # None =>
          /\ program[active] # None
          /\ ledger[active] \in Pending \cup {"none"}
          /\ ~ busy => ledger[active] = "Awaiting"
    /\ \A j \in Job : ledger[j] = "Launching" => active = j /\ busy
    /\ \A j \in Job : program[j] = None => ledger[j] = "none" /\ disk[j] = "none"

\* What the ledger says of a job at each point of its worker; up to the launch the
\* vendor has not been called, and the launch comes after the durable intent.
WorkerLedger ==
    \A t \in Thread :
        LET j == thread[t].job IN
        /\ thread[t].pc = "preparing" => ledger[j] = "none"
        /\ thread[t].pc = "confirming" => ledger[j] = "Awaiting"
        /\ thread[t].pc \in {"validate", "gate", "locked", "decided", "intent"} =>
              ledger[j] = "Queued"
        /\ thread[t].pc \in {"armed", "shell", "wait"} =>
              ledger[j] = "Launching" /\ disk[j] = "Launching"
        /\ thread[t].pc \in {"armed", "shell"} => vendor[j] = "none"
        /\ thread[t].pc = "finish" =>
              /\ thread[t].outcome \in Terminal
              /\ thread[t].outcome = "CancelledBeforeLaunch" => vendor[j] = "none"

\* What was launched is admitted in memory and in the file; strengthens LaunchIsDurable.
Launched == {"Launching", "Completed", "CancelledByVendor", "Failed", "OutcomeUnknown"}
VendorAdmitted ==
    \A j \in Job : vendor[j] # "none" => ledger[j] \in Launched /\ disk[j] \in Launched

\* While an uninstaller runs, either its job is known to be unknown for ever, or a
\* thread waits for it or is about to record that; the file cannot say better.
VendorRunning ==
    \A j \in Job : vendor[j] = "running" =>
        /\ disk[j] \in {"Launching", "OutcomeUnknown"}
        /\ \/ ledger[j] = "OutcomeUnknown"
           \/ \E t \in Thread :
                 /\ thread[t].job = j
                 /\ \/ thread[t].pc = "wait"
                    \/ thread[t].pc = "finish" /\ thread[t].outcome = "OutcomeUnknown"

\* No other uninstaller of the active job's program is running.
ProgramFree ==
    active # None =>
        \A k \in Job : k # active /\ program[k] = program[active] => vendor[k] # "running"

\* Strengthens CancelIsFinal: an active job that was reported as cancelled has its
\* flag set, and its worker is past the last look at the flag only if it stopped.
ToldFinal ==
    \A j \in told :
        /\ vendor[j] = "none" /\ program[j] # None
        /\ active = j => j \in cancel
        /\ \A t \in Thread : thread[t].job = j => thread[t].pc # "shell"

IInv ==
    /\ TypeOK /\ OneWorker /\ SlotLedger /\ WorkerLedger
    /\ VendorAdmitted /\ VendorRunning /\ ProgramFree /\ ToldFinal /\ PendingHasSlot

-----------------------------------------------------------------------------
(* Type correctness *)

\* The states of a job, one by one.
LEMMA States ==
    /\ {"none", "Awaiting", "Queued", "Launching", "Completed", "CancelledByVendor",
        "CancelledBeforeLaunch", "Failed", "OutcomeUnknown"} = JobState
    /\ Terminal \subseteq JobState
BY DEF JobState, Pending, Terminal

\* An idle thread, and one that takes up a job, have a thread's type.
LEMMA RecordFacts ==
    /\ NoThread \in ThreadRecord
    /\ \A j \in Job, pc \in {"preparing", "asking"} :
          [NoThread EXCEPT !.pc = pc, !.job = j] \in ThreadRecord
    /\ Terminal \subseteq JobState
BY DEF NoThread, ThreadRecord, JobState, Pending, Terminal

\* So has one that has an outcome to record.
LEMMA RecordFinish ==
    ASSUME NEW r \in ThreadRecord, NEW s \in JobState
    PROVE  /\ [r EXCEPT !.pc = "finish", !.outcome = s] \in ThreadRecord
           /\ [r EXCEPT !.pc = "finish", !.outcome = s].pc = "finish"
           /\ [r EXCEPT !.pc = "finish", !.outcome = s].job = r.job
BY DEF ThreadRecord

\* A thread that goes on with its job keeps its type, and no other thread moves.
LEMMA GotoType ==
    ASSUME TypeOK, NEW t \in Thread, NEW pc, Goto(t, pc),
           pc \in {"confirming", "validate", "gate", "locked", "decided", "intent", "armed",
                   "shell", "wait"},
           thread[t].job \in Job
    PROVE  /\ thread' \in [Thread -> ThreadRecord]
           /\ \A u \in Thread : thread'[u].pc # "idle" => thread'[u].job \in Job
           /\ thread'[t].pc = pc
           /\ \A u \in Thread : u # t => thread'[u] = thread[u]
BY DEF TypeOK, Goto, ThreadRecord

\* The same for a thread that ends its job,
LEMMA FinishingType ==
    ASSUME TypeOK, NEW t \in Thread, NEW s \in Terminal, Finishing(t, s), thread[t].job \in Job
    PROVE  /\ thread' \in [Thread -> ThreadRecord]
           /\ \A u \in Thread : thread'[u].pc # "idle" => thread'[u].job \in Job
           /\ thread'[t].pc = "finish"
           /\ \A u \in Thread : u # t => thread'[u] = thread[u]
<1> DEFINE r == [thread[t] EXCEPT !.pc = "finish", !.outcome = s]
<1>1. r \in ThreadRecord /\ r.pc = "finish" /\ r.job = thread[t].job
    <2>1. thread[t] \in ThreadRecord /\ s \in JobState
        BY States DEF TypeOK
    <2>2. QED BY <2>1, RecordFinish
<1>2. thread' = [thread EXCEPT ![t] = r]
    BY DEF TypeOK, Finishing
<1> HIDE DEF r
<1>3. QED BY <1>1, <1>2 DEF TypeOK

\* for one that leaves it,
LEMMA LeaveType ==
    ASSUME TypeOK, NEW t \in Thread, Leave(t)
    PROVE  /\ thread' \in [Thread -> ThreadRecord]
           /\ \A u \in Thread : thread'[u].pc # "idle" => thread'[u].job \in Job
           /\ thread'[t].pc = "idle"
           /\ \A u \in Thread : u # t => thread'[u] = thread[u]
BY RecordFacts DEF TypeOK, Leave, NoThread

\* and for one that takes it up.
LEMMA EnterType ==
    ASSUME TypeOK, NEW t \in Thread, NEW j \in Job, NEW pc \in {"preparing", "asking"},
           thread' = [thread EXCEPT ![t] = [NoThread EXCEPT !.pc = pc, !.job = j]]
    PROVE  /\ thread' \in [Thread -> ThreadRecord]
           /\ \A u \in Thread : thread'[u].pc # "idle" => thread'[u].job \in Job
           /\ thread'[t].pc = pc
           /\ \A u \in Thread : u # t => thread'[u] = thread[u]
<1>1. [NoThread EXCEPT !.pc = pc, !.job = j] \in ThreadRecord
    BY RecordFacts
<1>2. /\ [NoThread EXCEPT !.pc = pc, !.job = j].pc = pc
      /\ [NoThread EXCEPT !.pc = pc, !.job = j].job = j
    BY DEF NoThread
<1>3. QED BY <1>1, <1>2 DEF TypeOK

\* Every step keeps the type invariant.
LEMMA TypeStep == TypeOK /\ [Next]_vars => TypeOK'
<1> SUFFICES ASSUME TypeOK, [Next]_vars PROVE TypeOK'
    OBVIOUS
<1>j. ASSUME NEW t \in Thread, thread[t].pc # "idle" PROVE thread[t].job \in Job
    BY <1>j DEF TypeOK
<1> USE VendorAssumption, States, <1>j DEF At, slot, outside, bounds
<1>1. ASSUME NEW t \in Thread, NEW j \in Job, NEW g \in Program, Prepare(t, j, g) PROVE TypeOK'
    <2>1. ledger' \in [Job -> JobState] /\ program' \in [Job -> Program \cup {None}]
        BY <1>1 DEF TypeOK, Prepare
    <2>2. /\ thread' \in [Thread -> ThreadRecord]
          /\ \A u \in Thread : thread'[u].pc # "idle" => thread'[u].job \in Job
          /\ \A u \in Thread : u # t => thread'[u] = thread[u]
        BY <1>1, EnterType DEF Prepare
    <2>3. \A u \in Thread : writer' = u => thread'[u].pc \in {"locked", "decided", "intent", "finish"}
        BY <1>1, <2>2 DEF TypeOK, Prepare
    <2>4. QED BY <1>1, <2>1, <2>2, <2>3 DEF TypeOK, Prepare
<1>2. ASSUME NEW t \in Thread, LockedCancelled(t) PROVE TypeOK'
    <2>1. thread[t].job \in Job
        BY <1>2 DEF LockedCancelled
    <2>2. ledger' \in [Job -> JobState] /\ disk' \in [Job -> JobState] /\ faults' \in Nat
        BY <1>2, <2>1 DEF TypeOK, LockedCancelled, SaveJob, Saved, WriteFails
    <2>3. QED BY <1>2, <2>2, LeaveType DEF TypeOK, LockedCancelled, FreeSlot
<1>3. ASSUME NEW t \in Thread, SpawnFails(t) PROVE TypeOK'
    <2>1. thread[t].job \in Job
        BY <1>3 DEF SpawnFails
    <2>2. ledger' \in [Job -> JobState] /\ disk' \in [Job -> JobState] /\ faults' \in Nat
        BY <1>3, <2>1 DEF TypeOK, SpawnFails, SaveJob, Saved, WriteFails
    <2>3. QED BY <1>3, <2>2, LeaveType DEF TypeOK, SpawnFails, FreeSlot
<1>4. ASSUME NEW t \in Thread, Finish(t) PROVE TypeOK'
    <2>1. thread[t].job \in Job
        BY <1>4 DEF Finish
    <2>2. ledger' \in [Job -> JobState] /\ disk' \in [Job -> JobState] /\ faults' \in Nat
        BY <1>4, <2>1 DEF TypeOK, Finish, SaveJob, Saved, WriteFails, ThreadRecord
    <2>3. /\ thread' \in [Thread -> ThreadRecord]
          /\ \A u \in Thread : thread'[u].pc # "idle" => thread'[u].job \in Job
        BY <1>4, LeaveType DEF Finish
    <2>4. /\ active' \in Job \cup {None} /\ busy' \in BOOLEAN /\ writer' = None
          /\ UNCHANGED <<program, cancel, expired, vendor, told, crashes>>
        BY <1>4 DEF Finish, FreeSlot, outside
    <2>5. \A u \in Thread : writer' # u
        BY <2>4, VendorAssumption
    <2>6. QED BY <2>2, <2>3, <2>4, <2>5 DEF TypeOK
<1>5. ASSUME NEW t \in Thread, PrepareFails(t) PROVE TypeOK'
    BY <1>5, LeaveType DEF TypeOK, PrepareFails, FreeSlot
<1>6. ASSUME NEW t \in Thread, AskFails(t) PROVE TypeOK'
    BY <1>6, LeaveType DEF TypeOK, AskFails
<1>7. ASSUME NEW t \in Thread, AnswerNo(t) PROVE TypeOK'
    BY <1>7, LeaveType DEF TypeOK, AnswerNo
<1>8. ASSUME NEW t \in Thread, ConfirmFails(t) PROVE TypeOK'
    BY <1>8, LeaveType DEF TypeOK, ConfirmFails
<1>9. ASSUME NEW t \in Thread, GateCancelled(t) PROVE TypeOK'
    BY <1>9, LeaveType DEF TypeOK, GateCancelled, FreeSlot
<1>10. ASSUME NEW t \in Thread, Prepared(t) PROVE TypeOK'
    BY <1>10, LeaveType DEF TypeOK, Prepared, SaveJob, Saved
<1>11. ASSUME NEW t \in Thread, NEW j \in Job, Ask(t, j) PROVE TypeOK'
    BY <1>11, EnterType DEF TypeOK, Ask
<1>12. ASSUME NEW t \in Thread, AnswerYes(t) PROVE TypeOK'
    BY <1>12, GotoType DEF TypeOK, AnswerYes
<1>13. ASSUME NEW t \in Thread, Queue(t) PROVE TypeOK'
    BY <1>13, GotoType DEF TypeOK, Queue, SaveJob, Saved
<1>14. ASSUME NEW t \in Thread, TakeWriter(t) PROVE TypeOK'
    BY <1>14, GotoType DEF TypeOK, TakeWriter
<1>15. ASSUME NEW t \in Thread, Locked(t) PROVE TypeOK'
    BY <1>15, GotoType DEF TypeOK, Locked
<1>16. ASSUME NEW t \in Thread, Decide(t) PROVE TypeOK'
    <2>1. thread[t].job \in Job
        BY <1>16 DEF Decide
    <2>2. CASE Goto(t, "intent")
        BY <1>16, <2>1, <2>2, GotoType DEF TypeOK, Decide
    <2>3. ASSUME NEW s \in Terminal, Finishing(t, s) PROVE TypeOK'
        BY <1>16, <2>1, <2>3, FinishingType DEF TypeOK, Decide
    <2>4. QED BY <1>16, <2>2, <2>3 DEF Decide, Terminal
<1>17. ASSUME NEW t \in Thread, Armed(t) PROVE TypeOK'
    BY <1>17, GotoType, FinishingType DEF TypeOK, Armed, Terminal
<1>18. ASSUME NEW t \in Thread, ShellRefuses(t) PROVE TypeOK'
    BY <1>18, FinishingType DEF TypeOK, ShellRefuses, Terminal
<1>19. ASSUME NEW t \in Thread, VendorExits(t) PROVE TypeOK'
    BY <1>19, FinishingType DEF TypeOK, VendorExits, Terminal
<1>20. ASSUME NEW t \in Thread, WaitGivesUp(t) PROVE TypeOK'
    BY <1>20, FinishingType DEF TypeOK, WaitGivesUp, Terminal
<1>21. ASSUME NEW t \in Thread, Intent(t) PROVE TypeOK'
    <2>1. thread[t].job \in Job
        BY <1>21 DEF Intent
    <2>2. ledger' \in [Job -> JobState] /\ disk' \in [Job -> JobState] /\ faults' \in Nat
        BY <1>21, <2>1 DEF TypeOK, Intent, SaveJob, Saved, WriteFails
    <2>3. CASE Goto(t, "armed") /\ UNCHANGED slot
        BY <1>21, <2>1, <2>2, <2>3, GotoType DEF TypeOK, Intent
    <2>4. CASE Leave(t) /\ FreeSlot
        <3>1. /\ active' \in Job \cup {None} /\ busy' \in BOOLEAN
              /\ writer' = None /\ UNCHANGED <<program, cancel, expired, vendor, told, crashes>>
            BY <1>21, <2>4 DEF Intent, FreeSlot
        <3>2. /\ thread' \in [Thread -> ThreadRecord]
              /\ \A u \in Thread : thread'[u].pc # "idle" => thread'[u].job \in Job
            BY <2>4, LeaveType
        <3>3. QED BY <2>2, <3>1, <3>2 DEF TypeOK
    <2>5. QED BY <1>21, <2>3, <2>4 DEF Intent
<1>22. ASSUME NEW t \in Thread, Validate(t) PROVE TypeOK'
    BY <1>22 DEF TypeOK, Validate, ThreadRecord
<1>23. ASSUME NEW j \in Job, Status(j) PROVE TypeOK'
    BY <1>23 DEF TypeOK, Status, ExpirePrepared, FreeSlot
<1>24. ASSUME NEW j \in Job, RequestCancel(j) PROVE TypeOK'
    BY <1>24 DEF TypeOK, RequestCancel
<1>25. ASSUME NEW j \in Job, Release(j) PROVE TypeOK'
    BY <1>25 DEF TypeOK, Release, Saved, FreeSlot
<1>26. ASSUME NEW j \in Job, Expire(j) PROVE TypeOK'
    BY <1>26 DEF TypeOK, Expire
<1>27. ASSUME NEW j \in Job, VendorEnds(j) PROVE TypeOK'
    BY <1>27 DEF TypeOK, VendorEnds
<1>28. ASSUME OtherTakesWriter PROVE TypeOK'
    BY <1>28 DEF TypeOK, OtherTakesWriter
<1>29. ASSUME OtherReleasesWriter PROVE TypeOK'
    BY <1>29 DEF TypeOK, OtherReleasesWriter
<1>30. ASSUME NEW t \in Thread, ShellStarts(t) PROVE TypeOK'
    <2>1. vendor' \in [Job -> {"none", "running", "ended"}] /\ thread[t].job \in Job
        BY <1>30 DEF TypeOK, ShellStarts
    <2>2. CASE Goto(t, "wait")
        BY <1>30, <2>1, <2>2, GotoType DEF TypeOK, ShellStarts
    <2>3. CASE Finishing(t, "OutcomeUnknown")
        BY <1>30, <2>1, <2>3, FinishingType DEF TypeOK, ShellStarts, Terminal
    <2>4. QED BY <1>30, <2>2, <2>3 DEF ShellStarts
<1>31. CASE Restart
    <2>1. ledger' \in [Job -> JobState] /\ disk' \in [Job -> JobState]
        BY <1>31 DEF TypeOK, Restart, AfterRestart
    <2>2. thread' \in [Thread -> ThreadRecord] /\ \A u \in Thread : thread'[u].pc = "idle"
        <3>1. thread' = [t \in Thread |-> NoThread]
            BY <1>31 DEF Restart
        <3>2. QED BY <3>1, RecordFacts DEF NoThread
    <2>3. /\ active' = None /\ busy' = FALSE /\ cancel' = {} /\ expired' = {} /\ writer' = None
          /\ crashes' \in Nat /\ UNCHANGED <<program, vendor, told, faults>>
        BY <1>31 DEF TypeOK, Restart, FreeSlot
    <2>4. QED BY <2>1, <2>2, <2>3 DEF TypeOK
<1>32. ASSUME UNCHANGED vars PROVE TypeOK'
    BY <1>32 DEF TypeOK, vars
<1> QED
    BY <1>1, <1>2, <1>3, <1>4, <1>5, <1>6, <1>7, <1>8, <1>9, <1>10, <1>11, <1>12, <1>13,
       <1>14, <1>15, <1>16, <1>17, <1>18, <1>19, <1>20, <1>21, <1>22, <1>23, <1>24, <1>25,
       <1>26, <1>27, <1>28, <1>29, <1>30, <1>31, <1>32
    DEF Next, Command, Work

\* The type invariant holds at first.
LEMMA TypeInit == Init => TypeOK
<1> SUFFICES ASSUME Init PROVE TypeOK
    OBVIOUS
<1>1. /\ thread \in [Thread -> ThreadRecord] /\ writer = None
      /\ \A t \in Thread : thread[t].pc = "idle"
    BY RecordFacts DEF Init, NoThread
<1>2. ledger \in [Job -> JobState] /\ disk \in [Job -> JobState]
    BY States DEF Init
<1>3. QED BY <1>1, <1>2, VendorAssumption DEF Init, TypeOK

\* Every variable keeps its type in every behaviour.
THEOREM TypeCorrect == Spec => []TypeOK
<1>1. QED BY TypeInit, TypeStep, PTL DEF Spec

-----------------------------------------------------------------------------
(* The invariant holds at first *)

\* Nobody works on anything and nothing was launched.
LEMMA InvInit == Init => IInv
<1> SUFFICES ASSUME Init PROVE IInv
    OBVIOUS
<1>1. TypeOK
    BY TypeInit
<1>2. OneWorker /\ WorkerLedger
    BY DEF Init, OneWorker, WorkerLedger, Working, WorkPc, NoThread
<1>3. SlotLedger /\ VendorAdmitted /\ VendorRunning /\ ProgramFree /\ ToldFinal
    BY DEF Init, SlotLedger, VendorAdmitted, VendorRunning, ProgramFree, ToldFinal
<1>4. PendingHasSlot
    BY DEF Init, PendingHasSlot, Pending
<1>5. QED BY <1>1, <1>2, <1>3, <1>4 DEF IInv

-----------------------------------------------------------------------------
(* Every step keeps it, one conjunct at a time *)

\* The slot is never handed over while somebody works on its job.
LEMMA OneWorkerStep == IInv /\ [Next]_vars => OneWorker'
<1> SUFFICES ASSUME IInv, [Next]_vars PROVE OneWorker'
    OBVIOUS
<1>1. ASSUME NEW t \in Thread, NEW j \in Job, NEW g \in Program,
           Prepare(t, j, g)
    PROVE  OneWorker'
    BY <1>1, VendorAssumption DEF Prepare, TypeOK, At, Expiring, Working, OneWorker, IInv
<1>2. ASSUME NEW t \in Thread, PrepareFails(t) \/ Prepared(t) PROVE OneWorker'
    BY <1>2
    DEF PrepareFails, Prepared, NoThread, TypeOK, At, Leave, WorkPc, Working, OneWorker,
        IInv
<1>3. ASSUME NEW t \in Thread, NEW j \in Job, Ask(t, j) PROVE OneWorker'
    BY <1>3 DEF Ask, Confirmable, WorkPc, Working, OneWorker, IInv
<1>4. ASSUME NEW t \in Thread, AskFails(t) PROVE OneWorker'
    BY <1>4 DEF AskFails, slot, NoThread, Leave, WorkPc, Working, OneWorker, IInv
<1>5. ASSUME NEW t \in Thread, AnswerNo(t) \/ AnswerYes(t) PROVE OneWorker'
    BY <1>5
    DEF AnswerNo, AnswerYes, slot, JobState, ThreadRecord, NoThread, TypeOK, Goto, Leave,
        Confirmable, WorkPc, Working, OneWorker, IInv
<1>6. ASSUME NEW t \in Thread, ConfirmFails(t) PROVE OneWorker'
    BY <1>6 DEF ConfirmFails, NoThread, TypeOK, At, Leave, WorkPc, Working, OneWorker, IInv
<1>7. ASSUME NEW t \in Thread, Queue(t) PROVE OneWorker'
    BY <1>7 DEF Queue, At, Goto, WorkPc, Working, OneWorker, IInv
<1>8. ASSUME NEW t \in Thread, SpawnFails(t) PROVE OneWorker'
    BY <1>8 DEF SpawnFails, NoThread, TypeOK, At, Leave, WorkPc, Working, OneWorker, IInv
<1>9. ASSUME NEW t \in Thread, Validate(t) PROVE OneWorker'
    BY <1>9 DEF Validate, slot, TypeOK, At, WorkPc, Working, OneWorker, IInv
<1>10. ASSUME NEW t \in Thread, TakeWriter(t) PROVE OneWorker'
    BY <1>10 DEF TakeWriter, slot, At, Goto, WorkPc, Working, OneWorker, IInv
<1>11. ASSUME NEW t \in Thread,
           GateCancelled(t) \/ LockedCancelled(t) \/ Locked(t)
    PROVE  OneWorker'
    BY <1>11
    DEF GateCancelled, LockedCancelled, Locked, slot, ThreadRecord, NoThread, TypeOK, At,
        Goto, Leave, WorkPc, Working, OneWorker, IInv
<1>12. ASSUME NEW t \in Thread, Decide(t) \/ Intent(t) \/ Armed(t) PROVE OneWorker'
    BY <1>12
    DEF Decide, Intent, Armed, slot, ThreadRecord, NoThread, TypeOK, At, Goto, Leave,
        Finishing, WorkPc, Working, OneWorker, IInv
<1>13. ASSUME NEW t \in Thread,
           ShellRefuses(t) \/ ShellStarts(t) \/ VendorExits(t) \/ WaitGivesUp(t) \/ Finish(t)
    PROVE  OneWorker'
    BY <1>13
    DEF ShellRefuses, ShellStarts, VendorExits, WaitGivesUp, Finish, slot, ThreadRecord,
        NoThread, TypeOK, SaveJob, At, Goto, Leave, Finishing, WorkPc, Working, OneWorker,
        IInv
<1>14. ASSUME NEW j \in Job,
           Status(j) \/ RequestCancel(j) \/ Release(j) \/ Expire(j) \/ VendorEnds(j)
    PROVE  OneWorker'
    BY <1>14
    DEF Status, RequestCancel, Release, Expire, VendorEnds, slot, Expiring, ExpirePrepared,
        Working, OneWorker, IInv
<1>15. CASE OtherTakesWriter \/ OtherReleasesWriter \/ UNCHANGED vars
    BY <1>15 DEF vars, OtherTakesWriter, OtherReleasesWriter, slot, Working, OneWorker, IInv
<1>16. CASE Restart
    BY <1>16 DEF Restart, NoThread, WorkPc, Working, OneWorker
<1> QED
    BY <1>1, <1>2, <1>3, <1>4, <1>5, <1>6, <1>7, <1>8, <1>9, <1>10, <1>11, <1>12, <1>13,
       <1>14, <1>15, <1>16
    DEF Next, Command, Work

\* The slot and the ledger agree.
LEMMA SlotLedgerStep == IInv /\ [Next]_vars => SlotLedger'
<1> SUFFICES ASSUME IInv, [Next]_vars PROVE SlotLedger'
    OBVIOUS
<1>1. ASSUME NEW t \in Thread, NEW j \in Job, NEW g \in Program,
           Prepare(t, j, g)
    PROVE  SlotLedger'
    BY <1>1, VendorAssumption DEF Prepare, TypeOK, SlotLedger, IInv
<1>2. ASSUME NEW t \in Thread, PrepareFails(t) \/ Prepared(t) PROVE SlotLedger'
    BY <1>2, VendorAssumption
    DEF PrepareFails, Prepared, slot, Pending, TypeOK, Saved, SaveJob, FreeSlot, At,
        SlotLedger, WorkerLedger, IInv
<1>3. ASSUME NEW t \in Thread, NEW j \in Job, Ask(t, j) PROVE SlotLedger'
    BY <1>3 DEF Ask, slot, SlotLedger, IInv
<1>4. ASSUME NEW t \in Thread, AskFails(t) \/ AnswerNo(t) \/ AnswerYes(t) PROVE SlotLedger'
    BY <1>4 DEF AskFails, AnswerNo, AnswerYes, slot, SlotLedger, IInv
<1>5. ASSUME NEW t \in Thread, ConfirmFails(t) PROVE SlotLedger'
    BY <1>5 DEF ConfirmFails, At, SlotLedger, WorkerLedger, IInv
<1>6. ASSUME NEW t \in Thread, Queue(t) \/ SpawnFails(t) PROVE SlotLedger'
    BY <1>6
    DEF Queue, SpawnFails, Pending, TypeOK, Saved, SaveJob, FreeSlot, At, WorkPc, Working,
        OneWorker, SlotLedger, IInv
<1>7. ASSUME NEW t \in Thread,
           Validate(t) \/ TakeWriter(t) \/ GateCancelled(t) \/ LockedCancelled(t) \/ Locked(t)
    PROVE  SlotLedger'
    BY <1>7
    DEF Validate, TakeWriter, GateCancelled, LockedCancelled, Locked, slot, TypeOK, Saved,
        WriteFails, SaveJob, FreeSlot, At, WorkPc, Working, OneWorker, SlotLedger,
        WorkerLedger, IInv
<1>8. ASSUME NEW t \in Thread, Decide(t) \/ Intent(t) \/ Armed(t) PROVE SlotLedger'
    BY <1>8, VendorAssumption
    DEF Decide, Intent, Armed, slot, Pending, TypeOK, Saved, WriteFails, SaveJob, FreeSlot,
        At, WorkPc, Working, OneWorker, SlotLedger, IInv
<1>9. ASSUME NEW t \in Thread,
           ShellRefuses(t) \/ ShellStarts(t) \/ VendorExits(t) \/ WaitGivesUp(t) \/ Finish(t)
    PROVE  SlotLedger'
    BY <1>9, VendorAssumption
    DEF ShellRefuses, ShellStarts, VendorExits, WaitGivesUp, Finish, slot, Terminal, TypeOK,
        Saved, WriteFails, SaveJob, FreeSlot, At, WorkPc, Working, OneWorker, SlotLedger,
        WorkerLedger, IInv
<1>10. ASSUME NEW j \in Job,
           Status(j) \/ RequestCancel(j) \/ Release(j) \/ Expire(j) \/ VendorEnds(j)
    PROVE  SlotLedger'
    BY <1>10, VendorAssumption
    DEF Status, RequestCancel, Release, Expire, VendorEnds, slot, TypeOK, Saved, FreeSlot,
        ExpirePrepared, SlotLedger, IInv
<1>11. CASE OtherTakesWriter \/ OtherReleasesWriter \/ UNCHANGED vars
    BY <1>11 DEF vars, OtherTakesWriter, OtherReleasesWriter, slot, SlotLedger, IInv
<1>12. CASE Restart
    BY <1>12 DEF Restart, FreeSlot, AfterRestart, SlotLedger, IInv
<1> QED
    BY <1>1, <1>2, <1>3, <1>4, <1>5, <1>6, <1>7, <1>8, <1>9, <1>10, <1>11, <1>12
    DEF Next, Command, Work

\* The ledger follows the worker.
LEMMA WorkerLedgerStep == IInv /\ [Next]_vars => WorkerLedger'
<1> SUFFICES ASSUME IInv, [Next]_vars PROVE WorkerLedger'
    OBVIOUS
<1>1. ASSUME NEW t \in Thread, NEW j \in Job, NEW g \in Program,
           Prepare(t, j, g)
    PROVE  WorkerLedger'
    BY <1>1
    DEF Prepare, outside, Expiring, WorkPc, Working, OneWorker, SlotLedger, WorkerLedger,
        IInv
<1>2. ASSUME NEW t \in Thread, PrepareFails(t) \/ Prepared(t) PROVE WorkerLedger'
    BY <1>2
    DEF PrepareFails, Prepared, NoThread, TypeOK, At, Leave, WorkPc, Working, OneWorker,
        WorkerLedger, IInv
<1>3. ASSUME NEW t \in Thread, NEW j \in Job, Ask(t, j) PROVE WorkerLedger'
    BY <1>3 DEF Ask, outside, WorkerLedger, IInv
<1>4. ASSUME NEW t \in Thread, AskFails(t) PROVE WorkerLedger'
    BY <1>4 DEF AskFails, outside, NoThread, Leave, WorkerLedger, IInv
<1>5. ASSUME NEW t \in Thread, AnswerNo(t) \/ AnswerYes(t) PROVE WorkerLedger'
    BY <1>5
    DEF AnswerNo, AnswerYes, outside, ThreadRecord, NoThread, TypeOK, Goto, Leave,
        Confirmable, WorkerLedger, IInv
<1>6. ASSUME NEW t \in Thread, ConfirmFails(t) PROVE WorkerLedger'
    BY <1>6 DEF ConfirmFails, outside, NoThread, Leave, WorkerLedger, IInv
<1>7. ASSUME NEW t \in Thread, Queue(t) \/ SpawnFails(t) PROVE WorkerLedger'
    BY <1>7
    DEF Queue, SpawnFails, ThreadRecord, NoThread, TypeOK, Saved, SaveJob, At, Goto, Leave,
        WorkPc, Working, OneWorker, WorkerLedger, IInv
<1>8. ASSUME NEW t \in Thread, Validate(t) PROVE WorkerLedger'
    BY <1>8 DEF Validate, outside, TypeOK, At, WorkerLedger, IInv
<1>9. ASSUME NEW t \in Thread, TakeWriter(t) PROVE WorkerLedger'
    BY <1>9 DEF TakeWriter, outside, At, Goto, WorkerLedger, IInv
<1>10. ASSUME NEW t \in Thread,
           GateCancelled(t) \/ LockedCancelled(t) \/ Locked(t)
    PROVE  WorkerLedger'
    BY <1>10
    DEF GateCancelled, LockedCancelled, Locked, ThreadRecord, NoThread, TypeOK, At, Goto,
        Leave, WorkPc, Working, OneWorker, WorkerLedger, IInv
<1>11. ASSUME NEW t \in Thread, Decide(t) \/ Intent(t) \/ Armed(t) PROVE WorkerLedger'
    BY <1>11
    DEF Decide, Intent, Armed, outside, Terminal, ThreadRecord, NoThread, TypeOK, Saved,
        SaveJob, At, Goto, Leave, Finishing, WorkPc, Working, OneWorker, WorkerLedger,
        Launched, VendorAdmitted, IInv
<1>12. ASSUME NEW t \in Thread,
           ShellRefuses(t) \/ ShellStarts(t) \/ VendorExits(t) \/ WaitGivesUp(t) \/ Finish(t)
    PROVE  WorkerLedger'
    BY <1>12
    DEF ShellRefuses, ShellStarts, VendorExits, WaitGivesUp, Finish, Terminal, ThreadRecord,
        NoThread, TypeOK, At, Goto, Leave, Finishing, WorkPc, Working, OneWorker,
        WorkerLedger, IInv
<1>13. ASSUME NEW j \in Job,
           Status(j) \/ RequestCancel(j) \/ Release(j) \/ Expire(j) \/ VendorEnds(j)
    PROVE  WorkerLedger'
    BY <1>13
    DEF Status, RequestCancel, Release, Expire, VendorEnds, outside, TypeOK, Saved,
        Expiring, ExpirePrepared, WorkPc, Working, OneWorker, WorkerLedger, IInv
<1>14. CASE OtherTakesWriter \/ OtherReleasesWriter \/ UNCHANGED vars
    BY <1>14 DEF vars, OtherTakesWriter, OtherReleasesWriter, outside, WorkerLedger, IInv
<1>15. CASE Restart
    BY <1>15 DEF Restart, NoThread, WorkerLedger
<1> QED
    BY <1>1, <1>2, <1>3, <1>4, <1>5, <1>6, <1>7, <1>8, <1>9, <1>10, <1>11, <1>12, <1>13,
       <1>14, <1>15
    DEF Next, Command, Work

\* What was launched stays admitted, in memory and in the file.
LEMMA VendorAdmittedStep == IInv /\ [Next]_vars => VendorAdmitted'
<1> SUFFICES ASSUME IInv, [Next]_vars PROVE VendorAdmitted'
    OBVIOUS
<1>1. ASSUME NEW t \in Thread, NEW j \in Job, NEW g \in Program,
           Prepare(t, j, g)
    PROVE  VendorAdmitted'
    BY <1>1 DEF Prepare, outside, Expiring, SlotLedger, Launched, VendorAdmitted, IInv
<1>2. ASSUME NEW t \in Thread, PrepareFails(t) \/ Prepared(t) PROVE VendorAdmitted'
    BY <1>2
    DEF PrepareFails, Prepared, outside, TypeOK, Saved, SaveJob, At, WorkerLedger, Launched,
        VendorAdmitted, IInv
<1>3. ASSUME NEW t \in Thread, NEW j \in Job, Ask(t, j) PROVE VendorAdmitted'
    BY <1>3 DEF Ask, outside, VendorAdmitted, IInv
<1>4. ASSUME NEW t \in Thread,
           AskFails(t) \/ AnswerNo(t) \/ AnswerYes(t)
    PROVE  VendorAdmitted'
    BY <1>4 DEF AskFails, AnswerNo, AnswerYes, outside, VendorAdmitted, IInv
<1>5. ASSUME NEW t \in Thread, ConfirmFails(t) PROVE VendorAdmitted'
    BY <1>5 DEF ConfirmFails, outside, VendorAdmitted, IInv
<1>6. ASSUME NEW t \in Thread, Queue(t) \/ SpawnFails(t) PROVE VendorAdmitted'
    BY <1>6
    DEF Queue, SpawnFails, outside, TypeOK, Saved, SaveJob, Launched, VendorAdmitted, IInv
<1>7. ASSUME NEW t \in Thread,
           Validate(t) \/ TakeWriter(t) \/ GateCancelled(t) \/ LockedCancelled(t) \/ Locked(t)
    PROVE  VendorAdmitted'
    BY <1>7
    DEF Validate, TakeWriter, GateCancelled, LockedCancelled, Locked, outside, TypeOK,
        Saved, WriteFails, SaveJob, At, WorkerLedger, Launched, VendorAdmitted, IInv
<1>8. ASSUME NEW t \in Thread, Decide(t) \/ Intent(t) \/ Armed(t) PROVE VendorAdmitted'
    BY <1>8
    DEF Decide, Intent, Armed, outside, TypeOK, Saved, WriteFails, SaveJob, Launched,
        VendorAdmitted, IInv
<1>9. ASSUME NEW t \in Thread,
           ShellRefuses(t) \/ ShellStarts(t) \/ VendorExits(t) \/ WaitGivesUp(t) \/ Finish(t)
    PROVE  VendorAdmitted'
    BY <1>9
    DEF ShellRefuses, ShellStarts, VendorExits, WaitGivesUp, Finish, outside, Terminal,
        TypeOK, Saved, WriteFails, SaveJob, At, WorkerLedger, Launched, VendorAdmitted, IInv
<1>10. ASSUME NEW j \in Job,
           Status(j) \/ RequestCancel(j) \/ Release(j) \/ Expire(j) \/ VendorEnds(j)
    PROVE  VendorAdmitted'
    BY <1>10
    DEF Status, RequestCancel, Release, Expire, VendorEnds, outside, Pending, TypeOK, Saved,
        Expiring, ExpirePrepared, SlotLedger, Launched, VendorAdmitted, IInv
<1>11. CASE OtherTakesWriter \/ OtherReleasesWriter \/ UNCHANGED vars
    BY <1>11 DEF vars, OtherTakesWriter, OtherReleasesWriter, outside, VendorAdmitted, IInv
<1>12. CASE Restart
    BY <1>12 DEF Restart, outside, AfterRestart, Launched, VendorAdmitted, IInv
<1> QED
    BY <1>1, <1>2, <1>3, <1>4, <1>5, <1>6, <1>7, <1>8, <1>9, <1>10, <1>11, <1>12
    DEF Next, Command, Work

\* A running uninstaller always has a witness.
LEMMA VendorRunningStep == IInv /\ [Next]_vars => VendorRunning'
<1> SUFFICES ASSUME IInv, [Next]_vars PROVE VendorRunning'
    OBVIOUS
<1>1. ASSUME NEW t \in Thread, NEW j \in Job, NEW g \in Program,
           Prepare(t, j, g)
    PROVE  VendorRunning'
    BY <1>1 DEF Prepare, outside, At, Expiring, SlotLedger, VendorRunning, IInv
<1>2. ASSUME NEW t \in Thread, PrepareFails(t) \/ Prepared(t) PROVE VendorRunning'
    BY <1>2
    DEF PrepareFails, Prepared, outside, TypeOK, Saved, SaveJob, At, WorkPc, Working,
        OneWorker, WorkerLedger, VendorRunning, IInv
<1>3. ASSUME NEW t \in Thread, NEW j \in Job, Ask(t, j) PROVE VendorRunning'
    BY <1>3 DEF Ask, outside, TypeOK, At, VendorRunning, IInv
<1>4. ASSUME NEW t \in Thread,
           AskFails(t) \/ AnswerNo(t) \/ AnswerYes(t)
    PROVE  VendorRunning'
    BY <1>4
    DEF AskFails, AnswerNo, AnswerYes, outside, TypeOK, At, Goto, Leave, VendorRunning, IInv
<1>5. ASSUME NEW t \in Thread, ConfirmFails(t) PROVE VendorRunning'
    BY <1>5 DEF ConfirmFails, outside, At, Leave, VendorRunning, IInv
<1>6. ASSUME NEW t \in Thread, Queue(t) \/ SpawnFails(t) PROVE VendorRunning'
    BY <1>6
    DEF Queue, SpawnFails, outside, TypeOK, Saved, SaveJob, At, WorkPc, Working, OneWorker,
        VendorRunning, IInv
<1>7. ASSUME NEW t \in Thread,
           Validate(t) \/ TakeWriter(t) \/ GateCancelled(t) \/ LockedCancelled(t) \/ Locked(t)
    PROVE  VendorRunning'
    BY <1>7
    DEF Validate, TakeWriter, GateCancelled, LockedCancelled, Locked, outside, TypeOK,
        Saved, WriteFails, SaveJob, At, WorkPc, Working, OneWorker, WorkerLedger,
        VendorRunning, IInv
<1>8. ASSUME NEW t \in Thread, Decide(t) \/ Intent(t) \/ Armed(t) PROVE VendorRunning'
    BY <1>8
    DEF Decide, Intent, Armed, outside, TypeOK, Saved, WriteFails, SaveJob, At, WorkPc,
        Working, OneWorker, WorkerLedger, VendorRunning, IInv
<1>9. ASSUME NEW t \in Thread,
           ShellRefuses(t) \/ ShellStarts(t) \/ VendorExits(t) \/ WaitGivesUp(t) \/ Finish(t)
    PROVE  VendorRunning'
    BY <1>9, VendorAssumption
    DEF ShellRefuses, ShellStarts, VendorExits, WaitGivesUp, Finish, outside, Pending,
        ThreadRecord, TypeOK, Saved, WriteFails, SaveJob, At, Goto, Finishing, WorkPc,
        Working, OneWorker, SlotLedger, WorkerLedger, VendorRunning, IInv
<1>10. ASSUME NEW j \in Job,
           Status(j) \/ RequestCancel(j) \/ Release(j) \/ Expire(j) \/ VendorEnds(j)
    PROVE  VendorRunning'
    BY <1>10, VendorAssumption
    DEF Status, RequestCancel, Release, Expire, VendorEnds, outside, Pending, TypeOK, Saved,
        ExpirePrepared, WorkPc, Working, OneWorker, SlotLedger, Launched, VendorAdmitted,
        VendorRunning, IInv
<1>11. CASE OtherTakesWriter \/ OtherReleasesWriter \/ UNCHANGED vars
    BY <1>11 DEF vars, OtherTakesWriter, OtherReleasesWriter, outside, VendorRunning, IInv
<1>12. CASE Restart
    BY <1>12 DEF Restart, outside, AfterRestart, VendorRunning, IInv
<1> QED
    BY <1>1, <1>2, <1>3, <1>4, <1>5, <1>6, <1>7, <1>8, <1>9, <1>10, <1>11, <1>12
    DEF Next, Command, Work

\* The slot is not given to a program that is being uninstalled.
LEMMA ProgramFreeStep == IInv /\ [Next]_vars => ProgramFree'
<1> SUFFICES ASSUME IInv, [Next]_vars PROVE ProgramFree'
    OBVIOUS
<1>1. ASSUME NEW t \in Thread, NEW j \in Job, NEW g \in Program,
           Prepare(t, j, g)
    PROVE  ProgramFree'
    BY <1>1, VendorAssumption
    DEF Prepare, outside, TypeOK, Expiring, WorkPc, Working, OneWorker, VendorRunning,
        ProgramFree, IInv
<1>2. ASSUME NEW t \in Thread, PrepareFails(t) \/ Prepared(t) PROVE ProgramFree'
    BY <1>2 DEF PrepareFails, Prepared, slot, outside, FreeSlot, ProgramFree, IInv
<1>3. ASSUME NEW t \in Thread, NEW j \in Job, Ask(t, j) PROVE ProgramFree'
    BY <1>3 DEF Ask, slot, outside, ProgramFree, IInv
<1>4. ASSUME NEW t \in Thread, AskFails(t) \/ AnswerNo(t) \/ AnswerYes(t) PROVE ProgramFree'
    BY <1>4 DEF AskFails, AnswerNo, AnswerYes, slot, outside, ProgramFree, IInv
<1>5. ASSUME NEW t \in Thread, ConfirmFails(t) PROVE ProgramFree'
    BY <1>5 DEF ConfirmFails, outside, ProgramFree, IInv
<1>6. ASSUME NEW t \in Thread, Queue(t) \/ SpawnFails(t) PROVE ProgramFree'
    BY <1>6 DEF Queue, SpawnFails, outside, FreeSlot, ProgramFree, IInv
<1>7. ASSUME NEW t \in Thread,
           Validate(t) \/ TakeWriter(t) \/ GateCancelled(t) \/ LockedCancelled(t) \/ Locked(t)
    PROVE  ProgramFree'
    BY <1>7
    DEF Validate, TakeWriter, GateCancelled, LockedCancelled, Locked, slot, outside,
        FreeSlot, ProgramFree, IInv
<1>8. ASSUME NEW t \in Thread, Decide(t) \/ Intent(t) \/ Armed(t) PROVE ProgramFree'
    BY <1>8 DEF Decide, Intent, Armed, slot, outside, FreeSlot, ProgramFree, IInv
<1>9. ASSUME NEW t \in Thread,
           ShellRefuses(t) \/ ShellStarts(t) \/ VendorExits(t) \/ WaitGivesUp(t) \/ Finish(t)
    PROVE  ProgramFree'
    BY <1>9
    DEF ShellRefuses, ShellStarts, VendorExits, WaitGivesUp, Finish, slot, outside, TypeOK,
        FreeSlot, At, SlotLedger, WorkerLedger, ProgramFree, IInv
<1>10. ASSUME NEW j \in Job,
           Status(j) \/ RequestCancel(j) \/ Release(j) \/ Expire(j) \/ VendorEnds(j)
    PROVE  ProgramFree'
    BY <1>10
    DEF Status, RequestCancel, Release, Expire, VendorEnds, slot, outside, TypeOK, FreeSlot,
        ExpirePrepared, ProgramFree, IInv
<1>11. CASE OtherTakesWriter \/ OtherReleasesWriter \/ UNCHANGED vars
    BY <1>11
    DEF vars, OtherTakesWriter, OtherReleasesWriter, slot, outside, ProgramFree, IInv
<1>12. CASE Restart
    BY <1>12 DEF Restart, FreeSlot, ProgramFree
<1> QED
    BY <1>1, <1>2, <1>3, <1>4, <1>5, <1>6, <1>7, <1>8, <1>9, <1>10, <1>11, <1>12
    DEF Next, Command, Work

\* What was reported as cancelled cannot get to ShellExecuteEx any more.
LEMMA ToldFinalStep == IInv /\ [Next]_vars => ToldFinal'
<1> SUFFICES ASSUME IInv, [Next]_vars PROVE ToldFinal'
    OBVIOUS
<1>1. ASSUME NEW t \in Thread, NEW j \in Job, NEW g \in Program,
           Prepare(t, j, g)
    PROVE  ToldFinal'
    BY <1>1 DEF Prepare, outside, ToldFinal, IInv
<1>2. ASSUME NEW t \in Thread, PrepareFails(t) \/ Prepared(t) PROVE ToldFinal'
    BY <1>2, VendorAssumption
    DEF PrepareFails, Prepared, slot, outside, NoThread, TypeOK, FreeSlot, Leave, ToldFinal,
        IInv
<1>3. ASSUME NEW t \in Thread, NEW j \in Job, Ask(t, j) PROVE ToldFinal'
    BY <1>3 DEF Ask, slot, outside, ToldFinal, IInv
<1>4. ASSUME NEW t \in Thread, AskFails(t) PROVE ToldFinal'
    BY <1>4 DEF AskFails, slot, outside, NoThread, Leave, ToldFinal, IInv
<1>5. ASSUME NEW t \in Thread, AnswerNo(t) \/ AnswerYes(t) PROVE ToldFinal'
    BY <1>5
    DEF AnswerNo, AnswerYes, slot, outside, ThreadRecord, NoThread, TypeOK, Goto, Leave,
        ToldFinal, IInv
<1>6. ASSUME NEW t \in Thread, ConfirmFails(t) PROVE ToldFinal'
    BY <1>6 DEF ConfirmFails, outside, NoThread, Leave, ToldFinal, IInv
<1>7. ASSUME NEW t \in Thread, Queue(t) \/ SpawnFails(t) PROVE ToldFinal'
    BY <1>7, VendorAssumption
    DEF Queue, SpawnFails, outside, ThreadRecord, NoThread, TypeOK, FreeSlot, Goto, Leave,
        ToldFinal, IInv
<1>8. ASSUME NEW t \in Thread, Validate(t) PROVE ToldFinal'
    BY <1>8 DEF Validate, slot, outside, TypeOK, ToldFinal, IInv
<1>9. ASSUME NEW t \in Thread, TakeWriter(t) PROVE ToldFinal'
    BY <1>9 DEF TakeWriter, slot, outside, Goto, ToldFinal, IInv
<1>10. ASSUME NEW t \in Thread,
           GateCancelled(t) \/ LockedCancelled(t) \/ Locked(t)
    PROVE  ToldFinal'
    BY <1>10, VendorAssumption
    DEF GateCancelled, LockedCancelled, Locked, slot, outside, ThreadRecord, NoThread,
        TypeOK, FreeSlot, Goto, Leave, ToldFinal, IInv
<1>11. ASSUME NEW t \in Thread, Decide(t) \/ Intent(t) \/ Armed(t) PROVE ToldFinal'
    BY <1>11, VendorAssumption
    DEF Decide, Intent, Armed, slot, outside, ThreadRecord, NoThread, TypeOK, FreeSlot, At,
        Goto, Leave, Finishing, SlotLedger, WorkerLedger, ToldFinal, IInv
<1>12. ASSUME NEW t \in Thread,
           ShellRefuses(t) \/ ShellStarts(t) \/ VendorExits(t) \/ WaitGivesUp(t) \/ Finish(t)
    PROVE  ToldFinal'
    BY <1>12, VendorAssumption
    DEF ShellRefuses, ShellStarts, VendorExits, WaitGivesUp, Finish, slot, outside,
        ThreadRecord, NoThread, TypeOK, FreeSlot, At, Goto, Leave, Finishing, ToldFinal,
        IInv
<1>13. ASSUME NEW j \in Job,
           Status(j) \/ RequestCancel(j) \/ Release(j) \/ Expire(j) \/ VendorEnds(j)
    PROVE  ToldFinal'
    BY <1>13, VendorAssumption
    DEF Status, RequestCancel, Release, Expire, VendorEnds, slot, outside, Pending, TypeOK,
        FreeSlot, Expiring, ExpirePrepared, Reported, SlotLedger, WorkerLedger, Launched,
        VendorAdmitted, ToldFinal, IInv
<1>14. CASE OtherTakesWriter \/ OtherReleasesWriter \/ UNCHANGED vars
    BY <1>14 DEF vars, OtherTakesWriter, OtherReleasesWriter, slot, outside, ToldFinal, IInv
<1>15. CASE Restart
    BY <1>15, VendorAssumption
    DEF Restart, outside, NoThread, TypeOK, FreeSlot, ToldFinal, IInv
<1> QED
    BY <1>1, <1>2, <1>3, <1>4, <1>5, <1>6, <1>7, <1>8, <1>9, <1>10, <1>11, <1>12, <1>13,
       <1>14, <1>15
    DEF Next, Command, Work

\* A pending job holds the slot while writes succeed.
LEMMA PendingHasSlotStep == IInv /\ [Next]_vars => PendingHasSlot'
<1> SUFFICES ASSUME IInv, [Next]_vars PROVE PendingHasSlot'
    OBVIOUS
<1>1. ASSUME NEW t \in Thread, NEW j \in Job, NEW g \in Program,
           Prepare(t, j, g)
    PROVE  PendingHasSlot'
    BY <1>1, VendorAssumption DEF Prepare, bounds, Pending, TypeOK, PendingHasSlot, IInv
<1>2. ASSUME NEW t \in Thread, PrepareFails(t) \/ Prepared(t) PROVE PendingHasSlot'
    BY <1>2
    DEF PrepareFails, Prepared, slot, bounds, Pending, TypeOK, Saved, SaveJob, At,
        PendingHasSlot, WorkerLedger, IInv
<1>3. ASSUME NEW t \in Thread, NEW j \in Job, Ask(t, j) PROVE PendingHasSlot'
    BY <1>3 DEF Ask, slot, bounds, PendingHasSlot, IInv
<1>4. ASSUME NEW t \in Thread,
           AskFails(t) \/ AnswerNo(t) \/ AnswerYes(t)
    PROVE  PendingHasSlot'
    BY <1>4 DEF AskFails, AnswerNo, AnswerYes, slot, bounds, PendingHasSlot, IInv
<1>5. ASSUME NEW t \in Thread, ConfirmFails(t) PROVE PendingHasSlot'
    BY <1>5 DEF ConfirmFails, bounds, PendingHasSlot, IInv
<1>6. ASSUME NEW t \in Thread, Queue(t) \/ SpawnFails(t) PROVE PendingHasSlot'
    BY <1>6 DEF Queue, SpawnFails, Pending, TypeOK, Saved, SaveJob, At, PendingHasSlot, IInv
<1>7. ASSUME NEW t \in Thread,
           Validate(t) \/ TakeWriter(t) \/ GateCancelled(t) \/ LockedCancelled(t) \/ Locked(t)
    PROVE  PendingHasSlot'
    BY <1>7
    DEF Validate, TakeWriter, GateCancelled, LockedCancelled, Locked, slot, bounds, Pending,
        TypeOK, Saved, WriteFails, SaveJob, At, PendingHasSlot, WorkerLedger, IInv
<1>8. ASSUME NEW t \in Thread, Decide(t) \/ Intent(t) \/ Armed(t) PROVE PendingHasSlot'
    BY <1>8
    DEF Decide, Intent, Armed, slot, bounds, Pending, TypeOK, Saved, WriteFails, SaveJob,
        At, PendingHasSlot, WorkerLedger, IInv
<1>9. ASSUME NEW t \in Thread,
           ShellRefuses(t) \/ ShellStarts(t) \/ VendorExits(t) \/ WaitGivesUp(t) \/ Finish(t)
    PROVE  PendingHasSlot'
    BY <1>9
    DEF ShellRefuses, ShellStarts, VendorExits, WaitGivesUp, Finish, slot, bounds, Pending,
        Terminal, TypeOK, Saved, WriteFails, SaveJob, At, PendingHasSlot, WorkPc, Working,
        OneWorker, WorkerLedger, IInv
<1>10. ASSUME NEW j \in Job,
           Status(j) \/ RequestCancel(j) \/ Release(j) \/ Expire(j) \/ VendorEnds(j)
    PROVE  PendingHasSlot'
    BY <1>10
    DEF Status, RequestCancel, Release, Expire, VendorEnds, slot, bounds, Pending, TypeOK,
        Saved, ExpirePrepared, PendingHasSlot, IInv
<1>11. CASE OtherTakesWriter \/ OtherReleasesWriter \/ UNCHANGED vars
    BY <1>11
    DEF vars, OtherTakesWriter, OtherReleasesWriter, slot, bounds, PendingHasSlot, IInv
<1>12. CASE Restart
    BY <1>12 DEF Restart, Pending, AfterRestart, PendingHasSlot
<1> QED
    BY <1>1, <1>2, <1>3, <1>4, <1>5, <1>6, <1>7, <1>8, <1>9, <1>10, <1>11, <1>12
    DEF Next, Command, Work

\* The conjuncts together.
LEMMA InvStep == IInv /\ [Next]_vars => IInv'
<1>1. IInv /\ [Next]_vars => TypeOK'
    BY TypeStep DEF IInv
<1>2. QED
    BY <1>1, OneWorkerStep, SlotLedgerStep, WorkerLedgerStep, VendorAdmittedStep,
       VendorRunningStep, ProgramFreeStep, ToldFinalStep, PendingHasSlotStep
    DEF IInv

\* The inductive invariant holds in every behaviour.
LEMMA Invariant == Spec => []IInv
<1>1. QED BY InvInit, InvStep, PTL DEF Spec

-----------------------------------------------------------------------------
(* The safety properties *)

\* Whatever may have been launched, the ledger file admits, at every moment at which
\* the program may be killed: the intent is written before ShellExecuteEx is called
\* and no later write, release or start takes it back.
THEOREM LaunchesAdmitted == Spec => []LaunchIsDurable
<1>1. IInv => LaunchIsDurable
    BY DEF IInv, VendorAdmitted, Launched, LaunchIsDurable
<1>2. QED BY <1>1, Invariant, PTL

\* A job that status or cancel reported as cancelled before launch is never
\* launched, although neither takes a lock that the launching worker holds.
THEOREM CancelledStaysCancelled == Spec => []CancelIsFinal
<1>1. IInv => CancelIsFinal
    BY DEF IInv, ToldFinal, CancelIsFinal
<1>2. QED BY <1>1, Invariant, PTL

\* While ledger writes succeed, a job that looks under way holds the slot.
THEOREM PendingHoldsSlot == Spec => []PendingHasSlot
<1>1. IInv => PendingHasSlot
    BY DEF IInv
<1>2. QED BY <1>1, Invariant, PTL

\* Only ShellStarts calls the vendor, for a job it was not called for before and
\* while no uninstaller of the same program runs.
LEMMA LaunchOnce ==
    ASSUME IInv, [Next]_vars, NEW j \in Job, vendor'[j] # vendor[j], vendor'[j] = "running"
    PROVE  /\ vendor[j] = "none"
           /\ \A k \in Job : program[k] = program[j] => vendor[k] # "running"
<1>1. PICK t \in Thread : ShellStarts(t)
    <2>1. ASSUME NEW i \in Job, VendorEnds(i) PROVE FALSE
        BY <2>1 DEF IInv, TypeOK, VendorEnds
    <2>2. CASE UNCHANGED vendor
        BY <2>2
    <2>3. ASSUME NEW t \in Thread, Command(t) PROVE UNCHANGED vendor
        BY <2>3
        DEF Command, outside, Prepare, PrepareFails, Prepared, Ask, AskFails, AnswerNo,
            AnswerYes, ConfirmFails, Queue, SpawnFails
    <2>4. ASSUME NEW t \in Thread, Work(t) PROVE UNCHANGED vendor
        BY <2>4
        DEF Work, outside, Validate, TakeWriter, GateCancelled, LockedCancelled, Locked, Decide,
            Intent, Armed, VendorExits, WaitGivesUp, Finish
    <2>5. ASSUME NEW t \in Thread, ShellRefuses(t) PROVE UNCHANGED vendor
        BY <2>5 DEF ShellRefuses, outside
    <2>6. ASSUME NEW i \in Job, Status(i) \/ RequestCancel(i) \/ Release(i) \/ Expire(i)
          PROVE  UNCHANGED vendor
        BY <2>6 DEF Status, RequestCancel, Release, Expire, outside
    <2>7. CASE OtherTakesWriter \/ OtherReleasesWriter \/ Restart \/ UNCHANGED vars
        BY <2>7 DEF OtherTakesWriter, OtherReleasesWriter, Restart, outside, vars
    <2>8. QED BY <2>1, <2>2, <2>3, <2>4, <2>5, <2>6, <2>7 DEF Next
<1>2. j = thread[t].job /\ thread[t].pc = "shell"
    BY <1>1 DEF IInv, TypeOK, ShellStarts, At
<1>3. vendor[j] = "none" /\ active = j
    BY <1>2 DEF IInv, WorkerLedger, OneWorker, Working, WorkPc
<1>4. active # None
    BY <1>3, VendorAssumption
<1>5. QED BY <1>3, <1>4 DEF IInv, ProgramFree

\* Never replay: a job launches at most once, and no program is launched again while
\* an uninstaller started for it may still run, whatever is cancelled, fails to be
\* written or is restarted in between.
THEOREM NeverReplays == Spec => NoReplay
<1>1. IInv /\ [Next]_vars =>
         \A j \in Job : vendor'[j] # vendor[j] /\ vendor'[j] = "running" =>
            /\ vendor[j] = "none"
            /\ \A k \in Job : program[k] = program[j] => vendor[k] # "running"
    BY LaunchOnce
<1>2. QED BY <1>1, Invariant, PTL DEF Spec, NoReplay

-----------------------------------------------------------------------------
(* System adapters: the inductive invariant *)

\* What can be observed of each kind of setting.
Prior ==
    CASE kind \in {"user", "machine", "policy"} -> RegistryChange
      [] kind \in {"task", "startup", "rule", "profile", "hibernation"} -> OnOff
      [] kind = "service" -> Writable \cup {"Boot"}
      [] kind = "scheme" -> Scheme
      [] kind = "driver" -> {"absent", "present"}
      [] kind = "restore" -> {"NotApplicable"}
      [] kind = "schedule" -> Cadence \cup {"none"}
      [] kind = "hosts" -> HostsWorld

Entry == [change : Change, prior : Prior, inverse : SUBSET Change,
          outcome : {"Applied", "Failed", "Unsupported"}, rolledBack : BOOLEAN]
Counts == [runs : Nat, foreign : Nat, back : BOOLEAN]

\* A change under way; one of the hosts file is written from what was staged only.
PlainJob == [phase : {"planned", "checked"} \cup (IF kind = "hosts" THEN {} ELSE {"writing"}),
        change : Change, of : Nat, expected : Prior, late : BOOLEAN, raced : BOOLEAN]
StagedJob == [phase : {"staged", "writing"}, change : Change, of : Nat, expected : Prior,
              late : BOOLEAN, raced : BOOLEAN, old : HostsWorld, new : HostsWorld]

\* The types of the variables.
AdapterTypeOK ==
    /\ kind \in Kind /\ world \in World(kind) /\ clock \in Nat /\ count \in Counts
    /\ journal \in Seq(Entry)
    /\ last \in 0 .. Len(journal) /\ undone \in 0 .. Len(journal)
    /\ job = NoJob \/ job \in PlainJob \/ (kind = "hosts" /\ job \in StagedJob)
    /\ job # NoJob /\ job.phase # "writing" => ~job.raced

\* A change that was compared and not yet written; one of the hosts file that was staged.
Under == job.phase \in {"checked", "staged", "writing"}
Staged == kind = "hosts" /\ job.phase \in {"staged", "writing"}

\* p is a state change c was compared with.
Unsatisfied(c, p) ==
    /\ kind = "startup" => p \in OnOff \ {c}
    /\ kind = "driver" => p = "present"
    /\ kind = "restore" => p = "NotApplicable"

\* The change under way is of the entry it rolls back, and that entry has its inverse.
Recorded ==
    /\ \A n \in DOMAIN journal : journal[n].inverse = InverseOf(journal[n].change, journal[n].prior)
    /\ job # NoJob => job.of \in 0 .. Len(journal)
    /\ job # NoJob /\ job.of # 0 => job.change \in journal[job.of].inverse

\* From the comparison to the write, what is there is what the user was shown, and for an
\* adapter that looks once more it is not what the change asks for.
AsShown ==
    /\ Under /\ ~job.late /\ ~job.raced =>
          LookAgain(job.change, world) = Seen(job.expected)
    /\ Under => Unsatisfied(job.change, job.expected)

\* The adapter's last look still holds when it writes, unless another program came between.
Allowed ==
    /\ Staged => /\ job.new = Edit(job.change, job.old)
                 /\ LastLook(job.change, job.old) = Go
    /\ job.phase = "staged" /\ ~job.late => world = job.old
    /\ job.phase = "writing" /\ ~job.raced =>
          LastLook(job.change, world) = Go /\ (kind = "hosts" => world = job.old)

\* The file that is to be replaced is in a backup; older backups are from earlier seconds.
BackedUp ==
    /\ IsFiniteSet(backups)
    /\ count.back \/ \A b \in backups :
          b.at \in Nat /\ b.at <= clock /\ (job.phase \in {"planned", "checked"} => b.at < clock)
    /\ Staged => count.back \/ \E b \in backups : b.lines = job.old

\* v is what writing change c over w comes to.
Becomes(c, w, v) ==
    IF kind = "hosts" THEN v = Edit(c, w) ELSE [ok |-> TRUE, world |-> v] \in Results(c, w)

\* v is what change c made of a state that was observed as p.
Made(c, p, v) ==
    \E w \in World(kind) : Look(c, w) = Seen(p) /\ LastLook(c, w) = Go /\ Becomes(c, w, v)

\* As long as nothing else was written, Windows is what the last change made of its prior state.
LastMade == last # 0 /\ Reversible => Made(journal[last].change, journal[last].prior, world)

AdapterInv == AdapterTypeOK /\ Recorded /\ AsShown /\ Allowed /\ BackedUp /\ LastMade /\ UndoRestores
-----------------------------------------------------------------------------
(* What the model's operators are for each kind of setting *)

\* One lemma per kind: the operators that branch on the kind are that kind's own.  From
\* here on a proof by cases on the kind cites the lemma and never the CASE expressions.
LEMMA SettingKind ==
    ASSUME kind \in {"user", "machine"}, NEW c, NEW w
    PROVE  /\ Change = RegistryChange /\ World(kind) = RegistryWorld /\ Prior = RegistryChange
           /\ Look(c, w) = ObserveSetting(kind, os, w)
           /\ LastLook(c, w) = ApplySetting(kind, os, c)
           /\ Results(c, w) = WriteSetting(c, w)
           /\ Describes(c, w)
           /\ Listed(c, w) <=> ListsSetting(kind, os, w)
BY Zenon DEF Change, World, Prior, Look, LastLook, Results, Describes, Listed

LEMMA PolicyKind ==
    ASSUME kind = "policy", NEW c, NEW w
    PROVE  /\ Change = RegistryChange /\ World(kind) = RegistryWorld /\ Prior = RegistryChange
           /\ Look(c, w) = ObservePolicy(os, c, w)
           /\ LastLook(c, w) = ApplyPolicy(os, c, w)
           /\ Results(c, w) = WritePolicy(c, w)
           /\ Describes(c, w) <=> DescribesPolicy(c)
           /\ Listed(c, w) <=> (ListsPolicy(os) /\ c \in Permitted)
BY Zenon DEF Change, World, Prior, Look, LastLook, Results, Describes, Listed

LEMMA TaskKind ==
    ASSUME kind = "task", NEW c, NEW w
    PROVE  /\ Change = OnOff /\ World(kind) = TaskWorld /\ Prior = OnOff
           /\ Look(c, w) = ObserveTask(w)
           /\ LastLook(c, w) = ApplyTask(w)
           /\ Results(c, w) = WriteTask(c, w)
           /\ Describes(c, w)
           /\ Listed(c, w) <=> ListsTask(w)
BY Zenon DEF Change, World, Prior, Look, LastLook, Results, Describes, Listed

LEMMA ServiceKind ==
    ASSUME kind = "service", NEW c, NEW w
    PROVE  /\ Change = Writable /\ World(kind) = ServiceWorld /\ Prior = Writable \cup {"Boot"}
           /\ Look(c, w) = ObserveService(w)
           /\ LastLook(c, w) = ApplyService(w)
           /\ Results(c, w) = WriteService(c, w)
           /\ Describes(c, w)
           /\ Listed(c, w) <=> ListsService(w)
BY Zenon DEF Change, World, Prior, Look, LastLook, Results, Describes, Listed

LEMMA StartupKind ==
    ASSUME kind = "startup", NEW c, NEW w
    PROVE  /\ Change = OnOff /\ World(kind) = StartupWorld /\ Prior = OnOff
           /\ Look(c, w) = ObserveStartup(w)
           /\ LastLook(c, w) = ApplyStartup(c, w)
           /\ Results(c, w) = WriteStartup(c, w)
           /\ Describes(c, w)
           /\ Listed(c, w) <=> ListsStartup(w)
BY Zenon DEF Change, World, Prior, Look, LastLook, Results, Describes, Listed

LEMMA RuleKind ==
    ASSUME kind = "rule", NEW c, NEW w
    PROVE  /\ Change = OnOff /\ World(kind) = RuleWorld /\ Prior = OnOff
           /\ Look(c, w) = ObserveRules(w)
           /\ LastLook(c, w) = ApplyRules(w)
           /\ Results(c, w) = WriteRules(c, w)
           /\ Describes(c, w)
           /\ Listed(c, w) <=> ListsRule(w)
BY Zenon DEF Change, World, Prior, Look, LastLook, Results, Describes, Listed

LEMMA ProfileKind ==
    ASSUME kind = "profile", NEW c, NEW w
    PROVE  /\ Change = OnOff /\ World(kind) = OnOff /\ Prior = OnOff
           /\ Look(c, w) = ObserveProfile(w)
           /\ LastLook(c, w) = Go
           /\ Results(c, w) = WriteProfile(c, w)
           /\ Describes(c, w)
           /\ Listed(c, w)
BY Zenon DEF Change, World, Prior, Look, LastLook, Results, Describes, Listed

LEMMA HibernationKind ==
    ASSUME kind = "hibernation", NEW c, NEW w
    PROVE  /\ Change = OnOff /\ World(kind) = HibernationWorld /\ Prior = OnOff
           /\ Look(c, w) = ObserveHibernation(w)
           /\ LastLook(c, w) = ApplyHibernation(w)
           /\ Results(c, w) = WriteHibernation(c, w)
           /\ Describes(c, w) <=> Supported(w)
           /\ Listed(c, w) <=> ListsHibernation(w)
BY Zenon DEF Change, World, Prior, Look, LastLook, Results, Describes, Listed

LEMMA SchemeKind ==
    ASSUME kind = "scheme", NEW c, NEW w
    PROVE  /\ Change = Scheme /\ World(kind) = SchemeWorld /\ Prior = Scheme
           /\ Look(c, w) = ObserveScheme(c, w)
           /\ LastLook(c, w) = ApplyScheme(c, w)
           /\ Results(c, w) = WriteScheme(c, w)
           /\ Describes(c, w) <=> (c \in w.listed)
           /\ Listed(c, w) <=> ListsScheme(c, w)
BY Zenon DEF Change, World, Prior, Look, LastLook, Results, Describes, Listed

LEMMA DriverKind ==
    ASSUME kind = "driver", NEW c, NEW w
    PROVE  /\ Change = Package /\ World(kind) = DriverWorld /\ Prior = {"absent", "present"}
           /\ Look(c, w) = ObserveDriver(c, w)
           /\ LastLook(c, w) = ApplyDriver(c, w)
           /\ Results(c, w) = Uninstall(c, w)
           /\ Describes(c, w) <=> DescribesDriver(c, w)
           /\ Listed(c, w) <=> ListsDriver(c, w)
BY Zenon DEF Change, World, Prior, Look, LastLook, Results, Describes, Listed

LEMMA RestoreKind ==
    ASSUME kind = "restore", NEW c, NEW w
    PROVE  /\ Change = {"point"} /\ World(kind) = RestoreWorld /\ Prior = {"NotApplicable"}
           /\ Look(c, w) = ObserveRestore(w)
           /\ LastLook(c, w) = Go
           /\ Results(c, w) = CreatePoint(w)
           /\ Describes(c, w)
           /\ ~Listed(c, w)
BY Zenon DEF Change, World, Prior, Look, LastLook, Results, Describes, Listed

LEMMA ScheduleKind ==
    ASSUME kind = "schedule", NEW c, NEW w
    PROVE  /\ Change = Cadence \cup {"none"} /\ Prior = Cadence \cup {"none"}
           /\ World(kind) = ScheduleWorld
           /\ Look(c, w) = CurrentCadence(c, w)
           /\ LastLook(c, w) = ApplySchedule(c, w)
           /\ Results(c, w) = WriteSchedule(c, w)
           /\ Describes(c, w)
           /\ Listed(c, w) <=> ListsSchedule(c, w)
BY Zenon DEF Change, World, Prior, Look, LastLook, Results, Describes, Listed

LEMMA HostsKind ==
    ASSUME kind = "hosts", NEW c, NEW w
    PROVE  /\ Change = HostsChange /\ World(kind) = HostsWorld /\ Prior = HostsWorld
           /\ Look(c, w) = ObserveHosts(c, w)
           /\ LastLook(c, w) = ApplyHosts(c, w)
           /\ Results(c, w) = Attempt(w, job.new)
           /\ Describes(c, w) <=> Applicable(c, w)
           /\ Listed(c, w) <=> ListsLines(c, w)
BY Zenon DEF Change, World, Prior, Look, LastLook, Results, Describes, Listed
-----------------------------------------------------------------------------
(* Lemmas about the rules of single kinds                                  *)

\* All the rules of a name that were written with c are c.
LEMMA AllRules ==
    ASSUME NEW w \in RuleWorld, w # <<>>, NEW c \in OnOff, NEW v,
           [ok |-> TRUE, world |-> v] \in WriteRules(c, w)
    PROVE  v # <<>> /\ ObserveRules(v) = Seen(c)
<1>1. PICK n \in 0 .. 2 : w \in [1 .. n -> OnOff]
  BY DEF RuleWorld
<1>2. w \in Seq(OnOff) /\ Len(w) = n /\ n # 0
  BY <1>1
<1>3. v = [i \in 1 .. n |-> c]
  <2>1. PICK m \in 0 .. Len(w) :
           [ok |-> TRUE, world |-> v]
             = [ok |-> m = Len(w), world |-> [i \in DOMAIN w |-> IF i <= m THEN c ELSE w[i]]]
    BY DEF WriteRules
  <2>2. m = n
    BY <2>1, <1>2
  <2>3. v = [i \in DOMAIN w |-> IF i <= m THEN c ELSE w[i]]
    BY <2>1
  <2>4. QED
    BY <2>2, <2>3, <1>1
<1>4. 1 \in DOMAIN v /\ \A i \in DOMAIN v : v[i] = v[1]
  BY <1>2, <1>3
<1>5. v # <<>>
  BY <1>4
<1>6. v[1] = c
  BY <1>2, <1>3
<1>7. QED
  BY <1>4, <1>5, <1>6 DEF ObserveRules

\* Writing the rules of a group gives as many rules as there were.
LEMMA RulesType ==
    ASSUME NEW w \in RuleWorld, NEW c \in OnOff, NEW r \in WriteRules(c, w)
    PROVE  r.world \in RuleWorld
<1>1. PICK n \in 0 .. 2 : w \in [1 .. n -> OnOff]
  BY DEF RuleWorld
<1>2. PICK m : r.world = [i \in DOMAIN w |-> IF i <= m THEN c ELSE w[i]]
  BY DEF WriteRules
<1>3. r.world \in [1 .. n -> OnOff]
  BY <1>1, <1>2
<1>4. QED
  BY <1>3 DEF RuleWorld

\* After powercfg ran, hibernation is what it was asked for.
LEMMA PowercfgFacts ==
    ASSUME NEW c \in OnOff
    PROVE  /\ Powercfg(c) \in HibernationWorld
           /\ Supported(Powercfg(c))
           /\ ObserveHibernation(Powercfg(c)) = Seen(c)
<1>1. Powercfg(c) \in HibernationWorld
  BY DEF Powercfg, HibernationWorld, OnOff
<1>2. CASE c = "on"
  <2>1. Powercfg(c).s4 = TRUE /\ Powercfg(c).value = "one"
    BY <1>2 DEF Powercfg
  <2>2. Supported(Powercfg(c)) /\ Hibernates(Powercfg(c))
    BY <2>1 DEF Supported, Hibernates
  <2>3. QED
    BY <1>1, <1>2, <2>2 DEF ObserveHibernation, Word
<1>3. CASE c = "off"
  <2>1. Powercfg(c).value = "zero"
    BY <1>3 DEF Powercfg
  <2>2. Supported(Powercfg(c)) /\ ~Hibernates(Powercfg(c))
    BY <2>1 DEF Supported, Hibernates
  <2>3. QED
    BY <1>1, <1>3, <2>2 DEF ObserveHibernation, Word
<1>4. QED
  BY <1>2, <1>3 DEF OnOff

\* An edit of the hosts file changes the lines it names and no others.
LEMMA EditFacts ==
    ASSUME NEW w \in HostsWorld, NEW c
    PROVE  /\ Edit(c, w) \in HostsWorld
           /\ DOMAIN Edit(c, w) = DOMAIN w
           /\ \A i \in DOMAIN w : Edit(c, w)[i] = IF i \in DOMAIN c /\ w[i] = Source(c[i])
                                                  THEN Target(c[i]) ELSE w[i]
<1>1. PICK n \in 0 .. MaxLines : w \in [1 .. n -> Line]
  BY DEF HostsWorld
<1>2. Edit(c, w) \in [1 .. n -> Line]
  BY <1>1 DEF Edit, Target, Line
<1>3. QED
  BY <1>1, <1>2 DEF Edit, HostsWorld

\* The inverse of an edit names the same lines, each the other way.
LEMMA InverseFacts ==
    ASSUME NEW c \in HostsChange
    PROVE  /\ DOMAIN InverseOps(c) = DOMAIN c
           /\ \A i \in DOMAIN c : /\ c[i] \in {"Disable", "Restore"}
                                  /\ InverseOps(c)[i] = Opposite(c[i])
BY DEF HostsChange, InverseOps

\* What was edited can be edited back.
LEMMA EditsBack ==
    ASSUME NEW c \in HostsChange, NEW w \in HostsWorld, Applicable(c, w)
    PROVE  Applicable(InverseOps(c), Edit(c, w))
<1> SUFFICES ASSUME NEW i \in DOMAIN c
             PROVE  i \in DOMAIN w /\ Edit(c, w)[i] \in {"Mapping", "AppDisabled"}
  BY InverseFacts, EditFacts DEF Applicable
<1>1. i \in DOMAIN w /\ w[i] \in {"Mapping", "AppDisabled"}
  BY DEF Applicable
<1>2. QED
  BY <1>1, EditFacts DEF Target

\* The inverse restores every line, if none was in its target state already.
LEMMA EditUndone ==
    ASSUME NEW c \in HostsChange, NEW w \in HostsWorld, Applicable(c, w),
           \A i \in DOMAIN c : w[i] # Target(c[i])
    PROVE  Edit(InverseOps(c), Edit(c, w)) = w
<1> DEFINE v == Edit(c, w)
           u == Edit(InverseOps(c), v)
<1>1. v \in HostsWorld /\ DOMAIN v = DOMAIN w /\ DOMAIN u = DOMAIN w
  BY EditFacts
<1>2. ASSUME NEW i \in DOMAIN w PROVE u[i] = w[i]
  <2>1. u[i] = IF i \in DOMAIN c /\ v[i] = Source(InverseOps(c)[i])
               THEN Target(InverseOps(c)[i]) ELSE v[i]
    BY <1>1, EditFacts, InverseFacts
  <2>2. v[i] = IF i \in DOMAIN c /\ w[i] = Source(c[i]) THEN Target(c[i]) ELSE w[i]
    BY EditFacts
  <2>3. CASE i \notin DOMAIN c
    BY <2>1, <2>2, <2>3
  <2>4. CASE i \in DOMAIN c
    <3>1. c[i] \in {"Disable", "Restore"} /\ InverseOps(c)[i] = Opposite(c[i])
      BY <2>4, InverseFacts
    <3>2. w[i] = Source(c[i])
      BY <2>4, <3>1 DEF Applicable, Source, Target
    <3>3. QED
      BY <2>1, <2>2, <2>4, <3>1, <3>2 DEF Source, Target, Opposite
  <2>5. QED
    BY <2>3, <2>4
<1>3. PICK n \in 0 .. MaxLines : w \in [1 .. n -> Line]
  BY DEF HostsWorld
<1>4. PICK m \in 0 .. MaxLines : u \in [1 .. m -> Line]
  BY <1>1, EditFacts DEF HostsWorld
<1>5. QED
  BY <1>1, <1>2, <1>3, <1>4

\* A look either says unsupported or shows a state.
LEMMA LookForm ==
    ASSUME kind \in Kind, NEW c \in Change, NEW w \in World(kind)
    PROVE  Look(c, w) = Unsupported \/ \E p \in Prior : Look(c, w) = Seen(p)
<1>1. CASE kind \in {"user", "machine"}
  BY <1>1, SettingKind DEF ObserveSetting, SettingSupported, ReadDword, RegistryWorld,
     Permitted, RegistryChange, Unsupported, Seen
<1>2. CASE kind = "policy"
  BY <1>2, PolicyKind DEF ObservePolicy, PolicyResolves, ReadDword, RegistryWorld,
     Permitted, RegistryChange, Unsupported, Seen
<1>3. CASE kind = "task"
  BY <1>3, TaskKind DEF ObserveTask, TaskWorld, OnOff, Unsupported, Seen
<1>4. CASE kind = "service"
  BY <1>4, ServiceKind DEF ObserveService, ServiceWorld, Writable, Unsupported, Seen
<1>5. CASE kind = "startup"
  BY <1>5, StartupKind DEF ObserveStartup, Word, Approved, StartupWorld, OnOff, Unsupported,
     Seen
<1>6. CASE kind = "rule"
  BY <1>6, RuleKind DEF ObserveRules, RuleWorld, OnOff, Unsupported, Seen
<1>7. CASE kind = "profile"
  BY <1>7, ProfileKind DEF ObserveProfile, OnOff, Unsupported, Seen
<1>8. CASE kind = "hibernation"
  BY <1>8, HibernationKind DEF ObserveHibernation, Word, Hibernates, HibernationWorld,
     OnOff, Unsupported, Seen
<1>9. CASE kind = "scheme"
  BY <1>9, SchemeKind DEF ObserveScheme, SchemeWorld, Scheme, Unsupported, Seen
<1>10. CASE kind = "driver"
  BY <1>10, DriverKind DEF ObserveDriver, DriverWorld, Package, Unsupported, Seen
<1>11. CASE kind = "restore"
  BY <1>11, RestoreKind DEF ObserveRestore, RestoreWorld, Go, Unsupported, Seen
<1>12. CASE kind = "schedule"
  BY <1>12, ScheduleKind DEF CurrentCadence, ScheduleWorld, Cadence, Unsupported, Seen
<1>13. CASE kind = "hosts"
  BY <1>13, HostsKind DEF ObserveHosts, HostsWorld, HostsChange, Unsupported, Seen
<1>99. QED
  BY <1>1, <1>2, <1>3, <1>4, <1>5, <1>6, <1>7, <1>8, <1>9, <1>10, <1>11, <1>12, <1>13 DEF Kind

\* The adapter's last look lets a change through, or says why not, and nothing else.
LEMMA LastLookForm ==
    ASSUME kind \in Kind, NEW c \in Change, NEW w \in World(kind)
    PROVE  LastLook(c, w) \in {Unsupported, Failed, Go, Nothing}
<1>1. CASE kind \in {"user", "machine"}
  BY <1>1, SettingKind DEF ApplySetting
<1>2. CASE kind = "policy"
  BY <1>2, PolicyKind DEF ApplyPolicy
<1>3. CASE kind = "task"
  BY <1>3, TaskKind DEF ApplyTask
<1>4. CASE kind = "service"
  BY <1>4, ServiceKind DEF ApplyService
<1>5. CASE kind = "startup"
  BY <1>5, StartupKind DEF ApplyStartup
<1>6. CASE kind = "rule"
  BY <1>6, RuleKind DEF ApplyRules
<1>7. CASE kind = "profile"
  BY <1>7, ProfileKind DEF Go
<1>8. CASE kind = "hibernation"
  BY <1>8, HibernationKind DEF ApplyHibernation
<1>9. CASE kind = "scheme"
  BY <1>9, SchemeKind DEF ApplyScheme
<1>10. CASE kind = "driver"
  BY <1>10, DriverKind DEF ApplyDriver
<1>11. CASE kind = "restore"
  BY <1>11, RestoreKind DEF Go
<1>12. CASE kind = "schedule"
  BY <1>12, ScheduleKind DEF ApplySchedule
<1>13. CASE kind = "hosts"
  BY <1>13, HostsKind DEF ApplyHosts
<1>99. QED
  BY <1>1, <1>2, <1>3, <1>4, <1>5, <1>6, <1>7, <1>8, <1>9, <1>10, <1>11, <1>12, <1>13 DEF Kind

\* The inverse recorded of a change consists of changes.
LEMMA InverseType ==
    ASSUME kind \in Kind, NEW c \in Change, NEW p \in Prior
    PROVE  InverseOf(c, p) \subseteq Change
<1>1. CASE kind \in {"user", "machine"}
  BY <1>1, SettingKind DEF InverseOf, Reversible, RegistryChange, RegistryWorld, Permitted
<1>2. CASE kind = "policy"
  BY <1>2, PolicyKind DEF InverseOf, Reversible, RegistryChange, RegistryWorld, Permitted
<1>3. CASE kind = "task"
  BY <1>3, TaskKind DEF InverseOf, Reversible, OnOff
<1>4. CASE kind = "service"
  BY <1>4, ServiceKind DEF InverseOf, Reversible, Writable
<1>5. CASE kind = "startup"
  BY <1>5, StartupKind DEF InverseOf, Reversible, OnOff
<1>6. CASE kind = "rule"
  BY <1>6, RuleKind DEF InverseOf, Reversible, OnOff
<1>7. CASE kind = "profile"
  BY <1>7, ProfileKind DEF InverseOf, Reversible, OnOff
<1>8. CASE kind = "hibernation"
  BY <1>8, HibernationKind DEF InverseOf, Reversible, OnOff
<1>9. CASE kind = "scheme"
  BY <1>9, SchemeKind DEF InverseOf, Reversible, Scheme
<1>10. CASE kind = "driver"
  BY <1>10, DriverKind DEF InverseOf, Reversible, Package
<1>11. CASE kind = "restore"
  BY <1>11, RestoreKind DEF InverseOf, Reversible, Go
<1>12. CASE kind = "schedule"
  BY <1>12, ScheduleKind DEF InverseOf, Reversible, Cadence
<1>13. CASE kind = "hosts"
  BY <1>13, HostsKind DEF InverseOf, Reversible, HostsChange, InverseOps, Opposite
<1>99. QED
  BY <1>1, <1>2, <1>3, <1>4, <1>5, <1>6, <1>7, <1>8, <1>9, <1>10, <1>11, <1>12, <1>13 DEF Kind

\* Whatever a write comes to is a state of this kind.
LEMMA ResultsType ==
    ASSUME kind \in Kind, NEW c \in Change, NEW w \in World(kind),
           kind = "hosts" => job.new \in HostsWorld,
           NEW r \in Results(c, w)
    PROVE  r.world \in World(kind)
<1>1. CASE kind \in {"user", "machine"}
  BY <1>1, SettingKind DEF WriteSetting, Attempt, Stays, RegistryWorld, Permitted,
     RegistryChange
<1>2. CASE kind = "policy"
  BY <1>2, PolicyKind DEF WritePolicy, Attempt, Stays, RegistryWorld, Permitted, RegistryChange
<1>3. CASE kind = "task"
  BY <1>3, TaskKind DEF WriteTask, Attempt, Stays, TaskWorld, OnOff
<1>4. CASE kind = "service"
  BY <1>4, ServiceKind DEF WriteService, Attempt, Stays, ServiceWorld, Writable
<1>5. CASE kind = "startup"
  BY <1>5, StartupKind DEF WriteStartup, EncodeApproved, Attempt, Stays, StartupWorld, OnOff
<1>6. CASE kind = "rule"
  BY <1>6, RuleKind DEF WriteRules, RuleWorld, OnOff
<1>7. CASE kind = "profile"
  BY <1>7, ProfileKind DEF WriteProfile, Attempt, Stays, OnOff
<1>8. CASE kind = "hibernation"
  <2>1. w \in HibernationWorld /\ c \in OnOff /\ r \in WriteHibernation(c, w)
    BY <1>8, HibernationKind
  <2>2. r.world \in {w, Powercfg(c)}
    BY <2>1 DEF WriteHibernation, Attempt, Stays
  <2>3. QED
    BY <1>8, HibernationKind, PowercfgFacts, <2>1, <2>2
<1>9. CASE kind = "scheme"
  BY <1>9, SchemeKind DEF WriteScheme, Attempt, Stays, SchemeWorld, Scheme
<1>10. CASE kind = "driver"
  <2>1. w \in DriverWorld /\ c \in Package /\ r \in Uninstall(c, w)
    BY <1>10, DriverKind
  <2>2. r.world \in {w, [w EXCEPT !.state[c] = "absent"]}
    BY <2>1 DEF Uninstall, Attempt, Stays
  <2>3. [w EXCEPT !.state[c] = "absent"] \in DriverWorld
    <3>1. [w.state EXCEPT ![c] = "absent"] \in [Package -> {"absent", "idle", "bound"}]
      BY <2>1 DEF DriverWorld
    <3>2. QED
      BY <2>1, <3>1 DEF DriverWorld
  <2>4. QED
    BY <1>10, DriverKind, <2>1, <2>2, <2>3
<1>11. CASE kind = "restore"
  <2>1. w \in RestoreWorld /\ r \in CreatePoint(w)
    BY <1>11, RestoreKind
  <2>2. r.world \in {w, [w EXCEPT !.points = 1]}
    BY <2>1 DEF CreatePoint, Attempt, Stays
  <2>3. \A x \in RestoreWorld : [x EXCEPT !.points = 1] \in RestoreWorld
    BY DEF RestoreWorld
  <2>4. QED
    BY <1>11, RestoreKind, <2>1, <2>2, <2>3
<1>12. CASE kind = "schedule"
  BY <1>12, ScheduleKind DEF WriteSchedule, Registered, Attempt, Stays, ScheduleWorld, Cadence
<1>13. CASE kind = "hosts"
  BY <1>13, HostsKind DEF Attempt, Stays, HostsWorld, HostsChange
<1>99. QED
  BY <1>1, <1>2, <1>3, <1>4, <1>5, <1>6, <1>7, <1>8, <1>9, <1>10, <1>11, <1>12, <1>13 DEF Kind

\* After a change was made, the inverse that was recorded of it is one the adapter takes,
\* but for a return to a registry value that the catalog does not list.
LEMMA Takes ==
    ASSUME kind \in Kind, NEW c \in Change, NEW p, NEW v, NEW d \in InverseOf(c, p),
           Made(c, p, v), Reversible
    PROVE  \/ Describes(d, v) /\ Look(d, v).ok /\ LastLook(d, v).ok
           \/ kind \in {"user", "machine", "policy"} /\ d = "nine"
<1>1. CASE kind \in {"user", "machine"}
  BY <1>1, SettingKind DEF Made, Becomes, InverseOf, Reversible, Go, Nothing, Failed,
     Unsupported, Seen, ObserveSetting, SettingSupported, ReadDword, ApplySetting,
     WriteSetting, Attempt, Stays, RegistryWorld, Permitted, RegistryChange
<1>2. CASE kind = "policy"
  <2>1. PICK w \in World(kind) : Look(c, w) = Seen(p) /\ LastLook(c, w) = Go /\ Becomes(c, w, v)
    BY DEF Made
  <2>2. PolicyResolves(os, c) /\ w # "text" /\ v = c /\ d = p /\ p = w
    <3>1. ApplyPolicy(os, c, w) = Go /\ ObservePolicy(os, c, w) = Seen(p)
      BY <1>2, <2>1, PolicyKind
    <3>2. PolicyResolves(os, c) /\ w # "text"
      BY <3>1 DEF ApplyPolicy, Go, Seen, Unsupported
    <3>3. p = w
      BY <3>1, <3>2 DEF ObservePolicy, ReadDword, Seen
    <3>4. [ok |-> TRUE, world |-> v] \in WritePolicy(c, w)
      BY <1>2, <2>1, PolicyKind DEF Becomes
    <3>5. v = c
      BY <3>4 DEF WritePolicy, Attempt, Stays
    <3>6. QED
      BY <1>2, <3>2, <3>3, <3>5 DEF InverseOf, Reversible
  <2>3. w \in RegistryWorld /\ v # "text"
    BY <1>2, <2>1, <2>2, PolicyKind DEF RegistryChange
  <2>4. CASE d \in Permitted
    <3>1. PolicyResolves(os, d) /\ DescribesPolicy(d)
      BY <2>2, <2>4 DEF PolicyResolves, DescribesPolicy
    <3>2. ObservePolicy(os, d, v).ok /\ ApplyPolicy(os, d, v).ok
      BY <3>1, <2>3 DEF ObservePolicy, ApplyPolicy, ReadDword, Seen, Go, Nothing
    <3>3. QED
      BY <1>2, <3>1, <3>2, PolicyKind
  <2>5. QED
    BY <1>2, <2>2, <2>3, <2>4 DEF RegistryWorld
<1>3. CASE kind = "task"
  BY <1>3, TaskKind DEF Made, Becomes, InverseOf, Reversible, Go, Nothing, Failed,
     Unsupported, Seen, ObserveTask, ApplyTask, WriteTask, Attempt, Stays, TaskWorld, OnOff
<1>4. CASE kind = "service"
  BY <1>4, ServiceKind DEF Made, Becomes, InverseOf, Reversible, Go, Nothing, Failed,
     Unsupported, Seen, ObserveService, ApplyService, WriteService, Attempt, Stays,
     ServiceWorld, Writable
<1>5. CASE kind = "startup"
  BY <1>5, StartupKind DEF Made, Becomes, InverseOf, Reversible, Go, Nothing, Failed,
     Unsupported, Seen, ObserveStartup, Word, Approved, ApplyStartup, WriteStartup,
     EncodeApproved, Attempt, Stays, StartupWorld, OnOff
<1>6. CASE kind = "rule"
  <2>1. PICK w \in World(kind) : Look(c, w) = Seen(p) /\ LastLook(c, w) = Go /\ Becomes(c, w, v)
    BY DEF Made
  <2>2. w \in RuleWorld /\ c \in OnOff /\ ApplyRules(w) = Go /\ ObserveRules(w) = Seen(p)
    BY <1>6, <2>1, RuleKind
  <2>3. w # <<>>
    BY <2>2 DEF ApplyRules, Go, Seen, Unsupported
  <2>4. [ok |-> TRUE, world |-> v] \in WriteRules(c, w)
    BY <1>6, <2>1, RuleKind DEF Becomes
  <2>5. v # <<>> /\ ObserveRules(v) = Seen(c)
    BY <2>2, <2>3, <2>4, AllRules
  <2>6. QED
    BY <1>6, <2>5, RuleKind DEF ApplyRules, Go, Seen
<1>7. CASE kind = "profile"
  BY <1>7, ProfileKind DEF Made, Becomes, InverseOf, Reversible, Go, Nothing, Failed,
     Unsupported, Seen, ObserveProfile, WriteProfile, Attempt, Stays, OnOff
<1>8. CASE kind = "hibernation"
  <2>1. PICK w \in World(kind) : Look(c, w) = Seen(p) /\ LastLook(c, w) = Go /\ Becomes(c, w, v)
    BY DEF Made
  <2>2. [ok |-> TRUE, world |-> v] \in WriteHibernation(c, w)
    BY <1>8, <2>1, HibernationKind DEF Becomes
  <2>3. c \in OnOff /\ v = Powercfg(c)
    BY <1>8, <2>2, HibernationKind DEF WriteHibernation, Attempt, Stays
  <2>4. QED
    BY <1>8, <2>3, HibernationKind, PowercfgFacts DEF ApplyHibernation, Go, Seen
<1>9. CASE kind = "scheme"
  BY <1>9, SchemeKind DEF Made, Becomes, InverseOf, Reversible, Go, Nothing, Failed,
     Unsupported, Seen, ObserveScheme, ApplyScheme, WriteScheme, Attempt, Stays,
     SchemeWorld, Scheme
<1>12. CASE kind = "schedule"
  BY <1>12, ScheduleKind DEF Made, Becomes, InverseOf, Reversible, Go, Nothing, Failed,
     Unsupported, Seen, CurrentCadence, ApplySchedule, WriteSchedule, Registered, Attempt,
     Stays, ScheduleWorld, Cadence
<1>13. CASE kind = "hosts"
  <2>1. PICK w \in World(kind) : Look(c, w) = Seen(p) /\ LastLook(c, w) = Go /\ Becomes(c, w, v)
    BY DEF Made
  <2>2. w \in HostsWorld /\ c \in HostsChange /\ ApplyHosts(c, w) = Go /\ v = Edit(c, w)
    BY <1>13, <2>1, HostsKind DEF Becomes
  <2>3. Applicable(c, w) /\ d = InverseOps(c)
    BY <1>13, <2>2 DEF ApplyHosts, Go, Seen, Unsupported, InverseOf, Reversible
  <2>4. Applicable(d, v)
    BY <2>2, <2>3, EditsBack
  <2>5. QED
    BY <1>13, <2>4, HostsKind DEF ObserveHosts, ApplyHosts, Go, Nothing, Seen
<1>99. QED
  BY <1>1, <1>2, <1>3, <1>4, <1>5, <1>6, <1>7, <1>8, <1>9, <1>12, <1>13 DEF Kind, Reversible

\* After a change was made and its inverse was made, Windows is as it was observed before.
LEMMA Undoes ==
    ASSUME kind \in Kind, NEW c \in Change, NEW p, NEW v, NEW d \in InverseOf(c, p),
           Made(c, p, v), Reversible, kind # "hosts",
           LastLook(d, v) = Go, NEW u, Becomes(d, v, u)
    PROVE  Look(c, u) = Seen(p)
<1>1. CASE kind \in {"user", "machine"}
  BY <1>1, SettingKind DEF Made, Becomes, InverseOf, Reversible, Go, Nothing, Failed,
     Unsupported, Seen, ObserveSetting, SettingSupported, ReadDword, ApplySetting,
     WriteSetting, Attempt, Stays, RegistryWorld, Permitted, RegistryChange
<1>2. CASE kind = "policy"
  BY <1>2, PolicyKind DEF Made, Becomes, InverseOf, Reversible, Go, Nothing, Failed,
     Unsupported, Seen, ObservePolicy, PolicyResolves, ReadDword, ApplyPolicy, WritePolicy,
     Attempt, Stays, RegistryWorld, Permitted, RegistryChange
<1>3. CASE kind = "task"
  BY <1>3, TaskKind DEF Made, Becomes, InverseOf, Reversible, Go, Nothing, Failed,
     Unsupported, Seen, ObserveTask, ApplyTask, WriteTask, Attempt, Stays, TaskWorld, OnOff
<1>4. CASE kind = "service"
  BY <1>4, ServiceKind DEF Made, Becomes, InverseOf, Reversible, Go, Nothing, Failed,
     Unsupported, Seen, ObserveService, ApplyService, WriteService, Attempt, Stays,
     ServiceWorld, Writable
<1>5. CASE kind = "startup"
  BY <1>5, StartupKind DEF Made, Becomes, InverseOf, Reversible, Go, Nothing, Failed,
     Unsupported, Seen, ObserveStartup, Word, Approved, ApplyStartup, WriteStartup,
     EncodeApproved, Attempt, Stays, StartupWorld, OnOff
<1>6. CASE kind = "rule"
  <2>1. PICK w \in World(kind) : Look(c, w) = Seen(p) /\ LastLook(c, w) = Go /\ Becomes(c, w, v)
    BY DEF Made
  <2>2. w \in RuleWorld /\ c \in OnOff /\ ApplyRules(w) = Go /\ ObserveRules(w) = Seen(p)
    BY <1>6, <2>1, RuleKind
  <2>3. w # <<>>
    BY <2>2 DEF ApplyRules, Go, Seen, Unsupported
  <2>4. [ok |-> TRUE, world |-> v] \in WriteRules(c, w)
    BY <1>6, <2>1, RuleKind DEF Becomes
  <2>5. v # <<>> /\ v \in RuleWorld
    <3>1. v # <<>>
      BY <2>2, <2>3, <2>4, AllRules
    <3>2. [ok |-> TRUE, world |-> v].world \in RuleWorld
      BY <2>2, <2>4, RulesType
    <3>3. QED
      BY <3>1, <3>2
  <2>6. d = p /\ p \in OnOff
    <3>1. d = p
      BY <1>6 DEF InverseOf, Reversible
    <3>2. d \in OnOff
      BY <1>6, <2>1, LookForm, RuleKind, <3>1 DEF Seen, Unsupported
    <3>3. QED
      BY <3>1, <3>2
  <2>7. [ok |-> TRUE, world |-> u] \in WriteRules(d, v)
    BY <1>6, RuleKind DEF Becomes
  <2>8. QED
    BY <1>6, <2>5, <2>6, <2>7, AllRules, RuleKind
<1>7. CASE kind = "profile"
  BY <1>7, ProfileKind DEF Made, Becomes, InverseOf, Reversible, Go, Nothing, Failed,
     Unsupported, Seen, ObserveProfile, WriteProfile, Attempt, Stays, OnOff
<1>8. CASE kind = "hibernation"
  <2>1. PICK w \in World(kind) : Look(c, w) = Seen(p)
    BY DEF Made
  <2>2. d = p /\ p \in OnOff
    BY <1>8, <2>1, LookForm, HibernationKind DEF InverseOf, Reversible, Seen, Unsupported
  <2>3. [ok |-> TRUE, world |-> u] \in WriteHibernation(d, v)
    BY <1>8, HibernationKind DEF Becomes
  <2>4. u = Powercfg(d)
    BY <2>3 DEF WriteHibernation, Attempt, Stays
  <2>5. QED
    BY <1>8, <2>2, <2>4, PowercfgFacts, HibernationKind
<1>9. CASE kind = "scheme"
  BY <1>9, SchemeKind DEF Made, Becomes, InverseOf, Reversible, Go, Nothing, Failed,
     Unsupported, Seen, ObserveScheme, ApplyScheme, WriteScheme, Attempt, Stays,
     SchemeWorld, Scheme
<1>12. CASE kind = "schedule"
  BY <1>12, ScheduleKind DEF Made, Becomes, InverseOf, Reversible, Go, Nothing, Failed,
     Unsupported, Seen, CurrentCadence, ApplySchedule, WriteSchedule, Registered, Attempt,
     Stays, ScheduleWorld, Cadence
<1>99. QED
  BY <1>1, <1>2, <1>3, <1>4, <1>5, <1>6, <1>7, <1>8, <1>9, <1>12 DEF Kind, Reversible

\* A write that succeeded came to what the change makes of the state it found.
LEMMA Succeeds ==
    ASSUME kind \in Kind, kind # "hosts", NEW c \in Change, NEW w \in World(kind),
           NEW r \in Results(c, w), r.ok
    PROVE  Becomes(c, w, r.world)
<1>1. CASE kind \in {"user", "machine"}
  BY <1>1, SettingKind DEF Becomes, WriteSetting, Attempt, Stays
<1>2. CASE kind = "policy"
  BY <1>2, PolicyKind DEF Becomes, WritePolicy, Attempt, Stays
<1>3. CASE kind = "task"
  BY <1>3, TaskKind DEF Becomes, WriteTask, Attempt, Stays
<1>4. CASE kind = "service"
  BY <1>4, ServiceKind DEF Becomes, WriteService, Attempt, Stays
<1>5. CASE kind = "startup"
  BY <1>5, StartupKind DEF Becomes, WriteStartup, EncodeApproved, Attempt, Stays
<1>6. CASE kind = "rule"
  <2>1. r \in WriteRules(c, w) /\ w \in RuleWorld
    BY <1>6, RuleKind
  <2>2. PICK n \in 0 .. Len(w) :
           r = [ok |-> n = Len(w), world |-> [i \in DOMAIN w |-> IF i <= n THEN c ELSE w[i]]]
    BY <2>1 DEF WriteRules
  <2>3. n = Len(w)
    BY <2>2
  <2>4. r = [ok |-> TRUE, world |-> r.world]
    BY <2>2, <2>3
  <2>5. [ok |-> TRUE, world |-> r.world] \in Results(c, w)
    BY <2>4
  <2>6. QED
    BY <2>5 DEF Becomes
<1>7. CASE kind = "profile"
  BY <1>7, ProfileKind DEF Becomes, WriteProfile, Attempt, Stays
<1>8. CASE kind = "hibernation"
  BY <1>8, HibernationKind DEF Becomes, WriteHibernation, Powercfg, Attempt, Stays
<1>9. CASE kind = "scheme"
  BY <1>9, SchemeKind DEF Becomes, WriteScheme, Attempt, Stays
<1>10. CASE kind = "driver"
  BY <1>10, DriverKind DEF Becomes, Uninstall, Attempt, Stays
<1>11. CASE kind = "restore"
  BY <1>11, RestoreKind DEF Becomes, CreatePoint, Attempt, Stays
<1>12. CASE kind = "schedule"
  BY <1>12, ScheduleKind DEF Becomes, WriteSchedule, Registered, Attempt, Stays
<1>99. QED
  BY <1>1, <1>2, <1>3, <1>4, <1>5, <1>6, <1>7, <1>8, <1>9, <1>10, <1>11, <1>12 DEF Kind

\* What a list offers can be previewed, but for the three cases the property names.
LEMMA ListedIsPreviewed ==
    ASSUME kind \in Kind, NEW c \in Change, NEW w \in World(kind), Listed(c, w)
    PROVE  \/ Describes(c, w) /\ Look(c, w).ok
           \/ kind = "rule" /\ \E i \in DOMAIN w : w[i] # w[1]
           \/ kind = "policy" /\ w = "text"
           \/ kind = "schedule" /\ w.owner = "foreign"
<1>1. CASE kind \in {"user", "machine"}
  BY <1>1, SettingKind, LookForm DEF Seen, ListsSetting
<1>2. CASE kind = "policy"
  BY <1>2, PolicyKind DEF Seen, Unsupported, ObservePolicy, PolicyResolves, ReadDword,
     RegistryWorld, Permitted, RegistryChange, ListsPolicy, DescribesPolicy
<1>3. CASE kind = "task"
  BY <1>3, TaskKind DEF Seen, Unsupported, ObserveTask, TaskWorld, OnOff, ListsTask
<1>4. CASE kind = "service"
  BY <1>4, ServiceKind DEF Seen, Unsupported, ObserveService, ServiceWorld, Writable,
     ListsService
<1>5. CASE kind = "startup"
  BY <1>5, StartupKind DEF Seen, Unsupported, ObserveStartup, Word, Approved, StartupWorld,
     OnOff, ListsStartup
<1>6. CASE kind = "rule"
  BY <1>6, RuleKind DEF Seen, Unsupported, ObserveRules, RuleWorld, OnOff, ListsRule
<1>7. CASE kind = "profile"
  BY <1>7, ProfileKind DEF Seen, Unsupported, ObserveProfile, OnOff
<1>8. CASE kind = "hibernation"
  BY <1>8, HibernationKind DEF ListsHibernation, ObserveHibernation, Seen
<1>9. CASE kind = "scheme"
  BY <1>9, SchemeKind DEF Seen, Unsupported, ObserveScheme, SchemeWorld, Scheme, ListsScheme
<1>10. CASE kind = "driver"
  BY <1>10, DriverKind DEF ListsDriver, DescribesDriver, ObserveDriver, Seen
<1>11. CASE kind = "restore"
  BY <1>11, RestoreKind DEF Seen, Unsupported, ObserveRestore, RestoreWorld, Go
<1>12. CASE kind = "schedule"
  BY <1>12, ScheduleKind DEF Seen, Unsupported, CurrentCadence, ScheduleWorld, Cadence,
     ListsSchedule
<1>13. CASE kind = "hosts"
  BY <1>13, HostsKind DEF Seen, Unsupported, ObserveHosts, HostsWorld, HostsChange,
     ListsLines, Applicable, Source
<1>99. QED
  BY <1>1, <1>2, <1>3, <1>4, <1>5, <1>6, <1>7, <1>8, <1>9, <1>10, <1>11, <1>12, <1>13 DEF Kind
-----------------------------------------------------------------------------
(* Lemmas about the contract                                               *)

\* What LastLook lets through is what an adapter may change.
LEMMA Spared ==
    ASSUME kind \in Kind, NEW c \in Change, world \in World(kind), LastLook(c, world) = Go
    PROVE  Spares(c)
<1>1. CASE kind = "driver"
  <2>1. ApplyDriver(c, world) = Go
    BY <1>1, DriverKind
  <2>2. Superseded(c, world)
    BY <2>1 DEF ApplyDriver, ObserveDriver, Go, Nothing, Seen, Unsupported
  <2>3. world.complete /\ \E q \in Stored(world) : IsNewer(q, c)
    BY <2>2 DEF Superseded, Replaced
  <2>4. QED
    BY Zenon, <1>1, <2>3 DEF Spares
<1>2. CASE kind = "service"
  <2>1. world \in Writable
    BY <1>2, ServiceKind DEF ApplyService, Go, Seen, Unsupported, Failed
  <2>2. QED
    BY Zenon, <1>2, <2>1 DEF Spares
<1>3. CASE kind = "schedule"
  <2>1. ApplySchedule(c, world) = Go /\ world \in ScheduleWorld
    BY <1>3, ScheduleKind
  <2>2. CurrentCadence(c, world).ok
    BY <2>1 DEF ApplySchedule, Go, Seen, Unsupported
  <2>3. world.owner # "foreign" /\ (c # "none" => world.owner # "orphan")
    BY <2>2 DEF CurrentCadence, Unsupported
  <2>4. QED
    BY Zenon, <1>3, <2>3 DEF Spares
<1>4. CASE kind \notin {"driver", "service", "schedule"}
  BY Zenon, <1>4 DEF Spares
<1>5. QED
  BY <1>1, <1>2, <1>3, <1>4

\* What is not in place yet is, for an adapter that looks again, the one other state.
LEMMA Compared ==
    ASSUME kind \in Kind, NEW c, NEW p \in Prior, NEW w, ~ Satisfied(c, p, w)
    PROVE  Unsatisfied(c, p)
<1>1. CASE kind = "startup"
  <2>1. p \in OnOff
    BY <1>1, StartupKind
  <2>2. p # c
    BY Zenon, <1>1 DEF Satisfied
  <2>3. QED
    BY <1>1, <2>1, <2>2 DEF Unsatisfied
<1>2. CASE kind = "driver"
  <2>1. p \in {"absent", "present"}
    BY <1>2, DriverKind
  <2>2. p # "absent"
    BY Zenon, <1>2 DEF Satisfied
  <2>3. QED
    BY <1>2, <2>1, <2>2 DEF Unsatisfied
<1>3. CASE kind = "restore"
  BY <1>3, RestoreKind DEF Unsatisfied
<1>4. CASE kind \notin {"startup", "driver", "restore"}
  BY <1>4 DEF Unsatisfied
<1>5. QED
  BY <1>1, <1>2, <1>3, <1>4

\* The last look of an adapter that looks again lets only that state through.
LEMMA LooksAgain ==
    ASSUME kind \in Kind, Recompares, NEW c \in Change, NEW p, world \in World(kind),
           Unsatisfied(c, p), LastLook(c, world) = Go
    PROVE  LookAgain(c, world) = Seen(p)
<1>1. CASE kind = "startup"
  <2>1. c \in OnOff /\ p \in OnOff \ {c} /\ ApplyStartup(c, world) = Go
    BY <1>1, StartupKind DEF Unsatisfied
  <2>2. world # "absent" /\ Word(Approved(world)) \in OnOff \ {c}
    BY <2>1 DEF ApplyStartup, Go, Nothing, Seen, Unsupported, Word, OnOff
  <2>3. p = Word(Approved(world))
    BY <2>1, <2>2 DEF OnOff
  <2>4. ObserveStartup(world) = Seen(p)
    BY <2>2, <2>3 DEF ObserveStartup
  <2>5. QED
    BY <1>1, <2>4, StartupKind DEF LookAgain
<1>2. CASE kind = "driver"
  <2>1. p = "present" /\ ApplyDriver(c, world) = Go
    BY <1>2, DriverKind DEF Unsatisfied
  <2>2. ObserveDriver(c, world) = Seen("present")
    BY <2>1 DEF ApplyDriver, ObserveDriver, Go, Nothing, Seen, Unsupported
  <2>3. QED
    BY <1>2, <2>1, <2>2, DriverKind DEF LookAgain
<1>3. CASE kind = "restore"
  BY <1>3 DEF Unsatisfied, LookAgain
<1>4. QED
  BY <1>1, <1>2, <1>3 DEF Recompares

\* prune_backups: the copy of the latest second is kept.
LEMMA NewestKept ==
    ASSUME NEW B, IsFiniteSet(B), NEW b, b.at \in Nat,
           \A a \in B : a.at \in Nat /\ a.at < b.at,
           NEW keep \in Pruned(KeepBackups, B \cup {b})
    PROVE  b \in keep
<1>1. IsFiniteSet(B \cup {b})
  BY FS_AddElement
<1>2. Cardinality(B \cup {b}) \in Nat /\ Cardinality(B \cup {b}) # 0
  BY <1>1, FS_CardinalityType, FS_EmptySet
<1>3. Cardinality(keep) # 0
  BY <1>2, RunAssumption DEF Pruned
<1>4. keep # {}
  BY <1>3, FS_EmptySet
<1>5. keep \subseteq B \cup {b} /\ \A a \in keep, other \in (B \cup {b}) \ keep : other.at <= a.at
  BY DEF Pruned
<1>6. QED
  BY <1>4, <1>5

\* What a write may come to; only of the hosts file is it something that was staged.
LEMMA SameResults ==
    ASSUME kind \in Kind, kind # "hosts", kind' = kind, NEW c, NEW w
    PROVE  Results(c, w)' = Results(c, w)
<1> DEFINE Same == Results(c, w)' = Results(c, w)
<1>1. /\ kind \in {"user", "machine"} => Same
      /\ kind = "policy" => Same
      /\ kind = "task" => Same
      /\ kind = "service" => Same
      /\ kind = "startup" => Same
      /\ kind = "rule" => Same
      /\ kind = "profile" => Same
      /\ kind = "hibernation" => Same
      /\ kind = "scheme" => Same
      /\ kind = "driver" => Same
      /\ kind = "restore" => Same
      /\ kind = "schedule" => Same
  BY Zenon DEF Results
<1>2. QED
  BY <1>1 DEF Kind

\* The kind of change and the edition of Windows never change, so the rules do not.
LEMMA SameRules ==
    ASSUME kind \in Kind, kind' = kind, os' = os
    PROVE  /\ Change' = Change /\ Prior' = Prior /\ Entry' = Entry /\ PlainJob' = PlainJob
           /\ StagedJob' = StagedJob /\ World(kind)' = World(kind) /\ Reversible' = Reversible
           /\ \A c, w : /\ Look(c, w)' = Look(c, w) /\ LookAgain(c, w)' = LookAgain(c, w)
                        /\ LastLook(c, w)' = LastLook(c, w)
           /\ \A c, p : InverseOf(c, p)' = InverseOf(c, p)
           /\ \A c, p, v : Made(c, p, v)' <=> Made(c, p, v)
           /\ \A c, p : Unsatisfied(c, p)' <=> Unsatisfied(c, p)
<1>1. Change' = Change
  BY Zenon DEF Change
<1>2. Prior' = Prior
  BY Zenon DEF Prior
<1>3. Entry' = Entry /\ PlainJob' = PlainJob /\ StagedJob' = StagedJob
  BY <1>1, <1>2 DEF Entry, PlainJob, StagedJob
<1>4. World(kind)' = World(kind)
  BY Zenon DEF World
<1>5. Reversible' = Reversible
  BY DEF Reversible
<1>6. ASSUME NEW c, NEW w
      PROVE  /\ Look(c, w)' = Look(c, w) /\ LookAgain(c, w)' = LookAgain(c, w)
             /\ LastLook(c, w)' = LastLook(c, w)
  <2>1. Look(c, w)' = Look(c, w)
    BY Zenon DEF Look
  <2>2. LastLook(c, w)' = LastLook(c, w)
    BY Zenon DEF LastLook
  <2>3. QED
    BY <2>1, <2>2 DEF LookAgain
<1>7. ASSUME NEW c, NEW p PROVE InverseOf(c, p)' = InverseOf(c, p)
  BY DEF InverseOf, Reversible
<1>8. ASSUME NEW c, NEW w, NEW v PROVE Becomes(c, w, v)' <=> Becomes(c, w, v)
  <2>1. CASE kind = "hosts"
    BY <2>1 DEF Becomes
  <2>2. CASE kind # "hosts"
    <3>1. Results(c, w)' = Results(c, w)
      BY <2>2, SameResults
    <3>2. QED
      BY <3>1, <2>2 DEF Becomes
  <2>3. QED
    BY <2>1, <2>2
<1>9. ASSUME NEW c, NEW p, NEW v PROVE Made(c, p, v)' <=> Made(c, p, v)
  BY <1>4, <1>6, <1>8 DEF Made
<1>10. ASSUME NEW c, NEW p PROVE Unsatisfied(c, p)' <=> Unsatisfied(c, p)
  BY DEF Unsatisfied
<1>11. QED
  BY <1>1, <1>2, <1>3, <1>4, <1>5, <1>6, <1>7, <1>9, <1>10
-----------------------------------------------------------------------------
(* System adapters: the journal *)

\* Entries stay as they are but for the mark of a rollback, and each has its inverse.
Grown ==
    /\ journal' \in Seq(Entry) /\ Len(journal) <= Len(journal')
    /\ \A n \in 1 .. Len(journal) :
          /\ journal'[n].change = journal[n].change /\ journal'[n].prior = journal[n].prior
          /\ journal'[n].inverse = journal[n].inverse
    /\ \A n \in 1 .. Len(journal') :
          journal'[n].inverse = InverseOf(journal'[n].change, journal'[n].prior)

Marked(outcome) == IF job.of # 0 /\ outcome = "Applied"
                   THEN [journal EXCEPT ![job.of].rolledBack = TRUE] ELSE journal

\* What the type of a change under way says at each phase.
LEMMA JobFacts ==
    ASSUME AdapterTypeOK, job # NoJob
    PROVE  /\ job.change \in Change /\ job.expected \in Prior /\ job.of \in Nat
           /\ job.late \in BOOLEAN /\ job.raced \in BOOLEAN
           /\ job.phase \in {"planned", "checked", "staged", "writing"}
           /\ job.phase \in {"planned", "checked"} => job \in PlainJob
           /\ job.phase = "staged" => kind = "hosts" /\ job \in StagedJob
           /\ job.phase = "writing" => IF kind = "hosts" THEN job \in StagedJob ELSE job \in PlainJob
BY DEF AdapterTypeOK, PlainJob, StagedJob

\* Marking an entry rolled back changes neither its change, prior state nor inverse.
LEMMA MarkedFacts ==
    ASSUME AdapterTypeOK, Recorded, job # NoJob, NEW outcome
    PROVE  /\ Marked(outcome) \in Seq(Entry) /\ Len(Marked(outcome)) = Len(journal)
           /\ \A n \in 1 .. Len(journal) :
                 /\ Marked(outcome)[n].change = journal[n].change
                 /\ Marked(outcome)[n].prior = journal[n].prior
                 /\ Marked(outcome)[n].inverse = journal[n].inverse
<1>1. journal \in Seq(Entry) /\ job.of \in 0 .. Len(journal)
  BY DEF AdapterTypeOK, Recorded
<1>2. CASE job.of # 0 /\ outcome = "Applied"
  <2>1. \A e \in Entry : /\ [e EXCEPT !.rolledBack = TRUE] \in Entry
                         /\ [e EXCEPT !.rolledBack = TRUE].change = e.change
                         /\ [e EXCEPT !.rolledBack = TRUE].prior = e.prior
                         /\ [e EXCEPT !.rolledBack = TRUE].inverse = e.inverse
    BY DEF Entry
  <2>2. job.of \in 1 .. Len(journal) /\ journal[job.of] \in Entry
    BY <1>1, <1>2
  <2>3. Marked(outcome) = [journal EXCEPT ![job.of] = [journal[job.of] EXCEPT !.rolledBack = TRUE]]
    BY <1>2 DEF Marked
  <2>4. [journal[job.of] EXCEPT !.rolledBack = TRUE] \in Entry
    BY <2>1, <2>2
  <2>5. Marked(outcome) \in Seq(Entry) /\ Len(Marked(outcome)) = Len(journal)
    BY <1>1, <2>2, <2>3, <2>4
  <2>6. \A n \in 1 .. Len(journal) :
           Marked(outcome)[n] = IF n = job.of THEN [journal[job.of] EXCEPT !.rolledBack = TRUE]
                                ELSE journal[n]
    BY <1>1, <2>2, <2>3
  <2>7. ASSUME NEW n \in 1 .. Len(journal)
        PROVE  /\ Marked(outcome)[n].change = journal[n].change
               /\ Marked(outcome)[n].prior = journal[n].prior
               /\ Marked(outcome)[n].inverse = journal[n].inverse
    <3>1. CASE n = job.of
      BY <2>1, <2>2, <2>6, <3>1
    <3>2. CASE n # job.of
      BY <2>6, <3>2
    <3>3. QED
      BY <3>1, <3>2
  <2>8. QED
    BY <2>5, <2>7
<1>3. CASE ~(job.of # 0 /\ outcome = "Applied")
  BY <1>1, <1>3 DEF Marked
<1>4. QED
  BY <1>2, <1>3

\* A change that ends without an entry, and one that ends with an entry of its own.
LEMMA Unrecorded ==
    ASSUME AdapterTypeOK, Recorded, job # NoJob, NEW outcome, NEW prior,
           FinishChange(outcome, prior, FALSE)
    PROVE  Grown /\ job' = NoJob
<1>1. journal' = Marked(outcome) /\ job' = NoJob
  BY DEF FinishChange, Marked
<1>2. \A n \in 1 .. Len(journal) :
         journal[n].inverse = InverseOf(journal[n].change, journal[n].prior)
  BY DEF AdapterTypeOK, Recorded
<1>3. journal \in Seq(Entry)
  BY DEF AdapterTypeOK
<1>4. QED
  BY <1>1, <1>2, <1>3, MarkedFacts DEF Grown

LEMMA Entered ==
    ASSUME AdapterTypeOK, Recorded, job # NoJob,
           NEW outcome \in {"Applied", "Failed", "Unsupported"},
           FinishChange(outcome, job.expected, TRUE)
    PROVE  /\ Grown /\ job' = NoJob /\ Len(journal') = Len(journal) + 1
           /\ journal'[Len(journal) + 1].change = job.change
           /\ journal'[Len(journal) + 1].prior = job.expected
<1> DEFINE entry == [change |-> job.change, prior |-> job.expected,
                     inverse |-> InverseOf(job.change, job.expected),
                     outcome |-> outcome, rolledBack |-> FALSE]
<1>1. journal' = Append(Marked(outcome), entry) /\ job' = NoJob
  BY DEF FinishChange, Marked
<1>2. \A n \in 1 .. Len(journal) :
         journal[n].inverse = InverseOf(journal[n].change, journal[n].prior)
  BY DEF AdapterTypeOK, Recorded
<1>3. entry \in Entry
  <2>1. job.change \in Change /\ job.expected \in Prior /\ kind \in Kind
    BY JobFacts DEF AdapterTypeOK
  <2>2. InverseOf(job.change, job.expected) \in SUBSET Change
    BY <2>1, InverseType
  <2>3. QED
    BY <2>1, <2>2 DEF Entry
<1>4. /\ entry.change = job.change /\ entry.prior = job.expected
      /\ entry.inverse = InverseOf(entry.change, entry.prior)
  OBVIOUS
<1> HIDE DEF entry
<1>5. journal \in Seq(Entry) /\ Len(journal) \in Nat
  BY DEF AdapterTypeOK
<1>6. /\ journal' \in Seq(Entry) /\ Len(journal') = Len(journal) + 1
      /\ \A n \in 1 .. Len(journal) : journal'[n] = Marked(outcome)[n]
      /\ journal'[Len(journal) + 1] = entry
  BY <1>1, <1>3, <1>5, MarkedFacts
<1>7. \A n \in 1 .. Len(journal) :
         /\ journal'[n].change = journal[n].change /\ journal'[n].prior = journal[n].prior
         /\ journal'[n].inverse = journal[n].inverse
  BY <1>6, MarkedFacts
<1>8. \A n \in 1 .. Len(journal') :
         journal'[n].inverse = InverseOf(journal'[n].change, journal'[n].prior)
  BY <1>2, <1>4, <1>5, <1>6, <1>7
<1>9. QED
  BY <1>1, <1>4, <1>5, <1>6, <1>7, <1>8 DEF Grown

\* A step that leaves the journal alone.
LEMMA Ungrown == ASSUME AdapterTypeOK, Recorded, UNCHANGED journal PROVE Grown
BY DEF AdapterTypeOK, Recorded, Grown
-----------------------------------------------------------------------------
(* System adapters: the invariant is inductive *)

\* What was written last stays what was written last while entries are added.
LEMMA StillMade ==
    ASSUME AdapterInv, kind' = kind, os' = os, Grown, world' = world,
           UNCHANGED <<last, undone>> \/ (last' = 0 /\ undone' = 0)
    PROVE  /\ LastMade' /\ UndoRestores'
           /\ last' \in 0 .. Len(journal') /\ undone' \in 0 .. Len(journal')
<1> USE SameRules DEF AdapterInv, AdapterTypeOK
<1>1. last' \in 0 .. Len(journal') /\ undone' \in 0 .. Len(journal')
  BY DEF Grown
<1>2. LastMade'
  <2>1. CASE last' # 0 /\ Reversible
    <3>1. last' = last /\ last \in 1 .. Len(journal)
      BY <2>1
    <3>2. Made(journal[last].change, journal[last].prior, world)
      BY <2>1, <3>1 DEF LastMade
    <3>3. journal'[last].change = journal[last].change /\ journal'[last].prior = journal[last].prior
      BY <3>1 DEF Grown
    <3>4. QED
      BY <3>1, <3>2, <3>3 DEF LastMade
  <2>2. QED
    BY <2>1 DEF LastMade
<1>3. UndoRestores'
  <2>1. CASE undone' # 0
    <3>1. undone' = undone /\ undone \in 1 .. Len(journal)
      BY <2>1
    <3>2. journal'[undone].change = journal[undone].change /\ journal'[undone].prior = journal[undone].prior
      BY <3>1 DEF Grown
    <3>3. QED
      BY <3>1, <3>2 DEF UndoRestores
  <2>2. QED
    BY <2>1 DEF UndoRestores
<1>4. QED
  BY <1>1, <1>2, <1>3

\* Steps that end the change under way.
LEMMA EndsJob ==
    ASSUME AdapterInv, kind' = kind, os' = os, Grown, job' = NoJob, world' = world,
           UNCHANGED <<backups, clock, count>>,
           UNCHANGED <<last, undone>> \/ (last' = 0 /\ undone' = 0)
    PROVE  AdapterInv'
<1>1. LastMade' /\ UndoRestores' /\ last' \in 0 .. Len(journal') /\ undone' \in 0 .. Len(journal')
  BY StillMade
<1>2. AdapterTypeOK'
  BY <1>1, SameRules DEF AdapterInv, AdapterTypeOK, Grown
<1>3. Recorded'
  BY <1>2, SameRules DEF AdapterInv, AdapterTypeOK, Grown, Recorded
<1>4. AsShown' /\ Allowed'
  BY DEF AsShown, Allowed, Under, Staged, NoJob
<1>5. BackedUp'
  BY DEF AdapterInv, BackedUp, Staged, NoJob
<1>6. QED
  BY <1>1, <1>2, <1>3, <1>4, <1>5 DEF AdapterInv

\* Steps of the change under way that record nothing yet.
LEMMA GoesOn ==
    ASSUME AdapterInv, kind' = kind, os' = os, world' = world, UNCHANGED <<journal, last, undone>>,
           count' \in Counts, clock' \in Nat,
           job' \in PlainJob \/ (kind = "hosts" /\ job' \in StagedJob),
           job'.phase # "writing" => ~job'.raced,
           job'.of \in 0 .. Len(journal),
           job'.of # 0 => job'.change \in journal[job'.of].inverse,
           AsShown', Allowed', BackedUp'
    PROVE  AdapterInv'
<1>1. Grown
  BY Ungrown DEF AdapterInv
<1>2. LastMade' /\ UndoRestores' /\ last' \in 0 .. Len(journal') /\ undone' \in 0 .. Len(journal')
  BY <1>1, StillMade
<1>3. AdapterTypeOK'
  BY <1>1, <1>2, SameRules DEF AdapterInv, AdapterTypeOK, Grown
<1>4. Recorded'
  BY <1>1, SameRules DEF AdapterInv, AdapterTypeOK, Recorded
<1>5. QED
  BY <1>2, <1>3, <1>4 DEF AdapterInv

\* A preview, of a change or of a rollback, plans what the look shows.
LEMMA ProposeStep ==
    ASSUME AdapterInv, NEW c \in Change, NEW n \in 0 .. Len(journal), Propose(c, n),
           n # 0 => c \in journal[n].inverse
    PROVE  AdapterInv'
<1>1. /\ job = NoJob /\ Look(c, world).ok /\ clock' = clock + 1
      /\ job' = [phase |-> "planned", change |-> c, of |-> n, expected |-> Look(c, world).is,
                 late |-> FALSE, raced |-> FALSE]
      /\ count' = [count EXCEPT !.runs = @ + 1]
      /\ UNCHANGED <<kind, os, world, backups, journal, last, undone>>
  BY DEF Propose
<1>2. Look(c, world).is \in Prior
  BY <1>1, LookForm DEF AdapterInv, AdapterTypeOK, Seen, Unsupported
<1>3. job' \in PlainJob
  BY <1>1, <1>2 DEF PlainJob
<1>4. count' \in Counts /\ count'.back = count.back /\ clock' \in Nat
  BY <1>1 DEF AdapterInv, AdapterTypeOK, Counts
<1>5. AsShown' /\ Allowed'
  BY <1>1 DEF AsShown, Allowed, Under, Staged
<1>6. BackedUp'
  <2>1. \A b \in backups : b.at \in Nat /\ b.at <= clock => b.at <= clock' /\ b.at < clock'
    BY <1>1 DEF AdapterInv, AdapterTypeOK
  <2>2. QED
    BY <1>1, <1>4, <2>1 DEF AdapterInv, BackedUp, Staged
<1>7. QED
  BY <1>1, <1>3, <1>4, <1>5, <1>6, GoesOn

LEMMA PreviewStep == AdapterInv /\ Preview => AdapterInv'
BY ProposeStep DEF Preview, AdapterInv, AdapterTypeOK

LEMMA RollbackStep == AdapterInv /\ CreateRollbackPlan => AdapterInv'
<1> SUFFICES ASSUME AdapterInv, CreateRollbackPlan PROVE AdapterInv'
  OBVIOUS
<1>1. PICK n \in DOMAIN journal : \E c \in journal[n].inverse : Propose(c, n)
  BY DEF CreateRollbackPlan
<1>2. PICK c \in journal[n].inverse : Propose(c, n)
  BY <1>1
<1>3. journal \in Seq(Entry) /\ n \in 1 .. Len(journal) /\ journal[n] \in Entry
  BY <1>1 DEF AdapterInv, AdapterTypeOK
<1>4. c \in Change
  BY <1>2, <1>3 DEF Entry
<1>5. QED
  BY <1>2, <1>3, <1>4, ProposeStep

\* The first comparison: a change goes on over the state that was shown.
LEMMA CheckStep == AdapterInv /\ Check => AdapterInv'
<1> SUFFICES ASSUME AdapterInv, Check PROVE AdapterInv'
  OBVIOUS
<1> DEFINE now == LookAgain(job.change, world)
<1>1. /\ job.phase = "planned" /\ job # NoJob
      /\ UNCHANGED <<kind, os, world, backups, clock, last, undone, count>>
  BY DEF Check, NoJob
<1>2. ASSUME NEW outcome, NEW prior, FinishChange(outcome, prior, FALSE) PROVE AdapterInv'
  BY <1>1, <1>2, Unrecorded, EndsJob DEF AdapterInv
<1>3. CASE /\ now.ok /\ now.is = job.expected /\ ~ Satisfied(job.change, now.is, world)
           /\ job' = [job EXCEPT !.phase = "checked"] /\ UNCHANGED journal
  <2>1. job \in PlainJob /\ job.change \in Change /\ world \in World(kind) /\ kind \in Kind
    BY <1>1, JobFacts DEF AdapterInv, AdapterTypeOK
  <2>2. /\ job' \in PlainJob /\ job'.phase = "checked" /\ job'.change = job.change
        /\ job'.of = job.of /\ job'.expected = job.expected
        /\ job'.late = job.late /\ job'.raced = job.raced
    BY <1>3, <2>1 DEF PlainJob
  <2>3. now = Seen(job.expected)
    <3>1. CASE kind = "restore"
      BY <1>3, <3>1 DEF LookAgain, Seen
    <3>2. CASE kind # "restore"
      <4>1. now = Look(job.change, world)
        BY <3>2 DEF LookAgain
      <4>2. now = Unsupported \/ \E p \in Prior : now = Seen(p)
        BY <2>1, <4>1, LookForm
      <4>3. QED
        BY <1>3, <4>2 DEF Seen, Unsupported
    <3>3. QED
      BY <3>1, <3>2
  <2>4. AsShown'
    <3>1. job.expected \in Prior /\ kind' = kind /\ os' = os /\ world' = world
      BY <1>1, JobFacts DEF AdapterInv, AdapterTypeOK
    <3>2. Unsatisfied(job.change, job.expected)
      BY <1>3, <2>1, <3>1, Compared
    <3>3. QED
      BY <2>1, <2>2, <2>3, <3>1, <3>2, SameRules DEF AsShown
  <2>5. Allowed' /\ BackedUp'
    BY <1>1, <2>2 DEF Allowed, AdapterInv, BackedUp, Staged
  <2>6. count' \in Counts /\ clock' \in Nat
    BY <1>1 DEF AdapterInv, AdapterTypeOK
  <2>7. ~job'.raced /\ job'.of \in 0 .. Len(journal)
        /\ (job'.of # 0 => job'.change \in journal[job'.of].inverse)
    BY <1>1, <2>2 DEF AdapterInv, AdapterTypeOK, Recorded
  <2>8. QED
    BY <1>1, <1>3, <2>2, <2>4, <2>5, <2>6, <2>7, GoesOn
<1>4. QED
  BY <1>2, <1>3 DEF Check

\* The three ways a change that was compared ends without a write.
LEMMA RefusedStep == AdapterInv /\ Refused => AdapterInv'
<1> SUFFICES ASSUME AdapterInv, Refused PROVE AdapterInv'
  OBVIOUS
<1>1. /\ job # NoJob /\ ~LastLook(job.change, world).ok
      /\ FinishChange(LastLook(job.change, world).is, job.expected, TRUE)
      /\ UNCHANGED <<kind, os, world, backups, clock, last, undone, count>>
  <2>1. job # NoJob
    BY DEF Refused, NoJob
  <2>2. QED
    BY Zenon, <2>1 DEF Refused
<1>2. LastLook(job.change, world).is \in {"Applied", "Failed", "Unsupported"}
  <2>1. LastLook(job.change, world) \in {Unsupported, Failed, Go, Nothing}
    BY <1>1, JobFacts, LastLookForm DEF AdapterInv, AdapterTypeOK
  <2>2. QED
    BY <1>1, <2>1 DEF Unsupported, Failed, Go, Nothing, Seen
<1>3. QED
  BY <1>1, <1>2, Entered, EndsJob DEF AdapterInv

LEMMA NothingToWriteStep == AdapterInv /\ NothingToWrite => AdapterInv'
<1> SUFFICES ASSUME AdapterInv, NothingToWrite PROVE AdapterInv'
  OBVIOUS
<1>1. /\ job # NoJob /\ FinishChange("Applied", job.expected, TRUE)
      /\ last' = 0 /\ undone' = 0 /\ UNCHANGED <<kind, os, world, backups, clock, count>>
  <2>1. job # NoJob
    BY DEF NothingToWrite, NoJob
  <2>2. QED
    BY Zenon, <2>1 DEF NothingToWrite
<1>2. QED
  BY <1>1, Entered, EndsJob DEF AdapterInv

LEMMA BackUpFailsStep == AdapterInv /\ BackUpFails => AdapterInv'
<1> SUFFICES ASSUME AdapterInv, BackUpFails PROVE AdapterInv'
  OBVIOUS
<1>1. /\ job # NoJob /\ FinishChange("Failed", job.expected, TRUE)
      /\ UNCHANGED <<kind, os, world, backups, clock, last, undone, count>>
  <2>1. job # NoJob
    BY DEF BackUpFails, NoJob
  <2>2. QED
    BY Zenon, <2>1 DEF BackUpFails
<1>2. QED
  BY <1>1, Entered, EndsJob DEF AdapterInv

\* The last look lets the change through; from here on a write of others is a race.
LEMMA MayWriteStep == AdapterInv /\ MayWrite => AdapterInv'
<1> SUFFICES ASSUME AdapterInv, MayWrite PROVE AdapterInv'
  OBVIOUS
<1>1. /\ job.phase = "checked" /\ kind # "hosts" /\ job # NoJob
      /\ LastLook(job.change, world) = Go /\ job' = [job EXCEPT !.phase = "writing"]
      /\ UNCHANGED <<kind, os, world, backups, clock, journal, last, undone, count>>
  BY DEF MayWrite, NoJob
<1>2. job \in PlainJob /\ kind \in Kind
  BY <1>1, JobFacts DEF AdapterInv, AdapterTypeOK
<1>3. /\ job' \in PlainJob /\ job'.phase = "writing" /\ job'.change = job.change
      /\ job'.of = job.of /\ job'.expected = job.expected
      /\ job'.late = job.late /\ job'.raced = job.raced
  BY <1>1, <1>2 DEF PlainJob
<1>4. AsShown'
  BY <1>1, <1>2, <1>3, SameRules DEF AdapterInv, AsShown, Under
<1>5. Allowed'
  BY <1>1, <1>2, <1>3, SameRules DEF Allowed, Staged
<1>6. BackedUp'
  BY <1>1, <1>3 DEF AdapterInv, BackedUp, Staged
<1>7. /\ count' \in Counts /\ clock' \in Nat /\ job'.of \in 0 .. Len(journal)
      /\ job'.of # 0 => job'.change \in journal[job'.of].inverse
  BY <1>1, <1>3 DEF AdapterInv, AdapterTypeOK, Recorded
<1>8. QED
  BY <1>1, <1>3, <1>4, <1>5, <1>6, <1>7, GoesOn
\* The hosts file is staged after it is backed up, and pruning keeps that backup.
LEMMA BackUpStep == AdapterInv /\ BackUp => AdapterInv'
<1> SUFFICES ASSUME AdapterInv, BackUp PROVE AdapterInv'
  OBVIOUS
<1> DEFINE copy == [at |-> clock, lines |-> world]
<1>1. /\ job.phase = "checked" /\ kind = "hosts" /\ job # NoJob
      /\ LastLook(job.change, world) = Go
      /\ backups' \in Pruned(KeepBackups, backups \cup {copy})
      /\ job' = [phase |-> "staged", change |-> job.change, of |-> job.of,
                 expected |-> job.expected,
                 late |-> job.late, raced |-> FALSE, old |-> world, new |-> Edit(job.change, world)]
      /\ UNCHANGED <<kind, os, world, clock, journal, last, undone, count>>
  BY DEF BackUp, NoJob
<1>2. job \in PlainJob /\ world \in HostsWorld /\ ~job.raced
  BY <1>1, JobFacts, HostsKind DEF AdapterInv, AdapterTypeOK
<1>3. job' \in StagedJob
  BY <1>1, <1>2, EditFacts DEF PlainJob, StagedJob
<1>4. AsShown'
  BY <1>1, <1>2, SameRules DEF AdapterInv, AdapterTypeOK, AsShown, Under
<1>5. Allowed'
  BY <1>1, SameRules DEF AdapterInv, AdapterTypeOK, Allowed, Staged
<1>6. BackedUp'
  <2>1. copy.at = clock /\ copy.lines = world /\ clock \in Nat
    BY DEF AdapterInv, AdapterTypeOK
  <2> HIDE DEF copy
  <2>2. IsFiniteSet(backups) /\ IsFiniteSet(backups \cup {copy})
    BY FS_AddElement DEF AdapterInv, BackedUp
  <2>3. backups' \subseteq backups \cup {copy}
    BY <1>1 DEF Pruned
  <2>4. IsFiniteSet(backups')
    BY <2>2, <2>3, FS_Subset
  <2>5. CASE ~count.back
    <3>1. \A b \in backups : b.at \in Nat /\ b.at < clock
      BY <1>1, <2>5 DEF AdapterInv, BackedUp
    <3>2. copy \in backups'
      BY <1>1, <2>1, <2>2, <3>1, NewestKept
    <3>3. \A b \in backups' : b.at \in Nat /\ b.at <= clock
      BY <2>1, <2>3, <3>1
    <3>4. QED
      BY <1>1, <2>1, <2>4, <3>2, <3>3 DEF BackedUp
  <2>6. QED
    BY <1>1, <2>4, <2>5 DEF BackedUp
<1>7. /\ count' \in Counts /\ clock' \in Nat /\ job'.of \in 0 .. Len(journal)
      /\ job'.of # 0 => job'.change \in journal[job'.of].inverse
  BY <1>1 DEF AdapterInv, AdapterTypeOK, Recorded
<1>8. QED
  BY <1>1, <1>3, <1>4, <1>5, <1>6, <1>7, GoesOn

\* The second comparison of the hosts file, right before it is replaced.
LEMMA CompareAgainStep == AdapterInv /\ CompareAgain => AdapterInv'
<1> SUFFICES ASSUME AdapterInv, CompareAgain PROVE AdapterInv'
  OBVIOUS
<1>1. /\ job.phase = "staged" /\ job # NoJob
      /\ UNCHANGED <<kind, os, world, backups, clock, last, undone, count>>
  BY DEF CompareAgain, NoJob
<1>2. job \in StagedJob /\ kind = "hosts" /\ ~job.raced /\ kind \in Kind
  BY <1>1, JobFacts DEF AdapterInv, AdapterTypeOK
<1>3. CASE world = job.old /\ job' = [job EXCEPT !.phase = "writing"] /\ UNCHANGED journal
  <2>1. /\ job' \in StagedJob /\ job'.phase = "writing" /\ job'.change = job.change
        /\ job'.of = job.of /\ job'.expected = job.expected /\ job'.old = job.old
        /\ job'.late = job.late /\ job'.raced = job.raced /\ job'.new = job.new
    BY <1>2, <1>3 DEF StagedJob
  <2>2. AsShown'
    BY <1>1, <1>2, <2>1, SameRules DEF AdapterInv, AsShown, Under
  <2>3. Allowed'
    BY <1>1, <1>2, <1>3, <2>1, SameRules DEF AdapterInv, Allowed, Staged
  <2>4. BackedUp'
    BY <1>1, <1>2, <2>1 DEF AdapterInv, BackedUp, Staged
  <2>5. /\ count' \in Counts /\ clock' \in Nat /\ job'.of \in 0 .. Len(journal)
        /\ job'.of # 0 => job'.change \in journal[job'.of].inverse
    BY <1>1, <2>1 DEF AdapterInv, AdapterTypeOK, Recorded
  <2>6. QED
    BY <1>1, <1>2, <1>3, <2>1, <2>2, <2>3, <2>4, <2>5, GoesOn
<1>4. CASE FinishChange("Failed", job.expected, TRUE)
  BY <1>1, <1>4, Entered, EndsJob DEF AdapterInv
<1>5. QED
  BY Zenon, <1>3, <1>4 DEF CompareAgain

\* The write: what is written is what the last change makes of what was observed, and a
\* rollback of the last change finds what it was observed as.
LEMMA WriteStep == AdapterInv /\ Write => AdapterInv'
<1> SUFFICES ASSUME AdapterInv, Write PROVE AdapterInv'
  OBVIOUS
<1> DEFINE clean(r) == r.ok /\ ~job.raced /\ ~job.late
<1>1. PICK r \in Results(job.change, world) :
         /\ world' = r.world
         /\ FinishChange(IF r.ok THEN "Applied" ELSE "Failed", job.expected, TRUE)
         /\ last' = (IF clean(r) THEN Len(journal) + 1 ELSE 0)
         /\ undone' = (IF clean(r) /\ job.of # 0 /\ job.of = last THEN job.of ELSE 0)
  BY Zenon DEF Write
<1>2. job.phase = "writing" /\ job # NoJob /\ UNCHANGED <<kind, os, backups, clock, count>>
  BY DEF Write, NoJob
<1>3. kind \in Kind /\ world \in World(kind) /\ job.change \in Change
      /\ (kind = "hosts" => job \in StagedJob /\ job.new \in HostsWorld)
  BY <1>2, JobFacts DEF AdapterInv, AdapterTypeOK, StagedJob
<1>4. r.world \in World(kind)
  BY <1>3, ResultsType
<1>5. /\ Grown /\ job' = NoJob /\ Len(journal') = Len(journal) + 1
      /\ journal'[Len(journal) + 1].change = job.change
      /\ journal'[Len(journal) + 1].prior = job.expected
  <2>1. (IF r.ok THEN "Applied" ELSE "Failed") \in {"Applied", "Failed", "Unsupported"}
    OBVIOUS
  <2>2. QED
    BY Zenon, <1>1, <1>2, <2>1, Entered DEF AdapterInv
<1>6. ASSUME clean(r), Reversible
      PROVE  Look(job.change, world) = Seen(job.expected) /\ LastLook(job.change, world) = Go
             /\ Becomes(job.change, world, r.world)
  <2>1. LookAgain(job.change, world) = Seen(job.expected)
    BY <1>2, <1>6 DEF AdapterInv, AsShown, Under
  <2>2. LastLook(job.change, world) = Go /\ (kind = "hosts" => world = job.old)
    BY <1>2, <1>6 DEF AdapterInv, Allowed
  <2>3. Becomes(job.change, world, r.world)
    <3>1. CASE kind = "hosts"
      <4>1. r \in Attempt(world, job.new)
        BY <3>1, HostsKind
      <4>2. r.world = job.new
        BY <4>1, <1>6 DEF Attempt, Stays
      <4>3. QED
        BY <1>2, <2>2, <3>1, <4>2 DEF AdapterInv, Allowed, Staged, Becomes
    <3>2. CASE kind # "hosts"
      BY <1>3, <1>6, <3>2, Succeeds
    <3>3. QED
      BY <3>1, <3>2
  <2>4. QED
    BY <1>6, <2>1, <2>2, <2>3 DEF LookAgain, Reversible
<1>7. LastMade'
  <2>1. CASE clean(r) /\ Reversible
    <3>1. Made(job.change, job.expected, world')
      BY <1>1, <1>3, <1>6, <2>1 DEF Made
    <3>2. last' = Len(journal) + 1
      BY <1>1, <2>1
    <3>3. QED
      BY <1>2, <1>3, <1>5, <3>1, <3>2, SameRules DEF LastMade
  <2>2. CASE ~clean(r)
    BY <1>1, <2>2 DEF LastMade
  <2>3. CASE ~Reversible
    BY <1>2, <1>3, <2>3, SameRules DEF LastMade
  <2>4. QED
    BY <2>1, <2>2, <2>3
<1>8. UndoRestores'
  <2>1. CASE clean(r) /\ job.of # 0 /\ job.of = last
    <3> DEFINE c == journal[last].change
               p == journal[last].prior
    <3>1. job.change \in InverseOf(c, p) /\ c \in Change /\ last \in 1 .. Len(journal)
      <4>1. last \in 1 .. Len(journal) /\ journal \in Seq(Entry)
        BY <2>1 DEF AdapterInv, AdapterTypeOK
      <4>2. journal[last] \in Entry
        BY <4>1
      <4>3. QED
        BY <1>2, <2>1, <4>1, <4>2 DEF AdapterInv, Recorded, Entry
    <3>2. Reversible
      BY <3>1 DEF InverseOf
    <3>3. Made(c, p, world)
      BY <2>1, <3>2 DEF AdapterInv, LastMade
    <3>4. LastLook(job.change, world) = Go /\ Becomes(job.change, world, world')
      BY <1>1, <1>6, <2>1, <3>2
    <3>5. journal'[last].change = c /\ journal'[last].prior = p /\ undone' = last
      BY <1>1, <1>5, <2>1, <3>1 DEF Grown
    <3> HIDE DEF c, p
    <3>6. \/ Look(c, world') = Seen(p)
          \/ kind = "hosts" /\ \E i \in DOMAIN c : p[i] = Target(c[i])
      <4>1. CASE kind # "hosts"
        BY <1>3, <3>1, <3>2, <3>3, <3>4, <4>1, Undoes
      <4>2. CASE kind = "hosts"
        <5>1. PICK w \in World(kind) : Look(c, w) = Seen(p) /\ LastLook(c, w) = Go /\ Becomes(c, w, world)
          BY <3>3 DEF Made
        <5>2. /\ w \in HostsWorld /\ c \in HostsChange
              /\ ApplyHosts(c, w) = Go /\ ObserveHosts(c, w) = Seen(p)
              /\ world = Edit(c, w) /\ world' = Edit(job.change, world)
          BY <3>1, <3>4, <4>2, <5>1, HostsKind DEF Becomes
        <5>3. Applicable(c, w) /\ p = w
          BY <5>2 DEF ApplyHosts, ObserveHosts, Go, Seen, Unsupported
        <5>4. job.change = InverseOps(c)
          BY <3>1, <3>2, <4>2 DEF InverseOf
        <5>5. CASE \A i \in DOMAIN c : w[i] # Target(c[i])
          <6>1. world' = w
            BY <5>2, <5>3, <5>4, <5>5, EditUndone
          <6>2. QED
            BY <5>1, <6>1
        <5>6. QED
          BY <4>2, <5>3, <5>5
      <4>3. QED
        BY <4>1, <4>2
    <3>7. QED
      BY <1>2, <1>3, <3>5, <3>6, SameRules DEF UndoRestores
  <2>2. CASE ~(clean(r) /\ job.of # 0 /\ job.of = last)
    BY <1>1, <2>2 DEF UndoRestores
  <2>3. QED
    BY <2>1, <2>2
<1>9. AdapterTypeOK'
  <2>1. last' \in 0 .. Len(journal')
    BY <1>1, <1>5 DEF AdapterInv, AdapterTypeOK
  <2>2. undone' \in 0 .. Len(journal')
    BY <1>1, <1>5 DEF AdapterInv, AdapterTypeOK
  <2>3. QED
    BY <1>1, <1>2, <1>3, <1>4, <1>5, <2>1, <2>2, SameRules DEF AdapterInv, AdapterTypeOK, Grown
<1>10. Recorded'
  BY <1>2, <1>3, <1>5, <1>9, SameRules DEF AdapterTypeOK, Grown, Recorded
<1>11. AsShown' /\ Allowed' /\ BackedUp'
  BY <1>2, <1>5 DEF AdapterInv, AsShown, Allowed, BackedUp, Under, Staged, NoJob
<1>12. QED
  BY <1>7, <1>8, <1>9, <1>10, <1>11 DEF AdapterInv

\* Another program writes: a change that was compared is late, one that is writing raced.
LEMMA OtherProgramStep == AdapterInv /\ OtherProgram => AdapterInv'
<1> SUFFICES ASSUME AdapterInv, OtherProgram PROVE AdapterInv'
  OBVIOUS
<1>1. /\ world' \in World(kind) /\ count' = [count EXCEPT !.foreign = @ + 1]
      /\ job' = IF job.phase \in {"checked", "staged"} THEN [job EXCEPT !.late = TRUE]
                ELSE IF job.phase = "writing" THEN [job EXCEPT !.raced = TRUE] ELSE job
      /\ last' = 0 /\ undone' = 0 /\ UNCHANGED <<kind, os, backups, clock, journal>>
  BY DEF OtherProgram
<1>2. count' \in Counts /\ count'.back = count.back
  BY <1>1 DEF AdapterInv, AdapterTypeOK, Counts
<1>3. CASE job = NoJob
  <2>1. job' = NoJob
    BY <1>1, <1>3 DEF NoJob
  <2>2. AdapterTypeOK'
    BY <1>1, <1>2, <2>1, SameRules DEF AdapterInv, AdapterTypeOK
  <2>3. Recorded' /\ AsShown' /\ Allowed' /\ BackedUp'
    BY <1>1, <1>2, <2>1, SameRules DEF AdapterInv, AdapterTypeOK, Recorded, AsShown,
       Allowed, BackedUp, Under, Staged, NoJob
  <2>4. QED
    BY <1>1, <2>2, <2>3 DEF AdapterInv, LastMade, UndoRestores
<1>4. CASE job # NoJob
  <2>1. /\ job' \in PlainJob \/ (kind = "hosts" /\ job' \in StagedJob)
        /\ job'.phase = job.phase /\ job'.change = job.change /\ job'.of = job.of
        /\ job'.expected = job.expected
        /\ job.phase # "writing" => ~job'.raced
        /\ job.phase \in {"checked", "staged"} => job'.late
        /\ job.phase = "writing" => job'.raced
        /\ kind = "hosts" /\ job.phase \in {"staged", "writing"} =>
              job'.old = job.old /\ job'.new = job.new
    <3>1. CASE job \in PlainJob
      BY <1>1, <1>4, <3>1 DEF AdapterInv, AdapterTypeOK, PlainJob
    <3>2. CASE kind = "hosts" /\ job \in StagedJob
      BY <1>1, <1>4, <3>2 DEF AdapterInv, AdapterTypeOK, StagedJob
    <3>3. QED
      BY <1>4, <3>1, <3>2 DEF AdapterInv, AdapterTypeOK
  <2>2. AdapterTypeOK'
    BY <1>1, <1>2, <2>1, SameRules DEF AdapterInv, AdapterTypeOK
  <2>3. Recorded'
    BY <1>1, <1>4, <2>1, SameRules DEF AdapterInv, AdapterTypeOK, Recorded
  <2>4. AsShown'
    <3>1. kind \in Kind /\ kind' = kind /\ os' = os
      BY <1>1 DEF AdapterInv, AdapterTypeOK
    <3>2. Under' => Unsatisfied(job.change, job.expected)'
      BY <2>1, <3>1, SameRules DEF AdapterInv, AsShown, Under
    <3>3. ~ (Under /\ ~ job.late /\ ~ job.raced)'
      BY <1>1, <2>1 DEF Under
    <3>4. QED
      BY <3>2, <3>3 DEF AsShown
  <2>5. Allowed'
    BY <1>1, <2>1, SameRules DEF AdapterInv, AdapterTypeOK, Allowed, Staged
  <2>6. BackedUp'
    BY <1>1, <1>2, <2>1 DEF AdapterInv, BackedUp, Staged
  <2>7. QED
    BY <1>1, <2>2, <2>3, <2>4, <2>5, <2>6 DEF AdapterInv, LastMade, UndoRestores
<1>5. QED
  BY <1>3, <1>4

\* The clock is set back: no backup is promised any more.
LEMMA ClockSetBackStep == AdapterInv /\ ClockSetBack => AdapterInv'
<1> SUFFICES ASSUME AdapterInv, ClockSetBack PROVE AdapterInv'
  OBVIOUS
<1>1. /\ clock' = 0 /\ count' = [count EXCEPT !.back = TRUE, !.foreign = @ + 1]
      /\ UNCHANGED <<kind, os, world, backups, journal, job, last, undone>>
  BY DEF ClockSetBack
<1>2. count' \in Counts /\ count'.back
  <2>1. \A c \in Counts : [c EXCEPT !.back = TRUE] \in Counts
    BY DEF Counts
  <2>2. \A c \in Counts : [c EXCEPT !.foreign = @ + 1] \in Counts
    BY DEF Counts
  <2>3. \A c : [c EXCEPT !.back = TRUE, !.foreign = @ + 1]
                = [[c EXCEPT !.back = TRUE] EXCEPT !.foreign = @ + 1]
    OBVIOUS
  <2>4. \A c \in Counts : [c EXCEPT !.back = TRUE, !.foreign = @ + 1].back = TRUE
    BY DEF Counts
  <2>5. count \in Counts
    BY DEF AdapterInv, AdapterTypeOK
  <2>6. QED
    BY <1>1, <2>1, <2>2, <2>3, <2>4, <2>5
<1>3. AdapterTypeOK' /\ LastMade' /\ UndoRestores'
  BY <1>1, <1>2, SameRules DEF AdapterInv, AdapterTypeOK, LastMade, UndoRestores
<1>4. Recorded' /\ AsShown' /\ Allowed'
  BY <1>1, SameRules DEF AdapterInv, AdapterTypeOK, Recorded, AsShown, Allowed, Under, Staged
<1>5. BackedUp'
  BY <1>1, <1>2 DEF AdapterInv, BackedUp
<1>6. QED
  BY <1>3, <1>4, <1>5 DEF AdapterInv

\* The invariant holds at the start, every step keeps it, and so it always holds.
LEMMA AdapterInvInit == AdapterInit => AdapterInv
<1> SUFFICES ASSUME AdapterInit PROVE AdapterInv
  OBVIOUS
<1>1. count \in Counts /\ ~count.back /\ world \in World(kind) /\ job = NoJob
      /\ journal = <<>> /\ clock = 0 /\ backups = {} /\ last = 0 /\ undone = 0 /\ kind \in Kind
  BY DEF AdapterInit, Counts
<1>2. AdapterTypeOK /\ Recorded
  BY <1>1 DEF AdapterTypeOK, Recorded
<1>3. AsShown /\ Allowed
  BY <1>1 DEF AsShown, Allowed, Under, Staged, NoJob
<1>4. BackedUp
  BY <1>1, FS_EmptySet DEF BackedUp, Staged, NoJob
<1>5. QED
  BY <1>1, <1>2, <1>3, <1>4 DEF AdapterInv, LastMade, UndoRestores

LEMMA AdapterInvStep == AdapterInv /\ [AdapterNext]_adapterVars => AdapterInv'
<1>1. AdapterInv /\ UNCHANGED adapterVars => AdapterInv'
  <2> SUFFICES ASSUME AdapterInv, UNCHANGED adapterVars PROVE AdapterInv'
    OBVIOUS
  <2>1. UNCHANGED <<kind, os, world, backups, clock, journal, job, last, undone, count>>
    BY DEF adapterVars
  <2>2. AdapterTypeOK' /\ LastMade' /\ UndoRestores' /\ BackedUp'
    BY <2>1, SameRules DEF AdapterInv, AdapterTypeOK, LastMade, UndoRestores, BackedUp, Staged
  <2>3. Recorded' /\ AsShown' /\ Allowed'
    BY <2>1, SameRules DEF AdapterInv, AdapterTypeOK, Recorded, AsShown, Allowed, Under, Staged
  <2>4. QED
    BY <2>2, <2>3 DEF AdapterInv
<1>2. QED
  BY <1>1, PreviewStep, RollbackStep, CheckStep, RefusedStep, NothingToWriteStep,
     MayWriteStep, BackUpStep, BackUpFailsStep, CompareAgainStep, WriteStep,
     OtherProgramStep, ClockSetBackStep DEF AdapterNext

-----------------------------------------------------------------------------
(* System adapters: the theorems *)

LEMMA AdapterInductive == AdapterSpec => []AdapterInv
BY AdapterInvInit, AdapterInvStep, PTL DEF AdapterSpec

\* Every variable keeps its type in every behaviour.
THEOREM AdapterTypeCorrect == AdapterSpec => []AdapterTypeOK
<1>1. AdapterInv => AdapterTypeOK
  BY DEF AdapterInv
<1>2. QED
  BY <1>1, AdapterInductive, PTL

\* After the last change was rolled back, and before anything else is written, its setting is
\* observed as it was before the change, whichever of the fourteen kinds it is of: the inverse
\* that was recorded undoes it, but for an edit of the hosts file with a line that was in its
\* target state already.
THEOREM RollbackRestores == AdapterSpec => []UndoRestores
<1>1. AdapterInv => UndoRestores
  BY DEF AdapterInv
<1>2. QED
  BY <1>1, AdapterInductive, PTL

\* What the history offers to roll back is a change that the adapter can describe, observe and
\* let through, and what a list offers can be previewed: the exceptions are those the
\* property names.
THEOREM OffersAreTaken == AdapterSpec => []OfferedIsTaken
<1>1. AdapterInv => OfferedIsTaken
  <2> SUFFICES ASSUME AdapterInv PROVE OfferedIsTaken
    OBVIOUS
  <2>1. ASSUME last # 0, CanRollBack(journal[last]), NEW c \in journal[last].inverse
        PROVE  \/ Describes(c, world) /\ Look(c, world).ok /\ LastLook(c, world).ok
               \/ kind \in {"user", "machine", "policy"} /\ c = "nine"
    <3>1. Reversible /\ last \in 1 .. Len(journal) /\ journal \in Seq(Entry) /\ kind \in Kind
      BY <2>1 DEF CanRollBack, AdapterInv, AdapterTypeOK
    <3>2. journal[last] \in Entry
      BY <3>1
    <3>3. journal[last].change \in Change
          /\ c \in InverseOf(journal[last].change, journal[last].prior)
      BY <2>1, <3>1, <3>2 DEF Entry, AdapterInv, Recorded
    <3>4. Made(journal[last].change, journal[last].prior, world)
      BY <2>1, <3>1 DEF AdapterInv, LastMade
    <3>5. QED
      BY <3>1, <3>3, <3>4, Takes
  <2>2. ASSUME NEW c \in Change, Listed(c, world)
        PROVE  \/ Describes(c, world) /\ Look(c, world).ok
               \/ kind = "rule" /\ \E i \in DOMAIN world : world[i] # world[1]
               \/ kind = "policy" /\ world = "text"
               \/ kind = "schedule" /\ world.owner = "foreign"
    BY <2>2, ListedIsPreviewed DEF AdapterInv, AdapterTypeOK
  <2>3. QED
    BY Zenon, <2>1, <2>2 DEF OfferedIsTaken
<1>2. QED
  BY <1>1, AdapterInductive, PTL

\* A write replaces the state the user was shown unless another program wrote after
\* execute compared and the adapter does not compare again; even then it spares what must
\* stay, turns only its own lines in the hosts file as it then is, and that file is in a
\* backup which prune_backups kept.
THEOREM WritesWhatWasShown == AdapterSpec => WritesOverWhatWasShown
<1> DEFINE Wrote == job.phase = "writing" /\ world' # world /\ job' = NoJob /\ ~ job.raced
           Right ==
      Wrote =>
          /\ LookAgain(job.change, world) = Seen(job.expected) \/ (job.late /\ ~ Recompares)
          /\ Spares(job.change)
          /\ kind = "hosts" =>
                /\ world' = Edit(job.change, world)
                /\ count.back \/ \E b \in backups : b.lines = world
<1>1. ASSUME AdapterInv, [AdapterNext]_adapterVars, Wrote
      PROVE  /\ LookAgain(job.change, world) = Seen(job.expected) \/ (job.late /\ ~ Recompares)
             /\ Spares(job.change)
             /\ kind = "hosts" =>
                   /\ world' = Edit(job.change, world)
                   /\ count.back \/ \E b \in backups : b.lines = world
  <2>1. /\ job # NoJob /\ kind \in Kind /\ world \in World(kind) /\ job.change \in Change
        /\ LastLook(job.change, world) = Go
        /\ kind = "hosts" => world = job.old /\ job.new = Edit(job.change, world)
    <3>1. job # NoJob
      BY <1>1 DEF NoJob
    <3>2. QED
      BY <1>1, <3>1, JobFacts DEF AdapterInv, AdapterTypeOK, Allowed, Staged
  <2>2. LookAgain(job.change, world) = Seen(job.expected) \/ (job.late /\ ~ Recompares)
    <3>1. ~ job.late => LookAgain(job.change, world) = Seen(job.expected)
      BY <1>1 DEF AdapterInv, AsShown, Under
    <3>2. Unsatisfied(job.change, job.expected)
      BY <1>1 DEF AdapterInv, AsShown, Under
    <3>3. Recompares => LookAgain(job.change, world) = Seen(job.expected)
      BY <2>1, <3>2, LooksAgain
    <3>4. QED
      BY <3>1, <3>3
  <2>3. Spares(job.change)
    BY <2>1, Spared
  <2>4. ASSUME kind = "hosts" PROVE world' = Edit(job.change, world)
    <3>1. Write
      BY <1>1 DEF AdapterNext, adapterVars, Preview, CreateRollbackPlan, Propose, Check, Refused,
         NothingToWrite, MayWrite, BackUp, BackUpFails, CompareAgain, OtherProgram, ClockSetBack,
         NoJob
    <3>2. PICK r \in Results(job.change, world) : world' = r.world
      BY <3>1 DEF Write
    <3>3. r \in Attempt(world, job.new)
      BY <2>4, <3>2, HostsKind
    <3>4. QED
      BY <1>1, <2>1, <2>4, <3>2, <3>3 DEF Attempt, Stays
  <2>5. kind = "hosts" => count.back \/ \E b \in backups : b.lines = world
    BY <1>1, <2>1 DEF AdapterInv, BackedUp, Staged
  <2>6. QED
    BY <2>2, <2>3, <2>4, <2>5
<1>2. AdapterInv /\ [AdapterNext]_adapterVars => Right
  BY <1>1
<1>3. AdapterInv /\ [AdapterNext]_adapterVars => [Right]_adapterVars
  BY <1>2
<1>4. QED
  BY <1>3, AdapterInductive, PTL DEF AdapterSpec, WritesOverWhatWasShown
=============================================================================
