---------------------------- MODULE SystemChange ----------------------------
(***************************************************************************)
(* The plan, confirmation, execution and journal of system changes         *)
(* (services, privacy, firewall, power, hosts, start-up entries, ...).     *)
(*                                                                         *)
(* A plan is previewed, confirmed in a native dialog and executed once.    *)
(* Every change gets an intent record in the journal before it is made and *)
(* an outcome after.  Changes that need privileges go, in one batch, to an *)
(* elevated helper: a process of its own that re-reads each setting, goes  *)
(* on when the program stops waiting or dies, and whose answer may be late *)
(* or lost.                                                                *)
(*                                                                         *)
(* A journal entry is named by its plan and the position of its change.    *)
(* The journal's bound of 500 entries is out of reach of these instances.  *)
(***************************************************************************)
EXTENDS Naturals, Sequences

CONSTANTS
    Setting,      \* what can be changed
    Value,        \* what a setting can hold
    Helper,       \* settings that need the elevated helper
    Irreversible, \* settings whose change cannot be undone
    Point,        \* the restore point, a change without a value of its own
    Plan,         \* plan identifiers, never used twice
    None,         \* "no plan", "no entry", "another program"
    MaxChanges,   \* bound: changes in a plan (MAX_PLAN_CHANGES)
    MaxFaults,    \* bound: failing journal writes, and adapters that fail after they wrote
    MaxCrashes,   \* bound: ends of the program
    MaxEdits      \* bound: changes by other programs

ASSUME SystemChangeAssumption ==
    /\ Helper \subseteq Setting /\ Irreversible \subseteq Helper
    /\ Point \in Setting => Point \in Helper
    /\ None \notin Plan \cup (Plan \X (1 .. MaxChanges))
    /\ MaxChanges \in Nat \ {0}
    /\ MaxFaults \in Nat /\ MaxCrashes \in Nat /\ MaxEdits \in Nat

VARIABLES
    plan,      \* the plan store; an executed plan keeps its contents here
    exec,      \* the execution that holds `running'
    mem,       \* its copy of the journal
    disk,      \* the journal file
    helper,    \* the helper process started for each plan
    sys,       \* the settings
    writer,    \* who wrote the present value of each setting
    torn,      \* changes whose adapter wrote and then failed
    faults, crashes, edits

vars == <<plan, exec, mem, disk, helper, sys, writer, torn,
          faults, crashes, edits>>
system == <<sys, writer, torn>>
bounds == <<faults, crashes, edits>>

-----------------------------------------------------------------------------

Index == 1 .. MaxChanges
Entry == Plan \X Index
Held == Value \cup {None}
Change == [setting : Setting \ {Point}, value : Value] \cup [setting : Setting \cap {Point}, value : {None}]
UpTo(S) == UNION {[1 .. n -> S] : n \in 0 .. MaxChanges}

\* undoes: the journal entry that a rollback plan takes back; fresh: created less
\* than PLAN_LIFETIME ago; asking: a native dialog for it is open; confirmed:
\* confirmed_at, "old" after PLAN_LIFETIME; declined: the last answer was no.
PlanRecord == [state : {"none", "stored", "gone"}, changes : UpTo(Change), prior : UpTo(Held),
               undoes : UpTo(Entry \cup {None}), fresh : BOOLEAN, asking : BOOLEAN,
               confirmed : {"no", "yes", "old"}, declined : BOOLEAN]
NoPlan == [state |-> "none", changes |-> <<>>, prior |-> <<>>, undoes |-> <<>>, fresh |-> TRUE,
           asking |-> FALSE, confirmed |-> "no", declined |-> FALSE]
Dropped == [NoPlan EXCEPT !.state = "gone"]

\* "refused" stands for every outcome but Applied.
JournalEntry == [status : {"none", "open", "applied", "refused"}, prior : Held,
                 by : Entry \cup {None}]
NoEntry == [status |-> "none", prior |-> None, by |-> None]

Result == {"none", "applied", "refused", "unknown"}

Execution == [pc : {"idle", "next", "apply", "outcome", "intents", "wait"},
              plan : Plan \cup {None}, at : 1 .. MaxChanges + 1,
              result : [Index -> Result]]
Idle == [pc |-> "idle", plan |-> None, at |-> 1, result |-> [i \in Index |-> "none"]]

\* "late": the program gave it up or was restarted, and it goes on.
HelperProcess == [pc : {"none", "running", "late", "done", "dead"}, todo : SUBSET Index,
                  seen : [Index -> Held], result : [Index -> Result]]
NoHelper == [pc |-> "none", todo |-> {}, seen |-> [i \in Index |-> None],
             result |-> [i \in Index |-> "none"]]

TypeOK ==
    /\ plan \in [Plan -> PlanRecord]
    /\ \A p \in Plan : /\ DOMAIN plan[p].prior = DOMAIN plan[p].changes
                       /\ DOMAIN plan[p].undoes = DOMAIN plan[p].changes
    /\ exec \in Execution
    /\ exec.pc # "idle" => exec.plan \in Plan /\ plan[exec.plan].state = "gone"
    /\ mem \in [Entry -> JournalEntry]
    /\ disk \in [Entry -> JournalEntry]
    /\ helper \in [Plan -> HelperProcess]
    /\ sys \in [Setting -> Held]
    /\ writer \in [Setting -> Entry \cup {None}]
    /\ torn \in SUBSET Entry
    /\ faults \in Nat /\ crashes \in Nat /\ edits \in Nat

Init ==
    /\ plan = [p \in Plan |-> NoPlan]
    /\ exec = Idle
    /\ mem = [e \in Entry |-> NoEntry]
    /\ disk = [e \in Entry |-> NoEntry]
    /\ helper = [p \in Plan |-> NoHelper]
    /\ sys \in [Setting -> Held] /\ \A s \in Setting : sys[s] = None <=> s = Point
    /\ writer = [s \in Setting |-> None]
    /\ torn = {}
    /\ faults = 0 /\ crashes = 0 /\ edits = 0

-----------------------------------------------------------------------------
(* Changes and the journal *)

ChangeOf(e) == plan[e[1]].changes[e[2]]

\* is_satisfied_by, and the adapters' is_satisfied: a restore point never is.
Satisfied(c) == c.setting # Point /\ sys[c.setting] = c.value

\* JournalEntry::rollback_status = Available, and the inverse exists.
CanRollBack(e) ==
    /\ disk[e].status = "applied"
    /\ disk[e].by = None
    /\ ChangeOf(e).setting \notin Irreversible \cup {Point}

SetStatus(j, e, s) == [j EXCEPT ![e].status = s]

\* Journal::record_intent
RecordIntent(j, e, prior) == [j EXCEPT ![e] = [status |-> "open", prior |-> prior, by |-> None]]

\* FileJournalStore::save when its error is ignored: the file is replaced or,
\* after a fault, keeps its old content while the copy in memory goes on.
Save(j) ==
    /\ mem' = j
    /\ \/ disk' = j /\ UNCHANGED faults
       \/ faults < MaxFaults /\ faults' = faults + 1 /\ UNCHANGED disk

-----------------------------------------------------------------------------
(* store_plan *)

\* plans.retain drops every plan whose review is older than PLAN_LIFETIME, a
\* confirmed one as well.
StorePlan(p, changes, undoes) ==
    /\ plan[p].state = "none"
    /\ \A i, j \in DOMAIN changes : i # j => changes[i] # changes[j]
    /\ plan' = [q \in Plan |->
          IF q = p
          THEN [NoPlan EXCEPT !.state = "stored", !.changes = changes, !.undoes = undoes,
                              !.prior = [i \in DOMAIN changes |-> sys[changes[i].setting]]]
          ELSE IF plan[q].state = "stored" /\ ~ plan[q].fresh
               THEN Dropped ELSE plan[q]]
    /\ UNCHANGED <<exec, mem, disk, helper, system, bounds>>

CreatePlan(p, changes) == StorePlan(p, changes, [i \in DOMAIN changes |-> None])

\* create_rollback_plan for entries of the journal on disk.
CreateRollbackPlan(p, entries) ==
    /\ \A i \in DOMAIN entries : CanRollBack(entries[i])
    /\ StorePlan(p, [i \in DOMAIN entries |->
                       [setting |-> ChangeOf(entries[i]).setting, value |-> disk[entries[i]].prior]],
                 entries)

ReviewExpires(p) ==
    /\ plan[p].state = "stored" /\ plan[p].fresh
    /\ plan' = [plan EXCEPT ![p].fresh = FALSE]
    /\ UNCHANGED <<exec, mem, disk, helper, system, bounds>>

\* The dialog was answered after the plan was created, so its minute ends later.
ConfirmationExpires(p) ==
    /\ plan[p].state = "stored" /\ ~ plan[p].fresh /\ plan[p].confirmed = "yes"
    /\ plan' = [plan EXCEPT ![p].confirmed = "old"]
    /\ UNCHANGED <<exec, mem, disk, helper, system, bounds>>

-----------------------------------------------------------------------------
(* confirm_with_strings *)

OpenDialog(p) ==
    /\ plan[p].state = "stored" /\ plan[p].fresh
    /\ plan' = [plan EXCEPT ![p].asking = TRUE]
    /\ UNCHANGED <<exec, mem, disk, helper, system, bounds>>

\* An answer; another dialog for the same plan may still be open.  One that comes
\* when the plan has left the store changes nothing.
AnswerYes(p) ==
    /\ plan[p].asking
    /\ \E more \in BOOLEAN :
          plan' = [plan EXCEPT ![p].confirmed = "yes", ![p].declined = FALSE, ![p].asking = more]
    /\ UNCHANGED <<exec, mem, disk, helper, system, bounds>>

AnswerNo(p) ==
    /\ plan[p].asking
    /\ plan' = [plan EXCEPT ![p] = [Dropped EXCEPT !.declined = TRUE]]
    /\ UNCHANGED <<exec, mem, disk, helper, system, bounds>>

-----------------------------------------------------------------------------
(* execute *)

\* running.try_lock succeeds; the plan is taken out of the store, once.
Begin(p) ==
    /\ exec.pc = "idle"
    /\ plan[p].state = "stored" /\ plan[p].confirmed = "yes"
    /\ plan' = [plan EXCEPT ![p].state = "gone", ![p].asking = FALSE]
    /\ mem' = disk
    /\ exec' = [Idle EXCEPT !.pc = "next", !.plan = p]
    /\ UNCHANGED <<disk, helper, system, bounds>>

\* The confirmation is too old, or the journal cannot be loaded: the plan is lost.
BeginFails(p) ==
    /\ exec.pc = "idle"
    /\ plan[p].state = "stored" /\ plan[p].confirmed \in {"yes", "old"}
    /\ plan' = [plan EXCEPT ![p] = Dropped]
    /\ UNCHANGED <<exec, mem, disk, helper, system, bounds>>

Here == <<exec.plan, exec.at>>
Changes == plan[exec.plan].changes
HelperIndices == {i \in DOMAIN Changes : Changes[i].setting \in Helper}

\* The loop goes on with the next change; r are the results it knows by then.
Advance(r) ==
    exec' = [exec EXCEPT !.pc = "next", !.at = @ + 1, !.result = r]

AtStandard ==
    /\ exec.pc = "next" /\ exec.at \in DOMAIN Changes
    /\ exec.at \notin HelperIndices

Refuse == [exec.result EXCEPT ![exec.at] = "refused"]

\* Already applied, changed since the preview, or unreadable: nothing is written.
StandardSkips ==
    /\ AtStandard
    /\ Advance(Refuse)
    /\ UNCHANGED <<plan, mem, disk, helper, system, bounds>>

StandardIntent ==
    /\ AtStandard
    /\ ~ Satisfied(ChangeOf(Here))
    /\ sys[ChangeOf(Here).setting] = plan[exec.plan].prior[exec.at]
    /\ mem' = RecordIntent(mem, Here, sys[ChangeOf(Here).setting])
    /\ \/ /\ disk' = mem'
          /\ exec' = [exec EXCEPT !.pc = "apply"]
          /\ UNCHANGED faults
       \* The intent is not persisted, so nothing is changed; the record stays in
       \* the copy that later saves write.
       \/ /\ faults < MaxFaults /\ faults' = faults + 1
          /\ Advance(Refuse)
          /\ UNCHANGED disk
    /\ UNCHANGED <<plan, helper, system, crashes, edits>>

\* The system holds value v of entry e's change.
Write(e) ==
    /\ sys' = [sys EXCEPT ![ChangeOf(e).setting] = ChangeOf(e).value]
    /\ writer' = [writer EXCEPT ![ChangeOf(e).setting] = e]
    /\ UNCHANGED torn

\* The adapter of e's change writes and then fails: powercfg is killed at its deadline,
\* or of the firewall rules of one name some are set.  The value is any other one.
WriteThenFail(e) ==
    LET s == ChangeOf(e).setting
    IN  /\ s # Point
        /\ faults < MaxFaults /\ faults' = faults + 1
        /\ \E v \in Value \ {sys[s]} : sys' = [sys EXCEPT ![s] = v]
        /\ writer' = [writer EXCEPT ![s] = e]
        /\ torn' = torn \cup {e}

\* Every error of the adapter is recorded alike, whatever it has done to the setting.
StandardApplies ==
    /\ exec.pc = "apply"
    /\ \/ /\ Write(Here) /\ UNCHANGED faults
          /\ mem' = SetStatus(mem, Here, "applied")
          /\ exec' = [exec EXCEPT !.pc = "outcome", !.result[exec.at] = "applied"]
       \/ /\ UNCHANGED <<system, faults>> \/ WriteThenFail(Here)
          /\ mem' = SetStatus(mem, Here, "refused")
          /\ exec' = [exec EXCEPT !.pc = "outcome", !.result[exec.at] = "refused"]
    /\ UNCHANGED <<plan, disk, helper, crashes, edits>>

StandardOutcome ==
    /\ exec.pc = "outcome"
    /\ Save(mem)
    /\ Advance(exec.result)
    /\ UNCHANGED <<plan, helper, system, crashes, edits>>

-----------------------------------------------------------------------------
(* execute_helper_batch *)

FirstHelper == exec.at \in HelperIndices /\ \A i \in HelperIndices : exec.at <= i

\* helper_done: the batch ran at its first change.
SkipHelper ==
    /\ exec.pc = "next" /\ exec.at \in HelperIndices /\ ~ FirstHelper
    /\ Advance(exec.result)
    /\ UNCHANGED <<plan, mem, disk, helper, system, bounds>>

AtBatch ==
    \/ exec.pc = "next" /\ FirstHelper
    \/ exec.pc = "intents"

Unrecorded == {i \in HelperIndices : mem[<<exec.plan, i>>].status = "none"}

\* The results and the journal when no change of the batch was made.
BatchRefused(j) ==
    [e \in Entry |-> IF e[1] = exec.plan /\ e[2] \in HelperIndices /\ j[e].status = "open"
                     THEN [j[e] EXCEPT !.status = "refused"] ELSE j[e]]
BatchResult(r) == [i \in Index |-> IF i \in HelperIndices THEN r[i] ELSE exec.result[i]]
AllOf(r) == [i \in Index |-> r]

\* Mutant: the batch runs with the intents that could be persisted.
HelperIntent_Lenient(i) ==
    /\ AtBatch /\ i \in Unrecorded /\ \A j \in Unrecorded : i <= j
    /\ mem' = RecordIntent(mem, <<exec.plan, i>>, plan[exec.plan].prior[i])
    /\ \/ disk' = mem' /\ UNCHANGED faults
       \/ faults < MaxFaults /\ faults' = faults + 1 /\ UNCHANGED disk
    /\ exec' = [exec EXCEPT !.pc = "intents"]
    /\ UNCHANGED <<plan, helper, system, crashes, edits>>

\* Intents for the whole batch; one that cannot be persisted stays open in memory,
\* the ones before it become NotAttempted and nothing is sent.
HelperIntent(i) ==
    /\ AtBatch /\ i \in Unrecorded /\ \A j \in Unrecorded : i <= j
    /\ LET recorded == RecordIntent(mem, <<exec.plan, i>>, plan[exec.plan].prior[i])
       IN  \/ /\ mem' = recorded /\ disk' = recorded
              /\ exec' = [exec EXCEPT !.pc = "intents"]
              /\ UNCHANGED faults
           \/ /\ faults < MaxFaults /\ faults' = faults + 1
              /\ mem' = [BatchRefused(mem) EXCEPT ![<<exec.plan, i>>] =
                                                     recorded[<<exec.plan, i>>]]
              /\ disk' \in {disk, mem'}
              /\ Advance(BatchResult(AllOf("refused")))
    /\ UNCHANGED <<plan, helper, system, crashes, edits>>

\* UAC denied, or the request never reached the helper.
NotSent ==
    /\ exec.pc = "intents" /\ Unrecorded = {}
    /\ Save(BatchRefused(mem))
    /\ Advance(BatchResult(AllOf("refused")))
    /\ UNCHANGED <<plan, helper, system, crashes, edits>>

Sent ==
    /\ exec.pc = "intents" /\ Unrecorded = {}
    /\ helper' = [helper EXCEPT ![exec.plan] =
                     [NoHelper EXCEPT !.pc = "running", !.todo = HelperIndices]]
    /\ exec' = [exec EXCEPT !.pc = "wait"]
    /\ UNCHANGED <<plan, mem, disk, system, bounds>>

\* One result per item, in order: prior state and outcome are recorded.
Answered ==
    /\ exec.pc = "wait" /\ helper[exec.plan].pc = "done"
    /\ LET h == helper[exec.plan]
       IN  /\ Save([e \in Entry |-> IF e[1] = exec.plan /\ e[2] \in HelperIndices
                       THEN [mem[e] EXCEPT !.status = h.result[e[2]], !.prior = h.seen[e[2]]]
                       ELSE mem[e]])
           /\ Advance(BatchResult(h.result))
    /\ UNCHANGED <<plan, helper, system, crashes, edits>>

GivenUp == [p \in Plan |-> IF helper[p].pc = "running" THEN [helper[p] EXCEPT !.pc = "late"]
                           ELSE helper[p]]

\* Mutant: the answer is waited for without a limit.
ResponseLost_Waits ==
    /\ exec.pc = "wait" /\ helper[exec.plan].pc = "dead"
    /\ Save(mem)
    /\ Advance(BatchResult(AllOf("unknown")))
    /\ helper' = GivenUp
    /\ UNCHANGED <<plan, system, crashes, edits>>

\* Mutant: without an answer the batch counts as not made.
ResponseLost_Refuses ==
    /\ exec.pc = "wait"
    /\ Save(BatchRefused(mem))
    /\ Advance(BatchResult(AllOf("unknown")))
    /\ helper' = GivenUp
    /\ UNCHANGED <<plan, system, crashes, edits>>

\* SOCKET_TIMEOUT, a broken connection, an answer that is not for this request:
\* Indeterminate, the intents stay open.
ResponseLost ==
    /\ exec.pc = "wait"
    /\ Save(mem)
    /\ Advance(BatchResult(AllOf("unknown")))
    /\ helper' = GivenUp
    /\ UNCHANGED <<plan, system, crashes, edits>>

\* Mutant: an original is marked whatever became of its rollback.
MarkRolledBack_Always(j) ==
    [e \in Entry |->
        IF \E i \in DOMAIN Changes : plan[exec.plan].undoes[i] = e
        THEN [j[e] EXCEPT !.by = <<exec.plan, CHOOSE i \in DOMAIN Changes :
                                      plan[exec.plan].undoes[i] = e>>]
        ELSE j[e]]

\* mark_rolled_back for the rollbacks that were applied.
MarkRolledBack(j) ==
    [e \in Entry |->
        IF \E i \in DOMAIN Changes :
              plan[exec.plan].undoes[i] = e /\ exec.result[i] = "applied"
        THEN [j[e] EXCEPT !.by = <<exec.plan, CHOOSE i \in DOMAIN Changes :
                 plan[exec.plan].undoes[i] = e /\ exec.result[i] = "applied">>]
        ELSE j[e]]

Finish ==
    /\ exec.pc = "next" /\ exec.at \notin DOMAIN Changes
    /\ \/ disk' = MarkRolledBack(mem) /\ UNCHANGED faults
       \/ faults < MaxFaults /\ faults' = faults + 1 /\ UNCHANGED disk
    /\ mem' = [e \in Entry |-> NoEntry]
    /\ exec' = Idle
    /\ UNCHANGED <<plan, helper, system, crashes, edits>>

-----------------------------------------------------------------------------
(* The helper process: apply_batch *)

\* Mutant: only the change right before counts.
RestorePointMissing_Previous(p, i) ==
    \E j \in 1 .. (i - 1) : /\ j + 1 = i
                            /\ plan[p].changes[j].setting = Point
                            /\ helper[p].result[j] # "applied"

RestorePointMissing(p, i) ==
    \E j \in 1 .. (i - 1) : /\ plan[p].changes[j].setting = Point
                            /\ helper[p].result[j] # "applied"

\* apply_item on the first change not yet done.  Nothing depends on what was seen
\* of a change that was not made.
HelperItem(p, i) ==
    /\ helper[p].pc \in {"running", "late"} /\ i \in helper[p].todo
    /\ \A j \in helper[p].todo : i <= j
    /\ LET c == plan[p].changes[i]
           done(r) == helper' = [helper EXCEPT ![p].todo = @ \ {i}, ![p].result[i] = r,
                                               ![p].seen[i] = sys[c.setting]]
       IN  \/ /\ ~ Satisfied(c) /\ sys[c.setting] = plan[p].prior[i]
              /\ ~ (c.setting \in Irreversible /\ RestorePointMissing(p, i))
              /\ \/ Write(<<p, i>>) /\ done("applied") /\ UNCHANGED faults
                 \/ WriteThenFail(<<p, i>>) /\ done("refused")
           \/ done("refused") /\ UNCHANGED <<system, faults>>
    /\ UNCHANGED <<plan, exec, mem, disk, crashes, edits>>

HelperAnswers(p) ==
    /\ helper[p].pc = "running" /\ helper[p].todo = {}
    /\ helper' = [helper EXCEPT ![p].pc = "done"]
    /\ UNCHANGED <<plan, exec, mem, disk, system, bounds>>

HelperDies(p) ==
    /\ helper[p].pc = "running"
    /\ crashes < MaxCrashes /\ crashes' = crashes + 1
    /\ helper' = [helper EXCEPT ![p].pc = "dead"]
    /\ UNCHANGED <<plan, exec, mem, disk, system, faults, edits>>

-----------------------------------------------------------------------------
(* reconcile_interrupted, crashes and other programs *)

\* What an open entry becomes, from the setting as it is now.
Reconciled(e) ==
    LET c == ChangeOf(e)
    IN  IF disk[e].status # "open" THEN disk[e]
        ELSE IF sys[c.setting] = disk[e].prior THEN [disk[e] EXCEPT !.status = "refused"]
        ELSE IF Satisfied(c) THEN [disk[e] EXCEPT !.status = "applied"]
        ELSE disk[e]

OpenEntries == {e \in Entry : disk[e].status = "open"}

\* Only when no execution holds `running'; settings that cannot be read leave
\* their entries open.
Reconcile ==
    /\ exec.pc = "idle"
    /\ \E seen \in SUBSET {ChangeOf(e).setting : e \in OpenEntries} :
          disk' = [e \in Entry |-> IF disk[e].status = "open" /\ ChangeOf(e).setting \notin seen
                                   THEN disk[e] ELSE Reconciled(e)]
    /\ UNCHANGED <<plan, exec, mem, helper, system, bounds>>

\* The program ends and is started again; the plan store was in memory, a helper
\* that has its request goes on.
Restart ==
    /\ crashes < MaxCrashes /\ crashes' = crashes + 1
    /\ plan' = [p \in Plan |-> IF plan[p].state = "stored" THEN Dropped ELSE plan[p]]
    /\ exec' = Idle
    /\ mem' = [e \in Entry |-> NoEntry]
    /\ helper' = GivenUp
    /\ UNCHANGED <<disk, system, faults, edits>>

OtherProgram(s, v) ==
    /\ edits < MaxEdits /\ edits' = edits + 1
    /\ s # Point /\ v # sys[s]
    /\ sys' = [sys EXCEPT ![s] = v]
    /\ writer' = [writer EXCEPT ![s] = None]
    /\ UNCHANGED torn
    /\ UNCHANGED <<plan, exec, mem, disk, helper, faults, crashes>>

-----------------------------------------------------------------------------

Planning(p) ==
    \/ \E c \in UpTo(Change) \ {<<>>} : CreatePlan(p, c)
    \/ \E es \in UpTo({e \in Entry : CanRollBack(e)}) \ {<<>>} : CreateRollbackPlan(p, es)
    \/ ReviewExpires(p) \/ ConfirmationExpires(p)
    \/ OpenDialog(p) \/ AnswerYes(p) \/ AnswerNo(p)
    \/ Begin(p) \/ BeginFails(p)

Executing ==
    \/ StandardSkips \/ StandardIntent \/ StandardApplies \/ StandardOutcome
    \/ SkipHelper
    \/ \E i \in Index : HelperIntent(i)
    \/ NotSent \/ Sent \/ Answered \/ ResponseLost
    \/ Finish

Helping(p) ==
    \/ \E i \in Index : HelperItem(p, i)
    \/ HelperAnswers(p)
    \/ HelperDies(p)

Next ==
    \/ \E p \in Plan : Planning(p) \/ Helping(p)
    \/ Executing
    \/ Reconcile
    \/ Restart
    \/ \E s \in Setting, v \in Value : OtherProgram(s, v)

Spec == Init /\ [][Next]_vars

\* The thread that executes a plan runs on; nothing is assumed of the helper.
FairSpec == Spec /\ WF_vars(Executing)

-----------------------------------------------------------------------------
(* Properties *)

\* The order of a change: a plan begins only while the user's last answer to it is yes,
\* however many dialogs for it were open; no setting is written by the program or its
\* helper without a record of that change in the journal file (record_intent, "Fail
\* closed"); and records only move on: what is settled is not overwritten by an older
\* copy of the journal, nor settled by a reconciliation while it is in flight.
ConsentIntentEffect ==
    [][/\ exec.pc = "idle" /\ exec'.pc # "idle" =>
              plan[exec'.plan].confirmed = "yes" /\ ~ plan[exec'.plan].declined
       /\ \A s \in Setting :
              writer'[s] # writer[s] /\ writer'[s] # None => disk[writer'[s]].status # "none"
       /\ \A e \in Entry :
              /\ disk[e].status # disk'[e].status => disk[e].status \in {"none", "open"}
              /\ disk[e].by # None => disk'[e].by # None]_vars

\* An entry that the journal calls rolled back was taken back by an entry that was
\* applied, and that carried its recorded prior value.
RolledBackMeansRestored ==
    \A e \in Entry : disk[e].by # None =>
        /\ disk[disk[e].by].status = "applied"
        /\ ChangeOf(disk[e].by) = [setting |-> ChangeOf(e).setting, value |-> disk[e].prior]

\* A value that the program wrote and nobody changed since can be undone from the
\* journal or is shown as interrupted; it is never recorded as not made.  Three things
\* are excepted.  A helper that was given up writes after its entry was reconciled as
\* failed.  An adapter that wrote before it failed (torn) is recorded as failed, like one
\* that did nothing, and has no undo.  And a restore point whose answer was lost is
\* recorded as not made: nobody can observe it.
EffectsStayAccounted ==
    \A s \in Setting \ {Point} : writer[s] # None =>
        \/ disk[writer[s]].status \in {"open", "applied"}
        \/ helper[writer[s][1]].pc = "late"
        \/ writer[s] \in torn

\* security/system_changes.rs, apply_batch: "nothing permanent happens without the
\* recovery point the user asked for".
GuardedByRestorePoint ==
    \A p \in Plan, i, j \in Index :
        /\ i < j /\ j \in DOMAIN plan[p].changes
        /\ plan[p].changes[i].setting = Point
        /\ plan[p].changes[j].setting \in Irreversible
        /\ helper[p].result[j] = "applied"
        => helper[p].result[i] = "applied"

\* An execution ends, whatever the helper does.
ExecutionEnds == exec.pc # "idle" ~> exec.pc = "idle"

=============================================================================
