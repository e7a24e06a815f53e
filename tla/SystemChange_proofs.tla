------------------------ MODULE SystemChange_proofs ------------------------
(***************************************************************************)
(* Theorems about SystemChange for every set of settings, plans and values  *)
(* and every bound: plans are used with consent and recorded before they    *)
(* are carried out, records only move on, rollbacks are what the journal    *)
(* says, effects stay accounted for, and nothing permanent goes without the *)
(* restore point that was asked for.                                       *)
(***************************************************************************)
EXTENDS SystemChange, TLAPS

\* The positions of a plan's helper changes.
Batch(p) == {i \in DOMAIN plan[p].changes : plan[p].changes[i].setting \in Helper}

\* A plan that is asked about is in the store, and one that was declined is not
\* confirmed.  A rollback plan takes back an applied entry to its prior value.
PlansInOrder ==
    \A p \in Plan :
        /\ plan[p].asking => plan[p].state = "stored"
        /\ plan[p].confirmed # "no" => ~ plan[p].declined
        /\ \A i \in DOMAIN plan[p].changes :
               /\ plan[p].changes[i].setting # Point => plan[p].prior[i] \in Value
               /\ plan[p].undoes[i] # None =>
                      /\ disk[plan[p].undoes[i]].status = "applied"
                      /\ plan[p].changes[i] =
                             [setting |-> ChangeOf(plan[p].undoes[i]).setting,
                              value |-> disk[plan[p].undoes[i]].prior]

\* Every setting but the restore point holds a value.
Valued == \A s \in Setting \ {Point} : sys[s] \in Value

\* An entry of a journal belongs to a change of an executed plan; an open one has
\* the prior value that was shown, and the mark of a rollback is true.
SoundEntry(j, e) ==
    /\ j[e].status = "none" => j[e].by = None
    /\ j[e].status # "none" =>
           /\ plan[e[1]].state = "gone" /\ e[2] \in DOMAIN plan[e[1]].changes
           /\ ChangeOf(e).setting # Point => j[e].prior \in Value
    /\ j[e].status = "open" => j[e].prior = plan[e[1]].prior[e[2]] /\ j[e].by = None
    /\ j[e].by # None =>
           /\ j[e].status = "applied" /\ j[j[e].by].status = "applied"
           /\ ChangeOf(j[e].by) = [setting |-> ChangeOf(e).setting, value |-> j[e].prior]
Sound(j) == \A e \in Entry : SoundEntry(j, e)

\* The copy of the journal that is worked on is never behind the file.
Ahead ==
    exec.pc # "idle" =>
        \A e \in Entry :
            /\ disk[e].status # "none" => mem[e].status # "none"
            /\ disk[e].status \in {"applied", "refused"} => mem[e] = disk[e]

\* What the execution has reached: nothing is recorded of the changes to come, the
\* change and the batch in hand are recorded on disk before anything is done.
Reached ==
    LET p == exec.plan
        here == <<exec.plan, exec.at>>
        first == \A i \in Batch(p) : exec.at <= i
    IN  exec.pc # "idle" =>
        /\ \A i \in DOMAIN plan[p].changes \ Batch(p) :
               i > exec.at \/ (i = exec.at /\ exec.pc = "next") => mem[<<p, i>>].status = "none"
        /\ first /\ exec.pc \in {"next", "apply", "outcome", "intents"} => helper[p].pc = "none"
        /\ first /\ exec.pc \in {"next", "apply", "outcome"} =>
               \A i \in Batch(p) : mem[<<p, i>>].status = "none"
        /\ exec.pc \in {"apply", "outcome"} =>
               exec.at \in DOMAIN plan[p].changes \ Batch(p)
        /\ exec.pc = "apply" =>
               /\ mem[here].status = "open" /\ disk[here].status = "open"
               /\ plan[p].prior[exec.at] # plan[p].changes[exec.at].value
               /\ \A s \in Setting : writer[s] # here
        /\ exec.pc \in {"intents", "wait"} =>
               /\ exec.at \in Batch(p) /\ first
               /\ \A i \in Batch(p) : mem[<<p, i>>] = disk[<<p, i>>]
        /\ exec.pc = "intents" => \A i \in Batch(p) : mem[<<p, i>>].status \in {"none", "open"}
        /\ exec.pc = "wait" =>
               helper[p].pc # "none" /\ \A i \in Batch(p) : mem[<<p, i>>].status = "open"
        /\ \A i \in Index : exec.result[i] = "applied" => mem[<<p, i>>].status = "applied"

\* A helper works off, in order, changes that all have a record on disk.
HelperInOrder ==
    \A p \in Plan :
        /\ helper[p].pc = "none" => helper[p] = NoHelper
        /\ helper[p].pc = "running" => exec.pc = "wait" /\ exec.plan = p
        /\ helper[p].pc = "done" => helper[p].todo = {}
        /\ helper[p].pc # "none" =>
               /\ plan[p].state = "gone" /\ helper[p].todo \subseteq Batch(p)
               /\ \A i \in Batch(p) :
                      /\ disk[<<p, i>>].status # "none"
                      /\ i \notin helper[p].todo =>
                             /\ helper[p].result[i] \in {"applied", "refused"}
                             /\ plan[p].changes[i].setting # Point => helper[p].seen[i] \in Value
        /\ \A i \in Index :
               helper[p].result[i] # "none" => i \in Batch(p) /\ i \notin helper[p].todo

\* A value written by the program and still there has a record, in the copy too,
\* that may yet be undone, unless a helper that was given up wrote it, or the adapter
\* that wrote it failed.
EffectRecorded(s) ==
    LET e == writer[s]
    IN  e # None =>
        /\ ChangeOf(e).setting = s /\ disk[e].status # "none"
        /\ s \in Helper =>
               /\ helper[e[1]].result[e[2]] # "none"
               /\ e \notin torn => helper[e[1]].result[e[2]] = "applied"
        /\ s # Point /\ e \notin torn =>
               /\ sys[s] = ChangeOf(e).value /\ plan[e[1]].prior[e[2]] # ChangeOf(e).value
               /\ \/ helper[e[1]].pc = "late"
                  \/ /\ disk[e].status \in {"open", "applied"}
                     /\ exec.pc # "idle" => mem[e].status \in {"open", "applied"}
EffectsRecorded == \A s \in Setting : EffectRecorded(s)

IInv ==
    /\ TypeOK /\ PlansInOrder /\ Valued /\ Sound(disk) /\ Sound(mem) /\ Ahead
    /\ Reached /\ HelperInOrder /\ EffectsRecorded /\ GuardedByRestorePoint

-----------------------------------------------------------------------------
(* Lemmas about the data *)

LEMMA UpToFacts ==
    ASSUME NEW S, NEW x \in UpTo(S)
    PROVE  DOMAIN x \subseteq Index /\ \A i \in DOMAIN x : x[i] \in S
<1> PICK n \in 0 .. MaxChanges : x \in [1 .. n -> S]
    BY DEF UpTo
<1>1. DOMAIN x = 1 .. n
    OBVIOUS
<1>2. 1 .. n \subseteq Index
    BY SystemChangeAssumption DEF Index
<1>3. QED BY <1>1, <1>2

\* A sequence of the length of another one is as bounded as that.
LEMMA UpToSame ==
    ASSUME NEW S, NEW T, NEW x \in UpTo(S), NEW y, y = [i \in DOMAIN x |-> y[i]],
           \A i \in DOMAIN x : y[i] \in T
    PROVE  y \in UpTo(T) /\ DOMAIN y = DOMAIN x
<1> PICK n \in 0 .. MaxChanges : x \in [1 .. n -> S]
    BY DEF UpTo
<1>1. DOMAIN x = 1 .. n
    OBVIOUS
<1>2. y \in [1 .. n -> T]
    BY <1>1
<1>3. QED BY <1>1, <1>2 DEF UpTo

LEMMA ChangeFacts ==
    ASSUME NEW c \in Change
    PROVE  /\ c = [setting |-> c.setting, value |-> c.value]
           /\ c.setting \in Setting /\ c.value \in Held
           /\ c.setting # Point => c.value \in Value
           /\ c.setting \notin Helper => c.setting # Point
BY SystemChangeAssumption DEF Change, Held

LEMMA EntryFacts ==
    ASSUME NEW p \in Plan, NEW i \in Index
    PROVE  /\ <<p, i>> \in Entry /\ <<p, i>>[1] = p /\ <<p, i>>[2] = i
           /\ <<p, i>> # None
BY SystemChangeAssumption DEF Entry, Index

LEMMA EntryParts ==
    ASSUME NEW e \in Entry
    PROVE  e[1] \in Plan /\ e[2] \in Index /\ e = <<e[1], e[2]>> /\ e # None
<1> PICK p \in Plan, i \in Index : e = <<p, i>>
    BY DEF Entry
<1> QED BY EntryFacts

\* What TypeOK says of one plan, at hand for the provers.
LEMMA PlanFacts ==
    ASSUME TypeOK, NEW p \in Plan
    PROVE  /\ plan[p] \in PlanRecord
           /\ DOMAIN plan[p].changes \subseteq Index
           /\ DOMAIN plan[p].prior = DOMAIN plan[p].changes
           /\ DOMAIN plan[p].undoes = DOMAIN plan[p].changes
           /\ \A i \in DOMAIN plan[p].changes :
                  /\ plan[p].changes[i] \in Change
                  /\ plan[p].prior[i] \in Held
                  /\ plan[p].undoes[i] \in Entry \cup {None}
           /\ Batch(p) \subseteq DOMAIN plan[p].changes /\ Batch(p) \subseteq Index
<1>1. plan[p] \in PlanRecord
    BY DEF TypeOK
<1>2. /\ plan[p].changes \in UpTo(Change) /\ plan[p].prior \in UpTo(Held)
      /\ plan[p].undoes \in UpTo(Entry \cup {None})
    BY <1>1 DEF PlanRecord
<1>3. /\ DOMAIN plan[p].prior = DOMAIN plan[p].changes
      /\ DOMAIN plan[p].undoes = DOMAIN plan[p].changes
    BY DEF TypeOK
<1>4. QED BY <1>1, <1>2, <1>3, UpToFacts DEF Batch

LEMMA EmptyUpTo == ASSUME NEW S PROVE <<>> \in UpTo(S) /\ DOMAIN (<<>>) = {}
<1>1. <<>> \in [1 .. 0 -> S]
    OBVIOUS
<1>2. 0 \in 0 .. MaxChanges
    BY SystemChangeAssumption
<1>3. QED BY <1>1, <1>2 DEF UpTo

LEMMA EmptyPlans ==
    /\ NoPlan \in PlanRecord /\ Dropped \in PlanRecord
    /\ DOMAIN NoPlan.changes = {} /\ DOMAIN NoPlan.prior = {} /\ DOMAIN NoPlan.undoes = {}
    /\ DOMAIN Dropped.changes = {} /\ DOMAIN Dropped.prior = {} /\ DOMAIN Dropped.undoes = {}
    /\ ~ NoPlan.asking /\ ~ NoPlan.declined /\ NoPlan.confirmed = "no" /\ NoPlan.state = "none"
    /\ ~ Dropped.asking /\ ~ Dropped.declined /\ Dropped.confirmed = "no" /\ Dropped.state = "gone"
BY EmptyUpTo DEF NoPlan, Dropped, PlanRecord

-----------------------------------------------------------------------------
(* Type correctness *)

LEMMA EmptyRecords ==
    /\ NoEntry \in JournalEntry /\ NoEntry.status = "none" /\ NoEntry.by = None
    /\ NoHelper \in HelperProcess /\ NoHelper.pc = "none" /\ NoHelper.todo = {}
    /\ \A i \in Index : NoHelper.result[i] = "none"
    /\ Idle \in Execution /\ Idle.pc = "idle"
    /\ \A i \in Index : Idle.result[i] = "none"
BY SystemChangeAssumption DEF NoEntry, JournalEntry, Held, NoHelper, HelperProcess, Result,
   Idle, Execution

\* What the steps make of journal entries, helpers and executions.
LEMMA RecordedFacts ==
    ASSUME NEW j \in [Entry -> JournalEntry], NEW e \in Entry, NEW v \in Held
    PROVE  /\ RecordIntent(j, e, v) \in [Entry -> JournalEntry]
           /\ RecordIntent(j, e, v)[e].status = "open"
           /\ RecordIntent(j, e, v)[e].prior = v
           /\ RecordIntent(j, e, v)[e].by = None
           /\ \A d \in Entry : d # e => RecordIntent(j, e, v)[d] = j[d]
BY DEF RecordIntent, JournalEntry

LEMMA StatusFacts ==
    ASSUME NEW j \in [Entry -> JournalEntry], NEW e \in Entry,
           NEW s \in {"none", "open", "applied", "refused"}
    PROVE  /\ SetStatus(j, e, s) \in [Entry -> JournalEntry]
           /\ SetStatus(j, e, s)[e].status = s
           /\ SetStatus(j, e, s)[e].prior = j[e].prior
           /\ SetStatus(j, e, s)[e].by = j[e].by
           /\ \A d \in Entry : d # e => SetStatus(j, e, s)[d] = j[d]
BY DEF SetStatus, JournalEntry

\* The journal when nothing of the batch was made.
LEMMA RefusedFacts ==
    ASSUME NEW j \in [Entry -> JournalEntry]
    PROVE  /\ BatchRefused(j) \in [Entry -> JournalEntry]
           /\ \A e \in Entry :
                  /\ BatchRefused(j)[e].prior = j[e].prior
                  /\ BatchRefused(j)[e].by = j[e].by
                  /\ IF e[1] = exec.plan /\ e[2] \in HelperIndices /\ j[e].status = "open"
                     THEN BatchRefused(j)[e].status = "refused"
                     ELSE BatchRefused(j)[e] = j[e]
BY DEF BatchRefused, JournalEntry

LEMMA AdvanceFacts ==
    ASSUME exec \in Execution, exec.at \in Index, NEW r \in [Index -> Result], Advance(r)
    PROVE  /\ exec' \in Execution /\ exec'.pc = "next" /\ exec'.plan = exec.plan
           /\ exec'.at = exec.at + 1 /\ exec'.result = r
<1>1. exec.at + 1 \in 1 .. MaxChanges + 1
    BY SystemChangeAssumption DEF Index
<1>2. exec' = [exec EXCEPT !.pc = "next", !.at = exec.at + 1, !.result = r]
    BY DEF Advance
<1>3. QED BY <1>1, <1>2 DEF Execution

LEMMA ResultFacts ==
    ASSUME exec \in Execution
    PROVE  /\ \A r \in [Index -> Result] : BatchResult(r) \in [Index -> Result]
           /\ \A s \in Result : BatchResult(AllOf(s)) \in [Index -> Result]
           /\ Refuse \in [Index -> Result]
BY DEF BatchResult, AllOf, Refuse, Execution, Result

LEMMA GivenUpFacts ==
    ASSUME helper \in [Plan -> HelperProcess]
    PROVE  /\ GivenUp \in [Plan -> HelperProcess]
           /\ \A p \in Plan :
                  /\ GivenUp[p].pc = IF helper[p].pc = "running" THEN "late" ELSE helper[p].pc
                  /\ GivenUp[p].todo = helper[p].todo
                  /\ GivenUp[p].seen = helper[p].seen
                  /\ GivenUp[p].result = helper[p].result
                  /\ helper[p].pc # "running" => GivenUp[p] = helper[p]
BY DEF GivenUp, HelperProcess

LEMMA MarkedFacts ==
    ASSUME TypeOK, exec.pc # "idle", NEW j \in [Entry -> JournalEntry]
    PROVE  /\ MarkRolledBack(j) \in [Entry -> JournalEntry]
           /\ \A e \in Entry :
                /\ MarkRolledBack(j)[e].status = j[e].status
                /\ MarkRolledBack(j)[e].prior = j[e].prior
                /\ \/ MarkRolledBack(j)[e] = j[e]
                   \/ \E i \in DOMAIN Changes :
                        /\ plan[exec.plan].undoes[i] = e /\ exec.result[i] = "applied"
                        /\ MarkRolledBack(j)[e].by = <<exec.plan, i>>
<1>1. exec.plan \in Plan
    BY DEF TypeOK
<1>2. ASSUME NEW e \in Entry
      PROVE  \/ MarkRolledBack(j)[e] = j[e]
             \/ \E i \in DOMAIN Changes :
                  /\ plan[exec.plan].undoes[i] = e /\ exec.result[i] = "applied"
                  /\ MarkRolledBack(j)[e] = [j[e] EXCEPT !.by = <<exec.plan, i>>]
    <2> DEFINE Fits(i) == plan[exec.plan].undoes[i] = e /\ exec.result[i] = "applied"
    <2>1. CASE \E i \in DOMAIN Changes : Fits(i)
        <3> DEFINE c == CHOOSE i \in DOMAIN Changes : Fits(i)
        <3>1. c \in DOMAIN Changes /\ Fits(c)
            BY <2>1
        <3>2. MarkRolledBack(j)[e] = [j[e] EXCEPT !.by = <<exec.plan, c>>]
            BY <2>1 DEF MarkRolledBack
        <3>3. QED BY <3>1, <3>2
    <2>2. CASE ~ \E i \in DOMAIN Changes : Fits(i)
        BY <2>2 DEF MarkRolledBack
    <2>3. QED BY <2>1, <2>2
<1>3. \A i \in DOMAIN Changes : <<exec.plan, i>> \in Entry
    BY <1>1, PlanFacts, EntryFacts DEF Changes
<1>4. ASSUME NEW e \in Entry PROVE MarkRolledBack(j)[e] \in JournalEntry
    <2>1. \A d \in Entry : [j[e] EXCEPT !.by = d] \in JournalEntry
        BY DEF JournalEntry
    <2>2. CASE MarkRolledBack(j)[e] = j[e]
        BY <2>2
    <2>3. CASE \E i \in DOMAIN Changes :
                  MarkRolledBack(j)[e] = [j[e] EXCEPT !.by = <<exec.plan, i>>]
        <3> PICK i \in DOMAIN Changes : MarkRolledBack(j)[e] = [j[e] EXCEPT !.by = <<exec.plan, i>>]
            BY <2>3
        <3>1. <<exec.plan, i>> \in Entry
            BY <1>3
        <3> HIDE DEF Changes
        <3>2. QED BY <2>1, <3>1
    <2>4. QED BY <1>2, <2>2, <2>3
<1>5. MarkRolledBack(j) = [e \in Entry |-> MarkRolledBack(j)[e]]
    BY DEF MarkRolledBack
<1>6. MarkRolledBack(j) \in [Entry -> JournalEntry]
    BY <1>4, <1>5
<1>7. QED BY <1>2, <1>6 DEF JournalEntry

LEMMA TypeInit == Init => TypeOK
<1> SUFFICES ASSUME Init PROVE TypeOK
    OBVIOUS
<1>1. plan \in [Plan -> PlanRecord] /\ \A p \in Plan : plan[p] = NoPlan
    BY EmptyPlans DEF Init
<1>2. /\ mem \in [Entry -> JournalEntry] /\ disk \in [Entry -> JournalEntry]
      /\ helper \in [Plan -> HelperProcess] /\ exec \in Execution /\ exec.pc = "idle"
    BY EmptyRecords DEF Init
<1>3. QED BY <1>1, <1>2, EmptyPlans DEF Init, TypeOK, Held

\* A new plan.
NewPlan(changes, undoes) ==
    [NoPlan EXCEPT !.state = "stored", !.changes = changes, !.undoes = undoes,
                   !.prior = [i \in DOMAIN changes |-> sys[changes[i].setting]]]

\* Storing a plan gives one identifier a plan and drops old plans of others.
LEMMA StoreFacts ==
    ASSUME NEW p \in Plan, NEW c, NEW u, StorePlan(p, c, u)
    PROVE  /\ plan[p].state = "none"
           /\ plan' = [q \in Plan |-> IF q = p THEN NewPlan(c, u)
                         ELSE IF plan[q].state = "stored" /\ ~ plan[q].fresh
                              THEN Dropped ELSE plan[q]]
           /\ UNCHANGED <<exec, mem, disk, helper, system, bounds>>
BY DEF StorePlan, NewPlan

\* The changes and originals of a rollback plan.
LEMMA RollbackFacts ==
    ASSUME IInv, NEW p \in Plan, NEW es \in UpTo({e \in Entry : CanRollBack(e)}),
           NEW c, c = [i \in DOMAIN es |->
                          [setting |-> ChangeOf(es[i]).setting, value |-> disk[es[i]].prior]]
    PROVE  /\ c \in UpTo(Change) /\ es \in UpTo(Entry \cup {None})
           /\ DOMAIN c = DOMAIN es
           /\ \A i \in DOMAIN es :
                  /\ es[i] \in Entry /\ disk[es[i]].status = "applied"
                  /\ c[i] = [setting |-> ChangeOf(es[i]).setting, value |-> disk[es[i]].prior]
<1>1. \A i \in DOMAIN es : es[i] \in Entry /\ CanRollBack(es[i])
    BY UpToFacts
<1>2. es \in UpTo(Entry \cup {None})
    <2> PICK n \in 0 .. MaxChanges : es \in [1 .. n -> {e \in Entry : CanRollBack(e)}]
        BY DEF UpTo
    <2>1. es \in [1 .. n -> Entry \cup {None}]
        OBVIOUS
    <2>2. QED BY <2>1 DEF UpTo
<1>3. ASSUME NEW i \in DOMAIN es PROVE c[i] \in Change
    <2>1. /\ es[i] \in Entry /\ disk[es[i]].status = "applied"
          /\ ChangeOf(es[i]).setting # Point
        BY <1>1, <1>3 DEF CanRollBack
    <2>2. /\ disk[es[i]].prior \in Value /\ es[i][1] \in Plan
          /\ es[i][2] \in DOMAIN plan[es[i][1]].changes
        BY <2>1, EntryParts DEF IInv, Sound, SoundEntry
    <2>3. ChangeOf(es[i]) \in Change
        BY <2>2, PlanFacts DEF ChangeOf, IInv
    <2>4. QED BY <2>1, <2>2, <2>3, ChangeFacts DEF Change
<1>4. c \in UpTo(Change) /\ DOMAIN c = DOMAIN es
    BY <1>3, UpToSame
<1>5. QED BY <1>1, <1>2, <1>4 DEF CanRollBack

\* While a plan is executed its place is one of its changes.
LEMMA AtFacts ==
    ASSUME TypeOK, exec.pc # "idle", exec.at \in DOMAIN Changes
    PROVE  /\ exec.plan \in Plan /\ exec.at \in Index /\ Here \in Entry
           /\ Here[1] = exec.plan /\ Here[2] = exec.at
           /\ ChangeOf(Here) = Changes[exec.at] /\ ChangeOf(Here) \in Change
           /\ ChangeOf(Here).setting \in Setting
           /\ sys[ChangeOf(Here).setting] \in Held
           /\ plan[exec.plan].prior[exec.at] \in Held
<1>1. exec.plan \in Plan
    BY DEF TypeOK
<1>2. exec.at \in Index /\ Changes[exec.at] \in Change /\ plan[exec.plan].prior[exec.at] \in Held
    BY <1>1, PlanFacts DEF Changes
<1>3. QED BY <1>1, <1>2, EntryFacts, ChangeFacts DEF Here, ChangeOf, Changes, TypeOK

LEMMA BatchFacts ==
    ASSUME TypeOK, exec.pc # "idle"
    PROVE  HelperIndices = Batch(exec.plan) /\ HelperIndices \subseteq DOMAIN Changes
BY DEF HelperIndices, Batch, Changes

-----------------------------------------------------------------------------
(* What keeps the invariant *)

\* A plan that is asked for its changes does not lose them, and what it takes back
\* stays applied.
LEMMA OrderStays ==
    ASSUME IInv, UNCHANGED plan,
           \A e \in Entry : disk[e].status = "applied" =>
               disk'[e].status = "applied" /\ disk'[e].prior = disk[e].prior
    PROVE  PlansInOrder'
<1> SUFFICES ASSUME NEW p \in Plan
             PROVE  /\ plan[p].asking => plan[p].state = "stored"
                    /\ plan[p].confirmed # "no" => ~ plan[p].declined
                    /\ \A i \in DOMAIN plan[p].changes :
                           /\ plan[p].changes[i].setting # Point => plan[p].prior[i] \in Value
                           /\ plan[p].undoes[i] # None =>
                                  /\ disk'[plan[p].undoes[i]].status = "applied"
                                  /\ plan[p].changes[i] =
                                         [setting |-> ChangeOf(plan[p].undoes[i]).setting,
                                          value |-> disk'[plan[p].undoes[i]].prior]
    BY DEF PlansInOrder, ChangeOf
<1>1. PlansInOrder /\ TypeOK
    BY DEF IInv
<1>2. \A i \in DOMAIN plan[p].changes : plan[p].undoes[i] \in Entry \cup {None}
    BY <1>1, PlanFacts
<1>3. QED BY <1>1, <1>2 DEF PlansInOrder

LEMMA SoundStays ==
    ASSUME UNCHANGED plan
    PROVE  (Sound(mem') => Sound(mem)') /\ (Sound(disk') => Sound(disk)')
BY DEF Sound, SoundEntry, ChangeOf

LEMMA GuardStays ==
    ASSUME GuardedByRestorePoint, UNCHANGED plan,
           \A p \in Plan : helper'[p].result = helper[p].result
    PROVE  GuardedByRestorePoint'
BY DEF GuardedByRestorePoint

\* What is written stays accounted for.
LEMMA EffectsStay ==
    ASSUME EffectsRecorded, TypeOK, UNCHANGED <<plan, torn>>,
           \A s \in Setting : \/ writer'[s] = writer[s] /\ sys'[s] = sys[s]
                              \/ writer'[s] = None,
           \A p \in Plan : /\ helper'[p].result = helper[p].result
                           /\ helper[p].pc = "late" => helper'[p].pc = "late",
           \A s \in Setting : writer[s] # None =>
               /\ disk'[writer[s]].status # "none"
               /\ \/ s = Point \/ writer[s] \in torn
                  \/ helper'[writer[s][1]].pc = "late"
                  \/ /\ disk'[writer[s]].status \in {"open", "applied"}
                     /\ exec'.pc # "idle" => mem'[writer[s]].status \in {"open", "applied"}
    PROVE  EffectsRecorded'
<1> SUFFICES ASSUME NEW s \in Setting, writer'[s] # None
             PROVE  EffectRecorded(s)'
    BY DEF EffectsRecorded, EffectRecorded
<1> DEFINE e == writer[s]
<1>1. writer'[s] = e /\ sys'[s] = sys[s] /\ e # None
    OBVIOUS
<1>2. e \in Entry
    BY <1>1 DEF TypeOK
<1>3. e[1] \in Plan
    BY <1>2, EntryParts
<1>4. EffectRecorded(s)
    BY DEF EffectsRecorded
<1>5. ChangeOf(e)' = ChangeOf(e)
    BY <1>1 DEF ChangeOf
<1> DEFINE new == writer'[s]
<1> SUFFICES /\ ChangeOf(e).setting = s /\ disk'[e].status # "none"
             /\ s \in Helper =>
                  /\ helper'[e[1]].result[e[2]] # "none"
                  /\ e \notin torn => helper'[e[1]].result[e[2]] = "applied"
             /\ s # Point /\ e \notin torn =>
                  /\ sys[s] = ChangeOf(e).value /\ plan[e[1]].prior[e[2]] # ChangeOf(e).value
                  /\ \/ helper'[e[1]].pc = "late"
                     \/ /\ disk'[e].status \in {"open", "applied"}
                        /\ exec'.pc # "idle" => mem'[e].status \in {"open", "applied"}
    BY <1>1, <1>5 DEF EffectRecorded, ChangeOf
<1>6. QED BY <1>1, <1>3, <1>4 DEF EffectRecorded

\* Helpers that are given up, die or answer keep what they did.
LEMMA HelpersStay ==
    ASSUME HelperInOrder, TypeOK, UNCHANGED plan,
           \A e \in Entry : disk[e].status # "none" => disk'[e].status # "none",
           \A p \in Plan :
               /\ helper'[p].todo = helper[p].todo /\ helper'[p].seen = helper[p].seen
               /\ helper'[p].result = helper[p].result
               /\ \/ helper'[p] = helper[p]
                  \/ helper[p].pc = "running" /\ helper'[p].pc \in {"late", "dead"}
                  \/ helper[p].pc = "running" /\ helper'[p].pc = "done" /\ helper[p].todo = {}
               /\ helper'[p].pc = "running" => exec'.pc = "wait" /\ exec'.plan = p
    PROVE  HelperInOrder'
<1> SUFFICES ASSUME NEW p \in Plan
             PROVE
        /\ helper'[p].pc = "none" => helper'[p] = NoHelper
        /\ helper'[p].pc = "running" => exec'.pc = "wait" /\ exec'.plan = p
        /\ helper'[p].pc = "done" => helper'[p].todo = {}
        /\ helper'[p].pc # "none" =>
               /\ plan[p].state = "gone" /\ helper'[p].todo \subseteq Batch(p)
               /\ \A i \in Batch(p) :
                      /\ disk'[<<p, i>>].status # "none"
                      /\ i \notin helper'[p].todo =>
                             /\ helper'[p].result[i] \in {"applied", "refused"}
                             /\ plan[p].changes[i].setting # Point => helper'[p].seen[i] \in Value
        /\ \A i \in Index :
               helper'[p].result[i] # "none" => i \in Batch(p) /\ i \notin helper'[p].todo
    BY DEF HelperInOrder, Batch
<1>1. \A i \in Batch(p) : <<p, i>> \in Entry
    BY PlanFacts, EntryFacts
<1>2. QED BY <1>1 DEF HelperInOrder

\* The place of an execution that does not move.
LEMMA ReachedStays ==
    ASSUME Reached, TypeOK, UNCHANGED <<plan, exec, mem, disk>>,
           \A p \in Plan : helper'[p].pc = "none" <=> helper[p].pc = "none",
           \A s \in Setting : \/ writer'[s] = writer[s] \/ writer'[s] = None
                              \/ \E p \in Plan, i \in Index : i \in Batch(p) /\ writer'[s] = <<p, i>>
    PROVE  Reached'
<1> SUFFICES ASSUME exec.pc # "idle" PROVE Reached'
    BY DEF Reached
<1>1. exec.plan \in Plan
    BY DEF TypeOK
<1>2. \A p : Batch(p)' = Batch(p)
    BY DEF Batch
<1>3. ASSUME exec.pc = "apply", NEW s \in Setting PROVE writer'[s] # <<exec.plan, exec.at>>
    <2>1. writer[s] # <<exec.plan, exec.at>> /\ exec.at \in DOMAIN Changes \ Batch(exec.plan)
        BY <1>3 DEF Reached, Changes
    <2>2. exec.at \in Index /\ <<exec.plan, exec.at>> \in Entry /\ <<exec.plan, exec.at>> # None
        BY <2>1, <1>1, PlanFacts, EntryFacts DEF Changes
    <2>3. QED BY <2>1, <2>2
<1>4. QED BY <1>1, <1>2, <1>3 DEF Reached

\* The execution goes on with the next change.
LEMMA AdvanceReached ==
    ASSUME IInv, exec.pc # "idle", exec.at \in DOMAIN Changes, UNCHANGED plan,
           NEW r \in [Index -> Result], Advance(r),
           \A i \in DOMAIN Changes \ Batch(exec.plan) :
               i > exec.at => mem'[<<exec.plan, i>>].status = "none",
           (\A i \in Batch(exec.plan) : exec.at < i) =>
               /\ helper'[exec.plan].pc = "none"
               /\ \A i \in Batch(exec.plan) : mem'[<<exec.plan, i>>].status = "none",
           \A i \in Index : r[i] = "applied" => mem'[<<exec.plan, i>>].status = "applied"
    PROVE  Reached'
<1> DEFINE p == exec.plan
           first == \A i \in Batch(p) : exec.at < i
<1>1. TypeOK /\ exec \in Execution /\ exec.at \in Index
    BY AtFacts DEF IInv, TypeOK
<1>2. /\ exec'.pc = "next" /\ exec'.plan = p /\ exec'.at = exec.at + 1 /\ exec'.result = r
    BY <1>1, AdvanceFacts
<1>3. \A q : Batch(q)' = Batch(q)
    BY DEF Batch
<1>4. Batch(p) \subseteq Index /\ DOMAIN plan[p].changes \subseteq Index
    BY <1>1, PlanFacts DEF TypeOK
<1>5. exec.at \in Nat /\ Index \subseteq Nat
    BY <1>1 DEF Index
<1>6. \A a, b \in Nat : (a + 1 <= b => a < b) /\ (b > a + 1 \/ b = a + 1 => b > a)
    OBVIOUS
<1>7. \A i \in Index :
          (exec'.at <= i => exec.at < i) /\ (i > exec'.at \/ i = exec'.at => i > exec.at)
    BY <1>2, <1>5, <1>6
<1>8. (\A i \in Batch(p) : exec'.at <= i) => first
    BY <1>4, <1>7
<1>9. \A i \in DOMAIN plan[p].changes \ Batch(p) :
          i > exec'.at \/ i = exec'.at => mem'[<<p, i>>].status = "none"
    BY <1>4, <1>7 DEF Changes
<1>10. QED BY <1>2, <1>3, <1>8, <1>9 DEF Reached
-----------------------------------------------------------------------------
(* Planning keeps the invariant *)

\* A step on the plan store that leaves the executed plans alone.
LEMMA PlanningStep ==
    ASSUME IInv, TypeOK', PlansInOrder', UNCHANGED <<exec, mem, disk, helper, system>>,
           \A p \in Plan : plan[p].state = "gone" => plan'[p] = plan[p]
    PROVE  IInv'
<1>1. TypeOK
    BY DEF IInv
<1>2. \A p \in Plan : plan[p].state = "gone" => Batch(p)' = Batch(p)
    BY DEF Batch
<1>3. ASSUME NEW e \in Entry, plan[e[1]].state = "gone"
      PROVE  ChangeOf(e)' = ChangeOf(e)
    BY <1>3, EntryParts DEF ChangeOf
<1>4. Sound(mem)' /\ Sound(disk)'
    <2>1. ASSUME NEW j \in {mem, disk}, NEW e \in Entry
          PROVE  /\ j[e].status = "none" => j[e].by = None
                 /\ j[e].status # "none" =>
                        /\ plan'[e[1]].state = "gone" /\ e[2] \in DOMAIN plan'[e[1]].changes
                        /\ ChangeOf(e)'.setting # Point => j[e].prior \in Value
                 /\ j[e].status = "open" => j[e].prior = plan'[e[1]].prior[e[2]] /\ j[e].by = None
                 /\ j[e].by # None =>
                        /\ j[e].status = "applied" /\ j[j[e].by].status = "applied"
                        /\ ChangeOf(j[e].by)' = [setting |-> ChangeOf(e)'.setting,
                                                 value |-> j[e].prior]
        <3>1. Sound(j) /\ j \in [Entry -> JournalEntry]
            BY <1>1 DEF IInv, TypeOK
        <3>2. SoundEntry(j, e) /\ j[e].by \in Entry \cup {None}
            BY <3>1 DEF Sound, JournalEntry
        <3>3. j[e].status # "none" => plan[e[1]].state = "gone" /\ plan'[e[1]] = plan[e[1]]
            BY <3>2, EntryParts DEF SoundEntry
        <3>4. ASSUME j[e].by # None PROVE ChangeOf(j[e].by)' = ChangeOf(j[e].by)
            <4>1. j[e].by \in Entry /\ j[j[e].by].status = "applied"
                BY <3>2, <3>4 DEF SoundEntry
            <4>2. SoundEntry(j, j[e].by)
                BY <3>1, <4>1 DEF Sound
            <4>3. QED BY <1>3, <4>1, <4>2 DEF SoundEntry
        <3>5. QED BY <1>3, <3>2, <3>3, <3>4 DEF SoundEntry
    <2>2. mem' = mem /\ disk' = disk
        OBVIOUS
    <2>3. QED BY <2>1, <2>2 DEF Sound, SoundEntry
<1>5. Ahead' /\ Valued'
    BY DEF IInv, Ahead, Valued, system
<1>6. Reached'
    <2> SUFFICES ASSUME exec.pc # "idle" PROVE Reached'
        BY DEF Reached
    <2>1. exec.plan \in Plan /\ plan[exec.plan].state = "gone"
        BY <1>1 DEF TypeOK
    <2>2. plan'[exec.plan] = plan[exec.plan] /\ Batch(exec.plan)' = Batch(exec.plan)
        BY <1>2, <2>1
    <2>3. Reached
        BY DEF IInv
    <2>4. QED BY <2>2, <2>3 DEF Reached, system
<1>7. HelperInOrder'
    <2> SUFFICES ASSUME NEW p \in Plan
                 PROVE
            /\ helper[p].pc = "none" => helper[p] = NoHelper
            /\ helper[p].pc = "running" => exec.pc = "wait" /\ exec.plan = p
            /\ helper[p].pc = "done" => helper[p].todo = {}
            /\ helper[p].pc # "none" =>
                   /\ plan'[p].state = "gone" /\ helper[p].todo \subseteq Batch(p)'
                   /\ \A i \in Batch(p)' :
                          /\ disk[<<p, i>>].status # "none"
                          /\ i \notin helper[p].todo =>
                                 /\ helper[p].result[i] \in {"applied", "refused"}
                                 /\ plan'[p].changes[i].setting # Point =>
                                        helper[p].seen[i] \in Value
            /\ \A i \in Index :
                   helper[p].result[i] # "none" => i \in Batch(p)' /\ i \notin helper[p].todo
        BY DEF HelperInOrder
    <2>1. HelperInOrder
        BY DEF IInv
    <2>2. CASE helper[p].pc = "none"
        BY <2>1, <2>2, EmptyRecords DEF HelperInOrder
    <2>3. CASE helper[p].pc # "none"
        <3>1. plan'[p] = plan[p] /\ Batch(p)' = Batch(p)
            BY <1>2, <2>1, <2>3 DEF HelperInOrder
        <3>2. QED BY <2>1, <2>3, <3>1 DEF HelperInOrder
    <2>4. QED BY <2>2, <2>3
<1>8. EffectsRecorded'
    <2> SUFFICES ASSUME NEW s \in Setting, writer[s] # None
                 PROVE  EffectRecorded(s)'
        BY DEF EffectsRecorded, EffectRecorded, system
    <2>1. EffectRecorded(s) /\ writer[s] \in Entry
        BY <1>1 DEF IInv, EffectsRecorded, TypeOK
    <2>2. disk[writer[s]].status # "none"
        BY <2>1 DEF EffectRecorded
    <2>3. SoundEntry(disk, writer[s])
        BY <2>1 DEF IInv, Sound
    <2>4. plan[writer[s][1]].state = "gone" /\ writer[s][1] \in Plan
        BY <2>1, <2>2, <2>3, EntryParts DEF SoundEntry
    <2>5. plan'[writer[s][1]] = plan[writer[s][1]]
        BY <2>4
    <2>6. QED BY <2>1, <2>5 DEF EffectRecorded, ChangeOf, system
<1>9. GuardedByRestorePoint'
    <2> SUFFICES ASSUME NEW p \in Plan, NEW i \in Index, NEW j \in Index,
                        i < j, j \in DOMAIN plan'[p].changes,
                        plan'[p].changes[i].setting = Point,
                        plan'[p].changes[j].setting \in Irreversible,
                        helper[p].result[j] = "applied"
                 PROVE  helper[p].result[i] = "applied"
        BY DEF GuardedByRestorePoint
    <2>1. HelperInOrder /\ GuardedByRestorePoint
        BY DEF IInv
    <2>2. helper[p].pc # "none"
        BY <2>1, EmptyRecords DEF HelperInOrder
    <2>3. plan'[p] = plan[p]
        BY <2>1, <2>2 DEF HelperInOrder
    <2>4. QED BY <2>1, <2>3 DEF GuardedByRestorePoint
<1>10. QED BY <1>4, <1>5, <1>6, <1>7, <1>8, <1>9 DEF IInv

\* A plan that a step puts in the store, keeps there or drops.
GoodPlan(r) ==
    /\ r \in PlanRecord
    /\ DOMAIN r.prior = DOMAIN r.changes /\ DOMAIN r.undoes = DOMAIN r.changes
    /\ r.asking => r.state = "stored"
    /\ r.confirmed # "no" => ~ r.declined
    /\ \A i \in DOMAIN r.changes :
           /\ r.changes[i].setting # Point => r.prior[i] \in Value
           /\ r.undoes[i] # None =>
                  /\ r.undoes[i] \in Entry /\ disk[r.undoes[i]].status = "applied"
                  /\ r.changes[i] = [setting |-> ChangeOf(r.undoes[i]).setting,
                                     value |-> disk[r.undoes[i]].prior]

LEMMA PlansAreGood == ASSUME IInv, NEW p \in Plan PROVE GoodPlan(plan[p])
<1>1. TypeOK /\ PlansInOrder
    BY DEF IInv
<1>2. \A i \in DOMAIN plan[p].changes : plan[p].undoes[i] \in Entry \cup {None}
    BY <1>1, PlanFacts
<1>3. plan[p] \in PlanRecord /\ DOMAIN plan[p].prior = DOMAIN plan[p].changes
      /\ DOMAIN plan[p].undoes = DOMAIN plan[p].changes
    BY <1>1, PlanFacts
<1>4. QED BY <1>1, <1>2, <1>3 DEF GoodPlan, PlansInOrder

LEMMA EmptyIsGood == GoodPlan(Dropped) /\ GoodPlan([Dropped EXCEPT !.declined = TRUE])
<1>1. GoodPlan(Dropped)
    BY EmptyPlans DEF GoodPlan
<1> DEFINE r == [Dropped EXCEPT !.declined = TRUE]
<1>2. /\ r \in PlanRecord /\ r.changes = Dropped.changes /\ r.prior = Dropped.prior
      /\ r.undoes = Dropped.undoes /\ r.asking = Dropped.asking /\ r.confirmed = Dropped.confirmed
    BY EmptyPlans DEF PlanRecord
<1> HIDE DEF r
<1>3. GoodPlan(r)
    BY <1>2, EmptyPlans DEF GoodPlan
<1>4. QED BY <1>1, <1>3 DEF r

\* A step that leaves good plans, and the executed ones as they were.
LEMMA GoodPlans ==
    ASSUME IInv, UNCHANGED <<exec, mem, disk, helper, system, bounds>>,
           plan' = [p \in Plan |-> plan'[p]],
           \A p \in Plan : /\ GoodPlan(plan'[p])
                           /\ plan[p].state = "gone" => plan'[p] = plan[p]
    PROVE  IInv'
<1>1. TypeOK
    BY DEF IInv
<1>2. TypeOK'
    BY <1>1 DEF TypeOK, GoodPlan, system, bounds
<1>3. PlansInOrder'
    <2> DEFINE Later(e) == plan'[e[1]].changes[e[2]]
    <2> SUFFICES ASSUME NEW p \in Plan
                 PROVE  /\ plan'[p].asking => plan'[p].state = "stored"
                        /\ plan'[p].confirmed # "no" => ~ plan'[p].declined
                        /\ \A i \in DOMAIN plan'[p].changes :
                               /\ plan'[p].changes[i].setting # Point => plan'[p].prior[i] \in Value
                               /\ plan'[p].undoes[i] # None =>
                                      /\ disk[plan'[p].undoes[i]].status = "applied"
                                      /\ plan'[p].changes[i] =
                                           [setting |-> Later(plan'[p].undoes[i]).setting,
                                            value |-> disk[plan'[p].undoes[i]].prior]
        BY DEF PlansInOrder, ChangeOf
    <2>1. ASSUME NEW e \in Entry, disk[e].status = "applied"
          PROVE  Later(e) = ChangeOf(e)
        <3>1. SoundEntry(disk, e)
            BY DEF IInv, Sound
        <3>2. QED BY <2>1, <3>1, EntryParts DEF SoundEntry, ChangeOf
    <2>2. GoodPlan(plan'[p])
        OBVIOUS
    <2>3. QED BY <2>1, <2>2 DEF GoodPlan
<1>4. QED BY <1>2, <1>3, PlanningStep

\* One plan that is not executed yet changes.
LEMMA OnePlan ==
    ASSUME IInv, UNCHANGED <<exec, mem, disk, helper, system, bounds>>,
           NEW p \in Plan, plan[p].state # "gone", NEW r, GoodPlan(r),
           plan' = [plan EXCEPT ![p] = r]
    PROVE  IInv'
<1>1. plan \in [Plan -> PlanRecord]
    BY DEF IInv, TypeOK
<1>2. \A q \in Plan : GoodPlan(plan'[q]) /\ (plan[q].state = "gone" => plan'[q] = plan[q])
    BY <1>1, PlansAreGood
<1>3. QED BY <1>1, <1>2, GoodPlans

\* A change of a rollback plan, and the entry it takes back.
TakesBack(c, e) ==
    /\ disk[e].status = "applied"
    /\ c = [setting |-> ChangeOf(e).setting, value |-> disk[e].prior]

LEMMA NewPlanIsGood ==
    ASSUME TypeOK, Valued, NEW c \in UpTo(Change), NEW u \in UpTo(Entry \cup {None}),
           DOMAIN u = DOMAIN c, \A i \in DOMAIN c : u[i] # None => TakesBack(c[i], u[i])
    PROVE  GoodPlan(NewPlan(c, u))
<1> DEFINE y == [i \in DOMAIN c |-> sys[c[i].setting]]
           r == NewPlan(c, u)
<1>1. \A i \in DOMAIN c : c[i] \in Change /\ u[i] \in Entry \cup {None}
    BY UpToFacts
<1>2. \A i \in DOMAIN c : c[i].setting \in Setting /\ y[i] \in Held
    BY <1>1, ChangeFacts DEF TypeOK
<1>3. y \in UpTo(Held) /\ DOMAIN y = DOMAIN c
    BY <1>2, UpToSame
<1>4. \A i \in DOMAIN c : c[i].setting # Point => y[i] \in Value
    BY <1>2 DEF Valued
<1> HIDE DEF y
<1>5. r = [state |-> "stored", changes |-> c, prior |-> y, undoes |-> u,
           fresh |-> TRUE, asking |-> FALSE, confirmed |-> "no", declined |-> FALSE]
    <2>1. r = [NoPlan EXCEPT !.state = "stored", !.changes = c, !.undoes = u, !.prior = y]
        BY DEF NewPlan, y
    <2>2. QED BY <2>1 DEF NoPlan
<1> HIDE DEF r
<1>6. r \in PlanRecord
    BY <1>3, <1>5 DEF PlanRecord
<1>7. /\ r.changes = c /\ r.prior = y /\ r.undoes = u
      /\ ~ r.asking /\ r.confirmed = "no"
    BY <1>5
<1>8. GoodPlan(r)
    BY <1>1, <1>3, <1>4, <1>6, <1>7 DEF GoodPlan, TakesBack
<1>9. QED BY <1>8 DEF r

LEMMA CreatePlanStep ==
    ASSUME IInv, NEW p \in Plan, NEW c \in UpTo(Change), NEW u \in UpTo(Entry \cup {None}),
           DOMAIN u = DOMAIN c, StorePlan(p, c, u),
           \A i \in DOMAIN c : u[i] # None => TakesBack(c[i], u[i])
    PROVE  IInv'
<1>1. GoodPlan(NewPlan(c, u))
    BY NewPlanIsGood DEF IInv
<1>2. /\ plan[p].state = "none"
      /\ plan' = [q \in Plan |-> IF q = p THEN NewPlan(c, u)
                    ELSE IF plan[q].state = "stored" /\ ~ plan[q].fresh
                         THEN Dropped ELSE plan[q]]
      /\ UNCHANGED <<exec, mem, disk, helper, system, bounds>>
    BY StoreFacts
<1>3. \A q \in Plan : GoodPlan(plan'[q]) /\ (plan[q].state = "gone" => plan'[q] = plan[q])
    BY <1>1, <1>2, PlansAreGood, EmptyIsGood
<1>4. plan' = [q \in Plan |-> plan'[q]]
    BY <1>2
<1>5. QED BY <1>2, <1>3, <1>4, GoodPlans

LEMMA StorePlanSteps ==
    ASSUME IInv, NEW p \in Plan,
           \/ \E c \in UpTo(Change) \ {<<>>} : CreatePlan(p, c)
           \/ \E es \in UpTo({e \in Entry : CanRollBack(e)}) \ {<<>>} : CreateRollbackPlan(p, es)
    PROVE  IInv'
<1>1. ASSUME NEW c \in UpTo(Change), CreatePlan(p, c) PROVE IInv'
    <2> DEFINE u == [i \in DOMAIN c |-> None]
    <2>1. u \in UpTo(Entry \cup {None}) /\ DOMAIN u = DOMAIN c
        BY UpToSame
    <2>2. StorePlan(p, c, u) /\ \A i \in DOMAIN c : u[i] = None
        BY <1>1 DEF CreatePlan
    <2> HIDE DEF u
    <2>3. QED BY <2>1, <2>2, CreatePlanStep
<1>2. ASSUME NEW es \in UpTo({e \in Entry : CanRollBack(e)}), CreateRollbackPlan(p, es)
      PROVE  IInv'
    <2> DEFINE c == [i \in DOMAIN es |->
                       [setting |-> ChangeOf(es[i]).setting, value |-> disk[es[i]].prior]]
    <2>1. /\ c \in UpTo(Change) /\ es \in UpTo(Entry \cup {None}) /\ DOMAIN c = DOMAIN es
          /\ \A i \in DOMAIN es : TakesBack(c[i], es[i])
        BY RollbackFacts DEF TakesBack
    <2>2. StorePlan(p, c, es)
        BY <1>2 DEF CreateRollbackPlan
    <2> HIDE DEF c
    <2>3. QED BY <2>1, <2>2, CreatePlanStep
<1>3. QED BY <1>1, <1>2

LEMMA ReviewSteps ==
    ASSUME IInv, NEW p \in Plan,
           \/ ReviewExpires(p) \/ ConfirmationExpires(p)
           \/ OpenDialog(p) \/ AnswerYes(p) \/ AnswerNo(p) \/ BeginFails(p)
    PROVE  IInv'
<1>1. plan[p] \in PlanRecord /\ GoodPlan(plan[p]) /\ plan \in [Plan -> PlanRecord]
    BY PlansAreGood DEF IInv, TypeOK
<1>2. plan[p].asking => plan[p].state = "stored"
    BY <1>1 DEF GoodPlan
<1>3. CASE ReviewExpires(p)
    <2> DEFINE r == [plan[p] EXCEPT !.fresh = FALSE]
    <2>1. GoodPlan(r)
        BY <1>1 DEF GoodPlan, PlanRecord
    <2>2. plan' = [plan EXCEPT ![p] = r]
        BY <1>3 DEF ReviewExpires
    <2>3. QED BY <1>3, <2>1, <2>2, OnePlan DEF ReviewExpires
<1>4. CASE ConfirmationExpires(p)
    <2> DEFINE r == [plan[p] EXCEPT !.confirmed = "old"]
    <2>1. plan[p].confirmed = "yes"
        BY <1>4 DEF ConfirmationExpires
    <2>2. GoodPlan(r)
        BY <1>1, <2>1 DEF GoodPlan, PlanRecord
    <2>3. plan' = [plan EXCEPT ![p] = r]
        BY <1>4 DEF ConfirmationExpires
    <2>4. QED BY <1>4, <2>2, <2>3, OnePlan DEF ConfirmationExpires
<1>5. CASE OpenDialog(p)
    <2> DEFINE r == [plan[p] EXCEPT !.asking = TRUE]
    <2>1. GoodPlan(r)
        BY <1>1, <1>5 DEF GoodPlan, PlanRecord, OpenDialog
    <2>2. plan' = [plan EXCEPT ![p] = r]
        BY <1>5 DEF OpenDialog
    <2>3. QED BY <1>5, <2>1, <2>2, OnePlan DEF OpenDialog
<1>6. CASE AnswerYes(p)
    <2>1. PICK more \in BOOLEAN :
              plan' = [plan EXCEPT ![p].confirmed = "yes", ![p].declined = FALSE, ![p].asking = more]
        BY <1>6 DEF AnswerYes
    <2> DEFINE r == [plan[p] EXCEPT !.confirmed = "yes", !.declined = FALSE, !.asking = more]
    <2>2. GoodPlan(r)
        BY <1>1, <1>2, <1>6 DEF GoodPlan, PlanRecord, AnswerYes
    <2>3. plan' = [plan EXCEPT ![p] = r]
        BY <1>1, <2>1
    <2>4. QED BY <1>2, <1>6, <2>2, <2>3, OnePlan DEF AnswerYes
<1>7. CASE AnswerNo(p)
    BY <1>2, <1>7, EmptyIsGood, OnePlan DEF AnswerNo
<1>8. CASE BeginFails(p)
    BY <1>8, EmptyIsGood, OnePlan DEF BeginFails
<1>9. QED BY <1>3, <1>4, <1>5, <1>6, <1>7, <1>8

\* Nothing is recorded of a plan that is not executed yet, and no helper works on it.
LEMMA BeforeExecution ==
    ASSUME IInv, NEW p \in Plan, plan[p].state # "gone"
    PROVE  /\ \A e \in Entry : e[1] = p => disk[e].status = "none"
           /\ helper[p].pc = "none" /\ \A i \in Index : helper[p].result[i] = "none"
<1>1. ASSUME NEW e \in Entry, e[1] = p PROVE disk[e].status = "none"
    <2>1. SoundEntry(disk, e)
        BY DEF IInv, Sound
    <2>2. disk[e].status # "none" => plan[e[1]].state = "gone"
        BY <2>1 DEF SoundEntry
    <2>3. QED BY <1>1, <2>2
<1>2. helper[p].pc = "none" /\ helper[p] = NoHelper
    BY DEF IInv, HelperInOrder
<1>3. QED BY <1>1, <1>2, EmptyRecords

LEMMA BeginStep ==
    ASSUME IInv, NEW p \in Plan, Begin(p)
    PROVE  IInv'
<1>1. /\ TypeOK /\ PlansInOrder /\ Sound(disk) /\ HelperInOrder /\ EffectsRecorded
      /\ GuardedByRestorePoint /\ Valued
    BY DEF IInv
<1>2. /\ exec.pc = "idle" /\ plan[p].state = "stored" /\ mem' = disk
      /\ UNCHANGED <<disk, helper, sys, writer, torn, faults, crashes, edits>>
      /\ exec' = [Idle EXCEPT !.pc = "next", !.plan = p]
    BY DEF Begin, system, bounds
<1>3. /\ exec' \in Execution /\ exec'.pc = "next" /\ exec'.plan = p /\ exec'.at = 1
      /\ \A i \in Index : exec'.result[i] = "none"
    BY <1>2, EmptyRecords, SystemChangeAssumption DEF Idle, Execution, Result, Index
<1>4. /\ plan' \in [Plan -> PlanRecord]
      /\ \A q \in Plan :
             /\ plan'[q].changes = plan[q].changes /\ plan'[q].prior = plan[q].prior
             /\ plan'[q].undoes = plan[q].undoes /\ plan'[q].confirmed = plan[q].confirmed
             /\ plan'[q].declined = plan[q].declined
             /\ IF q = p THEN plan'[q].state = "gone" /\ ~ plan'[q].asking
                ELSE plan'[q] = plan[q]
    <2> DEFINE r == [plan[p] EXCEPT !.state = "gone", !.asking = FALSE]
    <2>1. plan[p] \in PlanRecord /\ plan \in [Plan -> PlanRecord]
        BY <1>1 DEF TypeOK
    <2>2. /\ r \in PlanRecord /\ r.state = "gone" /\ ~ r.asking /\ r.changes = plan[p].changes
          /\ r.prior = plan[p].prior /\ r.undoes = plan[p].undoes
          /\ r.confirmed = plan[p].confirmed /\ r.declined = plan[p].declined
        BY <2>1 DEF PlanRecord
    <2>3. plan' = [plan EXCEPT ![p] = r]
        BY <2>1 DEF Begin
    <2> HIDE DEF r
    <2>4. QED BY <2>1, <2>2, <2>3
<1>5. TypeOK'
    BY <1>1, <1>2, <1>3, <1>4 DEF TypeOK
<1>6. \A q \in Plan : Batch(q)' = Batch(q)
    BY <1>4 DEF Batch
<1>7. \A e \in Entry : ChangeOf(e)' = ChangeOf(e)
    BY <1>4, EntryParts DEF ChangeOf
<1>8. PlansInOrder'
    <2>1. ASSUME NEW q \in Plan
          PROVE  /\ plan'[q].asking => plan'[q].state = "stored"
                 /\ plan'[q].confirmed # "no" => ~ plan'[q].declined
        BY <1>1, <1>4 DEF PlansInOrder
    <2>2. ASSUME NEW q \in Plan, NEW i \in DOMAIN plan'[q].changes
          PROVE  /\ plan'[q].changes[i].setting # Point => plan'[q].prior[i] \in Value
                 /\ plan'[q].undoes[i] # None =>
                        /\ disk'[plan'[q].undoes[i]].status = "applied"
                        /\ plan'[q].changes[i] =
                               [setting |-> ChangeOf(plan[q].undoes[i])'.setting,
                                value |-> disk'[plan'[q].undoes[i]].prior]
        <3>1. /\ plan'[q].changes = plan[q].changes /\ plan'[q].prior = plan[q].prior
              /\ plan'[q].undoes = plan[q].undoes /\ i \in DOMAIN plan[q].changes
            BY <1>4
        <3>2. plan[q].changes[i].setting # Point => plan[q].prior[i] \in Value
            BY <1>1, <3>1 DEF PlansInOrder
        <3>3. CASE plan[q].undoes[i] # None
            <4>1. PICK e \in Entry : e = plan[q].undoes[i]
                BY <1>1, <3>1, <3>3, PlanFacts
            <4>2. /\ disk[e].status = "applied"
                  /\ plan[q].changes[i] = [setting |-> ChangeOf(e).setting, value |-> disk[e].prior]
                BY <1>1, <3>1, <3>3, <4>1 DEF PlansInOrder
            <4>3. ChangeOf(e)' = ChangeOf(e)
                BY <1>7
            <4>4. plan'[q].undoes[i] = e
                BY <3>1, <4>1
            <4>5. ChangeOf(plan[q].undoes[i])' = ChangeOf(e)
                BY <4>3, <4>4 DEF ChangeOf
            <4>6. disk'[e] = disk[e]
                BY <1>2
            <4>7. QED BY <3>1, <3>2, <4>2, <4>4, <4>5, <4>6
        <3>4. CASE plan[q].undoes[i] = None
            BY <3>1, <3>2, <3>4
        <3>5. QED BY <3>3, <3>4
    <2>3. QED BY <2>1, <2>2 DEF PlansInOrder, ChangeOf
<1>9. Valued'
    BY <1>1, <1>2 DEF Valued
<1>10. Sound(disk)' /\ Sound(mem)'
    <2>1. ASSUME NEW e \in Entry PROVE SoundEntry(disk, e)'
        <3>1. SoundEntry(disk, e) /\ disk[e].by \in Entry \cup {None} /\ e[1] \in Plan
            BY <1>1, EntryParts DEF Sound, TypeOK, JournalEntry
        <3>2. plan[e[1]].state = "gone" => plan'[e[1]].state = "gone"
            BY <1>4, <3>1
        <3>3. disk[e].by # None => ChangeOf(disk[e].by)' = ChangeOf(disk[e].by)
            BY <1>2, <1>4, <3>1, EntryParts DEF ChangeOf
        <3>4. QED BY <1>2, <1>4, <1>7, <3>1, <3>2, <3>3 DEF SoundEntry
    <2>2. QED BY <1>2, <2>1 DEF Sound, SoundEntry, ChangeOf
<1>11. Ahead'
    BY <1>2 DEF Ahead
<1>12. Reached'
    <2>1. /\ helper[p].pc = "none"
          /\ \A i \in Index : disk[<<p, i>>].status = "none"
        BY <1>2, BeforeExecution, EntryFacts
    <2>2. Batch(p) \subseteq Index /\ DOMAIN plan[p].changes \subseteq Index
        BY <1>1, PlanFacts
    <2>3. QED BY <1>2, <1>3, <1>4, <1>6, <2>1, <2>2 DEF Reached
<1>13. HelperInOrder'
    <2> SUFFICES ASSUME NEW q \in Plan
                 PROVE
            /\ helper[q].pc = "none" => helper[q] = NoHelper
            /\ helper[q].pc = "running" => exec'.pc = "wait" /\ exec'.plan = q
            /\ helper[q].pc = "done" => helper[q].todo = {}
            /\ helper[q].pc # "none" =>
                   /\ plan'[q].state = "gone" /\ helper[q].todo \subseteq Batch(q)
                   /\ \A i \in Batch(q) :
                          /\ disk[<<q, i>>].status # "none"
                          /\ i \notin helper[q].todo =>
                                 /\ helper[q].result[i] \in {"applied", "refused"}
                                 /\ plan[q].changes[i].setting # Point => helper[q].seen[i] \in Value
            /\ \A i \in Index :
                   helper[q].result[i] # "none" => i \in Batch(q) /\ i \notin helper[q].todo
        BY <1>2, <1>4, <1>6 DEF HelperInOrder
    <2>1. helper[q].pc # "running"
        BY <1>1, <1>2 DEF HelperInOrder
    <2>2. helper[q].pc # "none" => plan'[q].state = "gone"
        <3>1. plan[q].state = "gone" => plan'[q].state = "gone"
            BY <1>4
        <3>2. QED BY <1>1, <3>1 DEF HelperInOrder
    <2>3. QED BY <1>1, <2>1, <2>2 DEF HelperInOrder
<1>14. EffectsRecorded'
    <2>1. ASSUME NEW s \in Setting, writer[s] # None PROVE EffectRecorded(s)'
        <3>1. EffectRecorded(s) /\ writer[s] \in Entry /\ writer[s][1] \in Plan
            <4>1. EffectRecorded(s)
                BY <1>1 DEF EffectsRecorded
            <4>2. writer[s] \in Entry
                BY <1>1, <2>1 DEF TypeOK
            <4>3. QED BY <4>1, <4>2, EntryParts
        <3>2. /\ plan'[writer[s][1]].changes = plan[writer[s][1]].changes
              /\ plan'[writer[s][1]].prior = plan[writer[s][1]].prior
            BY <1>4, <3>1
        <3>3. QED BY <1>2, <3>1, <3>2 DEF EffectRecorded, ChangeOf
    <2>2. QED BY <1>2, <2>1 DEF EffectsRecorded, EffectRecorded
<1>15. GuardedByRestorePoint'
    BY <1>1, <1>2, <1>4 DEF GuardedByRestorePoint
<1>16. QED BY <1>5, <1>8, <1>9, <1>10, <1>11, <1>12, <1>13, <1>14, <1>15 DEF IInv
-----------------------------------------------------------------------------
(* Executing keeps the invariant *)

\* Changes of the journal: the copy is sound and not behind, the file follows it or not.
Recorded ==
    /\ mem' \in [Entry -> JournalEntry] /\ Sound(mem')
    /\ disk' = disk \/ disk' = mem'
    /\ \A e \in Entry :
           /\ disk[e].status # "none" => mem'[e].status # "none"
           /\ disk[e].status \in {"applied", "refused"} => mem'[e] = disk[e]
    /\ \A s \in Setting \ {Point} : writer[s] # None =>
           \/ writer[s] \in torn \/ helper[writer[s][1]].pc = "late"
           \/ mem'[writer[s]].status \in {"open", "applied"}

\* The records of the file under such a change.
LEMMA RecordsStay ==
    ASSUME Recorded
    PROVE  \A e \in Entry :
               /\ disk[e].status # "none" => disk'[e].status # "none"
               /\ disk[e].status \in {"applied", "refused"} => disk'[e] = disk[e]
BY DEF Recorded

\* What ConsentIntentEffect asks of a step.
Kept ==
    /\ exec.pc = "idle" /\ exec'.pc # "idle" =>
           plan[exec'.plan].confirmed = "yes" /\ ~ plan[exec'.plan].declined
    /\ \A s \in Setting :
           writer'[s] # writer[s] /\ writer'[s] # None => disk[writer'[s]].status # "none"
    /\ \A e \in Entry :
           /\ disk[e].status # disk'[e].status => disk[e].status \in {"none", "open"}
           /\ disk[e].by # None => disk'[e].by # None

\* The records of the file only move on.
LEMMA RecordsKept ==
    ASSUME IInv, \A e \in Entry : disk[e].status \in {"applied", "refused"} => disk'[e] = disk[e]
    PROVE  \A e \in Entry :
               /\ disk[e].status # disk'[e].status => disk[e].status \in {"none", "open"}
               /\ disk[e].by # None => disk'[e].by # None
<1>1. \A e \in Entry : /\ disk[e] \in JournalEntry
                       /\ disk[e].by # None => disk[e].status = "applied"
    BY DEF IInv, TypeOK, Sound, SoundEntry
<1>2. QED BY <1>1 DEF JournalEntry

LEMMA NobodyRuns ==
    ASSUME IInv, UNCHANGED <<plan, helper>>, \A p \in Plan : helper[p].pc # "running",
           \A e \in Entry : disk[e].status # "none" => disk'[e].status # "none"
    PROVE  HelperInOrder'
<1>1. TypeOK /\ HelperInOrder
    BY DEF IInv
<1>2. QED BY <1>1, HelpersStay

\* A step of the execution that touches no setting.
LEMMA ExecutionStep ==
    ASSUME IInv, exec.pc # "idle", UNCHANGED <<plan, sys, writer, torn, crashes, edits>>,
           faults' \in Nat, exec' \in Execution, exec'.pc # "idle", exec'.plan = exec.plan,
           helper' \in [Plan -> HelperProcess],
           \A p \in Plan : /\ helper'[p].result = helper[p].result
                           /\ helper[p].pc = "late" => helper'[p].pc = "late",
           Recorded, HelperInOrder', Reached'
    PROVE  IInv' /\ Kept
<1>1. /\ TypeOK /\ Sound(disk) /\ GuardedByRestorePoint /\ EffectsRecorded /\ Valued
    BY DEF IInv
<1>2. TypeOK'
    BY <1>1 DEF TypeOK, Recorded
<1>3. PlansInOrder'
    BY RecordsStay, OrderStays
<1>4. Valued'
    BY <1>1 DEF Valued
<1>5. Sound(mem)' /\ Sound(disk)'
    BY <1>1, SoundStays DEF Recorded
<1>6. Ahead'
    <2>1. CASE disk' = mem'
        BY <2>1 DEF Ahead
    <2>2. CASE disk' = disk
        BY <2>2 DEF Ahead, Recorded
    <2>3. QED BY <2>1, <2>2 DEF Recorded
<1>7. EffectsRecorded'
    <2>1. ASSUME NEW s \in Setting, writer[s] # None
          PROVE  /\ disk'[writer[s]].status # "none"
                 /\ \/ s = Point \/ writer[s] \in torn
                    \/ helper'[writer[s][1]].pc = "late"
                    \/ /\ disk'[writer[s]].status \in {"open", "applied"}
                       /\ exec'.pc # "idle" => mem'[writer[s]].status \in {"open", "applied"}
        <3>1. writer[s] \in Entry
            BY <1>1, <2>1 DEF TypeOK
        <3>2. writer[s][1] \in Plan
            BY <3>1, EntryParts
        <3>3. EffectRecorded(s)
            BY <1>1 DEF EffectsRecorded
        <3>4. disk'[writer[s]].status # "none"
            BY <2>1, <3>1, <3>3, RecordsStay DEF EffectRecorded
        <3>5. CASE s # Point /\ writer[s] \notin torn /\ helper[writer[s][1]].pc # "late"
            <4>1. mem'[writer[s]].status \in {"open", "applied"}
                BY <2>1, <3>5 DEF Recorded
            <4>2. disk[writer[s]].status \in {"open", "applied"}
                BY <2>1, <3>3, <3>5 DEF EffectRecorded
            <4>3. QED BY <3>4, <4>1, <4>2 DEF Recorded
        <3>6. QED BY <3>2, <3>4, <3>5
    <2>2. QED BY <1>1, <2>1, EffectsStay
<1>8. GuardedByRestorePoint'
    BY <1>1, GuardStays
<1>9. Kept
    BY RecordsStay, RecordsKept DEF Kept
<1>10. QED BY <1>2, <1>3, <1>4, <1>5, <1>6, <1>7, <1>8, <1>9 DEF IInv

\* When the journal does not change.
LEMMA SameJournal ==
    ASSUME IInv, exec.pc # "idle", mem' = mem, disk' = disk \/ disk' = mem, plan' = plan
    PROVE  Recorded
<1>1. TypeOK /\ Sound(mem) /\ Ahead /\ EffectsRecorded
    BY DEF IInv
<1>2. \A s \in Setting \ {Point} : writer[s] # None =>
           \/ writer[s] \in torn \/ helper[writer[s][1]].pc = "late"
           \/ mem'[writer[s]].status \in {"open", "applied"}
    BY <1>1 DEF EffectsRecorded, EffectRecorded
<1>3. QED BY <1>1, <1>2 DEF Recorded, TypeOK, Ahead

\* When one entry that was not there is recorded as open.
LEMMA NewRecord ==
    ASSUME IInv, exec.pc # "idle", NEW i \in DOMAIN Changes, mem[<<exec.plan, i>>].status = "none",
           Changes[i].setting # Point => plan[exec.plan].prior[i] \in Value,
           mem' = RecordIntent(mem, <<exec.plan, i>>, plan[exec.plan].prior[i]),
           disk' = disk \/ disk' = mem'
    PROVE  /\ Recorded /\ mem'[<<exec.plan, i>>].status = "open"
           /\ disk[<<exec.plan, i>>].status = "none"
           /\ \A s \in Setting : writer[s] # <<exec.plan, i>>
           /\ \A e \in Entry : e # <<exec.plan, i>> => mem'[e] = mem[e]
<1> DEFINE here == <<exec.plan, i>>
<1>1. TypeOK /\ Sound(mem) /\ Ahead /\ EffectsRecorded
    BY DEF IInv
<1>2. /\ exec.plan \in Plan /\ plan[exec.plan].state = "gone" /\ i \in Index
      /\ plan[exec.plan].prior[i] \in Held
    BY <1>1, PlanFacts DEF TypeOK, Changes
<1>3. here \in Entry /\ here[1] = exec.plan /\ here[2] = i /\ here # None
    BY <1>2, EntryFacts
<1>4. /\ mem' \in [Entry -> JournalEntry] /\ mem'[here].status = "open"
      /\ mem'[here].prior = plan[exec.plan].prior[i] /\ mem'[here].by = None
      /\ \A e \in Entry : e # here => mem'[e] = mem[e]
    <2>1. mem \in [Entry -> JournalEntry]
        BY <1>1 DEF TypeOK
    <2> DEFINE v == plan[exec.plan].prior[i]
    <2>2. here \in Entry /\ v \in Held
        BY <1>2, <1>3
    <2>3. mem' = RecordIntent(mem, here, v)
        OBVIOUS
    <2> HIDE DEF here, v
    <2> DEFINE j == RecordIntent(mem, here, v)
    <2>4. /\ j \in [Entry -> JournalEntry] /\ j[here].status = "open"
          /\ j[here].prior = v /\ j[here].by = None
          /\ \A e \in Entry : e # here => j[e] = mem[e]
        BY <2>1, <2>2, RecordedFacts
    <2>5. mem' = j
        BY <2>3
    <2> HIDE DEF j
    <2>6. QED BY <2>4, <2>5 DEF v
<1>5. disk[here].status = "none"
    BY <1>1, <1>3 DEF Ahead
<1>6. \A s \in Setting : writer[s] # here
    BY <1>1, <1>3, <1>5 DEF EffectsRecorded, EffectRecorded
<1> HIDE DEF here
<1>7. Sound(mem')
    <2>1. ASSUME NEW e \in Entry PROVE SoundEntry(mem', e)
        <3>1. CASE e = here
            BY <1>2, <1>3, <1>4, <3>1 DEF SoundEntry, ChangeOf, Changes
        <3>2. CASE e # here
            <4>1. SoundEntry(mem, e) /\ mem'[e] = mem[e] /\ mem[e].by \in Entry \cup {None}
                BY <1>1, <1>4, <3>2 DEF Sound, TypeOK, JournalEntry
            <4>2. mem[e].by # None => mem[e].by # here
                BY <4>1 DEF SoundEntry, here
            <4>3. mem[e].by # None => mem'[mem[e].by] = mem[mem[e].by]
                BY <1>4, <4>1, <4>2
            <4>4. QED BY <4>1, <4>3 DEF SoundEntry
        <3>3. QED BY <3>1, <3>2
    <2>2. QED BY <2>1 DEF Sound
<1>8. \A e \in Entry :
           /\ disk[e].status # "none" => mem'[e].status # "none"
           /\ disk[e].status \in {"applied", "refused"} => mem'[e] = disk[e]
    BY <1>1, <1>4, <1>5 DEF Ahead
<1>9. \A s \in Setting \ {Point} : writer[s] # None =>
           \/ writer[s] \in torn \/ helper[writer[s][1]].pc = "late"
           \/ mem'[writer[s]].status \in {"open", "applied"}
    <2>1. \A s \in Setting : writer[s] # None => mem'[writer[s]] = mem[writer[s]]
        BY <1>1, <1>4, <1>6 DEF TypeOK
    <2>2. QED BY <1>1, <2>1 DEF EffectsRecorded, EffectRecorded
<1>10. QED BY <1>4, <1>5, <1>6, <1>7, <1>8, <1>9 DEF Recorded, here

\* A change of the executed plan that was not settled is recorded again, and not as
\* failed if its value was written.
Rerecorded(e) ==
    /\ e[1] = exec.plan /\ e[2] \in DOMAIN Changes /\ mem[e].status \in {"none", "open"}
    /\ mem'[e].status # "none" /\ mem'[e].by = None
    /\ mem'[e].status = "open" => mem'[e].prior = plan[exec.plan].prior[e[2]]
    /\ Changes[e[2]].setting # Point => mem'[e].prior \in Value
    /\ \A s \in Setting \ {Point} : writer[s] = e /\ e \notin torn =>
           mem'[e].status \in {"open", "applied"}

LEMMA RecordedAgain ==
    ASSUME IInv, exec.pc # "idle", mem' \in [Entry -> JournalEntry],
           disk' = disk \/ disk' = mem',
           \A e \in Entry : mem'[e] = mem[e] \/ Rerecorded(e)
    PROVE  Recorded
<1>1. TypeOK /\ Sound(mem) /\ Ahead /\ EffectsRecorded
    BY DEF IInv
<1>2. exec.plan \in Plan /\ plan[exec.plan].state = "gone"
    BY <1>1 DEF TypeOK
<1>3. ASSUME NEW e \in Entry PROVE SoundEntry(mem', e)
    <2>1. CASE Rerecorded(e)
        BY <1>2, <2>1 DEF Rerecorded, SoundEntry, ChangeOf, Changes
    <2>2. CASE mem'[e] = mem[e]
        <3>1. SoundEntry(mem, e) /\ mem[e].by \in Entry \cup {None}
            BY <1>1 DEF Sound, TypeOK, JournalEntry
        <3>2. ASSUME mem[e].by # None PROVE mem'[mem[e].by] = mem[mem[e].by]
            <4>1. mem[mem[e].by].status = "applied" /\ mem[e].by \in Entry
                BY <3>1, <3>2 DEF SoundEntry
            <4>2. ~ Rerecorded(mem[e].by)
                BY <4>1 DEF Rerecorded
            <4>3. QED BY <4>1, <4>2
        <3>3. QED BY <2>2, <3>1, <3>2 DEF SoundEntry
    <2>3. QED BY <2>1, <2>2
<1>4. ASSUME NEW e \in Entry
      PROVE  /\ disk[e].status # "none" => mem'[e].status # "none"
             /\ disk[e].status \in {"applied", "refused"} => mem'[e] = disk[e]
    BY <1>1 DEF Ahead, Rerecorded
<1>5. ASSUME NEW s \in Setting \ {Point}, writer[s] # None, writer[s] \notin torn,
             helper[writer[s][1]].pc # "late"
      PROVE  mem'[writer[s]].status \in {"open", "applied"}
    <2>1. writer[s] \in Entry /\ EffectRecorded(s)
        BY <1>1, <1>5 DEF TypeOK, EffectsRecorded
    <2>2. mem[writer[s]].status \in {"open", "applied"}
        BY <1>5, <2>1 DEF EffectRecorded
    <2>3. QED BY <1>5, <2>1, <2>2 DEF Rerecorded
<1>6. QED BY <1>3, <1>4, <1>5 DEF Recorded, Sound

\* Before its batch is sent, nothing of it is written.
LEMMA NothingSent ==
    ASSUME IInv, NEW p \in Plan, helper[p].pc = "none"
    PROVE  \A s \in Setting : writer[s] # None /\ writer[s][1] = p => writer[s][2] \notin Batch(p)
<1> SUFFICES ASSUME NEW s \in Setting, writer[s] # None, writer[s][1] = p,
                    writer[s][2] \in Batch(p)
             PROVE  FALSE
    OBVIOUS
<1>1. EffectRecorded(s) /\ helper[p] = NoHelper
    BY DEF IInv, EffectsRecorded, HelperInOrder
<1>2. s \in Helper /\ writer[s][2] \in Index
    BY <1>1, PlanFacts DEF EffectRecorded, ChangeOf, Batch, IInv
<1>3. QED BY <1>1, <1>2, EmptyRecords DEF EffectRecorded

\* The records when nothing of the batch was made, one of them perhaps not persisted.
LEMMA BatchRefusedRecords ==
    ASSUME IInv, exec.pc # "idle", helper[exec.plan].pc = "none", disk' = disk \/ disk' = mem',
           mem' \in [Entry -> JournalEntry],
           \A e \in Entry :
               \/ mem'[e] = BatchRefused(mem)[e]
               \/ /\ e[1] = exec.plan /\ e[2] \in Batch(exec.plan) /\ mem[e].status = "none"
                  /\ mem'[e].status = "open" /\ mem'[e].by = None
                  /\ mem'[e].prior = plan[exec.plan].prior[e[2]]
    PROVE  Recorded
<1>1. TypeOK /\ Sound(mem) /\ PlansInOrder
    BY DEF IInv
<1>2. exec.plan \in Plan /\ mem \in [Entry -> JournalEntry]
    BY <1>1 DEF TypeOK
<1>3. HelperIndices = Batch(exec.plan) /\ HelperIndices \subseteq DOMAIN Changes
    BY <1>1, BatchFacts
<1>4. \A i \in DOMAIN Changes : Changes[i].setting # Point => plan[exec.plan].prior[i] \in Value
    BY <1>1, <1>2 DEF PlansInOrder, Changes
<1>5. ASSUME NEW e \in Entry PROVE mem'[e] = mem[e] \/ Rerecorded(e)
    <2>1. ASSUME e[1] = exec.plan, e[2] \in Batch(exec.plan), NEW s \in Setting PROVE writer[s] # e
        BY <1>2, <2>1, NothingSent, EntryParts
    <2>2. CASE /\ mem'[e] = BatchRefused(mem)[e]
               /\ e[1] = exec.plan /\ e[2] \in HelperIndices /\ mem[e].status = "open"
        <3>1. /\ mem'[e].status = "refused" /\ mem'[e].prior = mem[e].prior
              /\ mem'[e].by = mem[e].by
            BY <1>2, <2>2, RefusedFacts
        <3>2. SoundEntry(mem, e)
            BY <1>1 DEF Sound
        <3>3. QED BY <1>3, <2>1, <2>2, <3>1, <3>2 DEF SoundEntry, Rerecorded, ChangeOf, Changes
    <2>3. CASE /\ mem'[e] = BatchRefused(mem)[e]
               /\ ~ (e[1] = exec.plan /\ e[2] \in HelperIndices /\ mem[e].status = "open")
        BY <1>2, <2>3, RefusedFacts
    <2>4. CASE /\ e[1] = exec.plan /\ e[2] \in Batch(exec.plan) /\ mem[e].status = "none"
               /\ mem'[e].status = "open" /\ mem'[e].by = None
               /\ mem'[e].prior = plan[exec.plan].prior[e[2]]
        BY <1>3, <1>4, <2>1, <2>4 DEF Rerecorded
    <2>5. QED BY <2>2, <2>3, <2>4
<1>6. QED BY <1>5, RecordedAgain

\* The execution goes on with the next change while no helper is waited for.
LEMMA QuietAdvance ==
    ASSUME IInv, exec.pc # "idle", exec.at \in DOMAIN Changes,
           UNCHANGED <<plan, helper, sys, writer, torn, crashes, edits>>, faults' \in Nat,
           NEW r \in [Index -> Result], Advance(r), Recorded,
           \A p \in Plan : helper[p].pc # "running",
           \A i \in DOMAIN Changes \ Batch(exec.plan) :
               i > exec.at => mem'[<<exec.plan, i>>].status = "none",
           (\A i \in Batch(exec.plan) : exec.at < i) =>
               /\ helper[exec.plan].pc = "none"
               /\ \A i \in Batch(exec.plan) : mem'[<<exec.plan, i>>].status = "none",
           \A i \in Index : r[i] = "applied" => mem'[<<exec.plan, i>>].status = "applied"
    PROVE  IInv' /\ Kept
<1>1. TypeOK /\ exec \in Execution /\ exec.at \in Index /\ helper \in [Plan -> HelperProcess]
    BY AtFacts DEF IInv, TypeOK
<1>2. exec' \in Execution /\ exec'.pc = "next" /\ exec'.plan = exec.plan
    BY <1>1, AdvanceFacts
<1>3. Reached'
    BY AdvanceReached
<1>4. HelperInOrder'
    BY NobodyRuns, RecordsStay
<1>5. QED BY <1>1, <1>2, <1>3, <1>4, ExecutionStep

\* Outside of the wait no helper is waited for.
LEMMA NobodyWaits ==
    ASSUME IInv, exec.pc # "wait" PROVE \A p \in Plan : helper[p].pc # "running"
BY DEF IInv, HelperInOrder

\* What is known at a change that needs no privileges.
LEMMA AtStandardFacts ==
    ASSUME IInv, AtStandard
    PROVE  /\ TypeOK /\ exec.pc = "next" /\ exec.at \in DOMAIN Changes \ Batch(exec.plan)
           /\ exec.plan \in Plan /\ exec.at \in Index /\ Here \in Entry
           /\ mem[Here].status = "none"
           /\ ChangeOf(Here) = Changes[exec.at] /\ ChangeOf(Here).setting # Point
           /\ ChangeOf(Here).setting \in Setting /\ ChangeOf(Here).setting \notin Helper
           /\ plan[exec.plan].prior[exec.at] \in Value
<1>1. TypeOK /\ Reached /\ PlansInOrder
    BY DEF IInv
<1>2. exec.pc = "next" /\ exec.at \in DOMAIN Changes \ Batch(exec.plan)
    BY <1>1, BatchFacts DEF AtStandard
<1>3. /\ exec.plan \in Plan /\ exec.at \in Index /\ Here \in Entry
      /\ ChangeOf(Here) = Changes[exec.at] /\ ChangeOf(Here) \in Change
    BY <1>1, <1>2, AtFacts
<1>4. mem[Here].status = "none"
    BY <1>1, <1>2 DEF Reached, Here, Changes
<1>5. Changes[exec.at].setting \notin Helper
    BY <1>2 DEF Batch, Changes
<1>6. ChangeOf(Here).setting # Point /\ ChangeOf(Here).setting \in Setting
    BY <1>3, <1>5, ChangeFacts
<1>7. plan[exec.plan].prior[exec.at] \in Value
    BY <1>1, <1>2, <1>3, <1>6 DEF PlansInOrder, Changes
<1>8. QED BY <1>1, <1>2, <1>3, <1>4, <1>5, <1>6, <1>7

\* What Reached says between two changes.
LEMMA NextFacts ==
    ASSUME IInv, exec.pc = "next"
    PROVE  /\ \A i \in DOMAIN Changes \ Batch(exec.plan) :
                  i >= exec.at => mem[<<exec.plan, i>>].status = "none"
           /\ (\A i \in Batch(exec.plan) : exec.at <= i) =>
                  /\ helper[exec.plan].pc = "none"
                  /\ \A i \in Batch(exec.plan) : mem[<<exec.plan, i>>].status = "none"
           /\ \A i \in Index : exec.result[i] = "applied" => mem[<<exec.plan, i>>].status = "applied"
<1>1. TypeOK /\ Reached
    BY DEF IInv
<1>2. exec.plan \in Plan /\ exec.at \in Nat
    BY <1>1 DEF TypeOK, Execution
<1>3. \A i \in DOMAIN Changes : i \in Nat
    BY <1>1, <1>2, PlanFacts DEF Changes, Index
<1>4. \A i \in DOMAIN Changes : i >= exec.at => i > exec.at \/ i = exec.at
    BY <1>2, <1>3
<1>5. QED BY <1>1, <1>4 DEF Reached, Changes

LEMMA SkipSteps ==
    ASSUME IInv, StandardSkips \/ SkipHelper
    PROVE  IInv' /\ Kept
<1>1. /\ TypeOK /\ exec \in Execution /\ exec.pc = "next"
      /\ UNCHANGED <<plan, helper, sys, writer, torn, faults, crashes, edits, mem, disk>>
    BY DEF IInv, TypeOK, StandardSkips, SkipHelper, AtStandard, system, bounds
<1>2. exec.at \in DOMAIN Changes /\ exec.plan \in Plan
    BY <1>1, BatchFacts DEF StandardSkips, SkipHelper, AtStandard, TypeOK
<1>3. exec.at \in Nat /\ Batch(exec.plan) \subseteq Nat /\ DOMAIN Changes \subseteq Nat
    BY <1>1, <1>2, PlanFacts DEF Changes, Index
<1>4. PICK r \in [Index -> Result] :
          Advance(r) /\ \A i \in Index : r[i] = "applied" => exec.result[i] = "applied"
    BY <1>1, ResultFacts DEF StandardSkips, SkipHelper, Refuse, Execution
<1>5. /\ \A i \in DOMAIN Changes : i > exec.at => i >= exec.at
      /\ \A i \in Batch(exec.plan) : exec.at < i => exec.at <= i
    BY <1>3
<1>6. faults' \in Nat /\ Recorded
    BY <1>1, SameJournal DEF TypeOK
<1>7. /\ \A i \in DOMAIN Changes \ Batch(exec.plan) :
             i > exec.at => mem'[<<exec.plan, i>>].status = "none"
      /\ (\A i \in Batch(exec.plan) : exec.at < i) =>
             /\ helper[exec.plan].pc = "none"
             /\ \A i \in Batch(exec.plan) : mem'[<<exec.plan, i>>].status = "none"
      /\ \A i \in Index : r[i] = "applied" => mem'[<<exec.plan, i>>].status = "applied"
    BY <1>1, <1>4, <1>5, NextFacts
<1>8. \A p \in Plan : helper[p].pc # "running"
    BY <1>1, NobodyWaits
<1>9. QED BY <1>1, <1>2, <1>4, <1>6, <1>7, <1>8, QuietAdvance

LEMMA StandardIntentStep ==
    ASSUME IInv, StandardIntent
    PROVE  IInv' /\ Kept
<1>1. /\ TypeOK /\ exec.pc = "next" /\ exec.at \in DOMAIN Changes \ Batch(exec.plan)
      /\ exec.plan \in Plan /\ exec.at \in Index /\ Here \in Entry
      /\ mem[Here].status = "none"
      /\ ChangeOf(Here) = Changes[exec.at] /\ ChangeOf(Here).setting # Point
      /\ ChangeOf(Here).setting \in Setting /\ ChangeOf(Here).setting \notin Helper
      /\ plan[exec.plan].prior[exec.at] \in Value
    BY AtStandardFacts DEF StandardIntent
<1>2. exec \in Execution /\ helper \in [Plan -> HelperProcess] /\ faults \in Nat /\ Reached
    BY DEF IInv, TypeOK
<1>3. /\ UNCHANGED <<plan, helper, sys, writer, torn, crashes, edits>>
      /\ mem' = RecordIntent(mem, Here, plan[exec.plan].prior[exec.at])
      /\ sys[ChangeOf(Here).setting] = plan[exec.plan].prior[exec.at]
      /\ sys[ChangeOf(Here).setting] # ChangeOf(Here).value
      /\ \/ disk' = mem' /\ exec' = [exec EXCEPT !.pc = "apply"] /\ UNCHANGED faults
         \/ disk' = disk /\ faults' = faults + 1 /\ Advance(Refuse)
    BY <1>1 DEF StandardIntent, system, Satisfied
<1>4. /\ Recorded /\ mem'[Here].status = "open" /\ \A s \in Setting : writer[s] # Here
      /\ \A e \in Entry : e # Here => mem'[e] = mem[e]
    BY <1>1, <1>3, NewRecord DEF Here
<1>5. \A p \in Plan : helper[p].pc # "running"
    BY <1>1, NobodyWaits
<1>6. \A i \in Index : i # exec.at => mem'[<<exec.plan, i>>] = mem[<<exec.plan, i>>]
    BY <1>1, <1>4, EntryFacts DEF Here
<1>7. exec.at \in Nat /\ Batch(exec.plan) \subseteq Index /\ DOMAIN Changes \subseteq Index
      /\ Index \subseteq Nat
    BY <1>1, PlanFacts DEF Changes, Index
<1>8. /\ \A i \in Index : i > exec.at => i # exec.at /\ i >= exec.at
      /\ \A i \in Index : exec.at < i => exec.at <= i
    BY <1>7
<1>9. \A i \in Index : exec.result[i] = "applied" => mem[<<exec.plan, i>>].status = "applied"
    BY <1>1, NextFacts
<1>10. \A i \in Index : exec.result[i] = "applied" => i # exec.at
    BY <1>1, <1>9 DEF Here
<1>11. /\ \A i \in DOMAIN Changes \ Batch(exec.plan) :
              i > exec.at => mem'[<<exec.plan, i>>].status = "none"
       /\ (\A i \in Batch(exec.plan) : exec.at <= i) =>
              /\ helper[exec.plan].pc = "none"
              /\ \A i \in Batch(exec.plan) : mem'[<<exec.plan, i>>].status = "none"
       /\ \A i \in Index : exec.result[i] = "applied" => mem'[<<exec.plan, i>>].status = "applied"
    BY <1>1, <1>6, <1>7, <1>8, <1>9, <1>10, NextFacts
<1>12. CASE disk' = mem' /\ exec' = [exec EXCEPT !.pc = "apply"] /\ UNCHANGED faults
    <2>1. exec' \in Execution /\ exec'.pc = "apply" /\ exec'.plan = exec.plan
          /\ exec'.at = exec.at /\ exec'.result = exec.result
        BY <1>2, <1>12 DEF Execution
    <2>2. HelperInOrder'
        BY <1>3, <1>4, <1>5, NobodyRuns, RecordsStay
    <2>3. \A q : Batch(q)' = Batch(q)
        BY <1>3 DEF Batch
    <2>4. Reached'
        <3>1. /\ mem'[<<exec.plan, exec.at>>].status = "open"
              /\ disk'[<<exec.plan, exec.at>>].status = "open"
              /\ \A s \in Setting : writer'[s] # <<exec.plan, exec.at>>
              /\ plan'[exec.plan].prior[exec.at] # plan'[exec.plan].changes[exec.at].value
              /\ exec.at \in DOMAIN plan'[exec.plan].changes \ Batch(exec.plan)
            BY <1>1, <1>3, <1>4, <1>12 DEF Here, Changes
        <3>2. plan' = plan /\ helper' = helper
            BY <1>3
        <3>3. /\ \A i \in DOMAIN plan'[exec.plan].changes \ Batch(exec.plan) :
                     i > exec.at => mem'[<<exec.plan, i>>].status = "none"
              /\ (\A i \in Batch(exec.plan) : exec.at <= i) =>
                     /\ helper'[exec.plan].pc = "none"
                     /\ \A i \in Batch(exec.plan) : mem'[<<exec.plan, i>>].status = "none"
            BY <1>11, <3>2 DEF Changes
        <3>4. QED BY <1>11, <2>1, <2>3, <3>1, <3>3 DEF Reached
    <2>5. QED BY <1>1, <1>2, <1>3, <1>4, <1>12, <2>1, <2>2, <2>4, ExecutionStep
<1>13. CASE disk' = disk /\ faults' = faults + 1 /\ Advance(Refuse)
    <2>1. Refuse \in [Index -> Result] /\ faults' \in Nat
        BY <1>2, <1>13, ResultFacts
    <2>2. \A i \in Index : Refuse[i] = "applied" => mem'[<<exec.plan, i>>].status = "applied"
        BY <1>2, <1>11 DEF Refuse, Execution
    <2>3. (\A i \in Batch(exec.plan) : exec.at < i) => (\A i \in Batch(exec.plan) : exec.at <= i)
        BY <1>7, <1>8
    <2>4. QED BY <1>1, <1>3, <1>4, <1>5, <1>11, <1>13, <2>1, <2>2, <2>3, QuietAdvance
<1>14. QED BY <1>3, <1>12, <1>13

LEMMA StandardAppliesStep ==
    ASSUME IInv, StandardApplies
    PROVE  IInv' /\ Kept
<1>1. /\ TypeOK /\ Reached /\ Sound(mem) /\ Sound(disk) /\ Ahead /\ EffectsRecorded /\ Valued
      /\ GuardedByRestorePoint /\ exec \in Execution /\ helper \in [Plan -> HelperProcess]
      /\ mem \in [Entry -> JournalEntry] /\ exec.pc = "apply"
      /\ UNCHANGED <<plan, helper, crashes, edits, disk>>
    BY DEF IInv, TypeOK, StandardApplies
<1>2. /\ exec.at \in DOMAIN Changes \ Batch(exec.plan)
      /\ mem[Here].status = "open" /\ disk[Here].status = "open"
      /\ plan[exec.plan].prior[exec.at] # Changes[exec.at].value
      /\ \A s \in Setting : writer[s] # Here
    BY <1>1 DEF Reached, Here, Changes
<1>3. /\ exec.plan \in Plan /\ exec.at \in Index /\ Here \in Entry
      /\ Here[1] = exec.plan /\ Here[2] = exec.at
      /\ ChangeOf(Here) = Changes[exec.at] /\ ChangeOf(Here) \in Change
    BY <1>1, <1>2, AtFacts
<1>4. /\ ChangeOf(Here).setting \notin Helper /\ ChangeOf(Here).setting # Point
      /\ ChangeOf(Here).setting \in Setting /\ ChangeOf(Here).value \in Value
    BY <1>2, <1>3, ChangeFacts DEF Batch, Changes
<1> DEFINE t == ChangeOf(Here).setting
\* The adapter sets the setting to v; if it is refused for all that, the entry is torn.
           Sets(r, v) == /\ sys' = [sys EXCEPT ![t] = v] /\ writer' = [writer EXCEPT ![t] = Here]
                         /\ r = "applied" => torn' = torn /\ v = ChangeOf(Here).value
                         /\ r = "refused" => torn' = torn \cup {Here}
<1>5. PICK r \in {"applied", "refused"} :
          /\ mem' = SetStatus(mem, Here, r)
          /\ exec' = [exec EXCEPT !.pc = "outcome", !.result[exec.at] = r]
          /\ faults' \in Nat
          /\ \/ r = "refused" /\ UNCHANGED <<sys, writer, torn>>
             \/ \E v \in Value : Sets(r, v)
    <2>1. faults \in Nat
        BY <1>1 DEF TypeOK
    <2>2. Write(Here) => Sets("applied", ChangeOf(Here).value)
        BY DEF Write
    <2>3. ASSUME WriteThenFail(Here)
          PROVE  faults' \in Nat /\ \E v \in Value : Sets("refused", v)
        <3>1. PICK v \in Value : sys' = [sys EXCEPT ![t] = v]
            BY <2>3 DEF WriteThenFail
        <3>2. /\ writer' = [writer EXCEPT ![t] = Here] /\ torn' = torn \cup {Here}
              /\ faults' = faults + 1
            BY <2>3 DEF WriteThenFail
        <3>3. Sets("refused", v)
            BY <3>1, <3>2
        <3> HIDE DEF Sets
        <3>4. QED BY <2>1, <3>2, <3>3
    <2> HIDE DEF Sets, t
    <2>4. CASE Write(Here) /\ UNCHANGED faults /\ mem' = SetStatus(mem, Here, "applied")
               /\ exec' = [exec EXCEPT !.pc = "outcome", !.result[exec.at] = "applied"]
        BY <1>4, <2>1, <2>2, <2>4
    <2>5. CASE (UNCHANGED <<system, faults>> \/ WriteThenFail(Here))
               /\ mem' = SetStatus(mem, Here, "refused")
               /\ exec' = [exec EXCEPT !.pc = "outcome", !.result[exec.at] = "refused"]
        <3>1. /\ faults' \in Nat
              /\ UNCHANGED <<sys, writer, torn>> \/ \E v \in Value : Sets("refused", v)
            BY <2>1, <2>3, <2>5 DEF system
        <3>2. QED BY <2>5, <3>1
    <2>6. QED BY <2>4, <2>5 DEF StandardApplies
<1> HIDE DEF Sets
<1>6. /\ exec' \in Execution /\ exec'.pc = "outcome" /\ exec'.plan = exec.plan
      /\ exec'.at = exec.at /\ exec'.result[exec.at] = r
      /\ \A i \in Index : i # exec.at => exec'.result[i] = exec.result[i]
    BY <1>1, <1>3, <1>5 DEF Execution, Result
<1>7. /\ mem' \in [Entry -> JournalEntry] /\ mem'[Here].status = r
      /\ mem'[Here].prior = mem[Here].prior /\ mem'[Here].by = mem[Here].by
    BY <1>1, <1>3, <1>5, StatusFacts
<1>8. \A e \in Entry : e # Here => mem'[e] = mem[e]
    BY <1>1, <1>3, <1>5, StatusFacts
<1>9. Recorded
    <2>1. SoundEntry(mem, Here)
        BY <1>1, <1>3 DEF Sound
    <2>2. Rerecorded(Here)
        BY <1>2, <1>3, <1>7, <2>1 DEF Rerecorded, SoundEntry
    <2>3. QED BY <1>1, <1>7, <1>8, <2>2, RecordedAgain
<1>10. HelperInOrder'
    BY <1>1, NobodyRuns, NobodyWaits
<1>11. \A i \in Index : i # exec.at => mem'[<<exec.plan, i>>] = mem[<<exec.plan, i>>]
    BY <1>3, <1>8, EntryFacts DEF Here
<1>12. Reached'
    <2>1. \A q : Batch(q)' = Batch(q)
        BY <1>1 DEF Batch
    <2>2. /\ Batch(exec.plan) \subseteq Index /\ DOMAIN plan[exec.plan].changes \subseteq Index
          /\ exec.at \in Nat /\ Index \subseteq Nat
        BY <1>1, <1>3, PlanFacts DEF Index
    <2>3. \A i \in Index : i > exec.at => i # exec.at
        BY <2>2
    <2>4. \A i \in DOMAIN plan[exec.plan].changes \ Batch(exec.plan) :
              i > exec.at => mem'[<<exec.plan, i>>].status = "none"
        BY <1>1, <1>11, <2>2, <2>3 DEF Reached
    <2>5. (\A i \in Batch(exec.plan) : exec.at <= i) =>
              /\ helper[exec.plan].pc = "none"
              /\ \A i \in Batch(exec.plan) : mem'[<<exec.plan, i>>].status = "none"
        BY <1>1, <1>2, <1>11, <2>2 DEF Reached
    <2>6. \A i \in Index : exec'.result[i] = "applied" => mem'[<<exec.plan, i>>].status = "applied"
        BY <1>1, <1>6, <1>7, <1>11 DEF Reached, Here
    <2>7. plan' = plan /\ helper' = helper
        BY <1>1
    <2>8. QED BY <1>2, <1>6, <2>1, <2>4, <2>5, <2>6, <2>7 DEF Reached, Changes
<1>13. CASE UNCHANGED <<sys, writer, torn>>
    BY <1>1, <1>5, <1>6, <1>9, <1>10, <1>12, <1>13, ExecutionStep
<1>14. ASSUME NEW v \in Value, Sets(r, v) PROVE IInv' /\ Kept
    <2>1. /\ sys' = [sys EXCEPT ![t] = v] /\ writer' = [writer EXCEPT ![t] = Here]
          /\ torn \subseteq torn' /\ torn' \subseteq torn \cup {Here}
          /\ Here \in torn' \/ (r = "applied" /\ v = ChangeOf(Here).value)
        BY <1>5, <1>14 DEF Sets
    <2>2. TypeOK'
        <3>1. t \in Setting /\ v \in Held
            BY <1>4 DEF Held
        <3> HIDE DEF t
        <3>2. torn' \in SUBSET Entry
            BY <1>1, <1>3, <2>1 DEF TypeOK
        <3>3. sys' \in [Setting -> Held] /\ writer' \in [Setting -> Entry \cup {None}]
            BY <1>1, <1>3, <2>1, <3>1 DEF TypeOK
        <3>4. QED BY <1>1, <1>5, <1>6, <1>7, <3>2, <3>3 DEF TypeOK
    <2>3. PlansInOrder'
        BY <1>1, OrderStays
    <2>4. Valued'
        BY <1>1, <1>4, <2>1 DEF Valued, TypeOK
    <2>5. Sound(mem)' /\ Sound(disk)'
        BY <1>1, <1>9, SoundStays DEF Recorded
    <2>6. Ahead'
        BY <1>1, <1>9 DEF Ahead, Recorded
    <2>7. EffectsRecorded'
        <3>1. ASSUME NEW s \in Setting, s # t PROVE EffectRecorded(s)'
            <4>1. writer'[s] = writer[s] /\ sys'[s] = sys[s] /\ EffectRecorded(s)
                  /\ writer[s] \in Entry \cup {None}
                BY <1>1, <2>1, <3>1 DEF EffectsRecorded, TypeOK
            <4>2. writer[s] # None => mem'[writer[s]] = mem[writer[s]]
                BY <1>2, <1>8, <4>1
            <4>3. writer[s] \in torn' <=> writer[s] \in torn
                BY <1>2, <2>1
            <4>4. QED BY <1>1, <4>1, <4>2, <4>3 DEF EffectRecorded, ChangeOf
        <3>2. ASSUME NEW s \in Setting, s = t PROVE EffectRecorded(s)'
            <4>1. writer'[s] = Here /\ sys'[s] = v
                BY <1>1, <1>4, <2>1, <3>2 DEF TypeOK
            <4>2. plan'[Here[1]].changes[Here[2]] = ChangeOf(Here) /\ s \notin Helper
                BY <1>1, <1>4, <3>2 DEF ChangeOf
            <4>3. plan'[Here[1]].prior[Here[2]] # ChangeOf(Here).value
                BY <1>1, <1>2, <1>3
            <4>4. disk'[Here].status = "open" /\ mem'[Here].status = r
                BY <1>1, <1>2, <1>7
            <4>5. plan'[writer'[s][1]].changes[writer'[s][2]].setting = s
                BY <3>2, <4>1, <4>2
            <4> HIDE DEF t
            <4>6. CASE Here \in torn'
                <5>1. writer'[s] \in torn' /\ disk'[writer'[s]].status # "none"
                    BY <4>1, <4>4, <4>6
                <5>2. QED BY <4>2, <4>5, <5>1 DEF EffectRecorded, ChangeOf
            <4>7. CASE r = "applied" /\ v = ChangeOf(Here).value
                <5>1. /\ plan'[writer'[s][1]].changes[writer'[s][2]].value = sys'[s]
                      /\ plan'[writer'[s][1]].prior[writer'[s][2]] # sys'[s]
                      /\ disk'[writer'[s]].status = "open" /\ mem'[writer'[s]].status = "applied"
                    BY <4>1, <4>2, <4>3, <4>4, <4>7
                <5>2. QED BY <4>2, <4>5, <5>1 DEF EffectRecorded, ChangeOf
            <4>8. QED BY <2>1, <4>6, <4>7
        <3>3. QED BY <3>1, <3>2 DEF EffectsRecorded
    <2>8. GuardedByRestorePoint'
        BY <1>1, GuardStays
    <2>9. Kept
        <3>1. \A s \in Setting : s # t => writer'[s] = writer[s]
            BY <1>1, <2>1 DEF TypeOK
        <3>2. writer'[t] = Here
            BY <1>1, <1>4, <2>1 DEF TypeOK
        <3> HIDE DEF t
        <3>3. \A s \in Setting : writer'[s] # writer[s] => disk[writer'[s]].status = "open"
            BY <1>2, <3>1, <3>2
        <3>4. QED BY <1>1, <3>3, RecordsKept DEF Kept
    <2>10. QED BY <1>10, <1>12, <2>2, <2>3, <2>4, <2>5, <2>6, <2>7, <2>8, <2>9 DEF IInv
<1>15. QED BY <1>5, <1>13, <1>14

LEMMA BatchOrder ==
    ASSUME TypeOK, exec.pc # "idle"
    PROVE  (\A i \in Batch(exec.plan) : exec.at < i) => (\A i \in Batch(exec.plan) : exec.at <= i)
<1>1. exec.at \in Nat /\ exec.plan \in Plan
    BY DEF TypeOK, Execution
<1>2. Batch(exec.plan) \subseteq Nat
    BY <1>1, PlanFacts DEF Index
<1>3. \A a, b \in Nat : a < b => a <= b
    OBVIOUS
<1>4. QED BY <1>1, <1>2, <1>3

LEMMA SaveFacts ==
    ASSUME NEW j, Save(j), faults \in Nat
    PROVE  mem' = j /\ (disk' = disk \/ disk' = mem') /\ faults' \in Nat
BY DEF Save

LEMMA StandardOutcomeStep ==
    ASSUME IInv, StandardOutcome
    PROVE  IInv' /\ Kept
<1>1. /\ TypeOK /\ Reached /\ exec.pc = "outcome" /\ Save(mem) /\ Advance(exec.result)
      /\ UNCHANGED <<plan, helper, sys, writer, torn, crashes, edits>>
    BY DEF IInv, StandardOutcome, system
<1>2. mem' = mem /\ (disk' = disk \/ disk' = mem) /\ faults' \in Nat
    BY <1>1, SaveFacts DEF TypeOK
<1>3. Recorded /\ \A p \in Plan : helper[p].pc # "running"
    BY <1>1, <1>2, SameJournal, NobodyWaits
<1>4. exec.at \in DOMAIN Changes /\ exec.result \in [Index -> Result]
    BY <1>1 DEF Reached, Changes, TypeOK, Execution
<1>5. /\ \A i \in DOMAIN Changes \ Batch(exec.plan) :
             i > exec.at => mem'[<<exec.plan, i>>].status = "none"
      /\ (\A i \in Batch(exec.plan) : exec.at <= i) =>
             /\ helper[exec.plan].pc = "none"
             /\ \A i \in Batch(exec.plan) : mem'[<<exec.plan, i>>].status = "none"
      /\ \A i \in Index :
             exec.result[i] = "applied" => mem'[<<exec.plan, i>>].status = "applied"
    BY <1>1, <1>2 DEF Reached, Changes
<1>6. QED BY <1>1, <1>2, <1>3, <1>4, <1>5, BatchOrder, QuietAdvance

\* What is known while the intents of a batch are recorded.
LEMMA AtBatchFacts ==
    ASSUME IInv, AtBatch
    PROVE  /\ TypeOK /\ exec.pc \in {"next", "intents"} /\ exec.plan \in Plan
           /\ exec.at \in Batch(exec.plan) /\ HelperIndices = Batch(exec.plan)
           /\ \A i \in Batch(exec.plan) : exec.at <= i
           /\ exec.at \in DOMAIN Changes /\ exec.at \in Index
           /\ helper[exec.plan].pc = "none"
           /\ exec.pc = "intents" =>
                  \A i \in Batch(exec.plan) : mem[<<exec.plan, i>>] = disk[<<exec.plan, i>>]
           /\ \A i \in Batch(exec.plan) : mem[<<exec.plan, i>>].status \in {"none", "open"}
           /\ ~ \A i \in Batch(exec.plan) : exec.at < i
<1>1. TypeOK /\ Reached
    BY DEF IInv
<1>2. exec.pc \in {"next", "intents"} /\ HelperIndices = Batch(exec.plan) /\ exec.plan \in Plan
    BY <1>1, BatchFacts DEF AtBatch, TypeOK
<1>3. exec.at \in Batch(exec.plan) /\ \A i \in Batch(exec.plan) : exec.at <= i
    BY <1>1, <1>2 DEF AtBatch, FirstHelper, Reached
<1>4. /\ exec.at \in DOMAIN Changes /\ exec.at \in Index /\ Batch(exec.plan) \subseteq Index
    BY <1>1, <1>2, <1>3, PlanFacts DEF Changes
<1>5. helper[exec.plan].pc = "none"
    BY <1>1, <1>2, <1>3 DEF Reached
<1>6. /\ exec.pc = "intents" =>
             \A i \in Batch(exec.plan) : mem[<<exec.plan, i>>] = disk[<<exec.plan, i>>]
      /\ \A i \in Batch(exec.plan) : mem[<<exec.plan, i>>].status \in {"none", "open"}
    BY <1>1, <1>2, <1>3 DEF Reached
<1>7. ~ (exec.at < exec.at)
    BY <1>1 DEF TypeOK, Execution
<1>8. QED BY <1>1, <1>2, <1>3, <1>4, <1>5, <1>6, <1>7

\* A batch that is not sent: the results of its changes are known, and refused.
LEMMA RefusedBatch ==
    ASSUME IInv, AtBatch, UNCHANGED <<plan, helper, sys, writer, torn, crashes, edits>>,
           faults' \in Nat, Recorded, Advance(BatchResult(AllOf("refused"))),
           \A e \in Entry : \/ mem'[e] = BatchRefused(mem)[e]
                            \/ e[1] = exec.plan /\ e[2] \in Batch(exec.plan)
    PROVE  IInv' /\ Kept
<1>1. /\ TypeOK /\ exec.pc \in {"next", "intents"} /\ exec.plan \in Plan
      /\ exec.at \in Batch(exec.plan) /\ HelperIndices = Batch(exec.plan)
      /\ exec.at \in DOMAIN Changes /\ exec.at \in Index
      /\ ~ \A i \in Batch(exec.plan) : exec.at < i
    BY AtBatchFacts
<1>2. Reached /\ exec \in Execution /\ mem \in [Entry -> JournalEntry]
    BY <1>1 DEF IInv, TypeOK
<1> DEFINE r == BatchResult(AllOf("refused"))
<1>3. r \in [Index -> Result]
    BY <1>2, ResultFacts DEF Result
<1>4. \A i \in Index : r[i] = "applied" =>
          i \notin Batch(exec.plan) /\ exec.result[i] = "applied"
    BY <1>1 DEF BatchResult, AllOf
<1> HIDE DEF r
<1>5. ASSUME NEW i \in Index, i \notin Batch(exec.plan)
      PROVE  mem'[<<exec.plan, i>>] = mem[<<exec.plan, i>>]
    <2> DEFINE e == <<exec.plan, i>>
    <2>1. e \in Entry /\ e[1] = exec.plan /\ e[2] = i
        BY <1>1, EntryFacts
    <2> HIDE DEF e
    <2>2. mem'[e] = BatchRefused(mem)[e]
        BY <1>5, <2>1
    <2>3. BatchRefused(mem)[e] = mem[e]
        BY <1>1, <1>2, <1>5, <2>1, RefusedFacts
    <2>4. QED BY <2>2, <2>3 DEF e
<1>6. DOMAIN Changes \subseteq Index
    BY <1>1, PlanFacts DEF Changes
<1>7. \A i \in DOMAIN Changes \ Batch(exec.plan) :
          i > exec.at => mem'[<<exec.plan, i>>].status = "none"
    BY <1>1, <1>2, <1>5, <1>6 DEF Reached, Changes
<1>8. \A i \in Index : r[i] = "applied" => mem'[<<exec.plan, i>>].status = "applied"
    BY <1>1, <1>2, <1>4, <1>5 DEF Reached
<1>9. \A p \in Plan : helper[p].pc # "running"
    BY <1>1, NobodyWaits
<1>10. Advance(r)
    BY DEF r
<1>11. QED BY <1>1, <1>3, <1>7, <1>8, <1>9, <1>10, QuietAdvance

LEMMA NotSentStep ==
    ASSUME IInv, NotSent
    PROVE  IInv' /\ Kept
<1>1. /\ TypeOK /\ exec.pc = "intents" /\ AtBatch /\ mem \in [Entry -> JournalEntry]
      /\ Save(BatchRefused(mem)) /\ Advance(BatchResult(AllOf("refused")))
      /\ UNCHANGED <<plan, helper, sys, writer, torn, crashes, edits>>
    BY DEF IInv, TypeOK, NotSent, AtBatch, system
<1>2. mem' = BatchRefused(mem) /\ (disk' = disk \/ disk' = mem') /\ faults' \in Nat
    BY <1>1, SaveFacts DEF TypeOK
<1>3. mem' \in [Entry -> JournalEntry] /\ helper[exec.plan].pc = "none"
    BY <1>1, <1>2, RefusedFacts, AtBatchFacts
<1>4. Recorded
    BY <1>1, <1>2, <1>3, BatchRefusedRecords
<1>5. QED BY <1>1, <1>2, <1>4, RefusedBatch

LEMMA HelperIntentStep ==
    ASSUME IInv, NEW i \in Index, HelperIntent(i)
    PROVE  IInv' /\ Kept
<1> DEFINE here == <<exec.plan, i>>
           recorded == RecordIntent(mem, here, plan[exec.plan].prior[i])
<1>1. /\ TypeOK /\ exec.pc \in {"next", "intents"} /\ exec.plan \in Plan
      /\ exec.at \in Batch(exec.plan) /\ HelperIndices = Batch(exec.plan)
      /\ \A k \in Batch(exec.plan) : exec.at <= k
      /\ helper[exec.plan].pc = "none"
      /\ \A k \in Batch(exec.plan) : mem[<<exec.plan, k>>].status \in {"none", "open"}
      /\ AtBatch
    BY AtBatchFacts DEF HelperIntent
<1>2. /\ PlansInOrder /\ Reached /\ exec \in Execution /\ mem \in [Entry -> JournalEntry]
      /\ helper \in [Plan -> HelperProcess] /\ faults \in Nat
    BY <1>1 DEF IInv, TypeOK
<1>3. /\ i \in Batch(exec.plan) /\ mem[here].status = "none"
      /\ UNCHANGED <<plan, helper, sys, writer, torn, crashes, edits>>
    BY <1>1 DEF HelperIntent, Unrecorded, system
<1>4. i \in DOMAIN Changes /\ here \in Entry /\ here[1] = exec.plan /\ here[2] = i
    BY <1>1, <1>3, EntryFacts, PlanFacts DEF Changes
<1>5. Changes[i].setting # Point => plan[exec.plan].prior[i] \in Value
    BY <1>1, <1>2, <1>4 DEF PlansInOrder, Changes
<1>6. CASE /\ mem' = recorded /\ disk' = recorded
           /\ exec' = [exec EXCEPT !.pc = "intents"] /\ UNCHANGED faults
    <2>1. /\ Recorded /\ mem'[here].status = "open"
          /\ \A e \in Entry : e # here => mem'[e] = mem[e]
        BY <1>1, <1>3, <1>4, <1>5, <1>6, NewRecord
    <2>2. /\ exec' \in Execution /\ exec'.pc = "intents" /\ exec'.plan = exec.plan
          /\ exec'.at = exec.at /\ exec'.result = exec.result
        BY <1>2, <1>6 DEF Execution
    <2>3. HelperInOrder'
        BY <1>1, <1>3, <2>1, NobodyRuns, NobodyWaits, RecordsStay
    <2>4. \A k \in Index : k # i => mem'[<<exec.plan, k>>] = mem[<<exec.plan, k>>]
        BY <1>1, <2>1, EntryFacts
    <2>5. Batch(exec.plan) \subseteq Index /\ DOMAIN plan[exec.plan].changes \subseteq Index
        BY <1>1, PlanFacts
    <2>6. Reached'
        <3>1. \A q : Batch(q)' = Batch(q)
            BY <1>3 DEF Batch
        <3>2. \A k \in DOMAIN plan[exec.plan].changes \ Batch(exec.plan) :
                  k > exec.at => mem'[<<exec.plan, k>>].status = "none"
            BY <1>1, <1>2, <1>3, <2>4, <2>5 DEF Reached
        <3>3. \A k \in Batch(exec.plan) : mem'[<<exec.plan, k>>].status \in {"none", "open"}
            BY <1>1, <2>1, <2>4, <2>5
        <3>4. \A k \in Index :
                  exec'.result[k] = "applied" => mem'[<<exec.plan, k>>].status = "applied"
            BY <1>1, <1>2, <1>3, <2>2, <2>4 DEF Reached
        <3>5. plan' = plan /\ helper' = helper /\ disk' = mem'
            BY <1>3, <1>6
        <3>6. QED BY <1>1, <2>2, <3>1, <3>2, <3>3, <3>4, <3>5 DEF Reached
    <2>7. QED BY <1>1, <1>2, <1>3, <1>6, <2>1, <2>2, <2>3, <2>6, ExecutionStep
<1>7. CASE /\ faults' = faults + 1 /\ mem' = [BatchRefused(mem) EXCEPT ![here] = recorded[here]]
           /\ disk' \in {disk, mem'} /\ Advance(BatchResult(AllOf("refused")))
    <2>1. /\ recorded \in [Entry -> JournalEntry] /\ recorded[here].status = "open"
          /\ recorded[here].prior = plan[exec.plan].prior[i] /\ recorded[here].by = None
        <3> DEFINE v == plan[exec.plan].prior[i]
        <3>1. v \in Held /\ here \in Entry
            BY <1>1, <1>4, PlanFacts DEF Changes
        <3> HIDE DEF v, here
        <3>2. QED BY <1>2, <3>1, RecordedFacts DEF v
    <2>2. BatchRefused(mem) \in [Entry -> JournalEntry]
        BY <1>2, RefusedFacts
    <2> HIDE DEF recorded, here
    <2>3. /\ mem' \in [Entry -> JournalEntry] /\ mem'[here] = recorded[here]
          /\ \A e \in Entry : e # here => mem'[e] = BatchRefused(mem)[e]
        BY <1>4, <1>7, <2>1, <2>2
    <2>4. \A e \in Entry :
              \/ mem'[e] = BatchRefused(mem)[e]
              \/ /\ e[1] = exec.plan /\ e[2] \in Batch(exec.plan) /\ mem[e].status = "none"
                 /\ mem'[e].status = "open" /\ mem'[e].by = None
                 /\ mem'[e].prior = plan[exec.plan].prior[e[2]]
        BY <1>3, <1>4, <2>1, <2>3
    <2>5. Recorded
        BY <1>1, <1>7, <2>3, <2>4, BatchRefusedRecords
    <2>6. faults' \in Nat
        BY <1>2, <1>7
    <2>7. QED BY <1>1, <1>3, <1>7, <2>4, <2>5, <2>6, RefusedBatch
<1>8. QED BY <1>6, <1>7 DEF HelperIntent

LEMMA SentStep ==
    ASSUME IInv, Sent
    PROVE  IInv' /\ Kept
<1> DEFINE p == exec.plan
<1>1. /\ TypeOK /\ p \in Plan /\ exec.at \in Batch(p) /\ HelperIndices = Batch(p)
      /\ \A k \in Batch(p) : exec.at <= k
      /\ helper[p].pc = "none"
      /\ \A k \in Batch(p) : mem[<<p, k>>] = disk[<<p, k>>]
      /\ \A k \in Batch(p) : mem[<<p, k>>].status \in {"none", "open"}
      /\ exec.pc = "intents"
    BY AtBatchFacts DEF Sent, AtBatch
<1>2. /\ HelperInOrder /\ Reached /\ exec \in Execution /\ mem \in [Entry -> JournalEntry]
      /\ helper \in [Plan -> HelperProcess] /\ faults \in Nat /\ plan[p].state = "gone"
    BY <1>1 DEF IInv, TypeOK
<1>3. /\ UNCHANGED <<plan, mem, disk, sys, writer, torn, faults, crashes, edits>>
      /\ exec' = [exec EXCEPT !.pc = "wait"]
      /\ \A k \in Batch(p) : mem[<<p, k>>].status = "open"
    BY <1>1 DEF Sent, Unrecorded, system, bounds
<1>4. Batch(p) \subseteq Index /\ DOMAIN plan[p].changes \subseteq Index
    BY <1>1, PlanFacts
<1>5. /\ helper' \in [Plan -> HelperProcess]
      /\ helper'[p].pc = "running" /\ helper'[p].todo = Batch(p)
      /\ helper'[p].result = NoHelper.result
      /\ \A q \in Plan : q # p => helper'[q] = helper[q]
    <2> DEFINE h == [NoHelper EXCEPT !.pc = "running", !.todo = HelperIndices]
    <2>1. /\ h \in HelperProcess /\ h.pc = "running" /\ h.todo = HelperIndices
          /\ h.result = NoHelper.result
        BY <1>1, <1>4, SystemChangeAssumption DEF NoHelper, HelperProcess, Held, Result
    <2>2. helper' = [helper EXCEPT ![p] = h]
        BY DEF Sent
    <2> HIDE DEF h
    <2>3. QED BY <1>1, <1>2, <2>1, <2>2
<1>6. helper[p] = NoHelper
    BY <1>1, <1>2 DEF HelperInOrder
<1>7. \A q \in Plan : /\ helper'[q].result = helper[q].result
                      /\ helper[q].pc = "late" => helper'[q].pc = "late"
    BY <1>1, <1>5, <1>6
<1>8. /\ exec' \in Execution /\ exec'.pc = "wait" /\ exec'.plan = p
      /\ exec'.at = exec.at /\ exec'.result = exec.result
    BY <1>2, <1>3 DEF Execution
<1>9. Recorded
    BY <1>1, <1>3, SameJournal
<1>10. \A q : Batch(q)' = Batch(q)
    BY <1>3 DEF Batch
<1>11. HelperInOrder'
    <2>1. ASSUME NEW q \in Plan, q # p
          PROVE  /\ helper'[q].pc = "none" => helper'[q] = NoHelper
                 /\ helper'[q].pc # "running"
                 /\ helper'[q].pc = "done" => helper'[q].todo = {}
                 /\ helper'[q].pc # "none" =>
                        /\ plan[q].state = "gone" /\ helper'[q].todo \subseteq Batch(q)
                        /\ \A i \in Batch(q) :
                               /\ disk[<<q, i>>].status # "none"
                               /\ i \notin helper'[q].todo =>
                                      /\ helper'[q].result[i] \in {"applied", "refused"}
                                      /\ plan[q].changes[i].setting # Point =>
                                             helper'[q].seen[i] \in Value
                 /\ \A i \in Index : helper'[q].result[i] # "none" =>
                        i \in Batch(q) /\ i \notin helper'[q].todo
        <3>1. helper'[q] = helper[q] /\ helper[q].pc # "running"
            BY <1>1, <1>5, <2>1, NobodyWaits
        <3>2. QED BY <1>2, <3>1 DEF HelperInOrder
    <2>2. /\ plan[p].state = "gone" /\ helper'[p].todo = Batch(p)
          /\ \A i \in Batch(p) : disk[<<p, i>>].status # "none"
          /\ \A i \in Index : helper'[p].result[i] = "none"
        BY <1>1, <1>2, <1>3, <1>5, EmptyRecords
    <2>3. NoHelper' = NoHelper
        BY DEF NoHelper
    <2>4. QED BY <1>3, <1>5, <1>8, <1>10, <2>1, <2>2, <2>3 DEF HelperInOrder
<1>12. Reached'
    <2>1. \A k \in DOMAIN plan[p].changes \ Batch(p) :
              k > exec.at => mem[<<p, k>>].status = "none"
        BY <1>1, <1>2 DEF Reached
    <2>2. \A k \in Index : exec.result[k] = "applied" => mem[<<p, k>>].status = "applied"
        BY <1>1, <1>2 DEF Reached
    <2>3. QED BY <1>1, <1>3, <1>5, <1>8, <1>10, <2>1, <2>2 DEF Reached
<1>13. QED BY <1>1, <1>2, <1>3, <1>5, <1>7, <1>8, <1>9, <1>11, <1>12, ExecutionStep

\* What is known while a helper is waited for.
LEMMA AtWaitFacts ==
    ASSUME IInv, exec.pc = "wait"
    PROVE  /\ TypeOK /\ exec.plan \in Plan /\ exec.at \in Batch(exec.plan)
           /\ HelperIndices = Batch(exec.plan)
           /\ exec.at \in DOMAIN Changes /\ exec.at \in Index /\ Batch(exec.plan) \subseteq Index
           /\ \A k \in Batch(exec.plan) : mem[<<exec.plan, k>>].status = "open"
           /\ ~ \A i \in Batch(exec.plan) : exec.at < i
           /\ \A i \in DOMAIN Changes \ Batch(exec.plan) :
                  i > exec.at => mem[<<exec.plan, i>>].status = "none"
           /\ \A i \in Index :
                  exec.result[i] = "applied" => mem[<<exec.plan, i>>].status = "applied"
<1>1. TypeOK /\ Reached /\ exec.plan \in Plan
    BY DEF IInv, TypeOK
<1>2. HelperIndices = Batch(exec.plan) /\ exec.at \in Batch(exec.plan)
    BY <1>1, BatchFacts DEF Reached
<1>3. exec.at \in DOMAIN Changes /\ exec.at \in Index /\ Batch(exec.plan) \subseteq Index
    BY <1>1, <1>2, PlanFacts DEF Changes
<1>4. ~ (exec.at < exec.at)
    BY <1>1 DEF TypeOK, Execution
<1>5. /\ \A i \in DOMAIN Changes \ Batch(exec.plan) :
             i > exec.at => mem[<<exec.plan, i>>].status = "none"
      /\ \A i \in Index :
             exec.result[i] = "applied" => mem[<<exec.plan, i>>].status = "applied"
      /\ \A k \in Batch(exec.plan) : mem[<<exec.plan, k>>].status = "open"
    BY <1>1 DEF Reached, Changes
<1>6. QED BY <1>1, <1>2, <1>3, <1>4, <1>5

LEMMA ResponseLostStep ==
    ASSUME IInv, ResponseLost
    PROVE  IInv' /\ Kept
<1>1. /\ exec.pc = "wait" /\ Save(mem) /\ Advance(BatchResult(AllOf("unknown")))
      /\ helper' = GivenUp /\ UNCHANGED <<plan, sys, writer, torn, crashes, edits>>
    BY DEF ResponseLost, system
<1>2. /\ TypeOK /\ exec.plan \in Plan /\ HelperIndices = Batch(exec.plan)
      /\ exec.at \in DOMAIN Changes /\ exec.at \in Index
      /\ ~ \A i \in Batch(exec.plan) : exec.at < i
      /\ \A i \in DOMAIN Changes \ Batch(exec.plan) :
             i > exec.at => mem[<<exec.plan, i>>].status = "none"
      /\ \A i \in Index :
             exec.result[i] = "applied" => mem[<<exec.plan, i>>].status = "applied"
    BY <1>1, AtWaitFacts
<1>3. /\ HelperInOrder /\ exec \in Execution /\ helper \in [Plan -> HelperProcess]
      /\ faults \in Nat
    BY <1>2 DEF IInv, TypeOK
<1>4. mem' = mem /\ (disk' = disk \/ disk' = mem) /\ faults' \in Nat
    BY <1>1, <1>3, SaveFacts
<1> DEFINE r == BatchResult(AllOf("unknown"))
<1>5. r \in [Index -> Result]
    BY <1>3, ResultFacts DEF Result
<1>6. \A i \in Index : r[i] = "applied" => exec.result[i] = "applied"
    BY DEF BatchResult, AllOf
<1> HIDE DEF r
<1>7. Advance(r)
    BY <1>1 DEF r
<1>8. exec' \in Execution /\ exec'.pc = "next" /\ exec'.plan = exec.plan
    BY <1>2, <1>3, <1>5, <1>7, AdvanceFacts
<1>9. Reached'
    <2>1. \A i \in Index : r[i] = "applied" => mem'[<<exec.plan, i>>].status = "applied"
        BY <1>2, <1>4, <1>6
    <2>2. QED BY <1>1, <1>2, <1>4, <1>5, <1>7, <2>1, AdvanceReached
<1>10. Recorded
    BY <1>1, <1>4, SameJournal
<1>11. /\ helper' \in [Plan -> HelperProcess]
       /\ \A p \in Plan :
              /\ helper'[p].pc = IF helper[p].pc = "running" THEN "late" ELSE helper[p].pc
              /\ helper'[p].todo = helper[p].todo /\ helper'[p].seen = helper[p].seen
              /\ helper'[p].result = helper[p].result
              /\ helper[p].pc # "running" => helper'[p] = helper[p]
    BY <1>1, <1>3, GivenUpFacts
<1>12. HelperInOrder'
    BY <1>1, <1>2, <1>3, <1>10, <1>11, HelpersStay, RecordsStay
<1>13. QED BY <1>1, <1>4, <1>8, <1>9, <1>10, <1>11, <1>12, ExecutionStep

LEMMA AnsweredStep ==
    ASSUME IInv, Answered
    PROVE  IInv' /\ Kept
<1> DEFINE p == exec.plan
           h == helper[p]
           j == [e \in Entry |-> IF e[1] = p /\ e[2] \in HelperIndices
                   THEN [mem[e] EXCEPT !.status = h.result[e[2]], !.prior = h.seen[e[2]]]
                   ELSE mem[e]]
           r == BatchResult(h.result)
<1>1. /\ exec.pc = "wait" /\ h.pc = "done" /\ Save(j) /\ Advance(r)
      /\ UNCHANGED <<plan, helper, sys, writer, torn, crashes, edits>>
    BY DEF Answered, system
<1>2. /\ TypeOK /\ p \in Plan /\ HelperIndices = Batch(p)
      /\ exec.at \in DOMAIN Changes /\ exec.at \in Index /\ Batch(p) \subseteq Index
      /\ \A k \in Batch(p) : mem[<<p, k>>].status = "open"
      /\ ~ \A i \in Batch(p) : exec.at < i
      /\ \A i \in DOMAIN Changes \ Batch(p) : i > exec.at => mem[<<p, i>>].status = "none"
      /\ \A i \in Index : exec.result[i] = "applied" => mem[<<p, i>>].status = "applied"
    BY <1>1, AtWaitFacts
<1>3. /\ HelperInOrder /\ EffectsRecorded /\ Sound(mem) /\ exec \in Execution
      /\ helper \in [Plan -> HelperProcess] /\ faults \in Nat /\ mem \in [Entry -> JournalEntry]
    BY <1>2 DEF IInv, TypeOK
<1>4. /\ h.result \in [Index -> Result] /\ h.seen \in [Index -> Held]
      /\ \A i \in Batch(p) : /\ h.result[i] \in {"applied", "refused"}
                             /\ plan[p].changes[i].setting # Point => h.seen[i] \in Value
    <2>1. h.result \in [Index -> Result] /\ h.seen \in [Index -> Held]
        BY <1>2, <1>3 DEF HelperProcess
    <2>2. h.todo = {} /\ h.pc # "none"
        BY <1>1, <1>2, <1>3 DEF HelperInOrder
    <2>3. \A i \in Batch(p) : i \notin h.todo =>
              /\ h.result[i] \in {"applied", "refused"}
              /\ plan[p].changes[i].setting # Point => h.seen[i] \in Value
        BY <1>2, <1>3, <2>2 DEF HelperInOrder
    <2>4. QED BY <2>1, <2>2, <2>3
<1> HIDE DEF j
<1>5. mem' = j /\ (disk' = disk \/ disk' = mem') /\ faults' \in Nat
    BY <1>1, <1>3, SaveFacts
<1>6. ASSUME NEW e \in Entry, e[1] = p /\ e[2] \in Batch(p)
      PROVE  /\ mem'[e] \in JournalEntry /\ mem[e].status = "open"
             /\ mem'[e].status = h.result[e[2]]
             /\ mem'[e].prior = h.seen[e[2]] /\ mem'[e].by = mem[e].by
    <2>1. mem[e] \in JournalEntry /\ e = <<p, e[2]>>
        BY <1>3, <1>6, EntryParts
    <2>2. mem'[e] = [mem[e] EXCEPT !.status = h.result[e[2]], !.prior = h.seen[e[2]]]
        BY <1>2, <1>5, <1>6 DEF j
    <2>3. h.result[e[2]] \in {"applied", "refused"} /\ h.seen[e[2]] \in Held
        BY <1>2, <1>4, <1>6
    <2>4. mem[e].status = "open"
        BY <1>2, <1>6, <2>1
    <2> HIDE DEF h
    <2>5. QED BY <2>1, <2>2, <2>3, <2>4 DEF JournalEntry
<1>7. \A e \in Entry : ~ (e[1] = p /\ e[2] \in Batch(p)) => mem'[e] = mem[e]
    BY <1>2, <1>5 DEF j
<1>8. mem' \in [Entry -> JournalEntry]
    <2>1. \A e \in Entry : mem'[e] \in JournalEntry
        BY <1>3, <1>6, <1>7
    <2>2. mem' = [e \in Entry |-> mem'[e]]
        BY <1>5 DEF j
    <2>3. QED BY <2>1, <2>2
<1>9. ASSUME NEW e \in Entry PROVE mem'[e] = mem[e] \/ Rerecorded(e)
    <2>1. CASE ~ (e[1] = p /\ e[2] \in Batch(p))
        BY <1>7, <2>1
    <2>2. CASE e[1] = p /\ e[2] \in Batch(p)
        <3>1. /\ mem[e].status = "open" /\ mem'[e].status \in {"applied", "refused"}
              /\ mem'[e].by = mem[e].by
              /\ plan[p].changes[e[2]].setting # Point => mem'[e].prior \in Value
            BY <1>4, <1>6, <2>2
        <3>2. mem'[e].by = None
            BY <1>3, <3>1 DEF Sound, SoundEntry
        <3>3. ASSUME NEW s \in Setting, writer[s] = e, e \notin torn
              PROVE  mem'[e].status = "applied"
            <4>1. EffectRecorded(s) /\ e # None
                BY <1>3, EntryParts DEF EffectsRecorded
            <4>2. s \in Helper
                BY <2>2, <3>3, <4>1 DEF EffectRecorded, ChangeOf, Batch
            <4>3. h.result[e[2]] = "applied"
                BY <2>2, <3>3, <4>1, <4>2 DEF EffectRecorded
            <4>4. QED BY <1>6, <2>2, <4>3
        <3>4. e[2] \in DOMAIN Changes
            BY <2>2 DEF Batch, Changes
        <3>5. QED BY <2>2, <3>1, <3>2, <3>3, <3>4 DEF Rerecorded, Changes
    <2>3. QED BY <2>1, <2>2
<1>10. Recorded
    BY <1>1, <1>5, <1>8, <1>9, RecordedAgain
<1>11. ASSUME NEW i \in Index, i \notin Batch(p)
       PROVE  mem'[<<p, i>>] = mem[<<p, i>>]
    BY <1>2, <1>7, <1>11, EntryFacts
<1>12. \A i \in DOMAIN Changes \ Batch(p) : i > exec.at => mem'[<<p, i>>].status = "none"
    <2>1. DOMAIN Changes \subseteq Index
        BY <1>2, PlanFacts DEF Changes
    <2>2. QED BY <1>2, <1>11, <2>1
<1>13. r \in [Index -> Result]
    BY <1>3, <1>4, ResultFacts
<1>14. ASSUME NEW i \in Index, r[i] = "applied" PROVE mem'[<<p, i>>].status = "applied"
    <2>1. CASE i \in Batch(p)
        <3>1. h.result[i] = "applied"
            BY <1>2, <1>14, <2>1 DEF BatchResult
        <3>2. <<p, i>> \in Entry /\ <<p, i>>[1] = p /\ <<p, i>>[2] = i
            BY <1>2, EntryFacts
        <3>3. QED BY <1>6, <2>1, <3>1, <3>2
    <2>2. CASE i \notin Batch(p)
        <3>1. exec.result[i] = "applied"
            BY <1>2, <1>14, <2>2 DEF BatchResult
        <3>2. QED BY <1>2, <1>11, <2>2, <3>1
    <2>3. QED BY <2>1, <2>2
<1>15. \A q \in Plan : helper[q].pc # "running"
    BY <1>1, <1>3 DEF HelperInOrder
<1> HIDE DEF r, h
<1>16. QED BY <1>1, <1>2, <1>5, <1>10, <1>12, <1>13, <1>14, <1>15, QuietAdvance

LEMMA FinishStep ==
    ASSUME IInv, Finish
    PROVE  IInv' /\ Kept
<1> DEFINE p == exec.plan
<1>1. /\ exec.pc = "next" /\ mem' = [e \in Entry |-> NoEntry] /\ exec' = Idle
      /\ UNCHANGED <<plan, helper, sys, writer, torn, crashes, edits>>
      /\ \/ disk' = MarkRolledBack(mem) /\ faults' = faults
         \/ disk' = disk /\ faults' = faults + 1
    BY DEF Finish, system
<1>2. /\ TypeOK /\ Reached /\ PlansInOrder /\ Sound(mem) /\ Sound(disk) /\ Ahead
      /\ EffectsRecorded /\ GuardedByRestorePoint /\ Valued /\ p \in Plan
      /\ mem \in [Entry -> JournalEntry]
    BY <1>1 DEF IInv, TypeOK
<1>3. /\ MarkRolledBack(mem) \in [Entry -> JournalEntry]
      /\ \A e \in Entry :
           /\ MarkRolledBack(mem)[e].status = mem[e].status
           /\ MarkRolledBack(mem)[e].prior = mem[e].prior
           /\ \/ MarkRolledBack(mem)[e] = mem[e]
              \/ \E i \in DOMAIN Changes :
                   /\ plan[p].undoes[i] = e /\ exec.result[i] = "applied"
                   /\ MarkRolledBack(mem)[e].by = <<p, i>>
    BY <1>1, <1>2, MarkedFacts
<1>4. \A e \in Entry :
          /\ disk[e].status # "none" => disk'[e].status # "none"
          /\ disk[e].status \in {"applied", "refused"} =>
                 disk'[e].status = disk[e].status /\ disk'[e].prior = disk[e].prior
          /\ disk'[e].status \in {disk[e].status, mem[e].status}
    BY <1>1, <1>2, <1>3 DEF Ahead
<1>5. TypeOK'
    BY <1>1, <1>2, <1>3, EmptyRecords DEF TypeOK
<1>6. PlansInOrder'
    BY <1>1, <1>4, OrderStays
<1>7. ASSUME NEW e \in Entry PROVE SoundEntry(disk', e)
    <2>1. CASE disk' = disk
        BY <1>2, <2>1 DEF Sound
    <2>2. CASE disk' = MarkRolledBack(mem)
        <3>1. SoundEntry(mem, e) /\ mem[e].by \in Entry \cup {None}
            BY <1>2 DEF Sound, JournalEntry
        <3>2. \A d \in Entry : disk'[d].status = mem[d].status /\ disk'[d].prior = mem[d].prior
            BY <1>3, <2>2
        <3>3. CASE disk'[e] = mem[e]
            BY <3>1, <3>2, <3>3 DEF SoundEntry
        <3>4. ASSUME NEW i \in DOMAIN Changes, plan[p].undoes[i] = e,
                     exec.result[i] = "applied", disk'[e].by = <<p, i>>
              PROVE  SoundEntry(disk', e)
            <4>1. i \in Index /\ <<p, i>> \in Entry /\ <<p, i>>[1] = p /\ <<p, i>>[2] = i /\ e # None
                BY <1>2, PlanFacts, EntryFacts, EntryParts DEF Changes
            <4>2. mem[<<p, i>>].status = "applied"
                BY <1>1, <1>2, <3>4, <4>1 DEF Reached
            <4>3. /\ disk[e].status = "applied"
                  /\ Changes[i] = [setting |-> ChangeOf(e).setting, value |-> disk[e].prior]
                BY <1>2, <3>4, <4>1 DEF PlansInOrder, Changes
            <4>4. mem[e] = disk[e]
                BY <1>1, <1>2, <4>3 DEF Ahead
            <4>5. ChangeOf(disk'[e].by) = Changes[i]
                BY <3>4, <4>1 DEF ChangeOf, Changes
            <4>6. /\ disk'[e].status = "applied" /\ disk'[disk'[e].by].status = "applied"
                  /\ ChangeOf(disk'[e].by) = [setting |-> ChangeOf(e).setting, value |-> disk'[e].prior]
                BY <3>2, <3>4, <4>1, <4>2, <4>3, <4>4, <4>5
            <4>7. disk'[e].status = mem[e].status /\ disk'[e].prior = mem[e].prior
                BY <3>2
            <4>8. QED BY <3>1, <4>6, <4>7 DEF SoundEntry
        <3>5. QED BY <1>3, <2>2, <3>3, <3>4
    <2>3. QED BY <1>1, <2>1, <2>2
<1>8. Sound(disk)' /\ Sound(mem)'
    <2>1. Sound(disk')
        BY <1>7 DEF Sound
    <2>2. Sound(mem)'
        BY <1>1, EmptyRecords DEF Sound, SoundEntry
    <2>3. QED BY <1>1, <2>1, <2>2, SoundStays
<1>9. Valued' /\ Ahead' /\ Reached'
    BY <1>1, <1>2, EmptyRecords DEF Valued, Ahead, Reached
<1>10. HelperInOrder'
    BY <1>1, <1>4, NobodyRuns, NobodyWaits
<1>11. EffectsRecorded'
    <2>1. ASSUME NEW s \in Setting, writer[s] # None
          PROVE  /\ disk'[writer[s]].status # "none"
                 /\ \/ s = Point \/ writer[s] \in torn
                    \/ helper'[writer[s][1]].pc = "late"
                    \/ /\ disk'[writer[s]].status \in {"open", "applied"}
                       /\ exec'.pc # "idle" => mem'[writer[s]].status \in {"open", "applied"}
        <3>1. writer[s] \in Entry /\ EffectRecorded(s)
            BY <1>2, <2>1 DEF TypeOK, EffectsRecorded
        <3>2. exec'.pc = "idle"
            BY <1>1, EmptyRecords
        <3>3. QED BY <1>1, <1>4, <2>1, <3>1, <3>2 DEF EffectRecorded
    <2>2. QED BY <1>1, <1>2, <2>1, EffectsStay
<1>12. GuardedByRestorePoint'
    BY <1>1, <1>2, GuardStays
<1>13. Kept
    <2>1. \A e \in Entry : disk[e].by # None =>
              disk[e].status = "applied" /\ (disk'[e] = disk[e] \/ disk'[e].by \in Entry)
        <3> SUFFICES ASSUME NEW e \in Entry, disk[e].by # None
                     PROVE  disk[e].status = "applied" /\ (disk'[e] = disk[e] \/ disk'[e].by \in Entry)
            OBVIOUS
        <3>1. disk[e].status = "applied"
            BY <1>2 DEF Sound, SoundEntry
        <3>2. mem[e] = disk[e]
            BY <1>1, <1>2, <3>1 DEF Ahead
        <3>3. \A i \in DOMAIN Changes : <<p, i>> \in Entry
            BY <1>2, PlanFacts, EntryFacts DEF Changes
        <3>4. CASE disk' = disk
            BY <3>1, <3>4
        <3>5. CASE disk' = MarkRolledBack(mem)
            <4>1. \/ disk'[e] = mem[e]
                  \/ \E i \in DOMAIN Changes : disk'[e].by = <<p, i>>
                BY <1>3, <3>5
            <4>2. QED BY <3>1, <3>2, <3>3, <4>1
        <3>6. QED BY <1>1, <3>4, <3>5
    <2>2. \A e \in Entry : e # None /\ disk[e].status \in {"none", "open", "applied", "refused"}
        BY <1>2, EntryParts DEF TypeOK, JournalEntry
    <2>3. QED BY <1>1, <1>4, <2>1, <2>2 DEF Kept
<1>14. QED BY <1>5, <1>6, <1>8, <1>9, <1>10, <1>11, <1>12, <1>13 DEF IInv
-----------------------------------------------------------------------------
(* Helpers, reconciliation, restarts and other programs keep the invariant *)

\* A helper works off one change: what it writes has a record, and a permanent
\* change comes after the restore point.
LEMMA HelperItemStep ==
    ASSUME IInv, NEW p \in Plan, NEW i \in Index, HelperItem(p, i)
    PROVE  IInv' /\ Kept
<1> DEFINE c == plan[p].changes[i]
           here == <<p, i>>
<1>1. /\ TypeOK /\ PlansInOrder /\ Valued /\ Sound(mem) /\ Sound(disk) /\ Ahead /\ Reached
      /\ HelperInOrder /\ EffectsRecorded /\ GuardedByRestorePoint
      /\ helper \in [Plan -> HelperProcess] /\ sys \in [Setting -> Held]
      /\ writer \in [Setting -> Entry \cup {None}]
    BY DEF IInv, TypeOK
<1>2. /\ UNCHANGED <<plan, exec, mem, disk, crashes, edits>>
      /\ helper[p].pc \in {"running", "late"} /\ i \in helper[p].todo
    BY DEF HelperItem
<1>3. /\ plan[p].state = "gone" /\ i \in Batch(p) /\ helper[p].todo \subseteq Batch(p)
      /\ disk[here].status # "none" /\ helper[p].result[i] = "none"
    BY <1>1, <1>2 DEF HelperInOrder
<1>4. /\ c \in Change /\ c.setting \in Setting /\ c.setting \in Helper /\ c.value \in Held
      /\ c.setting # Point => c.value \in Value
      /\ here \in Entry /\ here[1] = p /\ here[2] = i /\ here # None /\ ChangeOf(here) = c
      /\ sys[c.setting] \in Held
    <2>1. c \in Change /\ c.setting \in Helper
        BY <1>1, <1>3, PlanFacts DEF Batch
    <2>2. here \in Entry /\ here[1] = p /\ here[2] = i /\ here # None
        BY EntryFacts
    <2>3. /\ c.setting \in Setting /\ c.value \in Held /\ (c.setting # Point => c.value \in Value)
        BY <2>1, ChangeFacts
    <2>4. QED BY <1>1, <2>1, <2>2, <2>3 DEF ChangeOf
\* The adapter sets the setting to v; if it is refused for all that, the entry is torn.
<1> DEFINE Sets(r, v) ==
               /\ sys' = [sys EXCEPT ![c.setting] = v]
               /\ writer' = [writer EXCEPT ![c.setting] = here]
               /\ c.setting # Point => v \in Value
               /\ r = "applied" => torn' = torn /\ v = c.value
               /\ r = "refused" => torn' = torn \cup {here}
<1>5. PICK r \in {"applied", "refused"} :
          /\ helper' = [helper EXCEPT ![p].todo = @ \ {i}, ![p].result[i] = r,
                                      ![p].seen[i] = sys[c.setting]]
          /\ faults' \in Nat
          /\ r = "applied" =>
                 /\ ~ Satisfied(c) /\ sys[c.setting] = plan[p].prior[i]
                 /\ ~ (c.setting \in Irreversible /\ RestorePointMissing(p, i))
          /\ \/ r = "refused" /\ UNCHANGED <<sys, writer, torn>>
             \/ \E v \in Held : Sets(r, v)
    <2>1. faults \in Nat /\ ChangeOf(here) = c
        BY <1>1, <1>4 DEF TypeOK
    <2>2. Write(here) => Sets("applied", c.value)
        BY <1>4, <2>1 DEF Write
    <2>3. ASSUME WriteThenFail(here)
          PROVE  faults' \in Nat /\ \E v \in Held : Sets("refused", v)
        <3>1. PICK v \in Value : sys' = [sys EXCEPT ![c.setting] = v]
            BY <2>1, <2>3 DEF WriteThenFail
        <3>2. /\ writer' = [writer EXCEPT ![c.setting] = here] /\ torn' = torn \cup {here}
              /\ faults' = faults + 1
            BY <2>1, <2>3 DEF WriteThenFail
        <3>3. Sets("refused", v)
            BY <3>1, <3>2
        <3>4. v \in Held
            BY DEF Held
        <3> HIDE DEF Sets
        <3>5. QED BY <2>1, <3>2, <3>3, <3>4
    <2> DEFINE done(r) == helper' = [helper EXCEPT ![p].todo = @ \ {i}, ![p].result[i] = r,
                                                   ![p].seen[i] = sys[c.setting]]
    <2>4. \/ /\ ~ Satisfied(c) /\ sys[c.setting] = plan[p].prior[i]
             /\ ~ (c.setting \in Irreversible /\ RestorePointMissing(p, i))
             /\ \/ Write(here) /\ done("applied") /\ UNCHANGED faults
                \/ WriteThenFail(here) /\ done("refused")
          \/ done("refused") /\ UNCHANGED <<sys, writer, torn, faults>>
        BY DEF HelperItem, system
    <2> HIDE DEF Sets, done, c, here
    <2>5. PICK r \in {"applied", "refused"} :
              /\ done(r) /\ faults' \in Nat
              /\ r = "applied" =>
                     /\ ~ Satisfied(c) /\ sys[c.setting] = plan[p].prior[i]
                     /\ ~ (c.setting \in Irreversible /\ RestorePointMissing(p, i))
              /\ \/ r = "refused" /\ UNCHANGED <<sys, writer, torn>>
                 \/ \E v \in Held : Sets(r, v)
        BY <1>4, <2>1, <2>2, <2>3, <2>4
    <2>6. QED BY <2>5 DEF done
<1>6. /\ helper' \in [Plan -> HelperProcess]
      /\ \A q \in Plan : q # p => helper'[q] = helper[q]
      /\ helper'[p].pc = helper[p].pc
      /\ helper'[p].todo = helper[p].todo \ {i}
      /\ helper'[p].result[i] = r /\ helper'[p].seen[i] = sys[c.setting]
      /\ \A k \in Index : k # i => /\ helper'[p].result[k] = helper[p].result[k]
                                   /\ helper'[p].seen[k] = helper[p].seen[k]
    <2>1. r \in Result
        BY <1>5 DEF Result
    <2> DEFINE v == sys[c.setting]
    <2>2. v \in Held /\ helper' = [helper EXCEPT ![p].todo = @ \ {i}, ![p].result[i] = r,
                                                 ![p].seen[i] = v]
        BY <1>4, <1>5
    <2> HIDE DEF v
    <2> DEFINE h == [helper[p] EXCEPT !.todo = helper[p].todo \ {i},
                        !.result = [helper[p].result EXCEPT ![i] = r],
                        !.seen = [helper[p].seen EXCEPT ![i] = v]]
    <2>3. helper' = [helper EXCEPT ![p] = h]
        BY <1>1, <2>2
    <2>4. helper[p] \in HelperProcess
        BY <1>1
    <2>5. /\ h \in HelperProcess /\ h.pc = helper[p].pc /\ h.todo = helper[p].todo \ {i}
          /\ h.result = [helper[p].result EXCEPT ![i] = r]
          /\ h.seen = [helper[p].seen EXCEPT ![i] = v]
        BY <2>1, <2>2, <2>4 DEF HelperProcess
    <2>6. helper[p].result \in [Index -> Result] /\ helper[p].seen \in [Index -> Held]
        BY <2>4 DEF HelperProcess
    <2> HIDE DEF h
    <2>7. helper' \in [Plan -> HelperProcess] /\ helper'[p] = h
          /\ \A q \in Plan : q # p => helper'[q] = helper[q]
        BY <1>1, <2>3, <2>5
    <2>8. QED BY <2>5, <2>6, <2>7 DEF v
<1> DEFINE Written ==
               /\ sys' \in [Setting -> Held] /\ writer' \in [Setting -> Entry \cup {None}]
               /\ torn' \in SUBSET Entry
               /\ \A s \in Setting : s # c.setting => sys'[s] = sys[s] /\ writer'[s] = writer[s]
               /\ c.setting # Point => sys'[c.setting] \in Value
               /\ torn \subseteq torn' /\ torn' \subseteq torn \cup {here}
               /\ \/ UNCHANGED <<sys, writer, torn>>
                  \/ /\ writer'[c.setting] = here
                     /\ here \in torn' \/ (r = "applied" /\ sys'[c.setting] = c.value)
<1>7. Written
    <2>1. CASE UNCHANGED <<sys, writer, torn>>
        BY <1>1, <1>4, <2>1 DEF Valued, TypeOK
    <2>2. ASSUME NEW v \in Held, Sets(r, v)
          PROVE  Written
        <3>1. /\ sys' = [sys EXCEPT ![c.setting] = v]
              /\ writer' = [writer EXCEPT ![c.setting] = here]
              /\ c.setting # Point => v \in Value
              /\ r = "applied" => torn' = torn /\ v = c.value
              /\ r = "refused" => torn' = torn \cup {here}
            BY <2>2
        <3> HIDE DEF c, here, Sets
        <3>2. torn \in SUBSET Entry
            BY <1>1 DEF TypeOK
        <3>3. sys' \in [Setting -> Held] /\ writer' \in [Setting -> Entry \cup {None}]
            BY <1>1, <1>4, <3>1
        <3>4. /\ sys'[c.setting] = v /\ writer'[c.setting] = here
              /\ \A s \in Setting : s # c.setting => sys'[s] = sys[s] /\ writer'[s] = writer[s]
            BY <1>1, <1>4, <3>1
        <3>5. /\ torn' \in SUBSET Entry /\ torn \subseteq torn' /\ torn' \subseteq torn \cup {here}
              /\ here \in torn' \/ (r = "applied" /\ v = c.value)
            BY <1>4, <1>5, <3>1, <3>2
        <3>6. QED BY <3>1, <3>3, <3>4, <3>5
    <2>3. QED BY <1>5, <2>1, <2>2
<1> HIDE DEF c, here, Sets
<1>8. TypeOK'
    BY <1>1, <1>2, <1>5, <1>6, <1>7 DEF TypeOK
<1>9. PlansInOrder'
    BY <1>2, OrderStays
<1>10. Valued'
    BY <1>1, <1>7 DEF Valued
<1>11. Sound(mem)' /\ Sound(disk)'
    BY <1>1, <1>2, SoundStays
<1>12. Ahead'
    BY <1>1, <1>2 DEF Ahead
<1>13. Reached'
    <2>1. \A s \in Setting : \/ writer'[s] = writer[s] \/ writer'[s] = None
                             \/ \E q \in Plan, k \in Index : k \in Batch(q) /\ writer'[s] = <<q, k>>
        BY <1>3, <1>5, <1>7 DEF here
    <2>2. \A q \in Plan : helper'[q].pc = "none" <=> helper[q].pc = "none"
        BY <1>6
    <2>3. QED BY <1>1, <1>2, <2>1, <2>2, ReachedStays
<1>14. HelperInOrder'
    <2>1. \A q : Batch(q)' = Batch(q)
        BY <1>2 DEF Batch
    <2>2. ASSUME NEW q \in Plan
          PROVE  /\ helper'[q].pc = "none" => helper'[q] = NoHelper
                 /\ helper'[q].pc = "running" => exec.pc = "wait" /\ exec.plan = q
                 /\ helper'[q].pc = "done" => helper'[q].todo = {}
                 /\ helper'[q].pc # "none" =>
                        /\ plan[q].state = "gone" /\ helper'[q].todo \subseteq Batch(q)
                        /\ \A k \in Batch(q) :
                               /\ disk[<<q, k>>].status # "none"
                               /\ k \notin helper'[q].todo =>
                                      /\ helper'[q].result[k] \in {"applied", "refused"}
                                      /\ plan[q].changes[k].setting # Point =>
                                             helper'[q].seen[k] \in Value
                 /\ \A k \in Index : helper'[q].result[k] # "none" =>
                        k \in Batch(q) /\ k \notin helper'[q].todo
        <3>1. CASE q # p
            BY <1>1, <1>6, <3>1 DEF HelperInOrder
        <3>2. CASE q = p
            <4>1. /\ helper'[p].pc \in {"running", "late"}
                  /\ helper'[p].pc = "running" => exec.pc = "wait" /\ exec.plan = p
                BY <1>1, <1>2, <1>6 DEF HelperInOrder
            <4>2. helper'[p].todo \subseteq Batch(p)
                BY <1>3, <1>6
            <4>3. ASSUME NEW k \in Batch(p)
                  PROVE  /\ disk[<<p, k>>].status # "none"
                         /\ k \notin helper'[p].todo =>
                                /\ helper'[p].result[k] \in {"applied", "refused"}
                                /\ plan[p].changes[k].setting # Point => helper'[p].seen[k] \in Value
                <5>1. /\ disk[<<p, k>>].status # "none"
                      /\ k \notin helper[p].todo =>
                             /\ helper[p].result[k] \in {"applied", "refused"}
                             /\ plan[p].changes[k].setting # Point => helper[p].seen[k] \in Value
                    BY <1>1, <1>2 DEF HelperInOrder
                <5>2. k \in Index
                    BY <1>1, PlanFacts
                <5>3. CASE k = i
                    <6>1. c.setting # Point => sys[c.setting] \in Value
                        BY <1>1, <1>4 DEF Valued
                    <6>2. plan[p].changes[k].setting = c.setting
                        BY <5>3 DEF c
                    <6>3. helper'[p].result[k] = r /\ helper'[p].seen[k] = sys[c.setting]
                        BY <1>6, <5>3
                    <6>4. QED BY <1>5, <5>1, <6>1, <6>2, <6>3
                <5>4. CASE k # i
                    BY <1>6, <5>1, <5>2, <5>4
                <5>5. QED BY <5>3, <5>4
            <4>4. \A k \in Index : helper'[p].result[k] # "none" =>
                      k \in Batch(p) /\ k \notin helper'[p].todo
                BY <1>1, <1>3, <1>6 DEF HelperInOrder
            <4>5. QED BY <1>3, <3>2, <4>1, <4>2, <4>3, <4>4
        <3>3. QED BY <3>1, <3>2
    <2>3. NoHelper' = NoHelper
        BY DEF NoHelper
    <2>4. QED BY <1>2, <2>1, <2>2, <2>3 DEF HelperInOrder
<1>15. EffectsRecorded'
    <2>1. ASSUME NEW s \in Setting, writer'[s] # None, writer'[s] = writer[s], sys'[s] = sys[s]
          PROVE  EffectRecorded(s)'
        <3>1. EffectRecorded(s) /\ writer[s] \in Entry /\ writer[s] # None
            BY <1>1, <2>1 DEF EffectsRecorded
        <3>2. writer[s][1] \in Plan /\ writer[s][2] \in Index
              /\ writer[s] = <<writer[s][1], writer[s][2]>>
            BY <3>1, EntryParts
        <3>3. helper[writer[s][1]].result[writer[s][2]] # "none" => writer[s] # here
            BY <1>3, <1>4
        <3>4. helper[writer[s][1]].result[writer[s][2]] # "none" =>
                  helper'[writer[s][1]].result[writer[s][2]] =
                      helper[writer[s][1]].result[writer[s][2]]
            BY <1>6, <3>2, <3>3 DEF here
        <3>5. helper'[writer[s][1]].pc = helper[writer[s][1]].pc
            BY <1>6, <3>2
        <3>6. writer[s] \in torn => writer[s] \in torn'
            BY <1>7
        <3>7. QED BY <1>2, <2>1, <3>1, <3>4, <3>5, <3>6 DEF EffectRecorded, ChangeOf
    <2>2. ASSUME NEW s \in Setting, writer'[s] = here, ~ UNCHANGED <<sys, writer, torn>>
          PROVE  EffectRecorded(s)'
        <3>1. s = c.setting
            <4>1. ASSUME s # c.setting PROVE FALSE
                <5>1. writer[s] = here /\ EffectRecorded(s)
                    BY <1>1, <1>7, <2>2, <4>1 DEF EffectsRecorded
                <5>2. ChangeOf(here).setting = s
                    BY <1>4, <5>1 DEF EffectRecorded
                <5>3. QED BY <1>4, <4>1, <5>2
            <4>2. QED BY <4>1
        <3>2. /\ disk[here].status # "none"
              /\ helper'[here[1]].result[here[2]] = r
              /\ plan'[here[1]].changes[here[2]] = c
              /\ here \in torn' \/ (r = "applied" /\ sys'[s] = c.value)
            BY <1>2, <1>3, <1>4, <1>6, <1>7, <2>2, <3>1 DEF c
        <3>3. ASSUME s # Point, r = "applied"
              PROVE  /\ plan[p].prior[i] # c.value
                     /\ \/ helper'[p].pc = "late"
                        \/ /\ disk[here].status \in {"open", "applied"}
                           /\ exec.pc # "idle" => mem[here].status \in {"open", "applied"}
            <4>1. plan[p].prior[i] # c.value
                BY <1>5, <2>2, <3>1, <3>3 DEF Satisfied
            <4>2. CASE helper[p].pc = "running"
                <5>1. exec.pc = "wait" /\ exec.plan = p
                    BY <1>1, <4>2 DEF HelperInOrder
                <5>2. mem[here].status = "open" /\ mem[here] = disk[here]
                    BY <1>1, <1>3, <5>1 DEF Reached, here
                <5>3. QED BY <4>1, <5>2
            <4>3. CASE helper[p].pc = "late"
                BY <1>6, <4>1, <4>3
            <4>4. QED BY <1>2, <4>2, <4>3
        <3>4. /\ plan'[writer'[s][1]].changes[writer'[s][2]].setting = s
              /\ disk'[writer'[s]].status # "none"
              /\ helper'[writer'[s][1]].result[writer'[s][2]] = r
            BY <1>2, <2>2, <3>1, <3>2
        <3>5. CASE here \in torn'
            <4>1. writer'[s] \in torn' /\ r # "none"
                BY <1>5, <2>2, <3>5
            <4>2. QED BY <3>4, <4>1 DEF EffectRecorded, ChangeOf
        <3>6. CASE r = "applied" /\ sys'[s] = c.value
            <4>1. s # Point =>
                    /\ sys'[s] = plan'[writer'[s][1]].changes[writer'[s][2]].value
                    /\ plan'[writer'[s][1]].prior[writer'[s][2]] # sys'[s]
                    /\ \/ helper'[writer'[s][1]].pc = "late"
                       \/ /\ disk'[writer'[s]].status \in {"open", "applied"}
                          /\ exec'.pc # "idle" => mem'[writer'[s]].status \in {"open", "applied"}
                BY <1>2, <1>4, <2>2, <3>1, <3>2, <3>3, <3>6
            <4>2. QED BY <3>4, <3>6, <4>1 DEF EffectRecorded, ChangeOf
        <3>7. QED BY <3>2, <3>5, <3>6
    <2>3. \A s \in Setting : \/ writer'[s] = writer[s] /\ sys'[s] = sys[s]
                             \/ writer'[s] = here /\ ~ UNCHANGED <<sys, writer, torn>>
        BY <1>7
    <2>4. QED BY <2>1, <2>2, <2>3 DEF EffectsRecorded, EffectRecorded
<1>16. GuardedByRestorePoint'
    <2> SUFFICES ASSUME NEW q \in Plan, NEW k \in Index, NEW l \in Index,
                        k < l, l \in DOMAIN plan[q].changes,
                        plan[q].changes[k].setting = Point,
                        plan[q].changes[l].setting \in Irreversible,
                        helper'[q].result[l] = "applied"
                 PROVE  helper'[q].result[k] = "applied"
        BY <1>2 DEF GuardedByRestorePoint
    <2>1. CASE q # p
        BY <1>1, <1>6, <2>1 DEF GuardedByRestorePoint
    <2>2. CASE q = p /\ l # i
        <3>1. helper[p].result[l] = "applied"
            BY <1>6, <2>2
        <3>2. helper[p].result[k] = "applied"
            BY <1>1, <2>2, <3>1 DEF GuardedByRestorePoint
        <3>3. QED BY <1>3, <1>6, <2>2, <3>2
    <2>3. CASE q = p /\ l = i
        <3>1. r = "applied" /\ c.setting \in Irreversible
            BY <1>5, <1>6, <2>3 DEF c
        <3>2. ~ RestorePointMissing(p, i)
            BY <1>5, <3>1
        <3>3. k \in 1 .. (i - 1) /\ k # i
            BY <2>3 DEF Index
        <3>4. helper[p].result[k] = "applied"
            BY <2>3, <3>2, <3>3 DEF RestorePointMissing
        <3>5. QED BY <1>6, <2>3, <3>3, <3>4
    <2>4. QED BY <2>1, <2>2, <2>3
<1>17. Kept
    <2>1. \A s \in Setting : writer'[s] # writer[s] => writer'[s] = here
        BY <1>5, <1>7
    <2>2. QED BY <1>2, <1>3, <2>1, RecordsKept DEF Kept
<1>18. QED BY <1>17, <1>8, <1>9, <1>10, <1>11, <1>12, <1>13, <1>14, <1>15, <1>16 DEF IInv

LEMMA HelperEndsStep ==
    ASSUME IInv, NEW p \in Plan, HelperAnswers(p) \/ HelperDies(p)
    PROVE  IInv'
<1>1. /\ TypeOK /\ Valued /\ Sound(mem) /\ Sound(disk) /\ Ahead /\ Reached /\ HelperInOrder
      /\ EffectsRecorded /\ GuardedByRestorePoint /\ helper \in [Plan -> HelperProcess]
      /\ crashes \in Nat
    BY DEF IInv, TypeOK
<1>2. /\ UNCHANGED <<plan, exec, mem, disk, sys, writer, torn, faults, edits>>
      /\ crashes' \in Nat /\ helper[p].pc = "running"
    BY <1>1 DEF HelperAnswers, HelperDies, system, bounds
<1>3. PICK w \in {"done", "dead"} :
          /\ helper' = [helper EXCEPT ![p].pc = w]
          /\ w = "done" => helper[p].todo = {}
    BY DEF HelperAnswers, HelperDies
<1>4. /\ helper' \in [Plan -> HelperProcess] /\ helper'[p].pc = w
      /\ helper'[p].todo = helper[p].todo /\ helper'[p].seen = helper[p].seen
      /\ helper'[p].result = helper[p].result
      /\ \A q \in Plan : q # p => helper'[q] = helper[q]
    <2> DEFINE h == [helper[p] EXCEPT !.pc = w]
    <2>1. /\ h \in HelperProcess /\ h.pc = w /\ h.todo = helper[p].todo
          /\ h.seen = helper[p].seen /\ h.result = helper[p].result
        BY <1>1 DEF HelperProcess
    <2>2. helper' = [helper EXCEPT ![p] = h]
        BY <1>1, <1>3
    <2> HIDE DEF h
    <2>3. QED BY <1>1, <2>1, <2>2
<1>5. TypeOK'
    BY <1>1, <1>2, <1>4 DEF TypeOK
<1>6. PlansInOrder' /\ Valued' /\ Sound(mem)' /\ Sound(disk)' /\ Ahead'
    BY <1>1, <1>2, OrderStays, SoundStays DEF Valued, Ahead
<1>7. \A q \in Plan : helper'[q].pc = "none" <=> helper[q].pc = "none"
    BY <1>2, <1>4
<1>8. Reached'
    BY <1>1, <1>2, <1>7, ReachedStays
<1>9. \A q \in Plan :
          /\ helper'[q].todo = helper[q].todo /\ helper'[q].seen = helper[q].seen
          /\ helper'[q].result = helper[q].result
          /\ \/ helper'[q] = helper[q]
             \/ helper[q].pc = "running" /\ helper'[q].pc \in {"late", "dead"}
             \/ helper[q].pc = "running" /\ helper'[q].pc = "done" /\ helper[q].todo = {}
          /\ helper'[q].pc = "running" => exec'.pc = "wait" /\ exec'.plan = q
          /\ helper[q].pc = "late" => helper'[q].pc = "late"
    BY <1>1, <1>2, <1>3, <1>4 DEF HelperInOrder
<1>10. HelperInOrder'
    BY <1>1, <1>2, <1>9, HelpersStay
<1>11. EffectsRecorded'
    <2>1. \A s \in Setting : writer[s] # None =>
              /\ disk[writer[s]].status # "none"
              /\ \/ s = Point \/ writer[s] \in torn
                 \/ helper'[writer[s][1]].pc = "late"
                 \/ /\ disk[writer[s]].status \in {"open", "applied"}
                    /\ exec.pc # "idle" => mem[writer[s]].status \in {"open", "applied"}
        <3> SUFFICES ASSUME NEW s \in Setting, writer[s] # None
                     PROVE  /\ disk[writer[s]].status # "none"
                            /\ \/ s = Point \/ writer[s] \in torn
                               \/ helper'[writer[s][1]].pc = "late"
                               \/ /\ disk[writer[s]].status \in {"open", "applied"}
                                  /\ exec.pc # "idle" => mem[writer[s]].status \in {"open", "applied"}
            OBVIOUS
        <3>1. EffectRecorded(s) /\ writer[s] \in Entry
            BY <1>1 DEF EffectsRecorded, TypeOK
        <3>2. writer[s][1] \in Plan
            BY <3>1, EntryParts
        <3>3. QED BY <1>9, <3>1, <3>2 DEF EffectRecorded
    <2>2. QED BY <1>1, <1>2, <1>9, <2>1, EffectsStay
<1>12. GuardedByRestorePoint'
    BY <1>1, <1>2, <1>9, GuardStays
<1>13. QED BY <1>5, <1>6, <1>8, <1>10, <1>11, <1>12 DEF IInv

\* Reconciliation settles only what is open, and not as failed what was written.
LEMMA ReconcileStep ==
    ASSUME IInv, Reconcile
    PROVE  IInv' /\ Kept
<1>1. /\ TypeOK /\ Valued /\ Sound(mem) /\ Sound(disk) /\ EffectsRecorded /\ HelperInOrder
      /\ GuardedByRestorePoint /\ disk \in [Entry -> JournalEntry]
    BY DEF IInv, TypeOK
<1>2. exec.pc = "idle" /\ UNCHANGED <<plan, exec, mem, helper, sys, writer, torn, faults, crashes, edits>>
    BY DEF Reconcile, system, bounds
<1>3. PICK seen \in SUBSET {ChangeOf(e).setting : e \in OpenEntries} :
          disk' = [e \in Entry |-> IF disk[e].status = "open" /\ ChangeOf(e).setting \notin seen
                                   THEN disk[e] ELSE Reconciled(e)]
    BY DEF Reconcile
<1>4. ASSUME NEW e \in Entry
      PROVE  \/ disk'[e] = disk[e]
             \/ /\ disk[e].status = "open" /\ disk'[e].by = disk[e].by
                /\ disk'[e].prior = disk[e].prior /\ disk'[e] \in JournalEntry
                /\ \/ disk'[e].status = "refused" /\ sys[ChangeOf(e).setting] = disk[e].prior
                   \/ disk'[e].status = "applied"
    <2>1. disk[e] \in JournalEntry
        BY <1>1
    <2>2. \/ disk'[e] = disk[e]
          \/ /\ disk[e].status = "open" /\ sys[ChangeOf(e).setting] = disk[e].prior
             /\ disk'[e] = [disk[e] EXCEPT !.status = "refused"]
          \/ /\ disk[e].status = "open"
             /\ disk'[e] = [disk[e] EXCEPT !.status = "applied"]
        BY <1>3 DEF Reconciled
    <2>3. QED BY <2>1, <2>2 DEF JournalEntry
<1>5. disk' \in [Entry -> JournalEntry]
    <2>1. \A e \in Entry : disk'[e] \in JournalEntry
        BY <1>1, <1>4
    <2>2. disk' = [e \in Entry |-> disk'[e]]
        BY <1>3
    <2>3. QED BY <2>1, <2>2
<1>6. TypeOK'
    BY <1>1, <1>2, <1>5 DEF TypeOK
<1>7. /\ \A e \in Entry : disk[e].status = "applied" =>
             disk'[e].status = "applied" /\ disk'[e].prior = disk[e].prior
      /\ \A e \in Entry : disk[e].status # "none" => disk'[e].status # "none"
    BY <1>4
<1>8. PlansInOrder'
    BY <1>2, <1>7, OrderStays
<1>9. Sound(disk')
    <2>1. ASSUME NEW e \in Entry PROVE SoundEntry(disk', e)
        <3>1. SoundEntry(disk, e) /\ disk[e].by \in Entry \cup {None}
            BY <1>1 DEF Sound, JournalEntry
        <3>2. disk[e].by # None => disk'[disk[e].by].status = "applied"
            BY <1>7, <3>1 DEF SoundEntry
        <3>3. CASE disk'[e] = disk[e]
            BY <3>1, <3>2, <3>3 DEF SoundEntry
        <3>4. CASE /\ disk[e].status = "open" /\ disk'[e].by = disk[e].by
                   /\ disk'[e].prior = disk[e].prior
                   /\ disk'[e].status \in {"refused", "applied"}
            BY <3>1, <3>4 DEF SoundEntry
        <3>5. QED BY <1>4, <3>3, <3>4
    <2>2. QED BY <2>1 DEF Sound
<1>10. Sound(disk)' /\ Sound(mem)'
    BY <1>1, <1>2, <1>9, SoundStays
<1>11. Valued' /\ Ahead' /\ Reached'
    BY <1>1, <1>2 DEF Valued, Ahead, Reached
<1>12. HelperInOrder'
    BY <1>2, <1>7, NobodyRuns, NobodyWaits
<1>13. EffectsRecorded'
    <2>1. ASSUME NEW s \in Setting, writer[s] # None
          PROVE  /\ disk'[writer[s]].status # "none"
                 /\ \/ s = Point \/ writer[s] \in torn
                    \/ helper'[writer[s][1]].pc = "late"
                    \/ /\ disk'[writer[s]].status \in {"open", "applied"}
                       /\ exec'.pc # "idle" => mem'[writer[s]].status \in {"open", "applied"}
        <3> DEFINE e == writer[s]
        <3>1. EffectRecorded(s) /\ e \in Entry
            BY <1>1, <2>1 DEF EffectsRecorded, TypeOK
        <3>2. SoundEntry(disk, e)
            BY <1>1, <3>1 DEF Sound
        <3>3. ASSUME s # Point, e \notin torn, helper[e[1]].pc # "late"
              PROVE  disk'[e].status \in {"open", "applied"}
            <4>1. /\ sys[s] = ChangeOf(e).value /\ ChangeOf(e).setting = s
                  /\ plan[e[1]].prior[e[2]] # ChangeOf(e).value
                  /\ disk[e].status \in {"open", "applied"}
                BY <2>1, <3>1, <3>3 DEF EffectRecorded
            <4>2. disk[e].status = "open" => sys[s] # disk[e].prior
                BY <3>2, <4>1 DEF SoundEntry
            <4>3. QED BY <1>4, <3>1, <4>1, <4>2
        <3>4. disk'[e].status # "none"
            BY <1>7, <2>1, <3>1 DEF EffectRecorded
        <3>5. QED BY <1>2, <3>3, <3>4
    <2>2. \A q \in Plan : helper'[q].result = helper[q].result
        BY <1>2
    <2>3. QED BY <1>1, <1>2, <2>1, EffectsStay
<1>14. GuardedByRestorePoint'
    BY <1>1, <1>2, GuardStays
<1>15. Kept
    <2>1. \A e \in Entry : disk[e].status \in {"applied", "refused"} => disk'[e] = disk[e]
        BY <1>4
    <2>2. QED BY <1>2, <2>1, RecordsKept DEF Kept
<1>16. QED BY <1>6, <1>8, <1>10, <1>11, <1>12, <1>13, <1>14, <1>15 DEF IInv

\* After a restart only the plans that were executed are known, and their helpers go on.
LEMMA RestartStep ==
    ASSUME IInv, Restart
    PROVE  IInv'
<1>1. /\ TypeOK /\ PlansInOrder /\ Valued /\ Sound(disk) /\ HelperInOrder /\ EffectsRecorded
      /\ GuardedByRestorePoint /\ helper \in [Plan -> HelperProcess] /\ crashes \in Nat
    BY DEF IInv, TypeOK
<1>2. /\ UNCHANGED <<disk, sys, writer, torn, faults, edits>> /\ crashes' = crashes + 1
      /\ plan' = [p \in Plan |-> IF plan[p].state = "stored" THEN Dropped ELSE plan[p]]
      /\ exec' = Idle /\ mem' = [e \in Entry |-> NoEntry] /\ helper' = GivenUp
    BY DEF Restart, system
<1>3. \A p \in Plan : /\ GoodPlan(plan'[p])
                      /\ plan[p].state = "gone" => plan'[p] = plan[p]
    BY <1>2, PlansAreGood, EmptyIsGood
<1>4. /\ helper' \in [Plan -> HelperProcess]
      /\ \A p \in Plan :
             /\ helper'[p].pc = IF helper[p].pc = "running" THEN "late" ELSE helper[p].pc
             /\ helper'[p].todo = helper[p].todo /\ helper'[p].seen = helper[p].seen
             /\ helper'[p].result = helper[p].result
             /\ helper[p].pc # "running" => helper'[p] = helper[p]
    BY <1>1, <1>2, GivenUpFacts
<1>5. TypeOK'
    <2>1. plan' \in [Plan -> PlanRecord]
          /\ \A p \in Plan : /\ DOMAIN plan'[p].prior = DOMAIN plan'[p].changes
                             /\ DOMAIN plan'[p].undoes = DOMAIN plan'[p].changes
        BY <1>2, <1>3 DEF GoodPlan
    <2>2. QED BY <1>1, <1>2, <1>4, <2>1, EmptyRecords DEF TypeOK
<1>6. \A e \in Entry : disk[e].status # "none" => plan'[e[1]] = plan[e[1]]
    BY <1>1, <1>3, EntryParts DEF Sound, SoundEntry
<1>7. PlansInOrder'
    <2> DEFINE Later(e) == plan'[e[1]].changes[e[2]]
    <2>1. disk' = disk
        BY <1>2
    <2> SUFFICES ASSUME NEW p \in Plan
                 PROVE  /\ plan'[p].asking => plan'[p].state = "stored"
                        /\ plan'[p].confirmed # "no" => ~ plan'[p].declined
                        /\ \A i \in DOMAIN plan'[p].changes :
                               /\ plan'[p].changes[i].setting # Point => plan'[p].prior[i] \in Value
                               /\ plan'[p].undoes[i] # None =>
                                      /\ disk[plan'[p].undoes[i]].status = "applied"
                                      /\ plan'[p].changes[i] =
                                           [setting |-> Later(plan'[p].undoes[i]).setting,
                                            value |-> disk[plan'[p].undoes[i]].prior]
        BY <2>1 DEF PlansInOrder, ChangeOf
    <2>2. \A e \in Entry : disk[e].status = "applied" => Later(e) = ChangeOf(e)
        BY <1>6 DEF ChangeOf
    <2>3. GoodPlan(plan'[p])
        BY <1>3
    <2>4. QED BY <2>2, <2>3 DEF GoodPlan
<1>8. Valued'
    BY <1>1, <1>2 DEF Valued
<1>9. Sound(disk)'
    <2>1. ASSUME NEW e \in Entry PROVE SoundEntry(disk, e)'
        <3>1. SoundEntry(disk, e) /\ disk[e].by \in Entry \cup {None}
            BY <1>1 DEF Sound, TypeOK, JournalEntry
        <3>2. disk[e].status # "none" => plan'[e[1]] = plan[e[1]]
            BY <1>6
        <3>3. disk[e].by # None => plan'[disk[e].by[1]] = plan[disk[e].by[1]]
            BY <1>6, <3>1 DEF SoundEntry
        <3>4. QED BY <1>2, <3>1, <3>2, <3>3 DEF SoundEntry, ChangeOf
    <2>2. QED BY <2>1 DEF Sound
<1>10. Sound(mem)'
    BY <1>2, EmptyRecords DEF Sound, SoundEntry
<1>11. Ahead' /\ Reached'
    BY <1>2, EmptyRecords DEF Ahead, Reached
<1>12. HelperInOrder'
    <2>1. ASSUME NEW p \in Plan
          PROVE  /\ helper'[p].pc = "none" => helper'[p] = NoHelper
                 /\ helper'[p].pc # "running"
                 /\ helper'[p].pc = "done" => helper'[p].todo = {}
                 /\ helper'[p].pc # "none" =>
                        /\ plan'[p].state = "gone" /\ helper'[p].todo \subseteq Batch(p)'
                        /\ \A i \in Batch(p)' :
                               /\ disk[<<p, i>>].status # "none"
                               /\ i \notin helper'[p].todo =>
                                      /\ helper'[p].result[i] \in {"applied", "refused"}
                                      /\ plan'[p].changes[i].setting # Point =>
                                             helper'[p].seen[i] \in Value
                 /\ \A i \in Index : helper'[p].result[i] # "none" =>
                        i \in Batch(p)' /\ i \notin helper'[p].todo
        <3>1. CASE helper[p].pc = "none"
            <4>1. helper[p] = NoHelper
                BY <1>1, <3>1 DEF HelperInOrder
            <4>2. helper'[p] = NoHelper
                BY <1>4, <3>1, <4>1
            <4>3. QED BY <4>2, EmptyRecords
        <3>2. CASE helper[p].pc # "none"
            <4>1. plan'[p] = plan[p] /\ plan[p].state = "gone"
                BY <1>1, <1>3, <3>2 DEF HelperInOrder
            <4>2. Batch(p)' = Batch(p)
                BY <4>1 DEF Batch
            <4>3. QED BY <1>1, <1>4, <3>2, <4>1, <4>2 DEF HelperInOrder
        <3>3. QED BY <3>1, <3>2
    <2>2. NoHelper' = NoHelper
        BY DEF NoHelper
    <2>3. QED BY <1>2, <2>1, <2>2 DEF HelperInOrder
<1>13. EffectsRecorded'
    <2>1. ASSUME NEW s \in Setting, writer[s] # None PROVE EffectRecorded(s)'
        <3>1. EffectRecorded(s) /\ writer[s] \in Entry
            BY <1>1, <2>1 DEF EffectsRecorded, TypeOK
        <3>2. writer[s][1] \in Plan
            BY <3>1, EntryParts
        <3>3. plan'[writer[s][1]] = plan[writer[s][1]]
            BY <1>6, <2>1, <3>1 DEF EffectRecorded
        <3>4. /\ helper'[writer[s][1]].result = helper[writer[s][1]].result
              /\ helper[writer[s][1]].pc = "late" => helper'[writer[s][1]].pc = "late"
            BY <1>4, <3>2
        <3>5. exec'.pc = "idle"
            BY <1>2, EmptyRecords
        <3>6. QED BY <1>2, <2>1, <3>1, <3>3, <3>4, <3>5 DEF EffectRecorded, ChangeOf
    <2>2. QED BY <1>2, <2>1 DEF EffectsRecorded, EffectRecorded
<1>14. GuardedByRestorePoint'
    <2> SUFFICES ASSUME NEW p \in Plan, NEW i \in Index, NEW k \in Index,
                        i < k, k \in DOMAIN plan'[p].changes,
                        plan'[p].changes[i].setting = Point,
                        plan'[p].changes[k].setting \in Irreversible,
                        helper'[p].result[k] = "applied"
                 PROVE  helper'[p].result[i] = "applied"
        BY DEF GuardedByRestorePoint
    <2>1. helper'[p].result = helper[p].result
        BY <1>4
    <2>2. helper[p].pc # "none"
        BY <1>1, <2>1, EmptyRecords DEF HelperInOrder
    <2>3. plan'[p] = plan[p]
        BY <1>1, <1>3, <2>2 DEF HelperInOrder
    <2>4. QED BY <1>1, <2>1, <2>3 DEF GuardedByRestorePoint
<1>15. QED BY <1>5, <1>7, <1>8, <1>9, <1>10, <1>11, <1>12, <1>13, <1>14 DEF IInv

LEMMA OtherProgramStep ==
    ASSUME IInv, NEW t \in Setting, NEW v \in Value, OtherProgram(t, v)
    PROVE  IInv'
<1>1. /\ TypeOK /\ Valued /\ Sound(mem) /\ Sound(disk) /\ Ahead /\ Reached /\ HelperInOrder
      /\ EffectsRecorded /\ GuardedByRestorePoint /\ sys \in [Setting -> Held] /\ edits \in Nat
      /\ writer \in [Setting -> Entry \cup {None}]
    BY DEF IInv, TypeOK
<1>2. /\ UNCHANGED <<plan, exec, mem, disk, helper, faults, crashes>>
      /\ edits' = edits + 1 /\ sys' = [sys EXCEPT ![t] = v] /\ writer' = [writer EXCEPT ![t] = None]
    BY DEF OtherProgram
<1> torn' = torn
    BY DEF OtherProgram
<1>3. TypeOK'
    BY <1>1, <1>2 DEF TypeOK, Held
<1>4. PlansInOrder' /\ Sound(mem)' /\ Sound(disk)' /\ Ahead'
    BY <1>1, <1>2, OrderStays, SoundStays DEF Ahead
<1>5. Valued'
    BY <1>1, <1>2 DEF Valued
<1>6. \A s \in Setting : \/ writer'[s] = writer[s] /\ sys'[s] = sys[s]
                         \/ writer'[s] = None
    BY <1>1, <1>2
<1>7. Reached'
    BY <1>1, <1>2, <1>6, ReachedStays
<1>8. HelperInOrder' /\ GuardedByRestorePoint'
    <2>1. \A p \in Plan : helper'[p].pc = "running" => exec'.pc = "wait" /\ exec'.plan = p
        BY <1>1, <1>2 DEF HelperInOrder
    <2>2. QED BY <1>1, <1>2, <2>1, HelpersStay, GuardStays
<1>9. EffectsRecorded'
    <2>1. \A s \in Setting : writer[s] # None =>
              /\ disk[writer[s]].status # "none"
              /\ \/ s = Point \/ writer[s] \in torn
                 \/ helper[writer[s][1]].pc = "late"
                 \/ /\ disk[writer[s]].status \in {"open", "applied"}
                    /\ exec.pc # "idle" => mem[writer[s]].status \in {"open", "applied"}
        BY <1>1 DEF EffectsRecorded, EffectRecorded
    <2>2. QED BY <1>1, <1>2, <1>6, <2>1, EffectsStay
<1>10. QED BY <1>3, <1>4, <1>5, <1>7, <1>8, <1>9 DEF IInv

LEMMA StutterStep ==
    ASSUME IInv, UNCHANGED vars
    PROVE  IInv'
<1>1. UNCHANGED <<plan, exec, mem, disk, helper, sys, writer, torn, faults, crashes, edits>>
    BY DEF vars
<1>2. /\ TypeOK /\ Valued /\ Sound(mem) /\ Sound(disk) /\ Ahead /\ Reached /\ HelperInOrder
      /\ EffectsRecorded /\ GuardedByRestorePoint
    BY DEF IInv
<1>3. TypeOK'
    BY <1>1, <1>2 DEF TypeOK
<1>4. PlansInOrder' /\ Valued' /\ Sound(mem)' /\ Sound(disk)' /\ Ahead'
    BY <1>1, <1>2, OrderStays, SoundStays DEF Valued, Ahead
<1>5. Reached'
    BY <1>1, <1>2, ReachedStays
<1>6. HelperInOrder' /\ GuardedByRestorePoint'
    <2>1. \A p \in Plan : helper'[p].pc = "running" => exec'.pc = "wait" /\ exec'.plan = p
        BY <1>1, <1>2 DEF HelperInOrder
    <2>2. QED BY <1>1, <1>2, <2>1, HelpersStay, GuardStays
<1>7. EffectsRecorded'
    BY <1>1, <1>2 DEF EffectsRecorded, EffectRecorded, ChangeOf
<1>8. QED BY <1>3, <1>4, <1>5, <1>6, <1>7 DEF IInv
-----------------------------------------------------------------------------
(* The invariant *)

LEMMA InvInit == Init => IInv
<1> SUFFICES ASSUME Init PROVE IInv
    OBVIOUS
<1>1. TypeOK
    BY TypeInit
<1>2. /\ \A p \in Plan : plan[p] = NoPlan /\ helper[p] = NoHelper
      /\ \A e \in Entry : mem[e] = NoEntry /\ disk[e] = NoEntry
      /\ exec.pc = "idle" /\ \A s \in Setting : writer[s] = None
    BY EmptyRecords DEF Init
<1>3. PlansInOrder
    BY <1>2, EmptyPlans DEF PlansInOrder
<1>4. Valued
    BY DEF Init, Valued, Held
<1>5. Sound(mem) /\ Sound(disk) /\ Ahead /\ Reached
    BY <1>2, EmptyRecords DEF Sound, SoundEntry, Ahead, Reached
<1>6. HelperInOrder
    BY <1>2, EmptyRecords DEF HelperInOrder
<1>7. EffectsRecorded
    BY <1>2 DEF EffectsRecorded, EffectRecorded
<1>8. GuardedByRestorePoint
    BY <1>2, EmptyRecords DEF GuardedByRestorePoint
<1>9. QED BY <1>1, <1>3, <1>4, <1>5, <1>6, <1>7, <1>8 DEF IInv

\* The steps that neither begin an execution nor write a setting or the journal.
LEMMA QuietSteps ==
    ASSUME IInv, UNCHANGED <<exec, disk>>, \A s \in Setting : writer'[s] \in {writer[s], None}
    PROVE  Kept
BY RecordsKept DEF Kept

LEMMA PlanningKeeps ==
    ASSUME IInv, NEW p \in Plan, Planning(p)
    PROVE  Kept
<1>1. CASE Begin(p)
    <2>1. exec'.plan = p /\ disk' = disk /\ writer' = writer
        BY <1>1 DEF Begin, Idle, system
    <2>2. plan[p].confirmed = "yes" /\ ~ plan[p].declined
        BY <1>1 DEF Begin, IInv, PlansInOrder
    <2>3. QED BY <2>1, <2>2, RecordsKept DEF Kept
<1>2. CASE ~ Begin(p)
    <2>1. UNCHANGED <<exec, disk, writer>>
        BY <1>2 DEF Planning, CreatePlan, CreateRollbackPlan, StorePlan, ReviewExpires,
           ConfirmationExpires, OpenDialog, AnswerYes, AnswerNo, BeginFails, system
    <2>2. QED BY <2>1, QuietSteps
<1>3. QED BY <1>1, <1>2

LEMMA OtherStepsKeep ==
    ASSUME IInv,
           \/ \E p \in Plan : HelperAnswers(p) \/ HelperDies(p)
           \/ Restart \/ (\E s \in Setting, v \in Value : OtherProgram(s, v)) \/ UNCHANGED vars
    PROVE  Kept
<1>1. CASE \E p \in Plan : HelperAnswers(p) \/ HelperDies(p)
    <2>1. UNCHANGED <<exec, disk, writer>>
        BY <1>1 DEF HelperAnswers, HelperDies, system
    <2>2. QED BY <2>1, QuietSteps
<1>2. CASE Restart
    <2>1. disk' = disk /\ writer' = writer /\ exec'.pc = "idle"
        BY <1>2, EmptyRecords DEF Restart, system
    <2>2. QED BY <2>1, RecordsKept DEF Kept
<1>3. ASSUME NEW t \in Setting, NEW v \in Value, OtherProgram(t, v) PROVE Kept
    <2>1. UNCHANGED <<exec, disk>> /\ writer' = [writer EXCEPT ![t] = None]
        BY <1>3 DEF OtherProgram
    <2>2. \A s \in Setting : writer'[s] \in {writer[s], None}
        BY <2>1 DEF IInv, TypeOK
    <2>3. QED BY <2>1, <2>2, QuietSteps
<1>4. CASE UNCHANGED vars
    BY <1>4, QuietSteps DEF vars
<1>5. QED BY <1>1, <1>2, <1>3, <1>4

LEMMA InvNext == IInv /\ [Next]_vars => IInv' /\ Kept
<1> SUFFICES ASSUME IInv, [Next]_vars PROVE IInv' /\ Kept
    OBVIOUS
<1>1. ASSUME NEW p \in Plan, Planning(p) PROVE IInv' /\ Kept
    BY <1>1, StorePlanSteps, ReviewSteps, BeginStep, PlanningKeeps DEF Planning
<1>2. ASSUME NEW p \in Plan, Helping(p) PROVE IInv' /\ Kept
    BY <1>2, HelperItemStep, HelperEndsStep, OtherStepsKeep DEF Helping
<1>3. CASE Executing
    BY <1>3, SkipSteps, StandardIntentStep, StandardAppliesStep, StandardOutcomeStep,
       HelperIntentStep, NotSentStep, SentStep, AnsweredStep, ResponseLostStep, FinishStep
       DEF Executing
<1>4. CASE Reconcile
    BY <1>4, ReconcileStep
<1>5. CASE Restart
    BY <1>5, RestartStep, OtherStepsKeep
<1>6. ASSUME NEW s \in Setting, NEW v \in Value, OtherProgram(s, v) PROVE IInv' /\ Kept
    BY <1>6, OtherProgramStep, OtherStepsKeep
<1>7. CASE UNCHANGED vars
    BY <1>7, StutterStep, OtherStepsKeep
<1>8. QED BY <1>1, <1>2, <1>3, <1>4, <1>5, <1>6, <1>7 DEF Next

\* The invariant holds in every reachable state.
THEOREM InvHolds == Spec => []IInv
BY InvInit, InvNext, PTL DEF Spec

\* The state has its type, whatever happens.
THEOREM TypeCorrect == Spec => []TypeOK
<1>1. IInv => TypeOK
    BY DEF IInv
<1>2. QED BY <1>1, InvHolds, PTL

\* An entry that the journal calls rolled back was taken back by an entry that was
\* applied and that carried its recorded prior value (mark_rolled_back).
THEOREM Restored == Spec => []RolledBackMeansRestored
<1>1. IInv => RolledBackMeansRestored
    BY DEF IInv, Sound, SoundEntry, RolledBackMeansRestored
<1>2. QED BY <1>1, InvHolds, PTL

\* No value that the program wrote is recorded as not made, across failing saves,
\* lost answers, crashes and reconciliation, unless a helper that was given up wrote it,
\* or the adapter that wrote it reported an error.
THEOREM Accounted == Spec => []EffectsStayAccounted
<1>1. IInv => EffectsStayAccounted
    BY DEF IInv, EffectsRecorded, EffectRecorded, EffectsStayAccounted
<1>2. QED BY <1>1, InvHolds, PTL

\* Nothing permanent happens in a helper without the restore point that was asked for.
THEOREM Guarded == Spec => []GuardedByRestorePoint
<1>1. IInv => GuardedByRestorePoint
    BY DEF IInv
<1>2. QED BY <1>1, InvHolds, PTL

\* A plan begins only while the last answer to it is yes; no setting is written without
\* a record in the journal file; and what is recorded as settled stays as it is.
THEOREM ConsentAndIntent == Spec => ConsentIntentEffect
<1>1. IInv /\ [Next]_vars => [Kept]_vars
    BY InvNext
<1>2. Spec => [][Kept]_vars
    BY <1>1, InvHolds, PTL DEF Spec
<1>3. QED BY <1>2 DEF ConsentIntentEffect, Kept
====
