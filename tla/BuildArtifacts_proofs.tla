------------------------ MODULE BuildArtifacts_proofs ------------------------
(***************************************************************************)
(* Theorems about BuildArtifacts for every number of profiles, runs,       *)
(* analyses and upsets: type correctness, and that the generation ledger    *)
(* stays readable and never credits a cancelled run.                        *)
(***************************************************************************)
EXTENDS BuildArtifacts, TLAPS

-----------------------------------------------------------------------------
(* The inductive invariant *)

\* The run of the stamp has reached its commit, or is past it, and was not reported as
\* cancelled; while it is at its commit it holds the writer.
Stamped ==
    ledger.stamp # None =>
        /\ build[ledger.stamp].pc \in {"commit", "ended", "done"}
        /\ build[ledger.stamp].state # "Cancelled"
        /\ build[ledger.stamp].pc = "commit" => op.by = ledger.stamp

\* A run holds the writer for its commit only.
Holds == op.by \in Build => build[op.by].pc = "commit"

\* What a rollback writes back credits a run that has ended, and not as cancelled.
Returnable ==
    op.pc \in {"stamped", "selected"} =>
        /\ op.by \in Build
        /\ op.previous.stamp # None =>
              /\ build[op.previous.stamp].pc \in {"ended", "done"}
              /\ build[op.previous.stamp].state # "Cancelled"

\* A dialog and a removal are about a profile; one between its two writes is not in the
\* ledger any more.
Unnamed ==
    /\ op.pc \in {"asking", "forgetting"} => op.by \in Profile
    /\ op.pc = "forgetting" =>
        /\ ~ ledger.gen[op.by].known
        /\ ledger.stamp # None => StampProfile(ledger) # op.by

\* A run is shown as cancelled only between its outcome and the end of its thread.
Shown == \A b \in Build : build[b].state = "Cancelled" => build[b].pc = "ended"

Credit == Valid(ledger) /\ Stamped /\ Holds /\ Returnable /\ Unnamed /\ Shown

IInv == TypeOK /\ Credit

\* TypeOK by what is written together: settings, the ledger and its operation, files, runs.
SavedOK ==
    /\ profiles \in SUBSET Profile /\ forgotten \in SUBSET Profile /\ roots \in SUBSET Profile
    /\ enabled \in BOOLEAN /\ overrides \in SUBSET Profile
LedgerOK == ledger \in Ledger /\ op \in Operation
FilesOK == file \in [Profile -> File \cup {None}] /\ vault \in [Profile -> File \cup {None}]
RunsOK ==
    /\ active \in Build \cup {None} /\ cancelled \in SUBSET Build
    /\ build \in [Build -> BuildRecord]
    /\ \A b \in Build :
          /\ build[b].pc # "none" => build[b].profile \in Profile
          /\ build[b].pc \in {"queued", "building", "commit", "ended"} => active = b
AnalystsOK == analyst \in [Analyst -> {"idle", "gate"}] /\ upsets \in 0..MaxUpsets

LEMMA TypeParts == TypeOK <=> SavedOK /\ LedgerOK /\ FilesOK /\ RunsOK /\ AnalystsOK
BY DEF TypeOK, SavedOK, LedgerOK, FilesOK, RunsOK, AnalystsOK

LEMMA IdleType == Idle \in Operation /\ NoLedger \in Ledger
<1>1. Unknown \in Generation
  BY DEF Unknown, Generation
<1>2. NoLedger \in Ledger
  BY <1>1 DEF NoLedger, Ledger
<1>3. QED
  <2> HIDE DEF NoLedger
  <2>1. QED
    BY <1>2 DEF Idle, Operation

LEMMA InvInit == Init => IInv
<1> SUFFICES ASSUME Init PROVE IInv
  OBVIOUS
<1>1. RunsOK
  BY DEF Init, RunsOK, BuildRecord, NoBuild
<1>2. LedgerOK
  BY IdleType DEF Init, LedgerOK
<1>3. SavedOK /\ FilesOK /\ AnalystsOK
  BY BuildAssumption DEF Init, SavedOK, FilesOK, AnalystsOK
<1>4. Credit
  BY BuildAssumption DEF Init, Credit, Valid, Stamped, Holds, Returnable, Unnamed, Shown,
     NoLedger, Idle, Unknown, NoBuild
<1>5. QED
  BY <1>1, <1>2, <1>3, <1>4, TypeParts DEF IInv

-----------------------------------------------------------------------------
(* What the ledger operators return *)

LEMMA ObservedType ==
    ASSUME NEW g \in Generation, NEW f \in File \cup {None}, NEW p, NEW readable
    PROVE  Observed(g, f, p \in readable) \in Generation
BY DEF Observed, Generation

LEMMA CommittedType ==
    ASSUME LedgerOK, FilesOK, RunsOK, NEW b \in Build, NEW readable \in SUBSET Profile
    PROVE  Committed(b, readable) \in Ledger
<1>1. ASSUME NEW p \in Profile PROVE Committed(b, readable).gen[p] \in Generation
  <2>1. ledger.gen[p] \in Generation /\ file[p] \in File \cup {None}
    BY DEF LedgerOK, Ledger, FilesOK
  <2>2. [Observed(ledger.gen[p], file[p], p \in readable) EXCEPT !.latest = FALSE] \in Generation
    <3>1. Observed(ledger.gen[p], file[p], p \in readable) \in Generation
      BY <2>1, ObservedType
    <3>2. \A g \in Generation : [g EXCEPT !.latest = FALSE] \in Generation
      BY DEF Generation
    <3>3. QED
      BY <3>1, <3>2
  <2>3. OwnGeneration(b, ledger.gen[p]) \in Generation
    <3>1. build[b].after \in File \cup {None}
      BY DEF RunsOK, BuildRecord
    <3>2. QED
      BY <2>1, <3>1 DEF OwnGeneration, Touched, Generation, Unknown
  <2>4. QED
    BY <2>1, <2>2, <2>3 DEF Committed
<1>2. QED
  BY <1>1 DEF Committed, Ledger

LEMMA AnalysedType ==
    ASSUME LedgerOK, FilesOK, NEW readable \in SUBSET Profile
    PROVE  Analysed(readable) \in Ledger /\ Analysed(readable).stamp = ledger.stamp
<1>1. ASSUME NEW p \in Profile
      PROVE  /\ ledger.gen[p] \in Generation
             /\ Observed(ledger.gen[p], file[p], p \in readable) \in Generation
             /\ [Unknown EXCEPT !.known = TRUE, !.file = file[p]] \in Generation
  <2>1. ledger.gen[p] \in Generation /\ file[p] \in File \cup {None}
    BY DEF LedgerOK, Ledger, FilesOK
  <2>2. Observed(ledger.gen[p], file[p], p \in readable) \in Generation
    BY <2>1, ObservedType
  <2>3. [Unknown EXCEPT !.known = TRUE, !.file = file[p]] \in Generation
    BY <2>1 DEF Unknown, Generation
  <2>4. QED
    BY <2>1, <2>2, <2>3
<1> DEFINE gen == [p \in Profile |->
        LET g == ledger.gen[p]
        IN  IF p \notin profiles THEN g
            ELSE IF g.known THEN Observed(g, file[p], p \in readable)
            ELSE IF file[p] # None /\ p \in readable
                 THEN [Unknown EXCEPT !.known = TRUE, !.file = file[p]]
            ELSE g]
<1>2. gen \in [Profile -> Generation]
  BY <1>1
<1>3. Analysed(readable) = [ledger EXCEPT !.gen = gen]
  BY DEF Analysed
<1>4. QED
  <2> HIDE DEF gen
  <2>1. QED
    BY <1>2, <1>3 DEF LedgerOK, Ledger

\* Removing generations leaves a ledger with the same stamp.
LEMMA PrunedType ==
    ASSUME LedgerOK, NEW gone \in SUBSET Profile
    PROVE  LET l == [ledger EXCEPT !.gen = [p \in Profile |-> IF p \in gone THEN Unknown ELSE @[p]]]
           IN  l \in Ledger /\ l.stamp = ledger.stamp
<1> DEFINE gen == [p \in Profile |-> IF p \in gone THEN Unknown ELSE ledger.gen[p]]
<1>1. gen \in [Profile -> Generation]
  BY DEF LedgerOK, Ledger, Unknown, Generation
<1> HIDE DEF gen
<1>2. [ledger EXCEPT !.gen = gen] \in Ledger /\ [ledger EXCEPT !.gen = gen].stamp = ledger.stamp
  BY <1>1 DEF LedgerOK, Ledger
<1>3. QED
  BY <1>2 DEF gen

-----------------------------------------------------------------------------
(* Type correctness, by what is written together *)

LEMMA SavedStep == SavedOK /\ Unnamed /\ [Next]_vars => SavedOK'
<1> SUFFICES ASSUME SavedOK, Unnamed, [Next]_vars PROVE SavedOK'
  OBVIOUS
<1>1. CASE Answered
  BY <1>1 DEF Answered, SavedOK, Unnamed, policy
<1>2. ASSUME NEW p \in Profile, Register(p) \/ Forget(p) PROVE UNCHANGED saved
  BY <1>2 DEF Register, Forget
<1>3. ASSUME NEW p \in Profile, RemoveRoot(p) PROVE SavedOK'
  BY <1>3 DEF RemoveRoot, SavedOK, policy
<1>4. CASE Forgotten
  BY <1>4 DEF Forgotten, SavedOK, Unnamed, policy
<1>5. ASSUME NEW on \in BOOLEAN, NEW projects \in SUBSET Profile, SetPolicy(on, projects)
      PROVE  SavedOK'
  BY <1>5 DEF SetPolicy, SavedOK
<1>6. ASSUME NEW b \in Build,
             Command(b) \/ Running(b) \/ BuildWrites(b) \/ BuildSucceeds(b) \/ BuildEnds(b)
      PROVE  UNCHANGED saved
  BY <1>6 DEF Command, Running, Start, CancelRun, Queue, BuildBusy, Launch, Clear, BuildWrites,
     BuildSucceeds, BuildEnds, Commit, RollBack, Select, Enforce
<1>7. ASSUME NEW a \in Analyst, AnalysisReads(a) \/ Analysing(a) PROVE UNCHANGED saved
  BY <1>7 DEF Analysing, AnalysisReads, AnalysisSkips, AnalysisEnters, Observe
<1>8. Enforcing \/ Environment => UNCHANGED saved
  BY DEF Enforcing, Environment, Evict, EvictFails, Prune, Undo, OutsideEdit, Restart
<1>9. UNCHANGED saved => SavedOK'
  BY DEF SavedOK, saved, policy
<1>10. QED
  BY <1>1, <1>2, <1>3, <1>4, <1>5, <1>6, <1>7, <1>8, <1>9 DEF Next, Settings, vars, saved,
     policy

LEMMA FilesStep == FilesOK /\ [Next]_vars => FilesOK'
<1> SUFFICES ASSUME FilesOK, [Next]_vars PROVE FilesOK'
  OBVIOUS
<1>1. ASSUME NEW b \in Build, BuildWrites(b) PROVE FilesOK'
  BY <1>1 DEF BuildWrites, FilesOK, File
<1>2. ASSUME NEW p \in Profile, Evict(p) PROVE FilesOK'
  BY <1>2 DEF Evict, FilesOK
<1>3. ASSUME NEW p \in Profile, EvictFails(p) PROVE FilesOK'
  BY <1>3 DEF EvictFails, FilesOK, files
<1>4. ASSUME NEW p \in Profile, Undo(p) PROVE FilesOK'
  BY <1>4 DEF Undo, FilesOK
<1>5. ASSUME NEW p \in Profile, OutsideEdit(p) PROVE FilesOK'
  BY <1>5 DEF OutsideEdit, FilesOK, File
<1>6. Settings => UNCHANGED files
  BY DEF Settings, Register, Answered, Forget, RemoveRoot, Forgotten, SetPolicy
<1>7. ASSUME NEW b \in Build, Command(b) \/ Running(b) \/ BuildSucceeds(b) \/ BuildEnds(b)
      PROVE  UNCHANGED files
  BY <1>7 DEF Command, Running, Start, CancelRun, Queue, BuildBusy, Launch, Clear,
     BuildSucceeds, BuildEnds, Commit, RollBack, Select, Enforce
<1>8. ASSUME NEW a \in Analyst, AnalysisReads(a) \/ Analysing(a) PROVE UNCHANGED files
  BY <1>8 DEF Analysing, AnalysisReads, AnalysisSkips, AnalysisEnters, Observe
<1>9. Prune \/ Restart => UNCHANGED files
  BY DEF Prune, Restart
<1>10. UNCHANGED files => FilesOK'
  BY DEF FilesOK, files
<1>11. QED
  BY <1>1, <1>2, <1>3, <1>4, <1>5, <1>6, <1>7, <1>8, <1>9, <1>10
  DEF Next, Enforcing, Environment, vars, files

LEMMA AnalystsStep == AnalystsOK /\ [Next]_vars => AnalystsOK'
<1> SUFFICES ASSUME AnalystsOK, [Next]_vars PROVE AnalystsOK'
  OBVIOUS
<1>1. Upset \/ UNCHANGED upsets => (upsets \in 0..MaxUpsets)'
  BY BuildAssumption DEF AnalystsOK, Upset
<1>2. Settings => Upset \/ UNCHANGED upsets
  BY DEF Settings, Register, Answered, Forget, Written, RemoveRoot, Forgotten, SetPolicy
<1>3. ASSUME NEW b \in Build,
             Command(b) \/ Running(b) \/ BuildWrites(b) \/ BuildSucceeds(b) \/ BuildEnds(b)
      PROVE  Upset \/ UNCHANGED upsets
  BY <1>3 DEF Command, Running, Start, CancelRun, Queue, BuildBusy, Launch, Clear, BuildWrites,
     BuildSucceeds, BuildEnds, Commit, RollBack, Select, Enforce, Written, WriteFails
<1>4. ASSUME NEW a \in Analyst, AnalysisReads(a) \/ Analysing(a)
      PROVE  Upset \/ UNCHANGED upsets
  BY <1>4 DEF Analysing, AnalysisReads, AnalysisSkips, AnalysisEnters, Observe, Written,
     WriteFails
<1>5. Enforcing \/ Environment => Upset \/ UNCHANGED upsets
  BY DEF Enforcing, Environment, Evict, EvictFails, Prune, Undo, OutsideEdit, Restart, Written,
     WriteFails
<1>6. (upsets \in 0..MaxUpsets)'
  BY <1>1, <1>2, <1>3, <1>4, <1>5 DEF Next, vars
<1>7. ASSUME NEW a \in Analyst, AnalysisReads(a) \/ Analysing(a)
      PROVE  (analyst \in [Analyst -> {"idle", "gate"}])'
  BY <1>7 DEF Analysing, AnalysisReads, AnalysisSkips, AnalysisEnters, Observe, AnalystsOK
<1>8. Restart => (analyst \in [Analyst -> {"idle", "gate"}])'
  BY DEF Restart
<1>9. Settings => UNCHANGED analyst
  BY DEF Settings, Register, Answered, Forget, RemoveRoot, Forgotten, SetPolicy
<1>10. ASSUME NEW b \in Build,
              Command(b) \/ Running(b) \/ BuildWrites(b) \/ BuildSucceeds(b) \/ BuildEnds(b)
       PROVE  UNCHANGED analyst
  BY <1>10 DEF Command, Running, Start, CancelRun, Queue, BuildBusy, Launch, Clear, BuildWrites,
     BuildSucceeds, BuildEnds, Commit, RollBack, Select, Enforce
<1>11. Enforcing \/ (\E p \in Profile : Undo(p) \/ OutsideEdit(p)) => UNCHANGED analyst
  BY DEF Enforcing, Evict, EvictFails, Prune, Undo, OutsideEdit
<1>12. (analyst \in [Analyst -> {"idle", "gate"}])'
  BY <1>7, <1>8, <1>9, <1>10, <1>11 DEF Next, Environment, AnalystsOK, vars
<1>13. QED
  BY <1>6, <1>12 DEF AnalystsOK

\* The outcome of a run that has the slot.
LEMMA EndType ==
    ASSUME RunsOK, NEW b \in Build, build[b].pc \in {"queued", "building", "commit"},
           NEW s \in {"Succeeded", "Failed", "Cancelled", "AnalysisFailed"},
           End(b, s), UNCHANGED slot
    PROVE  RunsOK'
<1> DEFINE past == [NoBuild EXCEPT !.pc = "ended", !.state = s, !.profile = build[b].profile]
<1>1. past \in BuildRecord /\ past.pc = "ended" /\ past.profile \in Profile /\ active = b
  BY DEF RunsOK, BuildRecord, NoBuild
<1>2. build' = [build EXCEPT ![b] = past]
  BY DEF End
<1> HIDE DEF past
<1>3. QED
  BY <1>1, <1>2 DEF RunsOK, slot

LEMMA RunsStep == RunsOK /\ FilesOK /\ Holds /\ [Next]_vars => RunsOK'
<1> SUFFICES ASSUME RunsOK, FilesOK, Holds, [Next]_vars PROVE RunsOK'
  OBVIOUS
<1> DEFINE Outcomes == {"Succeeded", "Failed", "Cancelled", "AnalysisFailed"}
\* A record that is put in place of a run's, when the slot is left alone.
<1>0. ASSUME NEW b \in Build, NEW r \in BuildRecord, UNCHANGED slot,
             build' = [build EXCEPT ![b] = r],
             r.pc # "none" => r.profile \in Profile,
             r.pc \in {"queued", "building", "commit", "ended"} => active = b
      PROVE  RunsOK'
  BY <1>0 DEF RunsOK, slot
<1>1. ASSUME NEW b \in Build, NEW p \in Profile, Start(b, p) PROVE RunsOK'
  <2> DEFINE r == [NoBuild EXCEPT !.pc = "starting", !.profile = p]
  <2>1. r \in BuildRecord /\ r.pc = "starting" /\ r.profile = p
    BY DEF NoBuild, BuildRecord
  <2>2. build' = [build EXCEPT ![b] = r] /\ UNCHANGED slot
    BY <1>1 DEF Start
  <2> HIDE DEF r
  <2>3. QED
    BY <1>0, <2>1, <2>2
<1>2. ASSUME NEW b \in Build, Queue(b) PROVE RunsOK'
  <2> DEFINE r == [build[b] EXCEPT !.pc = "queued", !.state = "Queued"]
  <2>1. r \in BuildRecord /\ r.profile = build[b].profile /\ build[b].profile \in Profile
    <3>1. build[b] \in BuildRecord /\ build[b].profile \in Profile
      BY <1>2 DEF Queue, RunsOK
    <3>2. \A q \in BuildRecord :
             [q EXCEPT !.pc = "queued", !.state = "Queued"] \in
                 {z \in BuildRecord : z.profile = q.profile}
      BY DEF BuildRecord
    <3>3. QED
      BY <3>1, <3>2
  <2>2. build' = [build EXCEPT ![b] = r] /\ active' = b /\ UNCHANGED cancelled
    BY <1>2 DEF Queue, RunsOK
  <2>3. \A c \in Build : build[c].pc \notin {"queued", "building", "commit", "ended"}
    BY <1>2, BuildAssumption DEF Queue, RunsOK
  <2> HIDE DEF r
  <2>4. QED
    BY <2>1, <2>2, <2>3 DEF RunsOK
<1>3. ASSUME NEW b \in Build, BuildBusy(b) PROVE RunsOK'
  <2>1. NoBuild \in BuildRecord /\ NoBuild.pc = "none"
    BY DEF NoBuild, BuildRecord
  <2>2. build' = [build EXCEPT ![b] = NoBuild] /\ UNCHANGED slot
    BY <1>3 DEF BuildBusy
  <2>3. QED
    BY <1>0, <2>1, <2>2
<1>4. ASSUME NEW b \in Build, CancelRun(b) PROVE RunsOK'
  BY <1>4 DEF CancelRun, RunsOK
<1>5. ASSUME NEW b \in Build, Launch(b) PROVE RunsOK'
  <2>1. CASE End(b, "Cancelled") \/ End(b, "AnalysisFailed")
    BY <1>5, <2>1, EndType DEF Launch
  <2>2. CASE /\ build[b].pc = "queued"
             /\ build' = [build EXCEPT ![b].pc = "building", ![b].state = "Running",
                                       ![b].before = file[build[b].profile]]
    <3>1. file[build[b].profile] \in File \cup {None} /\ active = b /\ build[b].profile \in Profile
      BY <2>2 DEF RunsOK, FilesOK
    <3>2. UNCHANGED slot
      BY <1>5 DEF Launch
    <3> DEFINE r == [build[b] EXCEPT !.pc = "building", !.state = "Running",
                                     !.before = file[build[b].profile]]
    <3>3. r \in BuildRecord /\ r.profile = build[b].profile
      BY <3>1 DEF RunsOK, BuildRecord
    <3>4. build' = [build EXCEPT ![b] = r]
      BY <2>2 DEF RunsOK
    <3> HIDE DEF r
    <3>5. QED
      BY <1>0, <3>1, <3>2, <3>3, <3>4
  <2>3. QED
    BY <1>5, <2>1, <2>2 DEF Launch
<1>6. ASSUME NEW b \in Build, BuildSucceeds(b) PROVE RunsOK'
  <2>1. file[build[b].profile] \in File \cup {None} /\ active = b /\ build[b].profile \in Profile
    BY <1>6 DEF BuildSucceeds, RunsOK, FilesOK
  <2> DEFINE r == [build[b] EXCEPT !.pc = "commit", !.after = file[build[b].profile]]
  <2>2. r \in BuildRecord /\ r.profile = build[b].profile
    BY <2>1 DEF RunsOK, BuildRecord
  <2>3. build' = [build EXCEPT ![b] = r] /\ UNCHANGED slot
    BY <1>6 DEF BuildSucceeds, RunsOK
  <2> HIDE DEF r
  <2>4. QED
    BY <1>0, <2>1, <2>2, <2>3
<1>7. ASSUME NEW b \in Build, BuildEnds(b) PROVE RunsOK'
  <2>1. PICK s \in Outcomes : End(b, s)
    BY <1>7 DEF BuildEnds
  <2>2. QED
    BY <1>7, <2>1, EndType DEF BuildEnds
<1>8. ASSUME NEW b \in Build, Clear(b) PROVE RunsOK'
  <2>1. Past(b) \in BuildRecord /\ Past(b).pc = "done" /\ Past(b).profile \in Profile
    BY <1>8 DEF Clear, Past, RunsOK, BuildRecord, NoBuild
  <2>2. QED
    BY <1>8, <2>1 DEF Clear, RunsOK
<1>9. ASSUME NEW b \in Build, Commit(b) \/ RollBack(b) \/ Select(b) PROVE RunsOK'
  <2>1. build[b].pc = "commit" /\ UNCHANGED slot
    BY <1>9 DEF Commit, RollBack, Select, Holds
  <2>2. UNCHANGED build \/ \E s \in Outcomes : End(b, s)
    BY <1>9 DEF Commit, RollBack, Select
  <2>3. UNCHANGED <<build, slot>> => RunsOK'
    BY DEF RunsOK, slot
  <2>4. QED
    BY <2>1, <2>2, <2>3, EndType
<1>10. CASE Prune
  <2>1. UNCHANGED slot
    BY <1>10 DEF Prune
  <2>2. UNCHANGED build \/ \E b \in Build, s \in Outcomes : build[b].pc = "commit" /\ End(b, s)
    BY <1>10 DEF Prune, Holds
  <2>3. UNCHANGED <<build, slot>> => RunsOK'
    BY DEF RunsOK, slot
  <2>4. QED
    BY <2>1, <2>2, <2>3, EndType
<1>11. CASE Restart
  <2>1. ASSUME NEW b \in Build
        PROVE  /\ build'[b] \in BuildRecord /\ build'[b].pc \in {"none", "done"}
               /\ build'[b].pc # "none" => build'[b].profile \in Profile
    BY <1>11 DEF Restart, Past, RunsOK, BuildRecord, NoBuild
  <2>2. build' \in [Build -> BuildRecord]
    <3>1. build' = [b \in Build |-> build'[b]]
      BY <1>11 DEF Restart
    <3>2. QED
      BY <2>1, <3>1
  <2>3. active' = None /\ cancelled' = {}
    BY <1>11 DEF Restart
  <2>4. QED
    BY <2>1, <2>2, <2>3 DEF RunsOK
<1>12. Settings => UNCHANGED <<build, slot>>
  BY DEF Settings, Register, Answered, Forget, RemoveRoot, Forgotten, SetPolicy
<1>13. ASSUME NEW b \in Build, Enforce(b) \/ BuildWrites(b) PROVE UNCHANGED <<build, slot>>
  BY <1>13 DEF Enforce, BuildWrites
<1>14. ASSUME NEW a \in Analyst, AnalysisReads(a) \/ Analysing(a) PROVE UNCHANGED <<build, slot>>
  BY <1>14 DEF Analysing, AnalysisReads, AnalysisSkips, AnalysisEnters, Observe
<1>15. ASSUME NEW p \in Profile, Evict(p) \/ EvictFails(p) \/ Undo(p) \/ OutsideEdit(p)
       PROVE  UNCHANGED <<build, slot>>
  BY <1>15 DEF Evict, EvictFails, Undo, OutsideEdit
<1>16. UNCHANGED <<build, slot>> => RunsOK'
  BY DEF RunsOK, slot
<1>17. UNCHANGED vars => UNCHANGED <<build, slot>>
  BY DEF vars, slot
<1>18. QED
  BY <1>1, <1>2, <1>3, <1>4, <1>5, <1>6, <1>7, <1>8, <1>9, <1>10, <1>11, <1>12, <1>13, <1>14,
     <1>15, <1>16, <1>17 DEF Next, Command, Running, Enforcing, Environment

LEMMA HolderType ==
    ASSUME NEW x \in Build \cup Analyst \cup Profile,
           NEW place \in {"idle", "stamped", "selected", "observe", "enforcing", "asking",
                         "forgetting"}
    PROVE  [Idle EXCEPT !.by = x, !.pc = place] \in Operation
<1>1. \A o \in Operation : [o EXCEPT !.by = x, !.pc = place] \in Operation
  BY DEF Operation
<1>2. QED
  BY <1>1, IdleType

LEMMA EligibleType == \A l : Eligible(l) \in SUBSET Profile
BY DEF Eligible

\* The operation moves on with another queue.
LEMMA QueueType ==
    ASSUME LedgerOK, NEW rest \in SUBSET Profile, NEW gone \in SUBSET Profile,
           NEW place \in {"selected", "enforcing"}, NEW failed \in BOOLEAN
    PROVE  /\ [op EXCEPT !.pc = place, !.queue = rest] \in Operation
           /\ [op EXCEPT !.pc = place] \in Operation
           /\ [op EXCEPT !.queue = rest, !.moved = gone] \in Operation
           /\ [op EXCEPT !.queue = rest, !.failed = failed] \in Operation
BY DEF LedgerOK, Operation

LEMMA LedgerStep == LedgerOK /\ FilesOK /\ RunsOK /\ Holds /\ [Next]_vars => LedgerOK'
<1> SUFFICES ASSUME LedgerOK, FilesOK, RunsOK, Holds, [Next]_vars PROVE LedgerOK'
  OBVIOUS
<1>0. /\ ledger \in Ledger /\ op \in Operation /\ Idle \in Operation
      /\ ledger' \in Ledger /\ op' \in Operation => LedgerOK'
  BY IdleType DEF LedgerOK
<1>1. ASSUME NEW p \in Profile, Forget(p) PROVE LedgerOK'
  <2> DEFINE l == [gen |-> [ledger.gen EXCEPT ![p] = Unknown],
                   stamp |-> IF StampProfile(ledger) = p THEN None ELSE ledger.stamp]
  <2>1. Unknown \in Generation
    BY DEF Unknown, Generation
  <2>2. l \in Ledger
    BY <2>1, <1>0 DEF Ledger
  <2>3. ledger' = l
    BY <1>1 DEF Forget, Written
  <2>4. op' \in Operation
    BY <1>1, HolderType DEF Forget
  <2> HIDE DEF l
  <2>5. QED
    BY <1>0, <2>2, <2>3, <2>4
<1>2. CASE Answered \/ Forgotten
  BY <1>0, <1>2 DEF Answered, Forgotten
<1>3. ASSUME NEW b \in Build, Commit(b) PROVE LedgerOK'
  <2>1. CASE \E readable \in SUBSET Profile : ledger' = Committed(b, readable)
    <3>1. op' = [Idle EXCEPT !.by = b, !.pc = "stamped", !.previous = ledger] \/ UNCHANGED op
      BY <1>3 DEF Commit
    <3>2. [Idle EXCEPT !.by = b, !.pc = "stamped", !.previous = ledger] \in Operation
      <4>1. \A o \in Operation : [o EXCEPT !.by = b, !.pc = "stamped", !.previous = ledger] \in Operation
        BY <1>0 DEF Operation
      <4>2. QED
        BY <1>0, <4>1
    <3>3. ledger' \in Ledger
      BY <2>1, CommittedType
    <3>4. QED
      BY <1>0, <3>1, <3>2, <3>3
  <2>2. CASE UNCHANGED <<ledger, op>>
    BY <1>0, <2>2
  <2>3. QED
    BY <1>3, <2>1, <2>2 DEF Commit, Written, WriteFails
<1>4. ASSUME NEW b \in Build, RollBack(b) PROVE LedgerOK'
  <2>1. op.previous \in Ledger
    BY <1>0 DEF Operation
  <2>2. (ledger' = op.previous \/ UNCHANGED ledger) /\ op' = Idle
    BY <1>4 DEF RollBack, Written, WriteFails
  <2>3. QED
    BY <1>0, <2>1, <2>2
<1>5. ASSUME NEW b \in Build, Select(b) PROVE LedgerOK'
  <2>1. UNCHANGED ledger
    BY <1>5 DEF Select
  <2>2. \/ op' = Idle
        \/ \E stale \in SUBSET Profile : op' = [op EXCEPT !.pc = "selected", !.queue = stale]
    BY <1>5, EligibleType DEF Select
  <2>3. QED
    BY <1>0, <2>1, <2>2, QueueType
<1>6. ASSUME NEW b \in Build, Enforce(b) PROVE LedgerOK'
  BY <1>0, <1>6, QueueType DEF Enforce
<1>7. ASSUME NEW a \in Analyst, AnalysisEnters(a) PROVE LedgerOK'
  BY <1>0, <1>7, HolderType DEF AnalysisEnters
<1>8. ASSUME NEW a \in Analyst, Observe(a) PROVE LedgerOK'
  <2>1. UNCHANGED ledger \/ \E readable \in SUBSET Profile : ledger' = Analysed(readable)
    BY <1>8 DEF Observe, Written, WriteFails
  <2>2. ledger' \in Ledger
    BY <1>0, <2>1, AnalysedType
  <2>3. \/ op' = Idle
        \/ \E stale \in SUBSET Profile : op' = [op EXCEPT !.pc = "enforcing", !.queue = stale]
    BY <1>8, EligibleType DEF Observe
  <2>4. QED
    BY <1>0, <2>2, <2>3, QueueType
<1>9. ASSUME NEW p \in Profile, Evict(p) PROVE LedgerOK'
  <2>1. op.queue \ {p} \in SUBSET Profile /\ op.moved \cup {p} \in SUBSET Profile
    BY <1>0 DEF Operation
  <2>2. op' = [op EXCEPT !.queue = op.queue \ {p}, !.moved = op.moved \cup {p}] /\ UNCHANGED ledger
    BY <1>9 DEF Evict
  <2>3. QED
    BY <1>0, <2>1, <2>2, QueueType
<1>10. ASSUME NEW p \in Profile, EvictFails(p) PROVE LedgerOK'
  <2>1. \E rest \in SUBSET Profile : op' = [op EXCEPT !.queue = rest, !.failed = TRUE]
    <3>1. op.queue \ {p} \in SUBSET Profile
      BY <1>0 DEF Operation
    <3>2. QED
      BY <1>10, <3>1 DEF EvictFails
  <2>2. UNCHANGED ledger
    BY <1>10 DEF EvictFails
  <2>3. QED
    BY <1>0, <2>1, <2>2, QueueType
<1>11. CASE Prune
  <2>1. op.moved \in SUBSET Profile
    BY <1>0 DEF Operation
  <2>2. op' = Idle
    BY <1>11 DEF Prune
  <2>3. \/ ledger' = [ledger EXCEPT !.gen =
                        [p \in Profile |-> IF p \in op.moved THEN Unknown ELSE @[p]]]
        \/ UNCHANGED ledger
    BY <1>11 DEF Prune, Written, WriteFails
  <2>4. ledger' \in Ledger
    BY <1>0, <2>1, <2>3, PrunedType
  <2>5. QED
    BY <1>0, <2>2, <2>4
<1>12. CASE Restart
  BY <1>0, <1>12 DEF Restart
<1>13. UNCHANGED <<ledger, op>> => LedgerOK'
  BY DEF LedgerOK
<1>14. ASSUME NEW p \in Profile,
              RemoveRoot(p) \/ Undo(p) \/ OutsideEdit(p)
       PROVE  UNCHANGED <<ledger, op>>
  BY <1>14 DEF RemoveRoot, Undo, OutsideEdit
<1>15. ASSUME NEW on \in BOOLEAN, NEW projects \in SUBSET Profile, SetPolicy(on, projects)
       PROVE  UNCHANGED <<ledger, op>>
  BY <1>15 DEF SetPolicy
<1>16. ASSUME NEW b \in Build,
              \/ Command(b) \/ Queue(b) \/ BuildBusy(b) \/ Launch(b) \/ Clear(b)
              \/ BuildWrites(b) \/ BuildSucceeds(b) \/ BuildEnds(b)
       PROVE  UNCHANGED <<ledger, op>>
  BY <1>16 DEF Command, Start, CancelRun, Queue, BuildBusy, Launch, Clear, BuildWrites,
     BuildSucceeds, BuildEnds
<1>17. ASSUME NEW a \in Analyst, AnalysisReads(a) \/ AnalysisSkips(a)
       PROVE  UNCHANGED <<ledger, op>>
  BY <1>17 DEF AnalysisReads, AnalysisSkips
<1>18. UNCHANGED vars => UNCHANGED <<ledger, op>>
  BY DEF vars
<1>19. ASSUME NEW p \in Profile, Register(p) PROVE LedgerOK'
  BY <1>0, <1>19, HolderType DEF Register
<1>20. QED
  BY <1>1, <1>2, <1>3, <1>4, <1>5, <1>6, <1>7, <1>8, <1>9, <1>10, <1>11, <1>12, <1>13, <1>14,
     <1>15, <1>16, <1>17, <1>18, <1>19
  DEF Next, Settings, Running, Analysing, Enforcing, Environment

LEMMA TypeStep == IInv /\ [Next]_vars => TypeOK'
<1>1. TypeOK' <=> SavedOK' /\ LedgerOK' /\ FilesOK' /\ RunsOK' /\ AnalystsOK'
  BY TypeParts, PTL
<1>2. QED
  BY <1>1, TypeParts, SavedStep, LedgerStep, FilesStep, RunsStep, AnalystsStep DEF IInv, Credit

-----------------------------------------------------------------------------
(* Whom the ledger credits *)

\* A ledger whose stamp, if it has one, credits a run that is over.
Over(l) ==
    l.stamp # None =>
        build[l.stamp].pc \in {"ended", "done"} /\ build[l.stamp].state # "Cancelled"

LEMMA CreditKept == Credit /\ UNCHANGED <<profiles, ledger, op, build>> => Credit'
BY DEF Credit, Valid, StampProfile, Stamped, Holds, Returnable, Unnamed, Shown

\* Neither the ledger, nor the operation, nor the ledger to go back to names a run before
\* its commit: it may do what it likes.
LEMMA BeforeCommit ==
    ASSUME LedgerOK, Credit, NEW b \in Build,
           build[b].pc \in {"none", "starting", "queued", "building"},
           UNCHANGED <<profiles, ledger, op>>,
           \A c \in Build : c # b => build'[c] = build[c],
           build'[b].state = "Cancelled" => build'[b].pc = "ended"
    PROVE  Credit'
<1>1. ledger.stamp \in Build \cup {None} /\ op.previous.stamp \in Build \cup {None}
  BY DEF LedgerOK, Ledger, Operation
<1>2. ledger.stamp # b /\ op.by # b
  BY BuildAssumption DEF Credit, Stamped, Holds
<1>3. op.pc \in {"stamped", "selected"} => op.previous.stamp # b
  BY BuildAssumption DEF Credit, Returnable
<1>4. StampProfile(ledger)' = StampProfile(ledger)
  BY <1>1, <1>2 DEF StampProfile
<1>5. Valid(ledger)'
  BY <1>4 DEF Credit, Valid
<1>6. Stamped'
  BY <1>1, <1>2 DEF Credit, Stamped
<1>7. Holds' /\ Shown'
  BY <1>2 DEF Credit, Holds, Shown
<1>8. Returnable'
  BY <1>1, <1>3 DEF Credit, Returnable
<1>9. Unnamed'
  BY <1>4 DEF Credit, Unnamed
<1>10. QED
  BY <1>5, <1>6, <1>7, <1>8, <1>9 DEF Credit

\* The holder of the writer is no run, before and after; the ledger keeps its stamp.
LEMMA NoRunHolds ==
    ASSUME LedgerOK, Credit, op.by \notin Build, UNCHANGED <<profiles, build>>,
           NEW l \in Ledger, Valid(l), l.stamp = ledger.stamp, ledger' = l,
           op'.by \notin Build, op'.pc \notin {"stamped", "selected", "asking", "forgetting"}
    PROVE  Credit'
<1>1. l.stamp \in Build \cup {None}
  BY DEF Ledger
<1>2. Valid(ledger)'
  BY DEF Valid, StampProfile
<1>3. Stamped'
  BY <1>1 DEF Credit, Stamped
<1>4. Holds' /\ Returnable' /\ Unnamed' /\ Shown'
  BY DEF Credit, Holds, Returnable, Unnamed, Shown
<1>5. QED
  BY <1>2, <1>3, <1>4 DEF Credit

\* A run gives the writer back with its outcome.
LEMMA RunEnds ==
    ASSUME RunsOK, Credit, NEW b \in Build, build[b].pc = "commit",
           NEW s \in {"Succeeded", "Failed", "Cancelled", "AnalysisFailed"}, End(b, s),
           UNCHANGED profiles, op' = Idle,
           NEW l \in Ledger, Valid(l), ledger' = l,
           l.stamp = b => s # "Cancelled",
           l.stamp # b => Over(l)
    PROVE  Credit'
<1> DEFINE past == [NoBuild EXCEPT !.pc = "ended", !.state = s, !.profile = build[b].profile]
<1>1. past.pc = "ended" /\ past.state = s /\ past.profile = build[b].profile
  BY DEF NoBuild
<1>2. build' = [build EXCEPT ![b] = past]
  BY DEF End
<1> HIDE DEF past
<1>3. build'[b] = past /\ \A c \in Build : c # b => build'[c] = build[c]
  BY <1>2 DEF RunsOK
<1>4. l.stamp \in Build \cup {None}
  BY DEF Ledger
<1>5. l.stamp # None => build'[l.stamp].profile = build[l.stamp].profile
  BY <1>1, <1>3, <1>4
<1>6. Valid(ledger)'
  BY <1>5 DEF Valid, StampProfile
<1>7. Stamped'
  <2>1. ledger'.stamp = l.stamp
    OBVIOUS
  <2>2. CASE l.stamp = b
    BY <1>1, <1>3, <2>1, <2>2 DEF Stamped
  <2>3. CASE l.stamp # b
    BY <1>3, <1>4, <2>1, <2>3 DEF Stamped, Over
  <2>4. QED
    BY <2>2, <2>3
<1>8. op'.by = None /\ op'.pc = "idle"
  BY DEF Idle
<1>9. Holds' /\ Returnable' /\ Unnamed'
  BY <1>8, BuildAssumption DEF Holds, Returnable, Unnamed
<1>10. Shown'
  BY <1>1, <1>3 DEF Credit, Shown
<1>11. QED
  BY <1>6, <1>7, <1>9, <1>10 DEF Credit

\* While no run holds the writer the stamp credits one that is over.
LEMMA StampIsPast ==
    ASSUME LedgerOK, Credit, op.by \notin Build
    PROVE  Over(ledger)
BY DEF LedgerOK, Ledger, Credit, Stamped, Over

LEMMA IdleHolder == Idle.by = None /\ Idle.pc = "idle" /\ None \notin Build
BY BuildAssumption DEF Idle

LEMMA SettingsCredit == LedgerOK /\ Credit /\ Settings => Credit'
<1> SUFFICES ASSUME LedgerOK, Credit, Settings PROVE Credit'
  OBVIOUS
<1>1. ASSUME NEW p \in Profile, Register(p) PROVE Credit'
  <2>1. /\ UNCHANGED <<profiles, ledger, build>> /\ op.by \notin Build
        /\ op'.by = p /\ op'.pc = "asking" /\ p \notin Build
    BY <1>1, IdleHolder, BuildAssumption DEF Register, WriterFree, saved, Idle
  <2>2. Valid(ledger)'
    BY <2>1 DEF Credit, Valid, StampProfile
  <2>3. Over(ledger)
    BY <2>1, StampIsPast
  <2>4. Stamped'
    BY <2>1, <2>3 DEF Stamped, Over
  <2>5. Holds' /\ Returnable' /\ Unnamed' /\ Shown'
    BY <2>1 DEF Credit, Holds, Returnable, Unnamed, Shown
  <2>6. QED
    BY <2>2, <2>4, <2>5 DEF Credit
<1>2. ASSUME NEW p \in Profile, Forget(p) PROVE Credit'
  <2> DEFINE l == [gen |-> [ledger.gen EXCEPT ![p] = Unknown],
                   stamp |-> IF StampProfile(ledger) = p THEN None ELSE ledger.stamp]
             o == [Idle EXCEPT !.by = p, !.pc = "forgetting"]
  <2>1. /\ l.stamp = None \/ (l.stamp = ledger.stamp /\ StampProfile(ledger) # p)
        /\ ~ l.gen[p].known
    BY DEF LedgerOK, Ledger, Unknown
  <2>2. o.by = p /\ o.pc = "forgetting"
    BY DEF Idle
  <2>3. Valid(l) /\ ledger' = l /\ op' = o /\ UNCHANGED <<profiles, build>> /\ op.by \notin Build
    BY <1>2, IdleHolder DEF Forget, Written, WriterFree, saved
  <2>4. p \notin Build
    BY BuildAssumption
  <2> HIDE DEF l, o
  <2>5. Valid(ledger)'
    BY <2>3 DEF Valid, StampProfile
  <2>6. Over(ledger)
    BY <2>3, StampIsPast
  <2>7. Stamped'
    BY <2>1, <2>3, <2>6 DEF Stamped, Over
  <2>8. Unnamed'
    BY <2>1, <2>2, <2>3 DEF Unnamed, StampProfile
  <2>9. Holds' /\ Returnable' /\ Shown'
    BY <2>2, <2>3, <2>4 DEF Credit, Holds, Returnable, Shown
  <2>10. QED
    BY <2>5, <2>7, <2>8, <2>9 DEF Credit
<1>3. CASE Forgotten
  <2>1. /\ UNCHANGED <<ledger, build>> /\ op' = Idle
        /\ profiles' = profiles \ {op.by} \/ UNCHANGED profiles
    BY <1>3 DEF Forgotten
  <2>2. op.by \in Profile /\ ~ ledger.gen[op.by].known
        /\ (ledger.stamp # None => StampProfile(ledger) # op.by)
    BY <1>3 DEF Forgotten, Credit, Unnamed
  <2>3. Valid(ledger)'
    BY <2>1, <2>2 DEF Credit, Valid, StampProfile
  <2>4. Over(ledger)
    BY <2>2, StampIsPast, BuildAssumption
  <2>5. Stamped'
    BY <2>1, <2>4 DEF Stamped, Over
  <2>6. Holds' /\ Returnable' /\ Unnamed' /\ Shown'
    BY <2>1, IdleHolder DEF Credit, Holds, Returnable, Unnamed, Shown
  <2>7. QED
    BY <2>3, <2>5, <2>6 DEF Credit
<1>4. ASSUME NEW p \in Profile, RemoveRoot(p) PROVE Credit'
  BY <1>4, CreditKept DEF RemoveRoot
<1>5. ASSUME NEW on \in BOOLEAN, NEW projects \in SUBSET Profile, SetPolicy(on, projects)
      PROVE  Credit'
  BY <1>5, CreditKept DEF SetPolicy
<1>6. CASE Answered
  <2>1. UNCHANGED <<ledger, build>> /\ op' = Idle /\ profiles \subseteq profiles'
    BY <1>6 DEF Answered
  <2>2. op.by \notin Build
    BY <1>6, BuildAssumption DEF Answered, Credit, Unnamed
  <2>3. Valid(ledger)'
    BY <2>1 DEF Credit, Valid, StampProfile
  <2>4. Over(ledger)
    BY <2>2, StampIsPast
  <2>5. Stamped'
    BY <2>1, <2>4 DEF Stamped, Over
  <2>6. Holds' /\ Returnable' /\ Unnamed' /\ Shown'
    BY <2>1, IdleHolder DEF Credit, Holds, Returnable, Unnamed, Shown
  <2>7. QED
    BY <2>3, <2>5, <2>6 DEF Credit
<1>7. QED
  BY <1>1, <1>2, <1>3, <1>4, <1>5, <1>6 DEF Settings

\* The steps of a run that leave the ledger and the writer alone.
LEMMA RunCredit ==
    ASSUME LedgerOK, RunsOK, Credit, NEW b \in Build,
           \/ \E p \in Profile : Start(b, p)
           \/ CancelRun(b) \/ Queue(b) \/ BuildBusy(b) \/ Launch(b) \/ Clear(b)
           \/ BuildWrites(b) \/ BuildSucceeds(b) \/ BuildEnds(b)
    PROVE  Credit'
<1>1. ASSUME CancelRun(b) \/ BuildWrites(b) PROVE Credit'
  BY <1>1, CreditKept DEF CancelRun, BuildWrites, saved
<1>2. ASSUME NEW r, build' = [build EXCEPT ![b] = r], r.state = "Cancelled" => r.pc = "ended",
             build[b].pc \in {"none", "starting", "queued", "building"},
             UNCHANGED <<saved, ledger, op>>
      PROVE  Credit'
  <2>1. build'[b] = r /\ \A c \in Build : c # b => build'[c] = build[c]
    BY <1>2 DEF RunsOK
  <2>2. UNCHANGED <<profiles, ledger, op>>
    BY <1>2 DEF saved
  <2>3. QED
    BY <1>2, <2>1, <2>2, BeforeCommit
<1>3. ASSUME NEW s, End(b, s), build[b].pc \in {"queued", "building"},
             UNCHANGED <<saved, ledger, op>>
      PROVE  Credit'
  <2> DEFINE past == [NoBuild EXCEPT !.pc = "ended", !.state = s, !.profile = build[b].profile]
  <2>1. past.pc = "ended" /\ build' = [build EXCEPT ![b] = past]
    BY <1>3 DEF End, NoBuild
  <2> HIDE DEF past
  <2>2. QED
    BY <1>2, <1>3, <2>1
<1>4. ASSUME NEW p \in Profile, Start(b, p) PROVE Credit'
  <2> DEFINE r == [NoBuild EXCEPT !.pc = "starting", !.profile = p]
  <2>1. r.state # "Cancelled" /\ build' = [build EXCEPT ![b] = r]
    BY <1>4 DEF Start, NoBuild
  <2>2. build[b].pc = "none" /\ UNCHANGED <<saved, ledger, op>>
    BY <1>4 DEF Start
  <2> HIDE DEF r
  <2>3. QED
    BY <1>2, <2>1, <2>2
<1>5. ASSUME Queue(b) PROVE Credit'
  <2> DEFINE r == [build[b] EXCEPT !.pc = "queued", !.state = "Queued"]
  <2>1. r.state # "Cancelled" /\ build' = [build EXCEPT ![b] = r]
    BY <1>5 DEF Queue, RunsOK, BuildRecord
  <2>2. build[b].pc = "starting" /\ UNCHANGED <<saved, ledger, op>>
    BY <1>5 DEF Queue
  <2> HIDE DEF r
  <2>3. QED
    BY <1>2, <2>1, <2>2
<1>6. ASSUME BuildBusy(b) PROVE Credit'
  <2>1. NoBuild.state # "Cancelled"
    BY DEF NoBuild
  <2>2. /\ build[b].pc = "starting" /\ UNCHANGED <<saved, ledger, op>>
        /\ build' = [build EXCEPT ![b] = NoBuild]
    BY <1>6 DEF BuildBusy
  <2>3. QED
    BY <1>2, <2>1, <2>2
<1>7. ASSUME Launch(b) PROVE Credit'
  <2>1. build[b].pc = "queued" /\ UNCHANGED <<saved, ledger, op>>
    BY <1>7 DEF Launch
  <2>2. CASE End(b, "Cancelled") \/ End(b, "AnalysisFailed")
    BY <1>3, <2>1, <2>2
  <2> DEFINE r == [build[b] EXCEPT !.pc = "building", !.state = "Running",
                                   !.before = file[build[b].profile]]
  <2>3. r.state # "Cancelled"
    BY DEF RunsOK, BuildRecord
  <2>4. \/ End(b, "Cancelled") \/ End(b, "AnalysisFailed") \/ build' = [build EXCEPT ![b] = r]
    BY <1>7 DEF Launch, RunsOK
  <2> HIDE DEF r
  <2>5. QED
    BY <1>2, <2>1, <2>2, <2>3, <2>4
<1>8. ASSUME BuildSucceeds(b) PROVE Credit'
  <2> DEFINE r == [build[b] EXCEPT !.pc = "commit", !.after = file[build[b].profile]]
  <2>1. build[b].pc = "building" /\ UNCHANGED <<saved, ledger, op>>
    BY <1>8 DEF BuildSucceeds
  <2>2. r.state # "Cancelled"
    BY <2>1 DEF RunsOK, BuildRecord, Credit, Shown
  <2>3. build' = [build EXCEPT ![b] = r]
    BY <1>8 DEF BuildSucceeds, RunsOK
  <2> HIDE DEF r
  <2>4. QED
    BY <1>2, <2>1, <2>2, <2>3
<1>9. ASSUME BuildEnds(b) PROVE Credit'
  <2>1. build[b].pc = "building" /\ UNCHANGED <<saved, ledger, op>> /\ \E s : End(b, s)
    BY <1>9 DEF BuildEnds
  <2>2. QED
    BY <1>3, <2>1
<1>10. ASSUME Clear(b) PROVE Credit'
  <2>1. /\ build[b].pc = "ended" /\ UNCHANGED <<saved, ledger, op>>
        /\ build' = [build EXCEPT ![b] = Past(b)]
    BY <1>10 DEF Clear
  <2>2. Past(b).pc = "done" /\ Past(b).state # "Cancelled" /\ Past(b).profile = build[b].profile
    BY DEF Past, NoBuild
  <2>3. build'[b] = Past(b) /\ \A c \in Build : c # b => build'[c] = build[c]
    BY <2>1 DEF RunsOK
  <2>4. ledger.stamp \in Build \cup {None} /\ op.previous.stamp \in Build \cup {None}
    BY DEF LedgerOK, Ledger, Operation
  <2>5. UNCHANGED <<profiles, ledger, op>>
    BY <2>1 DEF saved
  <2>6. StampProfile(ledger)' = StampProfile(ledger)
    BY <2>2, <2>3, <2>4, <2>5 DEF StampProfile
  <2>7. Valid(ledger)' /\ Unnamed'
    BY <2>5, <2>6 DEF Credit, Valid, Unnamed
  <2>8. Stamped'
    BY <2>2, <2>3, <2>4, <2>5 DEF Credit, Stamped
  <2>9. Returnable'
    BY <2>2, <2>3, <2>4, <2>5 DEF Credit, Returnable
  <2>10. Holds' /\ Shown'
    BY <2>1, <2>2, <2>3, <2>5 DEF Credit, Holds, Shown
  <2>11. QED
    BY <2>7, <2>8, <2>9, <2>10 DEF Credit
<1>11. QED
  BY <1>1, <1>4, <1>5, <1>6, <1>7, <1>8, <1>9, <1>10

\* The commit: the stamp, the rollback, the selection.
LEMMA CommitCredit ==
    ASSUME LedgerOK, FilesOK, RunsOK, Credit, NEW b \in Build,
           Commit(b) \/ RollBack(b) \/ Select(b) \/ Enforce(b)
    PROVE  Credit'
<1>1. ledger \in Ledger /\ op.previous \in Ledger /\ Valid(ledger)
  BY DEF LedgerOK, Operation, Credit
<1>2. CASE Commit(b)
  <2>1. /\ build[b].pc = "commit" /\ UNCHANGED profiles
        /\ op = Idle /\ op.by \notin Build /\ Over(ledger)
    BY <1>2, IdleHolder, StampIsPast DEF Commit, WriterFree, saved
  <2>2. ledger.stamp # b
    BY <2>1, BuildAssumption DEF Over
  <2>3. ASSUME NEW s \in {"Cancelled", "AnalysisFailed"}, End(b, s), UNCHANGED <<ledger, op>>
        PROVE  Credit'
    BY <1>1, <2>1, <2>2, <2>3, RunEnds
  <2>4. ASSUME NEW readable \in SUBSET Profile, Written(Committed(b, readable)), UNCHANGED build,
               op' = [Idle EXCEPT !.by = b, !.pc = "stamped", !.previous = ledger]
        PROVE  Credit'
    <3> DEFINE l == Committed(b, readable)
    <3>1. l.stamp = b /\ ledger' = l /\ Valid(l)
      BY <2>4 DEF Written, Committed
    <3>2. op'.by = b /\ op'.pc = "stamped" /\ op'.previous = ledger
      BY <2>4 DEF Idle
    <3>3. build[b].state # "Cancelled"
      BY <2>1 DEF Credit, Shown
    <3> HIDE DEF l
    <3>4. Valid(ledger)'
      BY <2>1, <2>4, <3>1 DEF Valid, StampProfile
    <3>5. Stamped' /\ Holds'
      BY <2>1, <2>4, <3>1, <3>2, <3>3 DEF Stamped, Holds
    <3>6. Returnable' /\ Unnamed' /\ Shown'
      BY <2>1, <2>4, <3>2 DEF Returnable, Unnamed, Over, Credit, Shown
    <3>7. QED
      BY <3>4, <3>5, <3>6 DEF Credit
  <2>5. QED
    BY <1>2, <2>3, <2>4 DEF Commit, WriteFails
<1>3. CASE RollBack(b)
  <2>1. build[b].pc = "commit" /\ UNCHANGED profiles /\ op' = Idle
    BY <1>3 DEF RollBack, Credit, Holds, saved
  <2>2. Over(op.previous) /\ (ledger.stamp # b => Over(ledger))
    BY <1>1, <1>3 DEF RollBack, Credit, Returnable, Over, Stamped, Ledger
  <2>3. op.previous.stamp # b
    BY <2>1, <2>2, BuildAssumption DEF Over
  <2>4. CASE Written(op.previous) /\ End(b, "Cancelled")
    BY <1>1, <2>1, <2>2, <2>3, <2>4, RunEnds DEF Written
  <2>5. CASE WriteFails /\ End(b, "AnalysisFailed")
    BY <1>1, <2>1, <2>2, <2>5, RunEnds DEF WriteFails
  <2>6. QED
    BY <1>3, <2>4, <2>5 DEF RollBack
<1>4. CASE Select(b)
  <2>1. build[b].pc = "commit" /\ UNCHANGED <<profiles, ledger>>
    BY <1>4 DEF Select, Credit, Holds, saved
  <2>2. ledger.stamp # b => Over(ledger)
    BY <1>1, <1>4 DEF Select, Credit, Over, Stamped, Ledger
  <2>3. ASSUME NEW s \in {"Succeeded", "AnalysisFailed"}, End(b, s), op' = Idle PROVE Credit'
    BY <1>1, <2>1, <2>2, <2>3, RunEnds
  <2>4. ASSUME NEW stale, op' = [op EXCEPT !.pc = "selected", !.queue = stale], UNCHANGED build
        PROVE  Credit'
    <3>1. op.pc = "stamped" /\ op.by = b
      BY <1>4 DEF Select
    <3>2. op'.pc = "selected" /\ op'.by = b /\ op'.previous = op.previous
      BY <2>4, <3>1 DEF LedgerOK, Operation
    <3>3. Valid(ledger)'
      BY <1>1, <2>1, <2>4 DEF Valid, StampProfile
    <3>4. QED
      BY <2>1, <2>4, <3>1, <3>2, <3>3 DEF Credit, Stamped, Holds, Returnable, Unnamed, Shown
  <2>5. QED
    BY <1>4, <2>3, <2>4 DEF Select
<1>5. CASE Enforce(b)
  <2>1. UNCHANGED <<profiles, ledger, build>> /\ op' = [op EXCEPT !.pc = "enforcing"]
    BY <1>5 DEF Enforce, saved
  <2>2. op'.pc = "enforcing" /\ op'.by = op.by
    BY <2>1 DEF LedgerOK, Operation
  <2>3. Valid(ledger)'
    BY <1>1, <2>1 DEF Valid, StampProfile
  <2>4. QED
    BY <2>1, <2>2, <2>3 DEF Credit, Stamped, Holds, Returnable, Unnamed, Shown
<1>6. QED
  BY <1>2, <1>3, <1>4, <1>5

\* Analyses, evictions, the pruning after them, and what comes from outside.
LEMMA OtherCredit ==
    ASSUME LedgerOK, FilesOK, RunsOK, Credit,
           \/ \E a \in Analyst : AnalysisReads(a) \/ Analysing(a)
           \/ Enforcing \/ Environment
    PROVE  Credit'
<1>1. ledger \in Ledger /\ Valid(ledger)
  BY DEF LedgerOK, Credit
<1>2. ASSUME NEW a \in Analyst, AnalysisReads(a) \/ AnalysisSkips(a) PROVE Credit'
  BY <1>2, CreditKept DEF AnalysisReads, AnalysisSkips, saved
<1>3. ASSUME NEW a \in Analyst, AnalysisEnters(a) PROVE Credit'
  <2>1. op.by \notin Build /\ UNCHANGED <<profiles, ledger, build>>
    BY <1>3, IdleHolder DEF AnalysisEnters, WriterFree, saved
  <2>2. op'.by = a /\ op'.pc = "observe" /\ a \notin Build
    BY <1>3, BuildAssumption DEF AnalysisEnters, Idle
  <2>3. QED
    BY <1>1, <2>1, <2>2, NoRunHolds
<1>4. ASSUME NEW a \in Analyst, Observe(a) PROVE Credit'
  <2>1. op.by = a /\ a \notin Build /\ UNCHANGED <<profiles, build>>
    BY <1>4, BuildAssumption DEF Observe, saved
  <2>2. op'.by \notin Build /\ op'.pc \in {"idle", "enforcing"}
    <3>1. op' = Idle \/ \E stale : op' = [op EXCEPT !.pc = "enforcing", !.queue = stale]
      BY <1>4 DEF Observe
    <3>2. ASSUME NEW stale, op' = [op EXCEPT !.pc = "enforcing", !.queue = stale]
          PROVE  op'.by = op.by /\ op'.pc = "enforcing"
      BY <3>2 DEF LedgerOK, Operation
    <3>3. CASE op' = Idle
      BY <3>3, IdleHolder
    <3>4. CASE op' # Idle
      BY <2>1, <3>1, <3>2, <3>4
    <3>5. QED
      BY <3>3, <3>4
  <2>3. \/ UNCHANGED ledger
        \/ \E readable \in SUBSET Profile : Written(Analysed(readable))
    BY <1>4 DEF Observe, WriteFails
  <2>4. CASE UNCHANGED ledger
    BY <1>1, <2>1, <2>2, <2>4, NoRunHolds
  <2>5. ASSUME NEW readable \in SUBSET Profile, Written(Analysed(readable)) PROVE Credit'
    <3>1. /\ Analysed(readable) \in Ledger /\ Analysed(readable).stamp = ledger.stamp
          /\ Valid(Analysed(readable)) /\ ledger' = Analysed(readable)
      BY <2>5, AnalysedType DEF Written
    <3>2. QED
      BY <2>1, <2>2, <3>1, NoRunHolds
  <2>6. QED
    BY <2>3, <2>4, <2>5
<1>5. ASSUME NEW p \in Profile, Evict(p) \/ EvictFails(p) PROVE Credit'
  <2>1. UNCHANGED <<profiles, ledger, build>> /\ op.pc = "enforcing"
    BY <1>5 DEF Evict, EvictFails, saved
  <2>2. op'.by = op.by /\ op'.pc = "enforcing"
    BY <1>5, <2>1 DEF Evict, EvictFails, LedgerOK, Operation
  <2>3. Valid(ledger)'
    BY <1>1, <2>1 DEF Valid, StampProfile
  <2>4. QED
    BY <2>1, <2>2, <2>3 DEF Credit, Stamped, Holds, Returnable, Unnamed, Shown
<1>6. CASE Prune
  <2> DEFINE l == [ledger EXCEPT !.gen =
                     [p \in Profile |-> IF p \in op.moved THEN Unknown ELSE @[p]]]
  <2>1. l \in Ledger /\ l.stamp = ledger.stamp
    BY PrunedType DEF LedgerOK, Operation
  <2>2. UNCHANGED profiles /\ op' = Idle
    BY <1>6 DEF Prune, saved
  <2>3. Written(l) \/ UNCHANGED ledger
    BY <1>6 DEF Prune, WriteFails
  <2>4. IF op.by \in Build THEN \E s \in {"Succeeded", "AnalysisFailed"} : End(op.by, s)
                           ELSE UNCHANGED build
    BY <1>6 DEF Prune
  <2> HIDE DEF l
  <2>5. PICK k \in Ledger : Valid(k) /\ ledger' = k /\ k.stamp = ledger.stamp
    BY <1>1, <2>1, <2>3 DEF Written
  <2>6. CASE op.by \notin Build
    BY <2>2, <2>4, <2>5, <2>6, NoRunHolds, IdleHolder
  <2>7. CASE op.by \in Build
    <3>1. build[op.by].pc = "commit" /\ (ledger.stamp # op.by => Over(ledger))
      BY <1>1, <2>7 DEF Credit, Holds, Stamped, Over, Ledger
    <3>2. k.stamp # op.by => Over(k)
      BY <2>5, <3>1 DEF Over
    <3>3. PICK s \in {"Succeeded", "AnalysisFailed"} : End(op.by, s)
      BY <2>4, <2>7
    <3>4. QED
      BY <2>2, <2>5, <2>7, <3>1, <3>2, <3>3, RunEnds
  <2>8. QED
    BY <2>6, <2>7
<1>7. ASSUME NEW p \in Profile, Undo(p) \/ OutsideEdit(p) PROVE Credit'
  BY <1>7, CreditKept DEF Undo, OutsideEdit, saved
<1>8. CASE Restart
  <2>1. UNCHANGED <<profiles, ledger>> /\ op' = Idle
    BY <1>8 DEF Restart, saved
  <2>2. ASSUME NEW b \in Build
        PROVE  /\ build'[b].state # "Cancelled"
               /\ build[b].pc # "none" =>
                     build'[b].pc = "done" /\ build'[b].profile = build[b].profile
    BY <1>8 DEF Restart, Past, NoBuild
  <2>3. /\ ledger.stamp \in Build \cup {None}
        /\ ledger.stamp # None => build[ledger.stamp].pc # "none"
    BY <1>1 DEF Ledger, Credit, Stamped
  <2>4. Valid(ledger)'
    BY <1>1, <2>1, <2>2, <2>3 DEF Valid, StampProfile
  <2>5. Stamped' /\ Shown'
    BY <2>1, <2>2, <2>3 DEF Stamped, Shown
  <2>6. Holds' /\ Returnable' /\ Unnamed'
    BY <2>1, IdleHolder DEF Holds, Returnable, Unnamed
  <2>7. QED
    BY <2>4, <2>5, <2>6 DEF Credit
<1>9. QED
  BY <1>2, <1>3, <1>4, <1>5, <1>6, <1>7, <1>8 DEF Analysing, Enforcing, Environment

LEMMA InvStep == IInv /\ [Next]_vars => IInv'
<1> SUFFICES ASSUME IInv, [Next]_vars PROVE IInv'
  OBVIOUS
<1>1. TypeOK'
  BY TypeStep
<1>2. LedgerOK /\ FilesOK /\ RunsOK /\ Credit
  BY TypeParts DEF IInv
<1>3. Settings => Credit'
  BY <1>2, SettingsCredit
<1>4. ASSUME NEW b \in Build,
             Command(b) \/ Running(b) \/ BuildWrites(b) \/ BuildSucceeds(b) \/ BuildEnds(b)
      PROVE  Credit'
  BY <1>2, <1>4, RunCredit, CommitCredit DEF Command, Running
<1>5. (\E a \in Analyst : AnalysisReads(a) \/ Analysing(a)) \/ Enforcing \/ Environment => Credit'
  BY <1>2, OtherCredit
<1>6. UNCHANGED vars => Credit'
  BY <1>2, CreditKept DEF vars
<1>7. Credit'
  BY <1>3, <1>4, <1>5, <1>6 DEF Next
<1>8. QED
  BY <1>1, <1>7 DEF IInv

LEMMA Inductive == Spec => []IInv
BY InvInit, InvStep, PTL DEF Spec

-----------------------------------------------------------------------------
(* Theorems *)

\* Every variable keeps its type, and one run at a time is between the queue and its
\* outcome (RunRegistry::active), for any number of profiles, runs and analyses.
THEOREM TypeCorrect == Spec => []TypeOK
<1>1. IInv => TypeOK
  BY DEF IInv
<1>2. QED
  BY <1>1, Inductive, PTL

\* The generation ledger never names a profile that was removed, although the two files are
\* written one after the other, and never credits a run that was reported as cancelled,
\* although cancellation may win after the stamp was written (commit_success).
THEOREM LedgerStaysTrue == Spec => []LedgerIsTrue
<1>1. IInv => LedgerIsTrue
  BY DEF IInv, Credit, Stamped, LedgerIsTrue
<1>2. QED
  BY <1>1, Inductive, PTL
=============================================================================
