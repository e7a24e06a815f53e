--------------------------- MODULE SystemAdapters ---------------------------
(***************************************************************************)
(* One change at a time, from its preview to its rollback, against a       *)
(* Windows that other programs change: the contract of                     *)
(* cleanup-core/system_change.rs over the rules of the adapters.  The plan, *)
(* the journal and the helper as processes are in SystemChange; here the   *)
(* adapter decides what is observed, refused, written and undone.          *)
(***************************************************************************)
EXTENDS AdapterRules

CONSTANTS
    KeepBackups, \* KEEP_BACKUPS of the hosts file
    MaxRuns,     \* bound on executed changes, rollbacks included
    MaxForeign   \* bound on what other programs do

ASSUME RunAssumption ==
    KeepBackups \in Nat \ {0} /\ MaxRuns \in Nat /\ MaxForeign \in Nat

VARIABLES
    kind,    \* the kind of change this behaviour is about
    os,      \* what Windows is
    world,   \* the state of Windows the adapter of that kind reads
    backups, \* copies of the hosts file, each with the second in its name
    clock,   \* the second of the computer's clock
    journal, \* changes that were applied or refused
    job,     \* the change under way
    last,    \* the entry that wrote last, if nothing was written since
    undone,  \* the entry a rollback just restored, if nothing was written since
    count    \* what the bounds bound

adapterVars == <<kind, os, world, backups, clock, journal, job, last, undone, count>>

Change ==
    CASE kind \in {"user", "machine", "policy"} -> RegistryChange
      [] kind \in {"task", "startup", "rule", "profile", "hibernation"} -> OnOff
      [] kind = "service" -> Writable
      [] kind = "scheme" -> Scheme
      [] kind = "driver" -> Package
      [] kind = "restore" -> {"point"}
      [] kind = "schedule" -> Cadence \cup {"none"}
      [] kind = "hosts" -> HostsChange

World(k) ==
    CASE k \in {"user", "machine", "policy"} -> RegistryWorld
      [] k = "task" -> TaskWorld
      [] k = "service" -> ServiceWorld
      [] k = "startup" -> StartupWorld
      [] k = "rule" -> RuleWorld
      [] k = "profile" -> OnOff
      [] k = "hibernation" -> HibernationWorld
      [] k = "scheme" -> SchemeWorld
      [] k = "driver" -> DriverWorld
      [] k = "restore" -> RestoreWorld
      [] k = "schedule" -> ScheduleWorld
      [] k = "hosts" -> HostsWorld

Look(c, w) ==
    CASE kind \in {"user", "machine"} -> ObserveSetting(kind, os, w)
      [] kind = "policy" -> ObservePolicy(os, c, w)
      [] kind = "task" -> ObserveTask(w)
      [] kind = "service" -> ObserveService(w)
      [] kind = "startup" -> ObserveStartup(w)
      [] kind = "rule" -> ObserveRules(w)
      [] kind = "profile" -> ObserveProfile(w)
      [] kind = "hibernation" -> ObserveHibernation(w)
      [] kind = "scheme" -> ObserveScheme(c, w)
      [] kind = "driver" -> ObserveDriver(c, w)
      [] kind = "restore" -> ObserveRestore(w)
      [] kind = "schedule" -> CurrentCadence(c, w)
      [] kind = "hosts" -> ObserveHosts(c, w)

\* What the process that executes observes; the helper does not look at the
\* protection of a restore point again.
LookAgain(c, w) == IF kind = "restore" THEN Seen("NotApplicable") ELSE Look(c, w)

LastLook(c, w) ==
    CASE kind \in {"user", "machine"} -> ApplySetting(kind, os, c)
      [] kind = "policy" -> ApplyPolicy(os, c, w)
      [] kind = "task" -> ApplyTask(w)
      [] kind = "service" -> ApplyService(w)
      [] kind = "startup" -> ApplyStartup(c, w)
      [] kind = "rule" -> ApplyRules(w)
      [] kind \in {"profile", "restore"} -> Go
      [] kind = "hibernation" -> ApplyHibernation(w)
      [] kind = "scheme" -> ApplyScheme(c, w)
      [] kind = "driver" -> ApplyDriver(c, w)
      [] kind = "schedule" -> ApplySchedule(c, w)
      [] kind = "hosts" -> ApplyHosts(c, w)

\* What a write may come to: the value in place, nothing, or for some adapters a part.
Results(c, w) ==
    CASE kind \in {"user", "machine"} -> WriteSetting(c, w)
      [] kind = "policy" -> WritePolicy(c, w)
      [] kind = "task" -> WriteTask(c, w)
      [] kind = "service" -> WriteService(c, w)
      [] kind = "startup" -> WriteStartup(c, w)
      [] kind = "rule" -> WriteRules(c, w)
      [] kind = "profile" -> WriteProfile(c, w)
      [] kind = "hibernation" -> WriteHibernation(c, w)
      [] kind = "scheme" -> WriteScheme(c, w)
      [] kind = "driver" -> Uninstall(c, w)
      [] kind = "restore" -> CreatePoint(w)
      [] kind = "schedule" -> WriteSchedule(c, w)
      [] kind = "hosts" -> Attempt(w, job.new)

-----------------------------------------------------------------------------
(* The contract                                                            *)

Reversible == kind \notin {"driver", "restore"}

\* The change that restores prior, when there is one.
InverseOf(c, prior) ==
    IF ~Reversible THEN {}
    ELSE IF kind = "hosts" THEN {InverseOps(c)}
    ELSE IF kind = "service" /\ prior \notin Writable THEN {}
    ELSE IF kind = "schedule" /\ c = "none" /\ prior = "none" THEN {}
    ELSE {prior}

Satisfied(c, prior, w) ==
    CASE kind = "restore" -> FALSE
      [] kind = "driver" -> prior = "absent"
      [] kind = "hosts" -> InPlace(c, w)
      [] OTHER -> prior = c

\* describe refuses what it cannot name; observe must then succeed too.
Describes(c, w) ==
    CASE kind = "policy" -> DescribesPolicy(c)
      [] kind = "driver" -> DescribesDriver(c, w)
      [] kind = "hosts" -> Applicable(c, w)
      [] kind = "hibernation" -> Supported(w)
      [] kind = "scheme" -> c \in w.listed
      [] OTHER -> TRUE

\* What the page of the module offers.
Listed(c, w) ==
    CASE kind \in {"user", "machine"} -> ListsSetting(kind, os, w)
      [] kind = "policy" -> ListsPolicy(os) /\ c \in Permitted
      [] kind = "task" -> ListsTask(w)
      [] kind = "service" -> ListsService(w)
      [] kind = "startup" -> ListsStartup(w)
      [] kind = "rule" -> ListsRule(w)
      [] kind = "profile" -> TRUE
      [] kind = "hibernation" -> ListsHibernation(w)
      [] kind = "scheme" -> ListsScheme(c, w)
      [] kind = "driver" -> ListsDriver(c, w)
      [] kind = "restore" -> FALSE
      [] kind = "schedule" -> ListsSchedule(c, w)
      [] kind = "hosts" -> ListsLines(c, w)

CanRollBack(e) == ~e.rolledBack /\ Reversible /\ e.outcome = "Applied" /\ e.inverse # {}

-----------------------------------------------------------------------------
NoJob == [phase |-> "none"]

AdapterInit ==
    /\ kind \in Kind
    /\ os \in Os
    /\ world \in World(kind)
    /\ backups = {} /\ clock = 0
    /\ journal = <<>>
    /\ job = NoJob
    /\ last = 0 /\ undone = 0
    /\ count = [runs |-> 0, foreign |-> 0, back |-> FALSE]

\* A preview of change c, of entry n when it is a rollback; the user confirms what it shows.
Propose(c, n) ==
    /\ job = NoJob /\ count.runs < MaxRuns
    /\ Describes(c, world) /\ Look(c, world).ok
    /\ job' = [phase |-> "planned", change |-> c, of |-> n, expected |-> Look(c, world).is,
               late |-> FALSE, raced |-> FALSE]
    /\ count' = [count EXCEPT !.runs = @ + 1]
    /\ clock' = clock + 1
    /\ UNCHANGED <<kind, os, world, backups, journal, last, undone>>

Preview == \E c \in Change : Propose(c, 0)

CreateRollbackPlan ==
    \E n \in DOMAIN journal :
        CanRollBack(journal[n]) /\ \E c \in journal[n].inverse : Propose(c, n)

\* The outcome, with the entry of a change that got as far as its intent.
FinishChange(outcome, prior, recorded) ==
    LET marked == IF job.of # 0 /\ outcome = "Applied"
                  THEN [journal EXCEPT ![job.of].rolledBack = TRUE] ELSE journal
        entry == [change |-> job.change, prior |-> prior,
                  inverse |-> InverseOf(job.change, prior),
                  outcome |-> outcome, rolledBack |-> FALSE]
    IN /\ job' = NoJob
       /\ journal' = IF recorded THEN Append(marked, entry) ELSE marked

\* Mutant: the state is not compared with what the user has seen.
Check_AnyState ==
    /\ job.phase = "planned"
    /\ LET now == LookAgain(job.change, world)
       IN IF ~now.ok THEN FinishChange(now.is, job.expected, FALSE)
          ELSE IF Satisfied(job.change, now.is, world)
               THEN FinishChange("AlreadyApplied", now.is, FALSE)
          ELSE job' = [job EXCEPT !.phase = "checked"] /\ UNCHANGED journal
    /\ UNCHANGED <<kind, os, world, backups, clock, last, undone, count>>

\* execute_standard and apply_item: the state is read again.
Check ==
    /\ job.phase = "planned"
    /\ LET now == LookAgain(job.change, world)
       IN IF ~now.ok THEN FinishChange(now.is, job.expected, FALSE)
          ELSE IF Satisfied(job.change, now.is, world)
               THEN FinishChange("AlreadyApplied", now.is, FALSE)
          ELSE IF now.is # job.expected THEN FinishChange("StateChanged", now.is, FALSE)
          ELSE job' = [job EXCEPT !.phase = "checked"] /\ UNCHANGED journal
    /\ UNCHANGED <<kind, os, world, backups, clock, last, undone, count>>

\* The adapter's own last look before it writes.
Refused ==
    /\ job.phase = "checked"
    /\ ~LastLook(job.change, world).ok
    /\ FinishChange(LastLook(job.change, world).is, job.expected, TRUE)
    /\ UNCHANGED <<kind, os, world, backups, clock, last, undone, count>>

\* The value is there already: applied, and there is an undo for what it replaced.
NothingToWrite ==
    /\ job.phase = "checked"
    /\ LastLook(job.change, world) = Nothing
    /\ FinishChange("Applied", job.expected, TRUE)
    /\ last' = 0 /\ undone' = 0
    /\ UNCHANGED <<kind, os, world, backups, clock, count>>

MayWrite ==
    /\ job.phase = "checked" /\ kind # "hosts"
    /\ LastLook(job.change, world) = Go
    /\ job' = [job EXCEPT !.phase = "writing"]
    /\ UNCHANGED <<kind, os, world, backups, clock, journal, last, undone, count>>

-----------------------------------------------------------------------------
(* replace of the hosts file: back up, prune, write aside, compare, move.  *)

BackUp ==
    /\ job.phase = "checked" /\ kind = "hosts"
    /\ LastLook(job.change, world) = Go
    /\ backups' \in Pruned(KeepBackups, backups \cup {[at |-> clock, lines |-> world]})
    /\ job' = [phase |-> "staged", change |-> job.change, of |-> job.of,
               expected |-> job.expected, late |-> job.late, raced |-> FALSE,
               old |-> world, new |-> Edit(job.change, world)]
    /\ UNCHANGED <<kind, os, world, clock, journal, last, undone, count>>

BackUpFails ==
    /\ job.phase = "checked" /\ kind = "hosts"
    /\ LastLook(job.change, world) = Go
    /\ FinishChange("Failed", job.expected, TRUE)
    /\ UNCHANGED <<kind, os, world, backups, clock, last, undone, count>>

CompareAgain ==
    /\ job.phase = "staged"
    /\ IF world = job.old
       THEN job' = [job EXCEPT !.phase = "writing"] /\ UNCHANGED journal
       ELSE FinishChange("Failed", job.expected, TRUE)
    /\ UNCHANGED <<kind, os, world, backups, clock, last, undone, count>>

-----------------------------------------------------------------------------
\* The write; only its success leaves an entry that can be rolled back.
Write ==
    /\ job.phase = "writing"
    /\ \E r \in Results(job.change, world) :
          /\ world' = r.world
          /\ FinishChange(IF r.ok THEN "Applied" ELSE "Failed", job.expected, TRUE)
          /\ LET clean == r.ok /\ ~job.raced /\ ~job.late
             IN /\ last' = IF clean THEN Len(journal) + 1 ELSE 0
                /\ undone' = IF clean /\ job.of # 0 /\ job.of = last THEN job.of ELSE 0
    /\ UNCHANGED <<kind, os, backups, clock, count>>

-----------------------------------------------------------------------------
(* Others                                                                  *)

OtherProgram ==
    /\ count.foreign < MaxForeign
    /\ world' \in World(kind) \ {world}
    /\ count' = [count EXCEPT !.foreign = @ + 1]
    /\ job' = IF job.phase \in {"checked", "staged"} THEN [job EXCEPT !.late = TRUE]
              ELSE IF job.phase = "writing" THEN [job EXCEPT !.raced = TRUE] ELSE job
    /\ last' = 0 /\ undone' = 0
    /\ UNCHANGED <<kind, os, backups, clock, journal>>

\* The clock of the computer is set back.
ClockSetBack ==
    /\ kind = "hosts" /\ clock > 0 /\ ~count.back /\ count.foreign < MaxForeign
    /\ clock' = 0
    /\ count' = [count EXCEPT !.back = TRUE, !.foreign = @ + 1]
    /\ UNCHANGED <<kind, os, world, backups, journal, job, last, undone>>

AdapterNext ==
    \/ Preview \/ CreateRollbackPlan
    \/ Check \/ Refused \/ NothingToWrite \/ MayWrite
    \/ BackUp \/ BackUpFails \/ CompareAgain
    \/ Write
    \/ OtherProgram \/ ClockSetBack

AdapterSpec == AdapterInit /\ [][AdapterNext]_adapterVars

-----------------------------------------------------------------------------
(* Properties                                                              *)

\* A rollback restores what was observed before the change when nothing else
\* was written since (inverse, record_outcome, the adapters), however many
\* changes came before.  Not so for an edit of the hosts file with a line that
\* was in its target state already: its inverse turns that line too.
UndoRestores ==
    undone # 0 =>
        LET e == journal[undone]
        IN \/ Look(e.change, world) = Seen(e.prior)
           \/ kind = "hosts" /\ \E i \in DOMAIN e.change : e.prior[i] = Target(e.change[i])

\* What is offered can be asked for: the adapter takes the inverse of a change that is
\* offered for rollback while nothing else writes, and previews what a page lists as
\* changeable.  Not so for an undo to a value the catalog does not list (apply_setting
\* and resolve_target refuse it), firewall rules of one name that differ, an update
\* policy that is not a number (the page takes it for one that is not set) and a task
\* this program cannot read.
OfferedIsTaken ==
    /\ last # 0 /\ job = NoJob /\ CanRollBack(journal[last]) =>
        \A c \in journal[last].inverse :
            \/ Describes(c, world) /\ Look(c, world).ok /\ LastLook(c, world).ok
            \/ kind \in {"user", "machine", "policy"} /\ c = "nine"
    /\ job = NoJob =>
        \A c \in Change :
            Listed(c, world) =>
                \/ Describes(c, world) /\ Look(c, world).ok
                \/ kind = "rule" /\ \E i \in DOMAIN world : world[i] # world[1]
                \/ kind = "policy" /\ world = "text"
                \/ kind = "schedule" /\ world.owner = "foreign"

\* What an adapter must leave alone: a driver package nothing newer replaces or whose
\* devices were not all seen, a boot service, a task that is not ours.
Spares(c) ==
    CASE kind = "driver" -> world.complete /\ \E q \in Stored(world) : IsNewer(q, c)
      [] kind = "service" -> world \in Writable
      [] kind = "schedule" -> world.owner # "foreign" /\ (c # "none" => world.owner # "orphan")
      [] OTHER -> TRUE

\* The adapters whose last look lets through nothing but the state that was shown.
Recompares == kind \in {"startup", "driver", "restore"}

\* The step that writes replaces the state the user was shown (expected_prior, compared by
\* execute_standard and apply_item).  What another program wrote after that comparison is
\* lost unless the adapter's own last look refuses it; where it does not compare again,
\* still only the lines of the change are turned in the hosts file as it is then, what
\* must stay is spared, and the file that is replaced is among the backups, through any
\* number of edits and prunings, unless the clock went back (the new backup is then the
\* one that is pruned).  Nothing is said of what is written after the last look (raced).
WritesOverWhatWasShown ==
    [][job.phase = "writing" /\ world' # world /\ job' = NoJob /\ ~ job.raced =>
          /\ LookAgain(job.change, world) = Seen(job.expected) \/ (job.late /\ ~ Recompares)
          /\ Spares(job.change)
          /\ kind = "hosts" =>
                /\ world' = Edit(job.change, world)
                /\ count.back \/ \E b \in backups : b.lines = world]_adapterVars
=============================================================================
