---------------------------- MODULE AdapterRules ----------------------------
(***************************************************************************)
(* What each system adapter reads, refuses and writes: privacy settings    *)
(* (user, machine, task), update policies, services, startup entries, the  *)
(* firewall, hibernation, power plans, driver packages, restore points,    *)
(* scan schedules and the hosts file.                                      *)
(*                                                                         *)
(* A change is the value it asks for; a world is the part of Windows the   *)
(* adapter reads.  Both depend on the kind of change.  Standard adapters   *)
(* and the helper's share these rules; who calls them is in SystemAdapters. *)
(***************************************************************************)
EXTENDS Naturals, Sequences, FiniteSets

CONSTANTS
    MaxLines, \* lines of the hosts file
    Newest    \* DriverVer of each package, newest highest; 0 when it does not parse

ASSUME AdapterAssumption == MaxLines \in Nat /\ Newest \in Seq(Nat)

Kind == {"user", "machine", "policy", "task", "service", "startup", "rule", "profile",
         "hibernation", "scheme", "driver", "restore", "schedule", "hosts"}

\* An observation is a prior state or the reason there is none.
Seen(prior) == [ok |-> TRUE, is |-> prior]
Unsupported == [ok |-> FALSE, is |-> "Unsupported"]
Failed == [ok |-> FALSE, is |-> "Failed"]

\* What the last look of an adapter before its write comes to.
Go == Seen("go")
Nothing == Seen("nothing")

OnOff == {"on", "off"}
Word(enabled) == IF enabled THEN "on" ELSE "off"

\* A write ends with the value in place, or fails and leaves things as they were.
Stays(old) == [ok |-> FALSE, world |-> old]
Attempt(old, new) == {[ok |-> TRUE, world |-> new], Stays(old)}

\* What Windows is: edition, and whether an organization manages the device.
Os == [edition : {"home", "pro"}, managed : BOOLEAN]

-----------------------------------------------------------------------------
(* Registry values: privacy settings of the user and of the machine, and   *)
(* the Windows Update policies.  "text" is a value that is not a number,   *)
(* "nine" a number the catalog does not list.                              *)

Permitted == {"none", "zero", "one"}
RegistryWorld == Permitted \cup {"nine", "text"}
RegistryChange == RegistryWorld \ {"text"}

ReadDword(w) == IF w = "text" THEN Unsupported ELSE Seen(w)

\* check_edition, for the settings that need policy support.
SettingSupported(kind, os) == kind = "user" \/ os.edition # "home"

ObserveSetting(kind, os, w) ==
    IF SettingSupported(kind, os) THEN ReadDword(w) ELSE Unsupported

ApplySetting(kind, os, c) ==
    IF ~SettingSupported(kind, os) THEN Unsupported
    ELSE IF c \notin Permitted THEN Failed ELSE Go

WriteSetting(c, w) == Attempt(w, c)

\* gate and resolve_target; the description needs only the catalog.
DescribesPolicy(c) == c \in Permitted
PolicyResolves(os, c) == os.edition # "home" /\ ~os.managed /\ c \in Permitted

ObservePolicy(os, c, w) == IF PolicyResolves(os, c) THEN ReadDword(w) ELSE Unsupported

ApplyPolicy(os, c, w) ==
    IF ~PolicyResolves(os, c) \/ w = "text" THEN Unsupported
    ELSE IF w = c THEN Nothing ELSE Go

WritePolicy(c, w) == Attempt(w, c)

-----------------------------------------------------------------------------
(* Scheduled tasks of Windows, services, startup entries, power plans.     *)

TaskWorld == OnOff \cup {"absent"}
ObserveTask(w) == IF w = "absent" THEN Unsupported ELSE Seen(w)
ApplyTask(w) == IF w = "absent" THEN Unsupported ELSE Go
WriteTask(c, w) == IF w = "absent" THEN {Stays(w)} ELSE Attempt(w, c)

Writable == {"Automatic", "Manual", "Disabled"}
ServiceWorld == Writable \cup {"Boot", "absent"}
ObserveService(w) == IF w = "absent" THEN Unsupported ELSE Seen(w)
ApplyService(w) ==
    IF w = "absent" THEN Unsupported ELSE IF w \in Writable THEN Go ELSE Failed
\* set_start_type looks once more through the handle it writes with.
WriteService(c, w) == IF w \in Writable THEN Attempt(w, c) ELSE {Stays(w)}

\* The entry, with what StartupApproved holds for it.
StartupWorld == {"absent", "unset", "even", "odd"}
Approved(w) == w # "odd"
ObserveStartup(w) == IF w = "absent" THEN Unsupported ELSE Seen(Word(Approved(w)))
ApplyStartup(c, w) ==
    IF w = "absent" THEN Unsupported
    ELSE IF Word(Approved(w)) = c THEN Nothing ELSE Go
EncodeApproved(c) == IF c = "on" THEN "even" ELSE "odd"
WriteStartup(c, w) == Attempt(w, EncodeApproved(c))

Scheme == {"balanced", "fast"}
SchemeWorld == {s \in [listed : SUBSET Scheme, active : Scheme] : s.active \in s.listed}
ObserveScheme(c, w) == IF c \in w.listed THEN Seen(w.active) ELSE Unsupported
ApplyScheme(c, w) == IF c \in w.listed THEN Go ELSE Unsupported
WriteScheme(c, w) ==
    IF c \in w.listed THEN Attempt(w, [w EXCEPT !.active = c]) ELSE {Stays(w)}

-----------------------------------------------------------------------------
(* Hibernation                                                             *)

HibernationWorld == [s4 : BOOLEAN, file : BOOLEAN, value : {"none", "zero", "one"}]

\* Mutant: a machine that turned hibernation off looks like one without it.
Supported_NotWhenOff(w) == w.s4 \/ w.file
Supported(w) == w.s4 \/ w.file \/ w.value = "zero"

Hibernates(w) == IF w.value = "none" THEN w.s4 \/ w.file ELSE w.value = "one"
ObserveHibernation(w) == IF Supported(w) THEN Seen(Word(Hibernates(w))) ELSE Unsupported
ApplyHibernation(w) == IF Supported(w) THEN Go ELSE Unsupported

\* What powercfg leaves behind: turning off deletes the file and clears SystemS4.
Powercfg(c) ==
    IF c = "on" THEN [s4 |-> TRUE, file |-> TRUE, value |-> "one"]
    ELSE [s4 |-> FALSE, file |-> FALSE, value |-> "zero"]

\* powercfg that is killed at the deadline counts as failed whatever it has done.
WriteHibernation(c, w) == Attempt(w, Powercfg(c)) \cup {Stays(Powercfg(c))}

-----------------------------------------------------------------------------
(* Firewall: rules that share a name change together.                      *)

RuleWorld == UNION {[1 .. n -> OnOff] : n \in 0 .. 2}
ObserveRules(w) ==
    IF w # <<>> /\ \A i \in DOMAIN w : w[i] = w[1] THEN Seen(w[1]) ELSE Unsupported
\* set_rule_enabled sets one after the other and stops at the first that fails.
WriteRules(c, w) ==
    {[ok |-> n = Len(w), world |-> [i \in DOMAIN w |-> IF i <= n THEN c ELSE w[i]]] : n \in 0 .. Len(w)}
ApplyRules(w) == IF w = <<>> THEN Unsupported ELSE Go

\* The profiles of the network are always there.
ObserveProfile(w) == Seen(w)
WriteProfile(c, w) == Attempt(w, c)

-----------------------------------------------------------------------------
(* Driver packages of one family, with the devices bound to them and       *)
(* whether all the devices were seen.                                      *)

Package == DOMAIN Newest
DriverWorld == [state : [Package -> {"absent", "idle", "bound"}], complete : BOOLEAN]

Stored(w) == {p \in Package : w.state[p] # "absent"}
\* Devices past the bound of the enumeration are not known.
KnownBound(w) == {p \in Package : w.complete /\ w.state[p] = "bound"}
IsNewer(q, p) == Newest[q] # 0 /\ Newest[p] # 0 /\ Newest[q] > Newest[p]
Replaced(p, w) == \E q \in Stored(w) : IsNewer(q, p)

Superseded(p, w) == p \notin KnownBound(w) /\ w.complete /\ Replaced(p, w)

DescribesDriver(p, w) == p \in Stored(w)
ObserveDriver(p, w) ==
    IF p \notin Stored(w) THEN Seen("absent")
    ELSE IF Superseded(p, w) THEN Seen("present") ELSE Unsupported

ApplyDriver(p, w) ==
    IF ~ObserveDriver(p, w).ok THEN Unsupported
    ELSE IF ObserveDriver(p, w).is = "absent" THEN Nothing ELSE Go

\* SetupUninstallOEMInf, never forced: Windows keeps a package that is in use.
Uninstall(p, w) ==
    IF w.state[p] = "idle" THEN Attempt(w, [w EXCEPT !.state[p] = "absent"])
    ELSE {Stays(w)}

-----------------------------------------------------------------------------
(* Restore points: the adapter reads the policy, the helper creates.       *)

RestoreWorld == [protection : {"on", "off", "policy"}, points : 0 .. 1]
ObserveRestore(w) == IF w.protection = "on" THEN Seen("NotApplicable") ELSE Unsupported
\* Success is a point that is listed afterwards (verify_created).
CreatePoint(w) == Attempt(w, [w EXCEPT !.points = 1])

-----------------------------------------------------------------------------
(* Scan schedules: a task of ours, one whose action belongs to another     *)
(* installation, or one this program cannot have written.                  *)

Cadence == {"daily", "weekly"}
ScheduleWorld == {[owner |-> "none", cadence |-> "none"]}
    \cup [owner : {"ours", "orphan"}, cadence : Cadence]
    \cup {[owner |-> "foreign", cadence |-> "none"]}

\* current(id, allow_orphan): only a removal accepts an orphan.
CurrentCadence(c, w) ==
    IF w.owner \in {"none", "ours"} \/ (w.owner = "orphan" /\ c = "none")
    THEN Seen(w.cadence) ELSE Unsupported

ApplySchedule(c, w) ==
    IF ~CurrentCadence(c, w).ok THEN Unsupported
    ELSE IF c = "none" /\ w.owner = "none" THEN Nothing ELSE Go

Registered(c) == IF c = "none" THEN [owner |-> "none", cadence |-> "none"]
                 ELSE [owner |-> "ours", cadence |-> c]
WriteSchedule(c, w) == Attempt(w, Registered(c))

-----------------------------------------------------------------------------
(* Hosts file: lines, and edits that name one action for some of them.     *)

\* classify_line, as far as an edit tells lines apart.
Line == {"Mapping", "AppDisabled", "Other"}
HostsWorld == UNION {[1 .. n -> Line] : n \in 0 .. MaxLines}
HostsChange ==
    UNION {[lines -> {"Disable", "Restore"}] : lines \in (SUBSET (1 .. MaxLines)) \ {{}}}

\* op_state: a line the action applies to is in its source or in its target state.
Source(action) == IF action = "Disable" THEN "Mapping" ELSE "AppDisabled"
Target(action) == IF action = "Disable" THEN "AppDisabled" ELSE "Mapping"
Applicable(c, w) ==
    \A i \in DOMAIN c : i \in DOMAIN w /\ w[i] \in {"Mapping", "AppDisabled"}

ObserveHosts(c, w) == IF Applicable(c, w) THEN Seen(w) ELSE Unsupported
InPlace(c, w) == \A i \in DOMAIN c : w[i] = Target(c[i])
Edit(c, w) ==
    [i \in DOMAIN w |->
        IF i \in DOMAIN c /\ w[i] = Source(c[i])
        THEN Target(c[i]) ELSE w[i]]
ApplyHosts(c, w) ==
    IF ~Applicable(c, w) THEN Unsupported ELSE IF Edit(c, w) = w THEN Nothing ELSE Go

Opposite(action) == IF action = "Disable" THEN "Restore" ELSE "Disable"
\* Mutant: an undo restores every line it names.
InverseOps_AllRestored(c) == [i \in DOMAIN c |-> "Restore"]
InverseOps(c) == [i \in DOMAIN c |-> Opposite(c[i])]

\* prune_backups keeps the newest; names of one second are ordered by their hash.
Pruned(kept, backups) ==
    {keep \in SUBSET backups :
        /\ Cardinality(keep) = IF Cardinality(backups) < kept THEN Cardinality(backups) ELSE kept
        /\ \A b \in keep, other \in backups \ keep : other.at <= b.at}

-----------------------------------------------------------------------------
(* What the pages list as something that can be changed.                   *)

ListsSetting(kind, os, w) == ObserveSetting(kind, os, w) # Unsupported
ListsTask(w) == w # "absent"
ListsPolicy(os) == os.edition # "home" /\ ~os.managed
ListsService(w) == w # "absent"
ListsStartup(w) == w # "absent"
ListsRule(w) == w # <<>>
ListsHibernation(w) == Supported(w)
ListsScheme(c, w) == c \in w.listed
ListsDriver(p, w) == p \in Stored(w) /\ Superseded(p, w)
\* Every task under our folder can be removed, one of ours can be changed.
ListsSchedule(c, w) == w.owner = "ours" \/ (c = "none" /\ w.owner # "none")
ListsLines(c, w) == \A i \in DOMAIN c : i \in DOMAIN w /\ w[i] = Source(c[i])
=============================================================================
