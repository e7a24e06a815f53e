---------------------------- MODULE Updates_proofs ----------------------------
(***************************************************************************)
(* Theorems about what the program downloads for itself.  RulePacks, for   *)
(* every number of sequences, threads, faults, restarts and damages: type  *)
(* correctness, that an install is all or nothing over a restart, and that *)
(* the active sequence falls on request only.  SelfUpdate, for every number *)
(* of releases, failures, restarts and changes of staged files: type        *)
(* correctness, that an opened installer is newer and genuine, that a launch *)
(* is remembered until a start accounts for it, and that nothing older is   *)
(* ever offered.                                                           *)
(***************************************************************************)
EXTENDS RulePacks, SelfUpdate, TLAPS

\* Steps of an install, and of a restore, that have the pack's sequence at hand.
Installing == {"stage", "rename", "pointer", "activate"}
Restoring == {"restore", "restored"}

\* The lock keeps the active pack below the one being installed, and the pack to
\* go back to the one being restored.
HandsOn ==
    \A t \in Thread :
        /\ thread[t].at = "fetched" => thread[t].seq \in Sequence
        /\ thread[t].at \in Installing =>
               thread[t].seq \in Sequence /\ thread[t].seq > mem.active
        /\ thread[t].at \in Restoring =>
               thread[t].seq \in Sequence /\ thread[t].seq = mem.previous

\* What there is to go back to is older, in memory and in the pointer.
Ordered ==
    /\ mem.previous # None => mem.previous < mem.active /\ mem.source = "Installed"
    /\ pointer.current # None /\ pointer.previous # None =>
           pointer.previous < pointer.current

\* A thread has replaced the pointer and not yet the active pack.
Between == \E t \in Thread : thread[t].at \in {"activate", "restored"}

\* While nothing is damaged: the packs the program relies on are whole, and the
\* pointer names them, before and after it is replaced.
Steady ==
    ~ damaged =>
        /\ \A t \in Thread :
              /\ thread[t].at \in {"pointer", "activate"} \cup Restoring =>
                     pack[thread[t].seq] = "whole"
              /\ thread[t].at = "activate" => pointer = Pointing(thread[t].seq)
              /\ thread[t].at = "restored" =>
                     pointer = [readable |-> TRUE, current |-> thread[t].seq,
                                previous |-> None]
        /\ mem.source = "Installed" =>
              /\ Loads(mem.active)
              /\ mem.previous # None => Loads(mem.previous)
              /\ ~ Between =>
                    /\ pointer.readable /\ pointer.current = mem.active
                    /\ mem.previous # None => pointer.previous = mem.previous

\* Before anything was ever damaged no start falls back, and the embedded pack is
\* active only while no other was installed.
NeverDamaged ==
    count.damage = 0 =>
        /\ ~ damaged
        /\ mem.source \in {"Installed", "EmbeddedBaseline"}
        /\ mem.source = "EmbeddedBaseline" =>
              mem.active = baseline /\ (~ Between => pointer = NoPointer)

IInv == TypeOK /\ HandsOn /\ Ordered /\ Steady /\ NeverDamaged

Counters == [faults : 0 .. MaxFaults, crashes : 0 .. MaxCrashes, damage : 0 .. MaxDamage]
Pointers == [readable : BOOLEAN, current : Sequence \cup {None}, previous : Sequence \cup {None}]
Stores == [active : Sequence, source : Source, previous : Sequence \cup {None}]
Tasks == [at : Place, seq : Sequence \cup {None}]

-----------------------------------------------------------------------------
(* Lemmas about counters, sequences and threads                            *)

LEMMA CountStep ==
    ASSUME count \in Counters
    PROVE  /\ Fault => count' \in Counters /\ count'.damage = count.damage
                       /\ count'.crashes = count.crashes
           /\ count.crashes < MaxCrashes =>
                  [count EXCEPT !.crashes = @ + 1] \in Counters
           /\ [count EXCEPT !.crashes = @ + 1].damage = count.damage
           /\ [count EXCEPT !.crashes = @ + 1].crashes = count.crashes + 1
           /\ count.damage < MaxDamage =>
                  [count EXCEPT !.damage = @ + 1] \in Counters
           /\ [count EXCEPT !.damage = @ + 1].damage = count.damage + 1
BY RulesAssumption DEF Counters, Fault

\* Sequences are numbers, and None is not one of them.
LEMMA SequenceFacts == (\A s \in Sequence : s \in Nat) /\ None \notin Sequence
BY RulesAssumption DEF Sequence

\* A start takes a pack the files hold, or the embedded one.
LEMMA RecoveredFacts ==
    ASSUME TypeOK, Ordered, NEW build \in Sequence
    PROVE  /\ Recovered(build) \in Stores
           /\ Recovered(build).source = "Installed" =>
                 /\ pointer.readable /\ pointer.current = Recovered(build).active
                 /\ Loads(pointer.current)
           /\ Recovered(build).previous # None =>
                 /\ Recovered(build).source = "Installed"
                 /\ Recovered(build).previous = pointer.previous
                 /\ Loads(pointer.previous)
                 /\ pointer.previous < pointer.current
<1>1. pointer \in Pointers /\ pack \in [Sequence -> {"absent", "whole", "damaged"}]
    BY DEF TypeOK, Pointers
<1>2. CASE ~ pointer.readable
    BY <1>1, <1>2, SequenceFacts DEF Recovered, Stores, Source
<1>3. CASE pointer.readable /\ Loads(pointer.current)
    <2>1. Recovered(build) = [active |-> pointer.current, source |-> "Installed",
                              previous |-> Holding(pointer.previous)]
        BY <1>3 DEF Recovered
    <2>2. Holding(pointer.previous) \in Sequence \cup {None}
        BY <1>1 DEF Holding, Pointers
    <2>3. pointer.current \in Sequence
        BY <1>1, <1>3 DEF Loads, Pointers
    <2>4. Recovered(build) \in Stores
        BY <2>1, <2>2, <2>3 DEF Stores, Source
    <2>5. Holding(pointer.previous) # None =>
              /\ Holding(pointer.previous) = pointer.previous
              /\ Loads(pointer.previous)
        BY DEF Holding
    <2>6. QED BY <1>3, <2>1, <2>3, <2>4, <2>5, SequenceFacts DEF Ordered, Loads
<1>4. CASE pointer.readable /\ ~ Loads(pointer.current) /\ Loads(pointer.previous)
    BY <1>1, <1>4, SequenceFacts DEF Recovered, Stores, Source, Loads, Pointers
<1>5. CASE pointer.readable /\ ~ Loads(pointer.current) /\ ~ Loads(pointer.previous)
    BY <1>1, <1>5, SequenceFacts DEF Recovered, Stores, Source
<1>6. QED BY <1>1, <1>2, <1>3, <1>4, <1>5

\* A task that moves on is a task.
LEMMA TaskFacts ==
    ASSUME NEW r \in Tasks, NEW place \in Place
    PROVE  /\ [r EXCEPT !.at = place] \in Tasks
           /\ [r EXCEPT !.at = place].at = place
           /\ [r EXCEPT !.at = place].seq = r.seq
BY DEF Tasks

\* One thread goes to another place and keeps its sequence; the others stay.
LEMMA GoFacts ==
    ASSUME TypeOK, NEW t \in Thread, NEW place \in Place, Go(t, place)
    PROVE  /\ thread' \in [Thread -> Tasks]
           /\ thread'[t].at = place /\ thread'[t].seq = thread[t].seq
           /\ \A u \in Thread : u # t => thread'[u] = thread[u]
<1>1. thread \in [Thread -> Tasks]
    BY DEF TypeOK, Tasks
<1>2. thread' = [thread EXCEPT ![t] = [thread[t] EXCEPT !.at = place]]
    BY <1>1 DEF Go
<1>3. QED BY <1>1, <1>2, TaskFacts

\* One thread takes a task up or lays it down; the others stay.
LEMMA SetFacts ==
    ASSUME TypeOK, NEW t \in Thread, NEW r \in Tasks,
           thread' = [thread EXCEPT ![t] = r]
    PROVE  /\ thread' \in [Thread -> Tasks]
           /\ thread'[t] = r
           /\ \A u \in Thread : u # t => thread'[u] = thread[u]
BY DEF TypeOK, Tasks

LEMMA IdleFacts == Idle \in Tasks /\ Idle.at = "idle"
BY DEF Idle, Tasks, Place

-----------------------------------------------------------------------------
(* Steps that leave the packs, the pointer and the active pack alone       *)

\* The thread that moves was not between the pointer and the activation, and goes
\* where nothing is promised, or has a pack at hand that it fetched.
LEMMA Bystander ==
    ASSUME IInv, NEW t \in Thread,
           thread' \in [Thread -> Tasks],
           \A u \in Thread : u # t => thread'[u] = thread[u],
           thread[t].at \notin {"activate", "restored"},
           thread'[t].at \in {"idle", "fetch", "scan", "fetched"},
           thread'[t].at = "fetched" => thread'[t].seq \in Sequence,
           pack' = pack, pointer' = pointer, mem' = mem, damaged' = damaged,
           baseline' = baseline, staging' \in {"absent", "empty", "whole"},
           allowed' \in BOOLEAN, count' \in Counters, count'.damage = count.damage
    PROVE  IInv'
<1>0. TypeOK /\ HandsOn /\ Ordered /\ Steady /\ NeverDamaged
    BY DEF IInv
<1>1. TypeOK'
    BY <1>0 DEF TypeOK, Tasks, Counters, Locked
<1>2. HandsOn'
    BY <1>0 DEF HandsOn, Installing, Restoring
<1>3. Ordered'
    BY <1>0 DEF Ordered
<1>4. Between' <=> Between
    BY DEF Between
<1>5. Steady'
    BY <1>0, <1>4 DEF Steady, Restoring, Pointing, Retained, Loads
<1>6. NeverDamaged'
    BY <1>0, <1>4 DEF NeverDamaged, NoPointer
<1>7. QED BY <1>1, <1>2, <1>3, <1>5, <1>6 DEF IInv

\* The same where no thread moves.
LEMMA Quiet ==
    ASSUME IInv, mem' = mem, pointer' = pointer, pack' = pack, damaged' = damaged,
           baseline' = baseline, thread' = thread,
           staging' \in {"absent", "empty", "whole"},
           allowed' \in BOOLEAN, count' \in Counters, count'.damage = count.damage
    PROVE  IInv'
<1>0. TypeOK /\ HandsOn /\ Ordered /\ Steady /\ NeverDamaged
    BY DEF IInv
<1>1. TypeOK'
    BY <1>0 DEF TypeOK, Counters
<1>2. HandsOn' /\ Ordered' /\ (Between' <=> Between)
    BY <1>0 DEF HandsOn, Ordered, Between
<1>3. Steady' /\ NeverDamaged'
    BY <1>0, <1>2 DEF Steady, NeverDamaged, Pointing, Retained, Loads, NoPointer
<1>4. QED BY <1>1, <1>2, <1>3 DEF IInv

LEMMA InvInit == Init => IInv
<1> SUFFICES ASSUME Init PROVE IInv
    OBVIOUS
<1>1. TypeOK
    <2>1. 1 \in Sequence
        BY RulesAssumption DEF Sequence
    <2>2. count \in Counters
        BY RulesAssumption DEF Init, Counters
    <2>3. NoPointer \in Pointers
        BY DEF NoPointer, Pointers
    <2>4. \A t \in Thread : thread[t] = Idle
        BY DEF Init
    <2>5. thread \in [Thread -> Tasks] /\ \A t \in Thread : thread[t].at \notin Locked
        BY <2>4, IdleFacts DEF Init, Locked
    <2>6. QED
        BY <2>1, <2>2, <2>3, <2>5 DEF Init, TypeOK, Source, Counters, Pointers, Tasks
<1>2. \A t \in Thread : thread[t].at = "idle"
    BY DEF Init, Idle
<1>3. HandsOn /\ Ordered /\ Steady /\ NeverDamaged
    BY <1>2 DEF Init, HandsOn, Ordered, Steady, NeverDamaged, Between, NoPointer,
       Installing, Restoring
<1>4. QED BY <1>1, <1>3 DEF IInv

LEMMA InvStep == IInv /\ [Next]_vars => IInv'
<1> SUFFICES ASSUME IInv, [Next]_vars PROVE IInv'
    OBVIOUS
<1>0. TypeOK /\ HandsOn /\ Ordered /\ Steady /\ NeverDamaged
    BY DEF IInv
<1>t. /\ thread \in [Thread -> Tasks] /\ count \in Counters /\ mem \in Stores
      /\ pointer \in Pointers /\ pack \in [Sequence -> {"absent", "whole", "damaged"}]
      /\ staging \in {"absent", "empty", "whole"} /\ allowed \in BOOLEAN
      /\ baseline \in Sequence /\ damaged \in BOOLEAN
      /\ \A t, u \in Thread : thread[t].at \in Locked /\ thread[u].at \in Locked => t = u
    BY <1>0 DEF TypeOK, Tasks, Counters, Stores, Pointers
<1> USE DEF Files
<1>1. ASSUME NEW b \in BOOLEAN, SetPolicy(b) PROVE IInv'
    BY <1>t, <1>1, Quiet DEF SetPolicy
<1>2. ASSUME NEW t \in Thread, Download(t) PROVE IInv'
    <2>1. [at |-> "fetch", seq |-> None] \in Tasks
        BY DEF Tasks, Place
    <2>2. thread' = [thread EXCEPT ![t] = [at |-> "fetch", seq |-> None]] /\ thread[t].at = "idle"
        BY <1>2 DEF Download, Start, Idle
    <2>3. QED BY <1>0, <1>t, <1>2, <2>1, <2>2, SetFacts, Bystander DEF Download
<1>3. ASSUME NEW t \in Thread, Fetch(t) PROVE IInv'
    <2>1. CASE End(t)
        BY <1>0, <1>t, <1>3, <2>1, SetFacts, IdleFacts, Bystander DEF Fetch, End
    <2>2. CASE \E s \in Sequence :
                  thread' = [thread EXCEPT ![t] = [at |-> "fetched", seq |-> s]]
        <3>1. PICK s \in Sequence :
                  thread' = [thread EXCEPT ![t] = [at |-> "fetched", seq |-> s]]
            BY <2>2
        <3>2. [at |-> "fetched", seq |-> s] \in Tasks
            BY DEF Tasks, Place
        <3>3. QED BY <1>0, <1>t, <1>3, <3>1, <3>2, SetFacts, Bystander DEF Fetch
    <2>3. QED BY <1>3, <2>1, <2>2 DEF Fetch
<1>4. ASSUME NEW t \in Thread, NEW s \in Sequence, Import(t, s) PROVE IInv'
    <2>1. [at |-> "fetched", seq |-> s] \in Tasks
        BY DEF Tasks, Place
    <2>2. thread' = [thread EXCEPT ![t] = [at |-> "fetched", seq |-> s]] /\ thread[t].at = "idle"
        BY <1>4 DEF Import, Start, Idle
    <2>3. QED BY <1>0, <1>t, <1>4, <2>1, <2>2, SetFacts, Bystander DEF Import
<1>5. ASSUME NEW t \in Thread, Scan(t) PROVE IInv'
    <2>1. [at |-> "scan", seq |-> mem.active] \in Tasks
        BY <1>t DEF Tasks, Place, Stores
    <2>2. thread' = [thread EXCEPT ![t] = [at |-> "scan", seq |-> mem.active]]
          /\ thread[t].at = "idle"
        BY <1>5 DEF Scan, Start, Idle
    <2>3. QED BY <1>0, <1>t, <1>5, <2>1, <2>2, SetFacts, Bystander DEF Scan
<1>6. ASSUME NEW t \in Thread, ScanEnds(t) PROVE IInv'
    BY <1>0, <1>t, <1>6, SetFacts, IdleFacts, Bystander DEF ScanEnds, End
<1>7. ASSUME NEW t \in Thread, StagingFails(t) PROVE IInv'
    <2>1. count' \in Counters /\ count'.damage = count.damage
        BY <1>t, <1>7, CountStep DEF StagingFails
    <2>2. QED
        BY <1>0, <1>t, <1>7, <2>1, SetFacts, IdleFacts, Bystander DEF StagingFails, End
<1>8. ASSUME NEW t \in Thread, Install(t) PROVE IInv'
    <2>1. CASE End(t) /\ UNCHANGED staging
        BY <1>0, <1>t, <1>8, <2>1, SetFacts, IdleFacts, Bystander DEF Install, End
    <2>2. CASE Newer(thread[t].seq) /\ staging' = "empty" /\ Go(t, "stage")
        <3>1. /\ thread' \in [Thread -> Tasks]
              /\ thread'[t].at = "stage" /\ thread'[t].seq = thread[t].seq
              /\ \A u \in Thread : u # t => thread'[u] = thread[u]
            BY <1>0, <2>2, GoFacts DEF Place
        <3>2. thread[t].seq \in Sequence /\ thread[t].at = "fetched"
              /\ \A u \in Thread : thread[u].at \notin Locked
            BY <1>0, <1>8 DEF Install, HandsOn, Unlocked
        <3>3. thread[t].seq > mem.active
            <4>1. mem.active \in Nat /\ baseline \in Nat /\ thread[t].seq \in Nat
                BY <1>t, <3>2, SequenceFacts DEF Stores
            <4>2. QED BY <2>2, <4>1 DEF Newer, Floor, Larger
        <3>4. pack' = pack /\ pointer' = pointer /\ mem' = mem /\ damaged' = damaged
              /\ baseline' = baseline /\ allowed' = allowed /\ count' = count
            BY <1>8 DEF Install
        <3>5. TypeOK'
            BY <1>0, <2>2, <3>1, <3>2, <3>4 DEF TypeOK, Tasks, Locked
        <3>6. HandsOn' /\ Ordered' /\ (Between' <=> Between)
            BY <1>0, <3>1, <3>2, <3>3, <3>4
            DEF HandsOn, Ordered, Between, Installing, Restoring
        <3>7. Steady' /\ NeverDamaged'
            BY <1>0, <3>1, <3>2, <3>4, <3>6
            DEF Steady, NeverDamaged, Restoring, Pointing, Retained, Loads, NoPointer
        <3>8. QED BY <3>5, <3>6, <3>7 DEF IInv
    <2>3. QED BY <1>8, <2>1, <2>2 DEF Install
\* What the owner of the lock does to the packs and the pointer.
<1>9. ASSUME NEW t \in Thread, Stage(t) PROVE IInv'
    <2>1. /\ thread' \in [Thread -> Tasks]
          /\ thread'[t].at = "rename" /\ thread'[t].seq = thread[t].seq
          /\ \A u \in Thread : u # t => thread'[u] = thread[u]
        BY <1>0, <1>9, GoFacts DEF Stage, Place
    <2>2. /\ thread[t].at = "stage" /\ thread[t].seq \in Sequence
          /\ thread[t].seq > mem.active
        BY <1>0, <1>9 DEF Stage, HandsOn, Installing
    <2>3. \A u \in Thread : u # t => thread[u].at \notin Locked
        BY <1>t, <2>2 DEF Locked
    <2>4. /\ pack' = [pack EXCEPT ![thread[t].seq] = "absent"] /\ staging' = "whole"
          /\ pointer' = pointer /\ mem' = mem /\ damaged' = damaged
          /\ baseline' = baseline /\ allowed' = allowed /\ count' = count
        BY <1>9 DEF Stage
    <2>5. TypeOK'
        BY <1>0, <2>1, <2>2, <2>3, <2>4 DEF TypeOK, Tasks, Locked
    <2>6. HandsOn' /\ Ordered' /\ (Between' <=> Between)
        BY <1>0, <2>1, <2>2, <2>3, <2>4
        DEF HandsOn, Ordered, Between, Installing, Restoring, Locked
    <2>7. thread[t].seq # mem.active /\ (mem.previous # None => thread[t].seq # mem.previous)
        <3>1. /\ mem.active \in Nat /\ thread[t].seq \in Nat
              /\ mem.previous # None => mem.previous \in Nat
            BY <1>t, <2>2, SequenceFacts DEF Stores
        <3>2. QED BY <1>0, <2>2, <3>1 DEF Ordered
    <2>8. Loads(mem.active) => Loads(mem.active)'
        BY <1>t, <2>4, <2>7 DEF Loads, Stores
    <2>9. mem.previous # None /\ Loads(mem.previous) => Loads(mem.previous)'
        BY <1>t, <2>4, <2>7 DEF Loads, Stores
    <2>10. \A u \in Thread : thread'[u].at \notin {"pointer", "activate"} \cup Restoring
        BY <2>1, <2>3 DEF Locked, Restoring
    <2>11. Steady'
        BY <1>0, <2>4, <2>6, <2>8, <2>9, <2>10 DEF Steady, Restoring
    <2>12. NeverDamaged'
        BY <1>0, <2>4, <2>6 DEF NeverDamaged, NoPointer
    <2>13. QED BY <2>5, <2>6, <2>11, <2>12 DEF IInv
<1>10. ASSUME NEW t \in Thread, Rename(t) PROVE IInv'
    <2>1. /\ thread' \in [Thread -> Tasks]
          /\ thread'[t].at = "pointer" /\ thread'[t].seq = thread[t].seq
          /\ \A u \in Thread : u # t => thread'[u] = thread[u]
        BY <1>0, <1>10, GoFacts DEF Rename, Place
    <2>2. /\ thread[t].at = "rename" /\ thread[t].seq \in Sequence
          /\ thread[t].seq > mem.active
        BY <1>0, <1>10 DEF Rename, HandsOn, Installing
    <2>3. \A u \in Thread : u # t => thread[u].at \notin Locked
        BY <1>t, <2>2 DEF Locked
    <2>4. /\ pack' = [pack EXCEPT ![thread[t].seq] = "whole"] /\ staging' = "absent"
          /\ pointer' = pointer /\ mem' = mem /\ damaged' = damaged
          /\ baseline' = baseline /\ allowed' = allowed /\ count' = count
        BY <1>10 DEF Rename
    <2>5. TypeOK'
        BY <1>0, <2>1, <2>2, <2>3, <2>4 DEF TypeOK, Tasks, Locked
    <2>6. HandsOn' /\ Ordered' /\ (Between' <=> Between)
        BY <1>0, <2>1, <2>2, <2>3, <2>4
        DEF HandsOn, Ordered, Between, Installing, Restoring, Locked
    <2>7. \A q \in Sequence : pack[q] = "whole" => pack'[q] = "whole"
        BY <1>t, <2>4
    <2>8. pack'[thread[t].seq] = "whole"
        BY <1>t, <2>2, <2>4
    <2>9. /\ Loads(mem.active) => Loads(mem.active)'
          /\ mem.previous # None /\ Loads(mem.previous) => Loads(mem.previous)'
        BY <1>t, <2>4, <2>7 DEF Loads, Stores
    <2>10. \A u \in Thread : u # t => thread'[u].at \notin {"pointer", "activate"} \cup Restoring
        BY <2>1, <2>3 DEF Locked, Restoring
    <2>11. Steady'
        BY <1>0, <2>1, <2>4, <2>6, <2>8, <2>9, <2>10 DEF Steady, Restoring
    <2>12. NeverDamaged'
        BY <1>0, <2>4, <2>6 DEF NeverDamaged, NoPointer
    <2>13. QED BY <2>5, <2>6, <2>11, <2>12 DEF IInv
<1>11. ASSUME NEW t \in Thread, ReplacePointer(t) PROVE IInv'
    <2>1. CASE Fault /\ End(t) /\ UNCHANGED pointer
        <3>1. count' \in Counters /\ count'.damage = count.damage
            BY <1>t, <2>1, CountStep
        <3>2. thread[t].at = "pointer" /\ thread' = [thread EXCEPT ![t] = Idle]
            BY <1>11, <2>1 DEF ReplacePointer, End
        <3>3. QED
            BY <1>0, <1>t, <1>11, <2>1, <3>1, <3>2, SetFacts, IdleFacts, Bystander
            DEF ReplacePointer
    <2>2. CASE pointer' = Pointing(thread[t].seq) /\ Go(t, "activate") /\ UNCHANGED count
        <3>1. /\ thread' \in [Thread -> Tasks]
              /\ thread'[t].at = "activate" /\ thread'[t].seq = thread[t].seq
              /\ \A u \in Thread : u # t => thread'[u] = thread[u]
            BY <1>0, <2>2, GoFacts DEF Place
        <3>2. /\ thread[t].at = "pointer" /\ thread[t].seq \in Sequence
              /\ thread[t].seq > mem.active
            BY <1>0, <1>11 DEF ReplacePointer, HandsOn, Installing
        <3>3. \A u \in Thread : u # t => thread[u].at \notin Locked
            BY <1>t, <3>2 DEF Locked
        <3>4. /\ pack' = pack /\ staging' = staging /\ mem' = mem /\ damaged' = damaged
              /\ baseline' = baseline /\ allowed' = allowed /\ count' = count
            BY <1>11, <2>2 DEF ReplacePointer
        <3>5. /\ pointer' = [readable |-> TRUE, current |-> thread[t].seq, previous |-> Retained]
              /\ pointer'.current = thread[t].seq /\ pointer'.previous = Retained
              /\ Retained \in Sequence \cup {None}
              /\ Retained # None => Retained = mem.active
            BY <1>t, <2>2 DEF Pointing, Retained, Stores
        <3>6. pointer' \in Pointers
            BY <3>2, <3>5 DEF Pointers
        <3>7. TypeOK'
            BY <1>0, <3>1, <3>2, <3>3, <3>4, <3>6 DEF TypeOK, Tasks, Locked, Pointers
        <3>8. HandsOn'
            BY <1>0, <3>1, <3>2, <3>3, <3>4 DEF HandsOn, Installing, Restoring, Locked
        <3>9. Ordered'
            BY <1>0, <1>t, <3>2, <3>4, <3>5, SequenceFacts DEF Ordered, Stores
        <3>10. Between'
            BY <3>1 DEF Between
        <3>11. \A u \in Thread :
                u # t => thread'[u].at \notin {"pointer", "activate"} \cup Restoring
            BY <3>1, <3>3 DEF Locked, Restoring
        <3>12. Pointing(thread[t].seq)' = pointer'
            BY <3>1, <3>4, <3>5 DEF Pointing, Retained
        <3>13. \A u \in Thread : thread'[u].at = "activate" => pointer' = Pointing(thread[u].seq)'
            BY <3>11, <3>12
        <3>14. ~ damaged => pack[thread[t].seq] = "whole"
            BY <1>0, <3>2 DEF Steady
        <3>15. \A u \in Thread : thread'[u].at \in {"pointer", "activate"} \cup Restoring => u = t
            BY <3>11
        <3>16. \A u \in Thread : thread'[u].at # "restored"
            BY <3>1, <3>15 DEF Restoring
        <3>17. mem.source = "Installed" /\ ~ damaged =>
                   Loads(mem.active) /\ (mem.previous # None => Loads(mem.previous))
            BY <1>0 DEF Steady
        <3>18. Steady'
            BY <3>1, <3>4, <3>10, <3>13, <3>14, <3>15, <3>16, <3>17 DEF Steady, Loads
        <3>19. NeverDamaged'
            BY <1>0, <3>4, <3>10 DEF NeverDamaged
        <3>20. QED BY <3>7, <3>8, <3>9, <3>18, <3>19 DEF IInv
    <2>3. QED BY <1>11, <2>1, <2>2 DEF ReplacePointer
<1>12. ASSUME NEW t \in Thread, Activate(t) PROVE IInv'
    <2>1. /\ thread' \in [Thread -> Tasks]
          /\ thread'[t].at = "prune"
          /\ \A u \in Thread : u # t => thread'[u] = thread[u]
        BY <1>0, <1>12, GoFacts DEF Activate, Place
    <2>2. /\ thread[t].at = "activate" /\ thread[t].seq \in Sequence
          /\ thread[t].seq > mem.active
        BY <1>0, <1>12 DEF Activate, HandsOn, Installing
    <2>3. \A u \in Thread : u # t => thread[u].at \notin Locked
        BY <1>t, <2>2 DEF Locked
    <2>4. /\ pack' = pack /\ staging' = staging /\ pointer' = pointer /\ damaged' = damaged
          /\ baseline' = baseline /\ allowed' = allowed /\ count' = count
        BY <1>12 DEF Activate
    <2>5. /\ mem' = [active |-> thread[t].seq, source |-> "Installed", previous |-> Retained]
          /\ mem'.active = thread[t].seq /\ mem'.source = "Installed"
          /\ mem'.previous = Retained
          /\ Retained \in Sequence \cup {None}
          /\ Retained # None => Retained = mem.active /\ mem.source = "Installed"
        BY <1>t, <1>12 DEF Activate, Retained, Stores
    <2>6. mem' \in Stores
        BY <2>2, <2>5 DEF Stores, Source
    <2>7. TypeOK'
        BY <1>0, <2>1, <2>2, <2>3, <2>4, <2>6 DEF TypeOK, Tasks, Locked, Stores
    <2>8. \A u \in Thread : thread'[u].at \notin Installing \cup Restoring
        BY <2>1, <2>3 DEF Locked, Installing, Restoring
    <2>9. HandsOn'
        BY <1>0, <2>1, <2>8 DEF HandsOn
    <2>10. Ordered'
        BY <1>0, <1>t, <2>2, <2>4, <2>5, SequenceFacts DEF Ordered, Stores
    <2>11. ~ damaged => /\ pointer = Pointing(thread[t].seq)
                        /\ pack[thread[t].seq] = "whole"
                        /\ mem.source = "Installed" => Loads(mem.active)
        BY <1>0, <2>2 DEF Steady
    <2>12. ~ damaged => /\ pointer.readable /\ pointer.current = thread[t].seq
                        /\ pointer.previous = Retained
        BY <2>11 DEF Pointing
    <2>13. ~ damaged => /\ Loads(mem.active)'
                        /\ mem'.previous # None => Loads(mem.previous)'
        BY <2>2, <2>4, <2>5, <2>11, SequenceFacts DEF Loads
    <2>14. \A u \in Thread :
            thread'[u].at \notin {"pointer", "activate", "restored"} \cup Restoring
        BY <2>8 DEF Installing, Restoring
    <2>15. Steady'
        BY <2>4, <2>5, <2>12, <2>13, <2>14 DEF Steady
    <2>16. NeverDamaged'
        BY <1>0, <2>4, <2>5 DEF NeverDamaged
    <2>17. QED BY <2>7, <2>9, <2>10, <2>15, <2>16 DEF IInv
<1>13. ASSUME NEW t \in Thread, Prune(t) PROVE IInv'
    <2> PICK stays \in SUBSET {s \in Sequence : pack[s] # "absent"} :
          pack' = [s \in Sequence |->
                      IF s \in {mem.active, mem.previous} \cup stays THEN pack[s] ELSE "absent"]
        BY <1>13 DEF Prune
    <2>1. /\ thread' \in [Thread -> Tasks]
          /\ thread'[t] = Idle /\ thread'[t].at = "idle"
          /\ \A u \in Thread : u # t => thread'[u] = thread[u]
        BY <1>0, <1>13, SetFacts, IdleFacts DEF Prune, End
    <2>2. thread[t].at = "prune"
        BY <1>13 DEF Prune
    <2>3. \A u \in Thread : u # t => thread[u].at \notin Locked
        BY <1>t, <2>2 DEF Locked
    <2>4. /\ mem' = mem /\ staging' = staging /\ pointer' = pointer /\ damaged' = damaged
          /\ baseline' = baseline /\ allowed' = allowed /\ count' = count
        BY <1>13 DEF Prune
    <2>5. pack' \in [Sequence -> {"absent", "whole", "damaged"}]
        BY <1>t
    <2>6. TypeOK'
        BY <1>0, <2>1, <2>3, <2>4, <2>5 DEF TypeOK, Tasks, Locked
    <2>7. \A u \in Thread : thread'[u].at \notin Installing \cup Restoring
        BY <2>1, <2>3 DEF Locked, Installing, Restoring
    <2>8. HandsOn' /\ Ordered'
        BY <1>0, <2>1, <2>4, <2>7 DEF HandsOn, Ordered
    <2>9. Between' <=> Between
        BY <2>1, <2>2 DEF Between
    <2>10. /\ Loads(mem.active) => Loads(mem.active)'
           /\ mem.previous # None /\ Loads(mem.previous) => Loads(mem.previous)'
        BY <1>t, <2>4 DEF Loads, Stores
    <2>11. \A u \in Thread :
            thread'[u].at \notin {"pointer", "activate", "restored"} \cup Restoring
        BY <2>7 DEF Installing, Restoring
    <2>12. Steady'
        BY <1>0, <2>4, <2>9, <2>10, <2>11 DEF Steady
    <2>13. NeverDamaged'
        BY <1>0, <2>4, <2>9 DEF NeverDamaged, NoPointer
    <2>14. QED BY <2>6, <2>8, <2>12, <2>13 DEF IInv
<1>14. ASSUME NEW t \in Thread, RestorePrevious(t) PROVE IInv'
    <2>1. [at |-> "restore", seq |-> mem.previous] \in Tasks
        BY <1>t DEF Tasks, Place, Stores
    <2>2. /\ thread' \in [Thread -> Tasks]
          /\ thread'[t].at = "restore" /\ thread'[t].seq = mem.previous
          /\ \A u \in Thread : u # t => thread'[u] = thread[u]
        BY <1>0, <1>14, <2>1, SetFacts DEF RestorePrevious, Start
    <2>3. /\ thread[t].at = "idle" /\ \A u \in Thread : thread[u].at \notin Locked
          /\ Loads(mem.previous)
        BY <1>14 DEF RestorePrevious, Unlocked, Start, Idle
    <2>4. /\ pack' = pack /\ mem' = mem /\ staging' = staging /\ pointer' = pointer
          /\ damaged' = damaged /\ baseline' = baseline /\ allowed' = allowed /\ count' = count
        BY <1>14 DEF RestorePrevious
    <2>5. mem.previous \in Sequence /\ pack[mem.previous] = "whole"
        BY <1>t, <2>3 DEF Loads, Stores
    <2>6. TypeOK'
        BY <1>0, <2>2, <2>3, <2>4 DEF TypeOK, Tasks, Locked
    <2>7. \A u \in Thread : thread[u].at \notin Installing \cup Restoring
        BY <2>3 DEF Locked, Installing, Restoring
    <2>8. HandsOn' /\ Ordered'
        BY <1>0, <2>2, <2>4, <2>5, <2>7 DEF HandsOn, Ordered, Installing, Restoring
    <2>9. Between' <=> Between
        BY <2>2, <2>3 DEF Between
    <2>10. \A u \in Thread : thread'[u].at \in {"pointer", "activate"} \cup Restoring =>
               thread'[u].at = "restore" /\ thread'[u].seq = mem.previous
        BY <2>2, <2>7 DEF Installing, Restoring
    <2>11. Steady'
        BY <1>0, <2>4, <2>5, <2>9, <2>10 DEF Steady, Loads, Restoring
    <2>12. NeverDamaged'
        BY <1>0, <2>4, <2>9 DEF NeverDamaged, NoPointer
    <2>13. QED BY <2>6, <2>8, <2>11, <2>12 DEF IInv
<1>15. ASSUME NEW t \in Thread, PointBack(t) PROVE IInv'
    <2> DEFINE Back == [readable |-> TRUE, current |-> thread[t].seq, previous |-> None]
    <2>1. CASE Fault /\ End(t) /\ UNCHANGED pointer
        <3>1. count' \in Counters /\ count'.damage = count.damage
            BY <1>t, <2>1, CountStep
        <3>2. thread[t].at = "restore" /\ thread' = [thread EXCEPT ![t] = Idle]
            BY <1>15, <2>1 DEF PointBack, End
        <3>3. QED
            BY <1>0, <1>t, <1>15, <2>1, <3>1, <3>2, SetFacts, IdleFacts, Bystander
            DEF PointBack
    <2>2. CASE pointer' = Back /\ Go(t, "restored") /\ UNCHANGED count
        <3>1. /\ thread' \in [Thread -> Tasks]
              /\ thread'[t].at = "restored" /\ thread'[t].seq = thread[t].seq
              /\ \A u \in Thread : u # t => thread'[u] = thread[u]
            BY <1>0, <2>2, GoFacts DEF Place
        <3>2. /\ thread[t].at = "restore" /\ thread[t].seq \in Sequence
              /\ thread[t].seq = mem.previous
            BY <1>0, <1>15 DEF PointBack, HandsOn, Restoring
        <3>3. \A u \in Thread : u # t => thread[u].at \notin Locked
            BY <1>t, <3>2 DEF Locked
        <3>4. /\ pack' = pack /\ staging' = staging /\ mem' = mem /\ damaged' = damaged
              /\ baseline' = baseline /\ allowed' = allowed /\ count' = count
            BY <1>15, <2>2 DEF PointBack
        <3>5. pointer' \in Pointers /\ pointer'.previous = None
            BY <2>2, <3>2 DEF Pointers
        <3>6. TypeOK'
            BY <1>0, <3>1, <3>2, <3>3, <3>4, <3>5 DEF TypeOK, Tasks, Locked, Pointers
        <3>7. HandsOn'
            BY <1>0, <3>1, <3>2, <3>3, <3>4 DEF HandsOn, Installing, Restoring, Locked
        <3>8. Ordered'
            BY <1>0, <3>4, <3>5 DEF Ordered
        <3>9. Between'
            BY <3>1 DEF Between
        <3>10. \A u \in Thread :
                   thread'[u].at \in {"pointer", "activate"} \cup Restoring => u = t
            BY <3>1, <3>3 DEF Locked, Restoring
        <3>11. ~ damaged => pack[thread[t].seq] = "whole"
            BY <1>0, <3>2 DEF Steady, Restoring
        <3>12. mem.source = "Installed" /\ ~ damaged =>
                   Loads(mem.active) /\ (mem.previous # None => Loads(mem.previous))
            BY <1>0 DEF Steady
        <3>13. Steady'
            BY <2>2, <3>1, <3>4, <3>9, <3>10, <3>11, <3>12 DEF Steady, Loads, Restoring
        <3>14. NeverDamaged'
            BY <1>0, <3>4, <3>9 DEF NeverDamaged
        <3>15. QED BY <3>6, <3>7, <3>8, <3>13, <3>14 DEF IInv
    <2>3. QED BY <1>15, <2>1, <2>2 DEF PointBack
<1>16. ASSUME NEW t \in Thread, ActivateRestored(t) PROVE IInv'
    <2>1. /\ thread' \in [Thread -> Tasks]
          /\ thread'[t].at = "prune"
          /\ \A u \in Thread : u # t => thread'[u] = thread[u]
        BY <1>0, <1>16, GoFacts DEF ActivateRestored, Place
    <2>2. thread[t].at = "restored" /\ thread[t].seq \in Sequence
        BY <1>0, <1>16 DEF ActivateRestored, HandsOn, Restoring
    <2>3. \A u \in Thread : u # t => thread[u].at \notin Locked
        BY <1>t, <2>2 DEF Locked
    <2>4. /\ pack' = pack /\ staging' = staging /\ pointer' = pointer /\ damaged' = damaged
          /\ baseline' = baseline /\ allowed' = allowed /\ count' = count
        BY <1>16 DEF ActivateRestored
    <2>5. /\ mem' \in Stores /\ mem'.active = thread[t].seq
          /\ mem'.source = "Installed" /\ mem'.previous = None
        BY <1>16, <2>2 DEF ActivateRestored, Stores, Source
    <2>6. TypeOK'
        BY <1>0, <2>1, <2>2, <2>3, <2>4, <2>5 DEF TypeOK, Tasks, Locked, Stores
    <2>7. \A u \in Thread : thread'[u].at \notin Installing \cup Restoring
        BY <2>1, <2>3 DEF Locked, Installing, Restoring
    <2>8. HandsOn' /\ Ordered'
        BY <1>0, <2>1, <2>4, <2>5, <2>7 DEF HandsOn, Ordered
    <2>9. ~ damaged => /\ pointer.readable /\ pointer.current = thread[t].seq
                       /\ pack[thread[t].seq] = "whole"
        BY <1>0, <2>2 DEF Steady, Restoring
    <2>10. ~ damaged => Loads(mem.active)'
        BY <2>2, <2>4, <2>5, <2>9, SequenceFacts DEF Loads
    <2>11. \A u \in Thread :
            thread'[u].at \notin {"pointer", "activate", "restored"} \cup Restoring
        BY <2>7 DEF Installing, Restoring
    <2>12. Steady'
        BY <2>4, <2>5, <2>9, <2>10, <2>11 DEF Steady
    <2>13. NeverDamaged'
        BY <1>0, <2>4, <2>5 DEF NeverDamaged
    <2>14. QED BY <2>6, <2>8, <2>12, <2>13 DEF IInv
<1>17. ASSUME NEW build \in Sequence, Restart(build) PROVE IInv'
    <2>1. /\ thread' = [t \in Thread |-> Idle] /\ mem' = Recovered(build)
          /\ pack' = pack /\ pointer' = pointer /\ baseline' = build /\ staging' = "absent"
          /\ damaged' = FALSE /\ allowed' = allowed
        BY <1>17 DEF Restart
    <2>2. count' \in Counters /\ count'.damage = count.damage
        BY <1>t, <1>17, CountStep DEF Restart
    <2>3. \A t \in Thread : thread'[t] = Idle /\ thread'[t].at = "idle"
        BY <2>1, IdleFacts
    <2>4. /\ mem' \in Stores
          /\ mem'.source = "Installed" =>
                /\ pointer.readable /\ pointer.current = mem'.active /\ Loads(pointer.current)
          /\ mem'.previous # None =>
                /\ mem'.source = "Installed" /\ mem'.previous = pointer.previous
                /\ Loads(pointer.previous) /\ pointer.previous < pointer.current
        BY <1>0, <2>1, RecoveredFacts
    <2>5. TypeOK'
        BY <1>0, <2>1, <2>2, <2>3, <2>4, IdleFacts DEF TypeOK, Tasks, Locked, Counters, Stores
    <2>6. HandsOn' /\ Ordered'
        BY <1>0, <2>1, <2>3, <2>4 DEF HandsOn, Ordered, Installing, Restoring
    <2>7. ~ Between'
        BY <2>3 DEF Between
    <2>8. Steady'
        BY <2>1, <2>3, <2>4 DEF Steady, Loads, Restoring
    \* Nothing was ever damaged: the pointer names a whole pack, or no pack at all.
    <2>9. ASSUME count.damage = 0
          PROVE  /\ mem'.source \in {"Installed", "EmbeddedBaseline"}
                 /\ mem'.source = "EmbeddedBaseline" => mem'.active = build /\ pointer = NoPointer
        <3>1. ~ damaged /\ mem.source \in {"Installed", "EmbeddedBaseline"}
            BY <1>0, <2>9 DEF NeverDamaged
        <3>2. CASE \E t \in Thread : thread[t].at = "activate"
            <4> PICK t \in Thread : thread[t].at = "activate"
                BY <3>2
            <4>1. pointer = Pointing(thread[t].seq) /\ pack[thread[t].seq] = "whole"
                  /\ thread[t].seq \in Sequence
                BY <1>0, <3>1 DEF Steady, HandsOn, Installing
            <4>2. pointer.readable /\ Loads(pointer.current)
                BY <4>1, SequenceFacts DEF Pointing, Loads
            <4>3. QED BY <2>1, <4>2 DEF Recovered
        <3>3. CASE \E t \in Thread : thread[t].at = "restored"
            <4> PICK t \in Thread : thread[t].at = "restored"
                BY <3>3
            <4>1. /\ pointer.readable /\ pointer.current = thread[t].seq
                  /\ pack[thread[t].seq] = "whole" /\ thread[t].seq \in Sequence
                BY <1>0, <3>1 DEF Steady, HandsOn, Restoring
            <4>2. Loads(pointer.current)
                BY <4>1, SequenceFacts DEF Loads
            <4>3. QED BY <2>1, <4>1, <4>2 DEF Recovered
        <3>4. CASE ~ Between
            <4>1. CASE mem.source = "Installed"
                <5>1. pointer.readable /\ Loads(pointer.current)
                    BY <1>0, <3>1, <3>4, <4>1 DEF Steady
                <5>2. QED BY <2>1, <5>1 DEF Recovered
            <4>2. CASE mem.source = "EmbeddedBaseline"
                <5>1. pointer = NoPointer
                    BY <1>0, <2>9, <3>4, <4>2 DEF NeverDamaged
                <5>2. QED BY <2>1, <5>1 DEF Recovered, NoPointer, Loads
            <4>3. QED BY <3>1, <4>1, <4>2
        <3>5. QED BY <3>2, <3>3, <3>4 DEF Between
    <2>10. NeverDamaged'
        BY <2>1, <2>2, <2>9 DEF NeverDamaged, NoPointer
    <2>11. QED BY <2>5, <2>6, <2>8, <2>10 DEF IInv
<1>18. CASE Damage
    <2>1. /\ damaged' = TRUE /\ baseline' = baseline /\ staging' = staging /\ mem' = mem
          /\ thread' = thread /\ allowed' = allowed
        BY <1>18 DEF Damage
    <2>2. count' \in Counters /\ count'.damage # 0
        BY <1>t, <1>18, CountStep DEF Damage, Counters
    <2>3. pointer' \in {pointer, NoPointer, [NoPointer EXCEPT !.readable = FALSE]}
        BY <1>18 DEF Damage
    <2>4. /\ pointer' \in Pointers
          /\ pointer' # pointer => pointer'.current = None
        <3>1. /\ NoPointer \in Pointers /\ NoPointer.current = None
              /\ [NoPointer EXCEPT !.readable = FALSE] \in Pointers
              /\ [NoPointer EXCEPT !.readable = FALSE].current = None
            BY DEF NoPointer, Pointers
        <3>2. QED BY <1>t, <2>3, <3>1
    <2>5. pack' \in [Sequence -> {"absent", "whole", "damaged"}]
        BY <1>t, <1>18 DEF Damage
    <2>6. TypeOK'
        BY <1>0, <2>1, <2>2, <2>4, <2>5 DEF TypeOK, Counters, Pointers
    <2>7. HandsOn' /\ Ordered'
        BY <1>0, <2>1, <2>4 DEF HandsOn, Ordered
    <2>8. Steady' /\ NeverDamaged'
        BY <2>1, <2>2 DEF Steady, NeverDamaged
    <2>9. QED BY <2>6, <2>7, <2>8 DEF IInv
<1>19. CASE UNCHANGED vars
    BY <1>t, <1>19, Quiet DEF vars
<1>20. QED
    BY <1>1, <1>2, <1>3, <1>4, <1>5, <1>6, <1>7, <1>8, <1>9, <1>10, <1>11, <1>12, <1>13,
       <1>14, <1>15, <1>16, <1>17, <1>18, <1>19
    DEF Next, Command, Work

-----------------------------------------------------------------------------
(* The theorems                                                            *)

\* Every variable keeps its type, and the rules lock has one owner.
THEOREM TypeCorrect == Spec => []TypeOK
<1>1. IInv => TypeOK
    BY DEF IInv
<1>2. QED BY InvInit, InvStep, <1>1, PTL DEF Spec

LEMMA InvRestart == IInv => RestartKeepsPack
<1> SUFFICES ASSUME IInv, ~ damaged, mem.source = "Installed"
             PROVE  /\ Recovered(baseline).active \in {mem.active} \cup Pending
                    /\ Pending = {} => Loads(mem.active) /\
                           (mem.previous # None => Loads(mem.previous))
    BY DEF RestartKeepsPack
<1>0. TypeOK /\ HandsOn /\ Steady
    BY DEF IInv
<1>1. Loads(mem.active) /\ (mem.previous # None => Loads(mem.previous))
    BY <1>0 DEF Steady
<1>2. CASE ~ Between
    <2>1. pointer.readable /\ pointer.current = mem.active
        BY <1>0, <1>2 DEF Steady
    <2>2. Recovered(baseline).active = mem.active
        BY <1>1, <2>1 DEF Recovered
    <2>3. QED BY <1>1, <2>2
<1>3. CASE Between
    <2> PICK t \in Thread : thread[t].at \in {"activate", "restored"}
        BY <1>3 DEF Between
    <2>1. pointer.readable /\ pointer.current = thread[t].seq
        BY <1>0 DEF Steady, Pointing
    <2>2. thread[t].seq \in Sequence /\ pack[thread[t].seq] = "whole"
        BY <1>0 DEF Steady, HandsOn, Installing, Restoring
    <2>3. Recovered(baseline).active = thread[t].seq
        BY <2>1, <2>2, SequenceFacts DEF Recovered, Loads
    <2>4. thread[t].seq \in Pending
        BY DEF Pending
    <2>5. QED BY <1>1, <2>3, <2>4
<1>4. QED BY <1>2, <1>3

\* An install or a restore is all or nothing over a restart at any moment
\* (install, restore_previous, recover).
THEOREM RestartsKeepThePack == Spec => []RestartKeepsPack
<1>1. QED BY InvInit, InvStep, InvRestart, PTL DEF Spec

LEMMA FallStep ==
    ASSUME IInv, [Next]_vars, mem'.active < mem.active
    PROVE  \/ \E t \in Thread : thread[t].at = "restored" /\ thread[t].seq = mem'.active
           \/ count'.crashes > count.crashes /\ count.damage > 0
<1>0. TypeOK /\ HandsOn /\ Steady /\ NeverDamaged
    BY DEF IInv
<1>t. /\ mem.active \in Nat /\ baseline \in Nat /\ count \in Counters
    BY <1>0, SequenceFacts DEF TypeOK, Counters
<1>1. mem' # mem
    BY <1>t
<1>2. ASSUME NEW t \in Thread, Activate(t) PROVE FALSE
    <2>1. thread[t].seq > mem.active /\ thread[t].seq \in Nat
        BY <1>0, <1>2, SequenceFacts DEF Activate, HandsOn, Installing
    <2>2. mem'.active = thread[t].seq
        BY <1>2 DEF Activate
    <2>3. QED BY <1>t, <2>1, <2>2
<1>3. ASSUME NEW t \in Thread, ActivateRestored(t)
      PROVE  thread[t].at = "restored" /\ thread[t].seq = mem'.active
    BY <1>3 DEF ActivateRestored
<1>4. ASSUME NEW build \in Sequence, Restart(build)
      PROVE  \/ \E t \in Thread : thread[t].at = "restored" /\ thread[t].seq = mem'.active
             \/ count'.crashes > count.crashes /\ count.damage > 0
    <2>1. mem' = Recovered(build) /\ build >= baseline /\ build \in Nat
          /\ count' = [count EXCEPT !.crashes = @ + 1]
        BY <1>4, SequenceFacts DEF Restart
    <2>2. count'.crashes > count.crashes /\ count.damage \in Nat
        BY <1>t, <2>1, RulesAssumption, CountStep DEF Counters
    <2>3. CASE count.damage > 0
        BY <2>2, <2>3
    <2>4. CASE count.damage = 0
        <3>1. ~ damaged /\ mem.source \in {"Installed", "EmbeddedBaseline"}
            BY <1>0, <2>4 DEF NeverDamaged
        <3>2. ASSUME NEW t \in Thread, thread[t].at \in {"activate", "restored"}
              PROVE  mem'.active = thread[t].seq
            <4>1. pointer.readable /\ pointer.current = thread[t].seq
                BY <1>0, <3>1, <3>2 DEF Steady, Pointing
            <4>2. thread[t].seq \in Sequence /\ pack[thread[t].seq] = "whole"
                BY <1>0, <3>1, <3>2 DEF Steady, HandsOn, Installing, Restoring
            <4>3. QED BY <2>1, <4>1, <4>2, SequenceFacts DEF Recovered, Loads
        <3>3. CASE \E t \in Thread : thread[t].at = "activate"
            <4> PICK t \in Thread : thread[t].at = "activate"
                BY <3>3
            <4>1. thread[t].seq > mem.active /\ thread[t].seq \in Nat
                BY <1>0, SequenceFacts DEF HandsOn, Installing
            <4>2. QED BY <1>t, <3>2, <4>1
        <3>4. CASE \E t \in Thread : thread[t].at = "restored"
            BY <3>2, <3>4
        <3>5. CASE ~ Between
            <4>1. CASE mem.source = "Installed"
                <5>1. pointer.readable /\ Loads(pointer.current) /\ pointer.current = mem.active
                    BY <1>0, <3>1, <3>5, <4>1 DEF Steady
                <5>2. mem'.active = mem.active
                    BY <2>1, <5>1 DEF Recovered
                <5>3. QED BY <1>t, <5>2
            <4>2. CASE mem.source = "EmbeddedBaseline"
                <5>1. pointer = NoPointer /\ mem.active = baseline
                    BY <1>0, <2>4, <3>5, <4>2 DEF NeverDamaged
                <5>2. mem'.active = build
                    BY <2>1, <5>1 DEF Recovered, NoPointer, Loads
                <5>3. QED BY <1>t, <2>1, <5>1, <5>2
            <4>3. QED BY <3>1, <4>1, <4>2
        <3>6. QED BY <3>3, <3>4, <3>5 DEF Between
    <2>5. QED BY <2>2, <2>3, <2>4
<1>5. QED
    BY <1>1, <1>2, <1>3, <1>4
    DEF Next, Command, Work, vars, SetPolicy, Download, Import, RestorePrevious, Scan, Fetch,
        Install, Stage, Rename, StagingFails, ReplacePointer, Prune, PointBack, ScanEnds, Damage

\* The active sequence falls only when the user goes back to the previous pack, or
\* at a start after damage (check_install_sequence, restore_previous, recover).
THEOREM FallsOnRequest == Spec => FallsOnlyOnRequest
<1>1. IInv /\ [Next]_vars =>
          [mem'.active < mem.active =>
              \/ \E t \in Thread : thread[t].at = "restored" /\ thread[t].seq = mem'.active
              \/ count'.crashes > count.crashes /\ count.damage > 0]_vars
    BY FallStep
<1>2. QED BY InvInit, InvStep, <1>1, PTL DEF Spec, FallsOnlyOnRequest
-----------------------------------------------------------------------------
(* The self-updater: the inductive invariant                               *)

\* The steps of download and of install that are about a release.
Steps == {"swept", "fetching", "fetched", "staged", "asking", "recorded", "refused"}

\* Whatever the program remembers, stages or is about to open is newer than it.
NewerOnly ==
    /\ inner.checked # 0 => inner.checked > running
    /\ inner.downloading # 0 => inner.downloading > running
    /\ inner.interrupted # 0 => inner.interrupted > running
    /\ inner.stored.state # "Idle" => inner.stored.version > running
    /\ op.at \in Steps => op.version > running

\* From the second verification to the launch the installer is the manifest's.
HeldIsGood == op.at \in {"asking", "recorded"} => file[op.version] = "good"

\* Until the start's recovery is done nothing runs and nothing is remembered.
RecoveryFirst == inner.pending => op = NoOp /\ inner.stored = Nothing

\* Strengthens LaunchIsRemembered: the memory says so too once the start has read the
\* file, and no operation that would write anything else is past its first write.
Remembered ==
    /\ op.at \in {"recorded", "refused"} =>
          disk.state = "Launched" /\ inner.stored.state = "Launched"
    /\ unseen =>
          /\ disk.state = "Launched" /\ (inner.pending \/ inner.stored.state = "Launched")
          /\ op.at \in {"none", "swept", "discarding"}

UpdateInv == UpdateTypeOK /\ NewerOnly /\ HeldIsGood /\ RecoveryFirst /\ Remembered

-----------------------------------------------------------------------------
(* Type correctness *)

UpdateCounts == [faults : 0 .. MaxUpdateFaults, writes : 0 .. MaxUpdateFaults,
             crashes : 0 .. MaxUpdateCrashes, edits : 0 .. MaxEdits]
Memory == [stored : Stored, checked : Version \cup {0},
           downloading : Version \cup {0}, interrupted : Version \cup {0},
           recovery : Outcome, pending : BOOLEAN]
Operations == [at : {"none", "swept", "fetching", "fetched", "staged", "asking", "recorded",
                     "refused", "unverified", "discarding"}, version : Version \cup {0}]

\* TypeOK without the counters, which only bound what fails.
StateOK ==
    /\ running \in Version /\ disk \in Stored
    /\ file \in [Version -> Staging]
    /\ inner \in Memory /\ op \in Operations
    /\ opened \in Version \cup {0} /\ unseen \in BOOLEAN

LEMMA TypeParts == UpdateTypeOK <=> StateOK /\ updateCount \in UpdateCounts
BY DEF UpdateTypeOK, StateOK, UpdateCounts, Memory, Operations

LEMMA TypeInit == UpdateInit => UpdateTypeOK
<1> SUFFICES ASSUME UpdateInit PROVE UpdateTypeOK
  OBVIOUS
<1>1. updateCount \in UpdateCounts
  BY UpdateAssumption DEF UpdateInit, UpdateCounts
<1>2. inner \in Memory
  BY DEF UpdateInit, Memory, Fresh, Nothing, Stored, Outcome
<1>3. running \in Version /\ file \in [Version -> Staging]
  BY UpdateAssumption DEF UpdateInit, Staging, Version
<1>4. QED
  BY <1>1, <1>2, <1>3, TypeParts DEF UpdateInit, StateOK, Nothing, NoOp,
     Stored, Operations

\* The four counters move one at a time, and only below their bounds.
LEMMA UpdateCountStep ==
    updateCount \in UpdateCounts /\ [UpdateNext]_updateVars => updateCount' \in UpdateCounts
<1> SUFFICES ASSUME updateCount \in UpdateCounts, [UpdateNext]_updateVars
             PROVE  updateCount' \in UpdateCounts
  OBVIOUS
<1>1. CASE UpdateFault
  BY <1>1, UpdateAssumption DEF UpdateFault, UpdateCounts
<1>2. CASE WriteFails
  BY <1>2, UpdateAssumption DEF WriteFails, UpdateCounts
<1>3. ASSUME NEW v \in Version, RestartAs(v) PROVE updateCount' \in UpdateCounts
  BY <1>3, UpdateAssumption DEF RestartAs, UpdateCounts
<1>4. ASSUME NEW v \in Version, Tamper(v) PROVE updateCount' \in UpdateCounts
  BY <1>4, UpdateAssumption DEF Tamper, UpdateCounts
<1>5. CASE UNCHANGED updateCount
  BY <1>5
<1>6. QED
  <2>1. Operation => UpdateFault \/ UNCHANGED updateCount
    BY DEF Operation, CheckFinds, CheckRefused, DownloadUpdate,
       InstallUpdate, Discard, Acknowledge
  <2>2. UpdateWork => UpdateFault \/ WriteFails \/ UNCHANGED updateCount
    BY DEF UpdateWork, DownloadStarts, DownloadNotStarted, Fetched,
       VerifyDownload, DownloadEnds, ForgetUnverified,
       InstallDeclined, RecordLaunch, Launch, LaunchFails,
       TakeLaunchBack, DiscardEnds, Recover
  <2>3. QED
    BY <1>1, <1>2, <1>3, <1>4, <1>5, <2>1, <2>2 DEF UpdateNext, updateVars

\* What is recorded is in the file and in memory.
LEMMA PersistType ==
    ASSUME inner \in Memory, NEW stored \in Stored, Persist(stored, inner)
    PROVE disk' \in Stored /\ inner' \in Memory
BY DEF Persist, Memory

LEMMA StateStep == StateOK /\ [UpdateNext]_updateVars => StateOK'
<1> SUFFICES ASSUME StateOK, [UpdateNext]_updateVars PROVE StateOK'
  OBVIOUS
<1> USE UpdateAssumption DEF StateOK, Memory, Operations, Stored, Version, Staging,
   Outcome, NoOp, Nothing
<1>1. ASSUME NEW v \in Version, CheckFinds(v) PROVE StateOK'
  <2>1. inner' \in Memory
    BY <1>1 DEF CheckFinds
  <2>2. QED
    BY <1>1, <2>1 DEF CheckFinds
<1>2. CASE CheckRefused
  BY <1>2 DEF CheckRefused, UpdateFault
<1>3. CASE DownloadUpdate
  BY <1>3 DEF DownloadUpdate, Free, Swept, Reach
<1>4. CASE InstallUpdate
  BY <1>4 DEF InstallUpdate, Free, Swept, Reach, Verifies
<1>5. CASE Discard
  BY <1>5 DEF Discard, Free, Swept, Reach
<1>6. CASE Acknowledge
  BY <1>6 DEF Acknowledge
<1>7. CASE DownloadStarts
  BY <1>7 DEF DownloadStarts, Persist, Reach
<1>8. CASE DownloadNotStarted
  <2>1. CASE UNCHANGED <<disk, inner, unseen>>
    BY <1>8, <2>1 DEF DownloadNotStarted, EndOp
  <2>2. CASE Persist(Nothing, inner) /\ unseen' = FALSE
    BY <1>8, <2>2 DEF DownloadNotStarted, EndOp, Persist
  <2>3. QED
    BY <1>8, <2>1, <2>2 DEF DownloadNotStarted
<1>9. CASE Fetched
  <2>1. inner' \in Memory
    BY <1>9 DEF Fetched
  <2>2. op' \in Operations
    BY <1>9 DEF Fetched, Reach, EndOp
  <2>3. file' \in [Version -> Staging]
    <3>1. \/ file' = [file EXCEPT ![op.version] = IF @ = "part" THEN "good" ELSE @]
          \/ file' = [file EXCEPT ![op.version] = "none"]
      BY <1>9 DEF Fetched
    <3>2. QED
      BY <3>1
  <2>4. QED
    BY <1>9, <2>1, <2>2, <2>3 DEF Fetched
<1>10. CASE VerifyDownload
  BY <1>10 DEF VerifyDownload, Reach, EndOp, Verifies
<1>11. CASE DownloadEnds
  <2>1. [state |-> "Verified", version |-> op.version] \in Stored
    BY <1>11 DEF DownloadEnds
  <2>2. disk' \in Stored /\ inner' \in Memory
    BY <1>11, <2>1, PersistType DEF DownloadEnds
  <2>3. QED
    BY <1>11, <2>2 DEF DownloadEnds, EndOp
<1>12. CASE ForgetUnverified
  <2>1. CASE Persist(Nothing, inner)
    BY <1>12, <2>1 DEF ForgetUnverified, EndOp, Persist
  <2>2. CASE UNCHANGED <<disk, inner>>
    BY <1>12, <2>2 DEF ForgetUnverified, EndOp
  <2>3. QED
    BY <1>12, <2>1, <2>2 DEF ForgetUnverified
<1>13. CASE InstallDeclined
  BY <1>13 DEF InstallDeclined, EndOp
<1>14. CASE RecordLaunch
  BY <1>14 DEF RecordLaunch, Persist, Reach
<1>15. CASE Launch
  BY <1>15 DEF Launch, EndOp
<1>16. CASE LaunchFails
  BY <1>16 DEF LaunchFails, Reach
<1>17. CASE TakeLaunchBack
  <2>1. [state |-> "Verified", version |-> op.version] \in Stored
    BY <1>17 DEF TakeLaunchBack
  <2>2. disk' \in Stored /\ inner' \in Memory
    BY <1>17, <2>1, PersistType DEF TakeLaunchBack
  <2>3. QED
    BY <1>17, <2>2 DEF TakeLaunchBack, EndOp
<1>18. CASE DiscardEnds
  <2>1. CASE UNCHANGED <<disk, inner, unseen>>
    BY <1>18, <2>1 DEF DiscardEnds, EndOp
  <2>2. CASE /\ Persist(Nothing, [inner EXCEPT !.interrupted = 0, !.checked = 0,
                                                             !.recovery = "none"])
             /\ unseen' = FALSE
    <3>1. disk' \in Stored /\ inner' \in Memory
      BY <2>2 DEF Persist
    <3>2. QED
      BY <1>18, <2>2, <3>1 DEF DiscardEnds, EndOp
  <2>3. QED
    BY <1>18, <2>1, <2>2 DEF DiscardEnds
<1>19. CASE Recover
  <2> DEFINE next == IF Kept(disk) THEN [state |-> "Verified", version |-> disk.version]
                     ELSE Nothing
             told == [inner EXCEPT !.recovery = Recovery(disk), !.pending = FALSE,
                        !.interrupted = IF Recovery(disk) = "Interrupted" THEN disk.version
                                        ELSE 0]
  <2>1. next \in Stored
    BY DEF Kept
  <2>2. told \in Memory
    <3>1. Recovery(disk) \in Outcome
      BY DEF Recovery
    <3>2. QED
      BY <3>1
  <2>3. /\ file' = Swept(next.version)
        /\ Persist(next, told) \/ (inner' = told /\ UNCHANGED disk)
        /\ unseen' \in BOOLEAN /\ UNCHANGED <<running, op, opened>>
    BY <1>19 DEF Recover
  <2>4. file' \in [Version -> Staging]
    BY <2>3 DEF Swept
  <2> HIDE DEF next, told
  <2>5. disk' \in Stored /\ inner' \in Memory
    <3>1. CASE Persist(next, told)
      BY <2>1, <2>2, <3>1 DEF Persist, Memory
    <3>2. CASE inner' = told /\ UNCHANGED disk
      BY <2>2, <3>2
    <3>3. QED
      BY <2>3, <3>1, <3>2
  <2>6. QED
    BY <2>3, <2>4, <2>5
<1>20. ASSUME NEW v \in Version, RestartAs(v) PROVE StateOK'
  BY <1>20 DEF RestartAs, EndOp, Fresh
<1>21. ASSUME NEW v \in Version, Tamper(v) PROVE StateOK'
  <2>1. file' \in [Version -> Staging]
    BY <1>21 DEF Tamper
  <2>2. QED
    BY <1>21, <2>1 DEF Tamper
<1>22. CASE UNCHANGED updateVars
  BY <1>22 DEF updateVars
<1>23. QED
  BY <1>1, <1>2, <1>3, <1>4, <1>5, <1>6, <1>7, <1>8, <1>9, <1>10, <1>11, <1>12,
     <1>13, <1>14, <1>15, <1>16, <1>17, <1>18, <1>19, <1>20, <1>21, <1>22
  DEF UpdateNext, Operation, UpdateWork

LEMMA TypeStep == UpdateTypeOK /\ [UpdateNext]_updateVars => UpdateTypeOK'
<1>1. UpdateTypeOK' <=> StateOK' /\ (updateCount \in UpdateCounts)'
  BY TypeParts, PTL
<1>2. QED
  BY <1>1, TypeParts, UpdateCountStep, StateStep

-----------------------------------------------------------------------------
(* The invariant is inductive *)

LEMMA UpdateInvStarts == UpdateInit => UpdateInv
<1>1. UpdateInit => NewerOnly
  BY DEF UpdateInit, NewerOnly, Fresh, Nothing, NoOp, Steps
<1>2. UpdateInit => HeldIsGood /\ RecoveryFirst
  BY DEF UpdateInit, HeldIsGood, RecoveryFirst, Fresh, Nothing, NoOp
<1>3. UpdateInit => Remembered
  BY DEF UpdateInit, Remembered, NoOp
<1>4. QED
  BY <1>1, <1>2, <1>3, TypeInit DEF UpdateInv

\* What UpdateInv adds to the types, step by step.
LEMMA GoalsKept ==
    ASSUME UpdateInv, UpdateTypeOK', [UpdateNext]_updateVars
    PROVE  (NewerOnly /\ HeldIsGood /\ RecoveryFirst /\ Remembered)'
<1> DEFINE Goal == NewerOnly /\ HeldIsGood /\ RecoveryFirst /\ Remembered
<1>t. StateOK /\ UpdateTypeOK'
  BY TypeParts DEF UpdateInv
<1> SUFFICES Goal'
  OBVIOUS
<1> USE <1>t DEF UpdateInv, StateOK, Memory, Operations, Stored, Version,
   NewerOnly, HeldIsGood, RecoveryFirst, Remembered, Steps, NoOp, Nothing
<1>1. ASSUME NEW v \in Version, CheckFinds(v) PROVE Goal'
  BY <1>1 DEF CheckFinds
<1>2. CASE CheckRefused
  BY <1>2 DEF CheckRefused, UpdateFault
<1>3. CASE DownloadUpdate
  BY <1>3 DEF DownloadUpdate, Free, Swept, Reach
<1>4. CASE InstallUpdate
  <2>1. CASE /\ Verifies(inner.stored.version)
             /\ Reach("asking", inner.stored.version) /\ UNCHANGED file
    BY <1>4, <2>1 DEF InstallUpdate, Free, Reach, Verifies
  <2>2. CASE Reach("unverified", inner.stored.version)
    BY <1>4, <2>2 DEF InstallUpdate, Free, Reach
  <2>3. QED
    BY <1>4, <2>1, <2>2 DEF InstallUpdate
<1>5. CASE Discard
  BY <1>5 DEF Discard, Free, Swept, Reach
<1>6. CASE Acknowledge
  BY <1>6 DEF Acknowledge
<1>7. CASE DownloadStarts
  BY <1>7 DEF DownloadStarts, Persist, Reach
<1>8. CASE DownloadNotStarted
  BY <1>8 DEF DownloadNotStarted, Persist, EndOp
<1>9. CASE Fetched
  BY <1>9 DEF Fetched, Reach, EndOp
<1>10. CASE VerifyDownload
  BY <1>10 DEF VerifyDownload, Reach, EndOp, Verifies
<1>11. CASE DownloadEnds
  BY <1>11 DEF DownloadEnds, Persist, EndOp
<1>12. CASE ForgetUnverified
  BY <1>12 DEF ForgetUnverified, Persist, EndOp
<1>13. CASE InstallDeclined
  BY <1>13 DEF InstallDeclined, EndOp
<1>14. CASE RecordLaunch
  BY <1>14 DEF RecordLaunch, Persist, Reach
<1>15. CASE Launch
  BY <1>15 DEF Launch, EndOp
<1>16. CASE LaunchFails
  BY <1>16 DEF LaunchFails, Reach
<1>17. CASE TakeLaunchBack
  BY <1>17 DEF TakeLaunchBack, Persist, EndOp
<1>18. CASE DiscardEnds
  <2>1. CASE UNCHANGED <<disk, inner, unseen>>
    BY <1>18, <2>1 DEF DiscardEnds, EndOp
  <2>2. CASE /\ Persist(Nothing, [inner EXCEPT !.interrupted = 0, !.checked = 0,
                                                             !.recovery = "none"])
             /\ unseen' = FALSE
    BY <1>18, <2>2 DEF DiscardEnds, EndOp, Persist
  <2>3. QED
    BY <1>18, <2>1, <2>2 DEF DiscardEnds
<1>19. CASE Recover
  <2> DEFINE next == IF Kept(disk) THEN [state |-> "Verified", version |-> disk.version]
                     ELSE Nothing
             told == [inner EXCEPT !.recovery = Recovery(disk), !.pending = FALSE,
                        !.interrupted = IF Recovery(disk) = "Interrupted" THEN disk.version
                                        ELSE 0]
  <2>1. next.state # "Idle" => next.version > running
    BY DEF Kept
  <2>2. /\ told.checked = inner.checked /\ told.downloading = inner.downloading
        /\ told.interrupted # 0 => told.interrupted > running
        /\ ~told.pending /\ told.stored = Nothing
    <3>1. Recovery(disk) = "Interrupted" => disk.version > running
      BY DEF Recovery
    <3>2. inner.stored = Nothing
      BY <1>19 DEF Recover
    <3>3. QED
      BY <3>1, <3>2
  <2>3. /\ inner.pending /\ op = NoOp
        /\ Persist(next, told) \/ (inner' = told /\ UNCHANGED disk)
        /\ unseen' = IF disk.state = "Launched" THEN FALSE ELSE unseen
        /\ UNCHANGED <<running, op, opened>>
    BY <1>19 DEF Recover
  <2>4. unseen' = FALSE
    BY <2>3
  <2>5. inner'.checked = told.checked /\ inner'.downloading = told.downloading
        /\ inner'.interrupted = told.interrupted /\ inner'.pending = told.pending
        /\ (inner'.stored = next \/ inner'.stored = told.stored)
    <3>1. inner' = told \/ inner' = [told EXCEPT !.stored = next]
      BY <2>3 DEF Persist
    <3>2. QED
      BY <3>1
  <2> HIDE DEF next, told
  <2>6. QED
    BY <2>1, <2>2, <2>3, <2>4, <2>5
<1>20. ASSUME NEW v \in Version, RestartAs(v) PROVE Goal'
  BY <1>20 DEF RestartAs, EndOp, Fresh
<1>21. ASSUME NEW v \in Version, Tamper(v) PROVE Goal'
  <2>1. \A w \in Version : w # v => file'[w] = file[w]
    BY <1>21 DEF Tamper
  <2>2. UNCHANGED <<running, disk, inner, op, opened, unseen>> /\ ~Guarded(v)
    BY <1>21 DEF Tamper
  <2>3. op.at \in {"asking", "recorded"} => op.version \in Version /\ op.version # v
    BY <2>2 DEF Guarded
  <2>4. HeldIsGood'
    BY <2>1, <2>2, <2>3
  <2>5. QED
    BY <2>2, <2>4
<1>22. CASE UNCHANGED updateVars
  BY <1>22 DEF updateVars
<1>23. QED
  BY <1>1, <1>2, <1>3, <1>4, <1>5, <1>6, <1>7, <1>8, <1>9, <1>10, <1>11, <1>12,
     <1>13, <1>14, <1>15, <1>16, <1>17, <1>18, <1>19, <1>20, <1>21, <1>22
  DEF UpdateNext, Operation, UpdateWork

LEMMA UpdateInvKept == UpdateInv /\ [UpdateNext]_updateVars => UpdateInv'
BY GoalsKept, TypeStep DEF UpdateInv

-----------------------------------------------------------------------------
(* Theorems *)

LEMMA Inductive == UpdateSpec => []UpdateInv
BY UpdateInvStarts, UpdateInvKept, PTL DEF UpdateSpec

\* Every variable keeps its type, whatever fails, ends the program or is edited.
THEOREM UpdateTypeCorrect == UpdateSpec => []UpdateTypeOK
<1>1. UpdateInv => UpdateTypeOK
  BY DEF UpdateInv
<1>2. QED
  BY <1>1, Inductive, PTL

\* A start always finds out about an installer that was opened (RecordLaunch comes before
\* Launch): no later step, failure or restart loses the record before it is looked at.
THEOREM LaunchRemembered == UpdateSpec => []LaunchIsRemembered
<1>1. UpdateInv => LaunchIsRemembered
  BY DEF UpdateInv, Remembered, LaunchIsRemembered
<1>2. QED
  BY <1>1, Inductive, PTL

\* Nothing is downloaded, offered for installation or said to be interrupted that is not
\* newer than the running program (status).
THEOREM OffersNewer == UpdateSpec => []OffersOnlyNewer
<1>1. UpdateInv => OffersOnlyNewer
  BY DEF UpdateInv, NewerOnly, OffersOnlyNewer, Shown
<1>2. QED
  BY <1>1, Inductive, PTL

\* Only Launch opens an installer, and it is newer and the manifest's at that moment.
THEOREM OpensNewerAndGenuine == UpdateSpec => OpensOnlyVerified
<1> DEFINE Sound == opened' # opened /\ opened' # 0 => opened' > running /\ file[opened'] = "good"
<1>1. UpdateInv /\ [UpdateNext]_updateVars => [Sound]_updateVars
  <2> SUFFICES ASSUME UpdateInv, [UpdateNext]_updateVars PROVE [Sound]_updateVars
    OBVIOUS
  <2>1. CASE Launch
    BY <2>1 DEF Launch, UpdateInv, NewerOnly, HeldIsGood, Steps
  <2>2. CASE UNCHANGED opened
    BY <2>2
  <2>3. ASSUME NEW v \in Version, RestartAs(v) PROVE opened' = 0
    BY <2>3 DEF RestartAs
  <2>4. Operation => UNCHANGED opened
    BY DEF Operation, CheckFinds, CheckRefused, DownloadUpdate,
       InstallUpdate, Discard, Acknowledge
  <2>5. UpdateWork => Launch \/ UNCHANGED opened
    BY DEF UpdateWork, DownloadStarts, DownloadNotStarted, Fetched,
       VerifyDownload, DownloadEnds, ForgetUnverified,
       InstallDeclined, RecordLaunch, LaunchFails,
       TakeLaunchBack, DiscardEnds, Recover
  <2>6. ASSUME NEW v \in Version, Tamper(v) PROVE UNCHANGED opened
    BY <2>6 DEF Tamper
  <2>7. QED
    BY <2>1, <2>2, <2>3, <2>4, <2>5, <2>6 DEF UpdateNext, updateVars
<1>2. QED
  BY <1>1, Inductive, PTL DEF UpdateSpec, OpensOnlyVerified

=============================================================================
