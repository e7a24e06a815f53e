---------------------------- MODULE Scans_proofs ----------------------------
(***************************************************************************)
(* Theorems about the components that scan.                                *)
(*                                                                         *)
(* StorageScans, for any number of scans, roots and features, and any      *)
(* number of retained snapshots.  IInv is the inductive invariant: what    *)
(* the service holds (Held) agrees with what the workers and the answers   *)
(* given so far say (WorkersOK, AnswersOK).                                *)
(*                                                                         *)
(* FolderScans, for every folder, every number of changes by other         *)
(* programs and every scan: a report of a scan for threats that claims no  *)
(* limit overlooked nothing.  TreeInv is what is known of the tree while   *)
(* others change it, SweepInv what every file the report must answer for   *)
(* has come to.  Below a folder offered as empty nothing remains but       *)
(* folders offered as empty, and whatever is selected of the duplicates,   *)
(* a copy stays: FinderInv keeps the levels the collector has open in step *)
(* with the folders the walk is in, and every digest true of its file.     *)
(***************************************************************************)
EXTENDS StorageScans, FolderScans, FiniteSetTheorems, SequenceTheorems, WellFoundedInduction, TLAPS

\* The service record s agrees with the workers.
Held(s) ==
    /\ s \in Service
    /\ Cardinality(s.completed) <= MaxSnapshots
    /\ IsFiniteSet(s.roots) /\ Cardinality(s.roots) <= MaxSnapshots
    /\ s.pages = {c \in s.completed : Outcome(c) # "Failed"}
    /\ \A c \in s.completed : scan[c].pc = "returned" /\ c # s.active /\ c <= s.started
    /\ s.active # None => s.active <= s.started
    /\ gone \cap (s.completed \cup s.roots) = {}
    /\ s.active \in gone => scan[s.active].released
    /\ s.roots \subseteq issued
    /\ ~ down => \A c \in Scan : Busy(c) => c = s.active

\* A worker w becomes Complete only after its runner came to its end.
WorkerOK(w) ==
    /\ w.phase # "Active" => w.pc \in {"returning", "returned"}
    /\ w.pc = "terminal" => w.ok /\ (w.cancel \/ w.whole)
    /\ w.phase = "Complete" => w.whole /\ w.evidence # "orphan" /\ w.ok

WorkersOK ==
    /\ scan \in [Scan -> Worker]
    /\ \A c \in Scan : WorkerOK(scan[c])
    /\ \A c, d \in Scan : Busy(c) /\ Busy(d) => c = d

AnswersOK ==
    /\ issued \subseteq Root /\ down \in BOOLEAN
    /\ withdrawn \subseteq Scan /\ trusted \subseteq Scan /\ gone \subseteq Scan \cup Root
    /\ \A r \in Root : r \in gone => r \in issued
    /\ \A c \in Scan : c \in withdrawn \cup trusted \cup gone => c <= svc.started
    /\ \A c \in withdrawn : scan[c].cancel /\ scan[c].phase # "Complete" /\ c \notin trusted
    /\ \A c \in trusted : scan[c].phase = "Complete" /\ scan[c].pc = "returned"

IInv == Held(svc) /\ WorkersOK /\ AnswersOK

-----------------------------------------------------------------------------
(* The two queues *)

\* There are finitely many scans.
LEMMA ScansAreFinite == Scan \subseteq Nat /\ IsFiniteSet(Scan)
  BY ScanAssumption, FS_Interval DEF Scan

\* A set of scans has an oldest one.
LEMMA OldestIsMember ==
  ASSUME NEW S \in SUBSET Scan, S # {}
  PROVE  Oldest(S) \in S
<1>1. IsWellFoundedOn(OpToRel(<, Nat), Nat)
  BY NatLessThanWellFounded
<1>2. S \subseteq Nat
  BY ScansAreFinite
<1>3. PICK x \in S : \A y \in S : ~ (<<y, x>> \in OpToRel(<, Nat))
  BY <1>1, <1>2, WFMin
<1>4. \A y \in S : x <= y
  <2>1. SUFFICES ASSUME NEW y \in S, y < x PROVE FALSE
    BY <1>2
  <2>2. <<y, x>> \in OpToRel(<, Nat)
    BY <2>1, <1>2 DEF OpToRel
  <2>. QED  BY <1>3, <2>2
<1>. QED  BY <1>3, <1>4 DEF Oldest

\* Publishing keeps both queues within their bound and in step: when the pages are
\* full, they are those of all completed snapshots, and both lose the same one.
LEMMA PublishedQueues ==
  ASSUME NEW s \in Service, NEW c \in Scan, c \notin s.completed,
         Cardinality(s.completed) <= MaxSnapshots,
         s.pages = {d \in s.completed : Outcome(d) # "Failed"},
         scan[c].ok <=> Outcome(c) # "Failed"
  PROVE  /\ Published(s, c).completed \subseteq s.completed \cup {c}
         /\ Cardinality(Published(s, c).completed) <= MaxSnapshots
         /\ Published(s, c).pages = {d \in Published(s, c).completed : Outcome(d) # "Failed"}
<1> DEFINE C == s.completed
           P == s.pages
           Q == IF scan[c].ok THEN Inserted(P, c) ELSE P
           O == IF Cardinality(C) = MaxSnapshots THEN {Oldest(C)} ELSE {}
<1>1. /\ Published(s, c).completed = (C \ O) \cup {c}
      /\ Published(s, c).pages = Q \ O
  BY DEF Published, Service
<1>2. /\ C \in SUBSET Scan /\ IsFiniteSet(C) /\ Cardinality(C) \in Nat
      /\ P \in SUBSET C /\ IsFiniteSet(P) /\ Cardinality(P) \in Nat
      /\ Cardinality(P) <= Cardinality(C)
      /\ (Cardinality(P) = Cardinality(C) => P = C)
  <2>1. C \in SUBSET Scan
    BY DEF Service
  <2>2. IsFiniteSet(C)
    BY <2>1, ScansAreFinite, FS_Subset
  <2>3. P \in SUBSET C
    OBVIOUS
  <2>4. IsFiniteSet(P) /\ Cardinality(P) <= Cardinality(C) /\ (Cardinality(C) = Cardinality(P) => C = P)
    BY <2>2, <2>3, FS_Subset
  <2>. QED  BY <2>1, <2>2, <2>3, <2>4, FS_CardinalityType
<1>3. MaxSnapshots \in Nat \ {0}
  BY ScanAssumption
<1>4. Cardinality(C) = MaxSnapshots => Oldest(C) \in C
  <2>1. Cardinality(C) = MaxSnapshots => C # {}
    BY <1>3, FS_EmptySet
  <2>. QED  BY <2>1, <1>2, OldestIsMember
<1>5. Cardinality((C \ O) \cup {c}) <= MaxSnapshots
  <2>1. CASE Cardinality(C) = MaxSnapshots
    <3>1. IsFiniteSet(C \ O) /\ Cardinality(C \ O) = MaxSnapshots - 1
      BY <2>1, <1>2, <1>4, FS_RemoveElement
    <3>2. Cardinality((C \ O) \cup {c}) = MaxSnapshots - 1 + 1
      BY <3>1, FS_AddElement
    <3>. QED  BY <3>2, <1>3
  <2>2. CASE Cardinality(C) # MaxSnapshots
    <3>1. C \ O = C
      BY <2>2
    <3>2. IsFiniteSet(C) /\ c \notin C
      BY <1>2
    <3>3. Cardinality(C \cup {c}) = Cardinality(C) + 1
      <4> HIDE DEF C
      <4>. QED  BY <3>2, FS_AddElement
    <3>. QED  BY <3>1, <3>3, <2>2, <1>2, <1>3
  <2>. QED  BY <2>1, <2>2
<1>6. Q \ O = {d \in (C \ O) \cup {c} : Outcome(d) # "Failed"}
  <2>1. c \notin O
    BY <1>4
  <2>2. CASE ~ scan[c].ok
    BY <2>1, <2>2
  <2>3. CASE scan[c].ok /\ Cardinality(P) = MaxSnapshots
    <3>1. P = C /\ O = {Oldest(P)}
      BY <2>3, <1>2, <1>3
    <3>2. Q = (P \ {Oldest(P)}) \cup {c}
      BY <2>3 DEF Inserted
    <3>. QED  BY <3>1, <3>2, <2>1, <2>3
  <2>4. CASE scan[c].ok /\ Cardinality(P) # MaxSnapshots
    <3>1. Q = P \cup {c}
      BY <2>4 DEF Inserted
    <3>. QED  BY <3>1, <2>1, <2>4
  <2>. QED  BY <2>2, <2>3, <2>4
<1>. QED  BY <1>1, <1>5, <1>6

-----------------------------------------------------------------------------
(* State::maintain and the operations on the service *)

\* What every operation starts from: the invariant holds of the maintained state, its
\* slot is only ever freed, and then no worker is busy.
LEMMA MaintainedHeld ==
  ASSUME IInv, ~ down
  PROVE  /\ Held(Maintained)
         /\ Maintained.roots = svc.roots /\ Maintained.started = svc.started
         /\ Maintained.active # None => Maintained = svc
         /\ Maintained.active = None => \A c \in Scan : ~ Busy(c)
<1> USE DEF IInv
<1>1. Held(svc) /\ svc \in Service /\ svc.active \in Scan \cup {None} /\ None \notin Scan
  BY ScanAssumption DEF Held, Service
<1>2. CASE ~ (svc.active # None /\ scan[svc.active].pc = "returned")
  <2>1. Maintained = svc
    BY <1>2 DEF Maintained
  <2>. QED  BY <2>1, <1>1 DEF Held
<1>3. CASE /\ svc.active # None /\ scan[svc.active].pc = "returned"
           /\ scan[svc.active].released
  <2>1. Maintained = [svc EXCEPT !.active = None]
    BY <1>3 DEF Maintained
  <2>2. \A c \in Scan : ~ Busy(c)
    BY <1>1, <1>3 DEF Held, Busy
  <2>3. None \notin gone
    BY ScanAssumption DEF AnswersOK
  <2>4. /\ Maintained \in Service /\ Maintained.active = None
        /\ Maintained.completed = svc.completed /\ Maintained.pages = svc.pages
        /\ Maintained.roots = svc.roots /\ Maintained.started = svc.started
    BY <2>1, <1>1 DEF Service
  <2>5. \A c \in svc.completed : c # None
    BY <1>1 DEF Service
  <2>. QED  BY <2>2, <2>3, <2>4, <2>5, <1>1 DEF Held
<1>4. CASE /\ svc.active # None /\ scan[svc.active].pc = "returned"
           /\ ~ scan[svc.active].released
  <2> DEFINE a == svc.active
             pub == Published(svc, a)
  <2>1. Maintained = pub
    BY <1>4 DEF Maintained
  <2>2. a \in Scan /\ a \notin svc.completed /\ scan[a] \in Worker
    BY <1>1, <1>4 DEF Held, WorkersOK
  <2>3. scan[a].ok <=> Outcome(a) # "Failed"
    BY <2>2 DEF Outcome, Worker
  <2>4. /\ pub.completed \subseteq svc.completed \cup {a}
        /\ Cardinality(pub.completed) <= MaxSnapshots
        /\ pub.pages = {d \in pub.completed : Outcome(d) # "Failed"}
    BY <1>1, <2>2, <2>3, PublishedQueues DEF Held
  <2>5. /\ pub.active = None /\ pub.roots = svc.roots /\ pub.started = svc.started
        /\ pub = [active |-> None, completed |-> pub.completed, pages |-> pub.pages,
                roots |-> svc.roots, started |-> svc.started]
    <3>1. PICK C, P : pub = [svc EXCEPT !.active = None, !.completed = C, !.pages = P]
      BY DEF Published
    <3> HIDE DEF pub
    <3>. QED  BY <3>1, <1>1 DEF Service
  <2> HIDE DEF pub
  <2>6. pub \in Service
    <3>1. pub.completed \subseteq Scan /\ pub.pages \subseteq Scan
      BY <2>2, <2>4, <1>1 DEF Service
    <3>. QED  BY <2>5, <3>1, <1>1 DEF Service
  <2>7. \A c \in Scan : ~ Busy(c)
    BY <1>1, <1>4 DEF Held, Busy
  <2>8. a \notin gone /\ None \notin gone
    BY <1>1, <1>4, ScanAssumption DEF Held, AnswersOK
  <2>9. \A c \in pub.completed : scan[c].pc = "returned" /\ c # None /\ c <= svc.started
    BY <2>2, <2>4, <1>1, <1>4 DEF Held, Service
  <2>10. gone \cap (pub.completed \cup pub.roots) = {}
    BY <2>4, <2>5, <2>8, <1>1 DEF Held
  <2>11. Held(pub)
    BY <2>4, <2>5, <2>6, <2>7, <2>8, <2>9, <2>10, <1>1 DEF Held
  <2>. QED  BY <2>1, <2>5, <2>7, <2>11
<1>. QED  BY <1>2, <1>3, <1>4

\* Dropping completed snapshots with their pages, and authorizations, keeps it.
LEMMA DroppedHeld ==
  ASSUME NEW s, Held(s), NEW C, NEW R
  PROVE  Held([s EXCEPT !.completed = @ \ C, !.pages = @ \ C, !.roots = @ \ R])
<1> DEFINE t == [s EXCEPT !.completed = @ \ C, !.pages = @ \ C, !.roots = @ \ R]
<1>1. /\ t \in Service /\ t.active = s.active /\ t.started = s.started
      /\ t.completed = s.completed \ C /\ t.pages = s.pages \ C /\ t.roots = s.roots \ R
  BY DEF Held, Service
<1> HIDE DEF t
<1>2. Cardinality(t.completed) <= MaxSnapshots
  <2>1. IsFiniteSet(s.completed)
    BY ScansAreFinite, FS_Subset DEF Held, Service
  <2>2. IsFiniteSet(t.completed) /\ Cardinality(t.completed) <= Cardinality(s.completed)
    BY <2>1, <1>1, FS_Subset
  <2>. QED  BY <2>1, <2>2, FS_CardinalityType, ScanAssumption DEF Held
<1>3. IsFiniteSet(t.roots) /\ Cardinality(t.roots) <= MaxSnapshots
  <2>1. IsFiniteSet(t.roots) /\ Cardinality(t.roots) <= Cardinality(s.roots)
    BY <1>1, FS_Subset DEF Held
  <2>. QED  BY <2>1, FS_CardinalityType, ScanAssumption DEF Held
<1>4. t.pages = {c \in t.completed : Outcome(c) # "Failed"}
  BY <1>1 DEF Held
<1>. QED  BY <1>1, <1>2, <1>3, <1>4 DEF Held, t

-----------------------------------------------------------------------------
(* The worker *)

\* A step of a busy worker that keeps its token and its release, and that becomes
\* Complete only when it is not cancelled.
LEMMA WorkerStep ==
  ASSUME IInv, NEW c \in Scan, Busy(c),
         NEW w \in Worker, WorkerOK(w), scan' = [scan EXCEPT ![c] = w],
         w.released = scan[c].released, w.cancel = scan[c].cancel,
         w.phase = "Complete" => ~ scan[c].cancel \/ scan[c].phase = "Complete",
         UNCHANGED <<svc, issued, down, answers>>
  PROVE  IInv'
<1> USE DEF IInv
<1>1. scan' \in [Scan -> Worker] /\ scan'[c] = w /\ \A d \in Scan \ {c} : scan'[d] = scan[d]
  BY DEF WorkersOK
<1>2. \A d \in Scan : Busy(d)' => Busy(d)
  BY <1>1 DEF Busy
<1>3. c \notin svc.completed /\ c \notin trusted
  BY DEF Held, AnswersOK, Busy
<1>4. WorkersOK'
  BY <1>1, <1>2 DEF WorkersOK
<1>5. \A d \in svc.completed : scan'[d] = scan[d] /\ Outcome(d)' = Outcome(d)
  BY <1>1, <1>3 DEF Held, Service, Outcome
<1>6. Held(svc)'
  <2>1. {d \in svc.completed : Outcome(d) # "Failed"}' = {d \in svc.completed : Outcome(d) # "Failed"}
    BY <1>5
  <2>2. svc.active \in gone => scan'[svc.active].released
    BY <1>1, ScanAssumption DEF Held, Service, AnswersOK
  <2>. QED  BY <1>1, <1>2, <1>5, <2>1, <2>2 DEF Held, answers
<1>7. AnswersOK'
  BY <1>1, <1>3 DEF AnswersOK, answers
<1>. QED  BY <1>4, <1>6, <1>7

-----------------------------------------------------------------------------
(* The steps *)

\* The service starts in the invariant: it holds nothing.
LEMMA InitInv == Init => IInv
<1> SUFFICES ASSUME Init PROVE IInv
  OBVIOUS
<1>1. Cardinality({}) = 0 /\ IsFiniteSet({})
  BY FS_EmptySet
<1>2. scan \in [Scan -> Worker] /\ \A c \in Scan : scan[c] = NoWorker
  BY DEF Init, NoWorker, Worker
<1>3. svc \in Service /\ svc.active = None /\ svc.completed = {} /\ svc.pages = {} /\ svc.roots = {}
  BY ScanAssumption DEF Init, Service
<1>4. Held(svc)
  BY <1>1, <1>2, <1>3, ScanAssumption DEF Held, Init, Busy, NoWorker
<1>5. WorkersOK
  BY <1>2 DEF WorkersOK, WorkerOK, Busy, NoWorker
<1>. QED  BY <1>4, <1>5 DEF IInv, AnswersOK, Init

\* What is left of the invariant when a step changes the service only.
LEMMA ServiceStep ==
  ASSUME IInv, NEW t, Held(t), svc' = t, t.started = svc.started,
         UNCHANGED <<scan, issued, down, answers>>
  PROVE  IInv'
<1>1. Held(svc)'
  BY DEF Held, Outcome, Busy, answers
<1>2. WorkersOK'
  BY DEF IInv, WorkersOK, Busy
<1>3. AnswersOK'
  BY DEF IInv, AnswersOK, answers
<1>. QED  BY <1>1, <1>2, <1>3 DEF IInv

\* An authorization makes room first, so that no more than MaxSnapshots are held.
LEMMA AuthorizeInv ==
  ASSUME IInv, NEW r \in Root, Authorize(r)
  PROVE  IInv'
<1> DEFINE s == Maintained
<1>1. Held(s) /\ s.started = svc.started
  BY MaintainedHeld DEF Authorize
<1>2. IsFiniteSet(s.roots \cup {r}) /\ Cardinality(s.roots \cup {r}) <= MaxSnapshots
  <2>1. IsFiniteSet(s.roots) /\ Cardinality(s.roots) \in Nat /\ Cardinality(s.roots) < MaxSnapshots
    BY <1>1, FS_CardinalityType DEF Held, Authorize
  <2>. HIDE DEF s
  <2>2. /\ IsFiniteSet(s.roots \cup {r})
        /\ \/ Cardinality(s.roots \cup {r}) = Cardinality(s.roots)
           \/ Cardinality(s.roots \cup {r}) = Cardinality(s.roots) + 1
    BY ZenonT(30), <2>1, FS_AddElement
  <2>3. MaxSnapshots \in Nat
    BY ScanAssumption
  <2>4. ASSUME NEW size \in Nat, NEW grown, size < MaxSnapshots, grown = size \/ grown = size + 1
        PROVE  grown <= MaxSnapshots
    BY SMT, <2>3, <2>4
  <2>. QED  BY Zenon, <2>1, <2>2, <2>4
<1>3. svc' = [s EXCEPT !.roots = @ \cup {r}]
  BY DEF Authorize
<1> HIDE DEF s
<1>4. /\ svc' \in Service /\ svc'.active = s.active /\ svc'.started = s.started
      /\ svc'.completed = s.completed /\ svc'.pages = s.pages /\ svc'.roots = s.roots \cup {r}
  BY <1>1, <1>3 DEF Held, Service
<1>5. r \notin gone /\ issued' = issued \cup {r} /\ UNCHANGED <<scan, down, answers>>
  BY DEF Authorize, IInv, AnswersOK
<1>6. Held(svc)'
  BY <1>1, <1>2, <1>4, <1>5 DEF Held, Outcome, Busy, answers
<1>7. WorkersOK'
  BY <1>5 DEF IInv, WorkersOK, Busy
<1>8. AnswersOK'
  BY <1>1, <1>4, <1>5 DEF IInv, AnswersOK, answers
<1>. QED  BY <1>6, <1>7, <1>8 DEF IInv

\* A started worker enters the free slot.
LEMMA StartStep ==
  ASSUME IInv, ~ down, NEW c \in Scan, Fresh(c), NEW feature \in Module, NEW r \in Root \cup {None},
         Maintained.active = None, NEW R,
         svc' = [Maintained EXCEPT !.active = c, !.roots = R, !.started = @ + 1],
         R \subseteq Maintained.roots,
         scan' = [scan EXCEPT ![c] = Queued(feature, r)],
         UNCHANGED <<issued, down, answers>>
  PROVE  IInv'
<1> DEFINE s == Maintained
           w == Queued(feature, r)
<1>1. Held(s) /\ s.started = svc.started /\ s.active = None /\ \A d \in Scan : ~ Busy(d)
  BY MaintainedHeld
<1>2. /\ w \in Worker /\ WorkerOK(w) /\ ~ w.released
  BY DEF Queued, NoWorker, Worker, WorkerOK
<1>3. svc' = [s EXCEPT !.active = c, !.roots = R, !.started = @ + 1] /\ R \subseteq s.roots
  OBVIOUS
<1> HIDE DEF s, w
<1>4. c = s.started + 1 /\ s.started \in Nat /\ c \in Nat /\ s.started + 1 \in 0..Scans
  BY <1>1, ScansAreFinite, ScanAssumption DEF Fresh, Held, Service, Scan
<1>5. /\ svc' \in Service /\ svc'.active = c /\ svc'.started = c /\ svc'.completed = s.completed
      /\ svc'.pages = s.pages /\ svc'.roots = R
  <2> s \in Service
    BY <1>1 DEF Held
  <2>a. s.roots \subseteq Root
    BY DEF Service
  <2>1. s \in Service /\ R \subseteq Root /\ c = s.started + 1 /\ c \in 0..Scans
    BY <1>3, <1>4, <2>a
  <2>2. svc' = [s EXCEPT !.active = c, !.roots = R, !.started = c]
    BY <1>3, <2>1
  <2>. QED  BY <2>1, <2>2 DEF Service
<1>6. \A d \in s.completed : d <= s.started /\ d \in Nat /\ d # c
  BY <1>1, <1>4, ScansAreFinite DEF Held, Service
<1>7. c \notin gone /\ c \notin trusted /\ c \notin withdrawn
  BY <1>1, <1>4 DEF IInv, AnswersOK
<1>8. scan' \in [Scan -> Worker] /\ scan'[c] = w /\ \A d \in Scan \ {c} : scan'[d] = scan[d]
  BY <1>2 DEF IInv, WorkersOK, w
<1>9. \A d \in Scan : Busy(d)' => d = c
  BY <1>1, <1>8 DEF Busy
<1>10. IsFiniteSet(R) /\ Cardinality(R) <= MaxSnapshots
  <2>1. IsFiniteSet(R) /\ Cardinality(R) <= Cardinality(s.roots)
    BY <1>1, <1>3, FS_Subset DEF Held
  <2>. QED  BY <1>1, <2>1, FS_CardinalityType, ScanAssumption DEF Held
<1>11. Held(svc)'
  <2>1. \A d \in s.completed : scan'[d] = scan[d] /\ Outcome(d)' = Outcome(d)
    BY <1>6, <1>8, <1>1 DEF Held, Service, Outcome
  <2>2. svc'.pages = {d \in svc'.completed : Outcome(d)' # "Failed"}
    <3>1. s.pages = {d \in s.completed : Outcome(d) # "Failed"}
      BY <1>1 DEF Held
    <3>2. \A d \in s.completed : (Outcome(d) # "Failed") <=> (Outcome(d)' # "Failed")
      BY <2>1
    <3>. QED  BY <3>1, <3>2, <1>5
  <2>3. \A d \in svc'.completed : scan'[d].pc = "returned" /\ d # c /\ d <= c
    BY <2>1, <1>1, <1>4, <1>5, <1>6 DEF Held
  <2>4. gone \cap (svc'.completed \cup R) = {} /\ R \subseteq issued
    BY <1>1, <1>3, <1>5 DEF Held
  <2>. QED  BY <2>2, <2>3, <2>4, <1>1, <1>4, <1>5, <1>7, <1>9, <1>10 DEF Held, answers
<1>12. WorkersOK'
  BY <1>2, <1>8, <1>9 DEF IInv, WorkersOK
<1>13. AnswersOK'
  <2>1. \A d \in Scan : d \in withdrawn \cup trusted \cup gone => d <= c
    BY <1>1, <1>4, ScansAreFinite DEF IInv, AnswersOK
  <2>. QED  BY <2>1, <1>5, <1>7, <1>8 DEF IInv, AnswersOK, answers
<1>. QED  BY <1>11, <1>12, <1>13 DEF IInv

\* A scan starts only when none is active, with an identity nothing had before.
LEMMA StartInv ==
  ASSUME IInv, NEW c \in Scan, NEW feature \in Module,
         StartNative(c, feature) \/ \E r \in Root : StartRooted(c, feature, r)
  PROVE  IInv'
<1>1. ~ down /\ Fresh(c) /\ Maintained.active = None
  BY DEF StartNative, StartRooted
<1>2. Held(Maintained)
  BY <1>1, MaintainedHeld
<1>3. CASE StartNative(c, feature)
  <2>1. svc' = [Maintained EXCEPT !.active = c, !.roots = Maintained.roots, !.started = @ + 1]
    <3> DEFINE s == Maintained
    <3>1. svc' = [s EXCEPT !.active = c, !.started = @ + 1] /\ s \in Service
      BY <1>2, <1>3 DEF StartNative, Held
    <3> HIDE DEF s
    <3>2. svc' = [s EXCEPT !.active = c, !.roots = s.roots, !.started = @ + 1]
      BY <3>1 DEF Service
    <3>. QED  BY <3>2 DEF s
  <2>. QED  BY <1>1, <1>3, <2>1, StartStep DEF StartNative
<1>4. ASSUME NEW r \in Root, StartRooted(c, feature, r)
      PROVE  IInv'
  <2>1. svc' = [Maintained EXCEPT !.active = c, !.roots = Maintained.roots \ {r}, !.started = @ + 1]
    BY <1>4 DEF StartRooted
  <2>2. Maintained.roots \ {r} \subseteq Maintained.roots
    OBVIOUS
  <2>. QED  BY <1>1, <1>4, <2>1, <2>2, StartStep DEF StartRooted
<1>. QED  BY <1>3, <1>4

\* Selecting in a snapshot, or hearing that it is Complete.
LEMMA TrustInv ==
  ASSUME IInv, NEW c \in Scan, StatusCompleted(c) \/ Resolve(c)
  PROVE  IInv'
<1>1. ~ down /\ c \in Maintained.completed /\ svc' = Maintained
      /\ UNCHANGED <<scan, issued, down, withdrawn, gone>>
  BY DEF StatusCompleted, Resolve
<1>2. Held(Maintained) /\ Maintained.started = svc.started
  BY <1>1, MaintainedHeld
<1>3. trusted' = trusted \/ (trusted' = trusted \cup {c} /\ Outcome(c) = "Complete")
  <2>1. CASE StatusCompleted(c)
    BY <2>1 DEF StatusCompleted
  <2>2. CASE Resolve(c)
    BY <2>2 DEF Resolve
  <2>. QED  BY <2>1, <2>2
<1>4. Held(svc)'
  BY <1>1, <1>2 DEF Held, Outcome, Busy
<1>5. WorkersOK'
  BY <1>1 DEF IInv, WorkersOK, Busy
<1>6. AnswersOK'
  <2>1. scan[c].pc = "returned" /\ c <= svc.started
    BY <1>1, <1>2 DEF Held
  <2>2. Outcome(c) = "Complete" => scan[c].phase = "Complete"
    BY DEF Outcome
  <2>. QED  BY <1>1, <1>2, <1>3, <2>1, <2>2 DEF IInv, AnswersOK
<1>. QED  BY <1>4, <1>5, <1>6 DEF IInv

\* Completed snapshots with their pages, and authorizations, go; some are released.
LEMMA DropStep ==
  ASSUME IInv, ~ down,
         NEW C \in SUBSET Scan, NEW R \in SUBSET Root, NEW G \in SUBSET (C \cup R),
         C \subseteq Maintained.completed, R \subseteq Maintained.roots,
         svc' = [Maintained EXCEPT !.completed = @ \ C, !.pages = @ \ C, !.roots = @ \ R],
         gone' = gone \cup G, UNCHANGED <<scan, issued, down, withdrawn, trusted>>
  PROVE  IInv'
<1>1. /\ Held(Maintained) /\ Maintained \in Service /\ Maintained.started = svc.started
      /\ Maintained.roots = svc.roots
  BY MaintainedHeld DEF Held
<1> DEFINE t == [Maintained EXCEPT !.completed = @ \ C, !.pages = @ \ C, !.roots = @ \ R]
<1>2. Held(t)
  BY <1>1, DroppedHeld
<1>3. /\ svc' = t /\ t.started = svc.started /\ t.active = Maintained.active
      /\ t.completed = Maintained.completed \ C /\ t.roots = Maintained.roots \ R
  BY <1>1 DEF Service
<1> HIDE DEF t
<1>4. C \cap R = {}
  BY ScanAssumption
<1>5. Held(svc)'
  <2>1. gone' \cap (t.completed \cup t.roots) = {}
    <3>1. t.completed \subseteq Scan /\ t.roots \subseteq Root
      BY <1>2 DEF Held, Service
    <3>. QED  BY <3>1, <1>2, <1>3, ScanAssumption DEF Held
  <2>2. t.active \in gone' => t.active \in gone
    <3>1. t.active \notin C
      BY <1>1, <1>3 DEF Held
    <3>2. t.active \notin R
      BY <1>2, ScanAssumption DEF Held, Service
    <3>. QED  BY <3>1, <3>2
  <2>. QED  BY <2>1, <2>2, <1>2, <1>3 DEF Held, Outcome, Busy
<1>6. WorkersOK'
  BY DEF IInv, WorkersOK, Busy
<1>7. AnswersOK'
  <2>1. \A c \in C : c <= svc.started
    BY <1>1 DEF Held
  <2>2. \A r \in R : r \in issued
    BY <1>1 DEF Held
  <2>. QED  BY <2>1, <2>2, <1>3, ScanAssumption DEF IInv, AnswersOK
<1>. QED  BY <1>5, <1>6, <1>7 DEF IInv

\* What is dropped from the queues leaves them in step and never comes back.
LEMMA DropInv ==
  ASSUME IInv, (\E r \in Root : SpawnFails(r) \/ ReleaseRoot(r)) \/ (\E c \in Scan : ReleaseCompleted(c))
  PROVE  IInv'
<1> DEFINE s == Maintained
<1>1. ~ down
  BY DEF SpawnFails, ReleaseRoot, ReleaseCompleted
<1>2. s \in Service
  BY <1>1, MaintainedHeld DEF Held
<1>3. ASSUME NEW r \in Root, SpawnFails(r) \/ ReleaseRoot(r)
      PROVE  IInv'
  <2>1. PICK C, R : C = {} /\ R = {r}
    OBVIOUS
  <2>2. svc' = [s EXCEPT !.roots = @ \ R] /\ R \subseteq s.roots
    BY <1>3, <2>1 DEF SpawnFails, ReleaseRoot
  <2>3. PICK G \in {{}, {r}} : gone' = gone \cup G
    BY <1>3 DEF SpawnFails, ReleaseRoot, answers
  <2>4. UNCHANGED <<scan, issued, down, withdrawn, trusted>>
    BY <1>3 DEF SpawnFails, ReleaseRoot, answers
  <2>5. svc' = [s EXCEPT !.completed = @ \ C, !.pages = @ \ C, !.roots = @ \ R]
    <3> HIDE DEF s
    <3>. QED  BY <1>2, <2>1, <2>2 DEF Service
  <2>6. /\ C \in SUBSET Scan /\ R \in SUBSET Root /\ G \in SUBSET (C \cup R)
        /\ C \subseteq s.completed
    BY <2>1, <2>3
  <2>. QED  BY <1>1, <2>2, <2>3, <2>4, <2>5, <2>6, DropStep
<1>4. ASSUME NEW c \in Scan, ReleaseCompleted(c)
      PROVE  IInv'
  <2>1. PICK C, R, G : C = {c} /\ R = {} /\ G = {c}
    OBVIOUS
  <2>2. svc' = [s EXCEPT !.completed = @ \ C, !.pages = @ \ C] /\ C \subseteq s.completed
    BY <1>4, <2>1 DEF ReleaseCompleted
  <2>3. UNCHANGED <<scan, issued, down, withdrawn, trusted>> /\ gone' = gone \cup G
    BY <1>4, <2>1 DEF ReleaseCompleted
  <2>4. svc' = [s EXCEPT !.completed = @ \ C, !.pages = @ \ C, !.roots = @ \ R]
    <3> HIDE DEF s
    <3>. QED  BY <1>2, <2>1, <2>2 DEF Service
  <2>5. /\ C \in SUBSET Scan /\ R \in SUBSET Root /\ G \in SUBSET (C \cup R)
        /\ R \subseteq s.roots
    BY <2>1
  <2>. QED  BY <1>1, <2>2, <2>3, <2>4, <2>5, DropStep
<1>. QED  BY <1>3, <1>4

\* What expires is taken from both queues at once, or leaves the active place empty.
LEMMA ExpireInv ==
  ASSUME IInv, NEW x \in Scan \cup Root, Expire(x)
  PROVE  IInv'
<1>1. Held(svc) /\ svc \in Service /\ UNCHANGED <<scan, issued, down, answers>> /\ ~ down
  BY DEF Expire, IInv, Held
<1>2. CASE x \in svc.roots /\ svc' = [svc EXCEPT !.roots = @ \ {x}]
  <2>1. svc' = [svc EXCEPT !.completed = @ \ {}, !.pages = @ \ {}, !.roots = @ \ {x}]
    BY <1>1, <1>2 DEF Service
  <2>2. Held([svc EXCEPT !.completed = @ \ {}, !.pages = @ \ {}, !.roots = @ \ {x}])
    BY <1>1, DroppedHeld
  <2>3. svc'.started = svc.started
    BY <1>1, <1>2 DEF Service
  <2>. QED  BY <1>1, <2>1, <2>2, <2>3, ServiceStep
<1>3. CASE x \in svc.completed /\ svc' = [svc EXCEPT !.completed = @ \ {x}, !.pages = @ \ {x}]
  <2>1. svc' = [svc EXCEPT !.completed = @ \ {x}, !.pages = @ \ {x}, !.roots = @ \ {}]
    BY <1>1, <1>3 DEF Service
  <2>2. Held([svc EXCEPT !.completed = @ \ {x}, !.pages = @ \ {x}, !.roots = @ \ {}])
    BY <1>1, DroppedHeld
  <2>3. svc'.started = svc.started
    BY <1>1, <1>3 DEF Service
  <2>. QED  BY <1>1, <2>1, <2>2, <2>3, ServiceStep
<1>4. CASE x = svc.active /\ scan[x].pc = "returned" /\ svc' = [svc EXCEPT !.active = None]
  <2> DEFINE t == [svc EXCEPT !.active = None]
  <2>1. /\ t \in Service /\ t.active = None /\ t.started = svc.started
        /\ t.completed = svc.completed /\ t.pages = svc.pages /\ t.roots = svc.roots
    BY <1>1 DEF Service
  <2>2. \A c \in Scan : ~ Busy(c)
    BY <1>1, <1>4 DEF Held, Busy
  <2>3. None \notin gone /\ \A c \in svc.completed : c # None
    BY <1>1, ScanAssumption DEF IInv, AnswersOK, Service
  <2> HIDE DEF t
  <2>4. Held(t)
    BY <1>1, <2>1, <2>2, <2>3 DEF Held
  <2>. QED  BY <1>1, <1>4, <2>1, <2>4, ServiceStep DEF t
<1>. QED  BY <1>2, <1>3, <1>4 DEF Expire

\* Cancelling or releasing the active scan raises flags of its worker.
LEMMA FlagInv ==
  ASSUME IInv, NEW c \in Scan, Cancel(c) \/ ReleaseActive(c)
  PROVE  IInv'
<1>1. ~ down /\ Maintained.active = c /\ svc' = Maintained /\ UNCHANGED <<issued, down, trusted>>
  BY DEF Cancel, ReleaseActive
<1>2. Held(svc) /\ svc.active = c /\ svc' = svc /\ None \notin Scan
  BY <1>1, MaintainedHeld, ScanAssumption DEF IInv
<1>3. PICK rel \in BOOLEAN :
         /\ scan' = [scan EXCEPT ![c] = [scan[c] EXCEPT !.cancel = TRUE, !.released = rel]]
         /\ rel \/ (~ scan[c].released /\ gone' = gone /\ withdrawn' = withdrawn \cup {c}
                     /\ scan[c].phase = "Active")
         /\ ~ rel \/ (gone' = gone \cup {c} /\ withdrawn' = withdrawn)
  <2>1. scan[c] \in Worker /\ ~ scan[c].released
    BY DEF Cancel, ReleaseActive, IInv, WorkersOK
  <2>2. CASE Cancel(c)
    <3>1. scan' = [scan EXCEPT ![c] = [scan[c] EXCEPT !.cancel = TRUE, !.released = FALSE]]
      <4>1. [scan[c] EXCEPT !.cancel = TRUE] = [scan[c] EXCEPT !.cancel = TRUE, !.released = FALSE]
        BY <2>1 DEF Worker
      <4>2. scan' = [scan EXCEPT ![c] = [scan[c] EXCEPT !.cancel = TRUE]]
        BY <2>2 DEF Cancel, IInv, WorkersOK
      <4>. QED  BY <4>1, <4>2
    <3>2. ~ scan[c].released /\ gone' = gone /\ withdrawn' = withdrawn \cup {c} /\ scan[c].phase = "Active"
      BY <2>1, <2>2 DEF Cancel
    <3>. WITNESS FALSE \in BOOLEAN
    <3>. QED  BY <3>1, <3>2
  <2>3. CASE ReleaseActive(c)
    <3>1. scan' = [scan EXCEPT ![c] = [scan[c] EXCEPT !.cancel = TRUE, !.released = TRUE]]
      BY <2>1, <2>3 DEF ReleaseActive, IInv, WorkersOK, Worker
    <3>2. gone' = gone \cup {c} /\ withdrawn' = withdrawn
      BY <2>3 DEF ReleaseActive
    <3>. WITNESS TRUE \in BOOLEAN
    <3>. QED  BY <3>1, <3>2
  <2>. QED  BY <2>2, <2>3
<1> DEFINE w == [scan[c] EXCEPT !.cancel = TRUE, !.released = rel]
<1>4. /\ w \in Worker /\ w.pc = scan[c].pc /\ w.phase = scan[c].phase /\ w.ok = scan[c].ok
      /\ w.whole = scan[c].whole /\ w.evidence = scan[c].evidence /\ w.cancel /\ w.released = rel
  <2>1. scan[c] \in Worker
    BY DEF IInv, WorkersOK
  <2>. QED  BY <2>1 DEF Worker
<1> HIDE DEF w
<1>5. scan' \in [Scan -> Worker] /\ scan'[c] = w /\ \A d \in Scan \ {c} : scan'[d] = scan[d]
  BY <1>3, <1>4 DEF IInv, WorkersOK, w
<1>6. \A d \in Scan : (Busy(d)' <=> Busy(d)) /\ Outcome(d)' = Outcome(d) /\ scan'[d].pc = scan[d].pc
  BY <1>4, <1>5 DEF Busy, Outcome
<1>7. c \notin svc.completed /\ c \notin svc.roots
  BY <1>2, ScanAssumption DEF Held, Service
<1>8. Held(svc)'
  <2>1. svc.pages = {d \in svc.completed : Outcome(d)' # "Failed"}
    BY <1>2, <1>6 DEF Held, Service
  <2>2. gone' \cap (svc.completed \cup svc.roots) = {}
    BY <1>2, <1>3, <1>7 DEF Held
  <2>3. c \in gone' => w.released
    BY <1>2, <1>3, <1>4 DEF Held
  <2>4. \A d \in svc.completed : scan'[d].pc = "returned"
    BY <1>2, <1>6 DEF Held, Service
  <2>. QED  BY <2>1, <2>2, <2>3, <2>4, <1>1, <1>2, <1>5, <1>6 DEF Held
<1>9. WorkersOK'
  BY <1>4, <1>5, <1>6 DEF IInv, WorkersOK, WorkerOK
<1>10. AnswersOK'
  <2>1. c <= svc.started
    BY <1>2 DEF Held
  <2>2. \A d \in withdrawn' : scan'[d].cancel /\ scan'[d].phase # "Complete" /\ d \notin trusted
    BY <1>3, <1>4, <1>5 DEF IInv, AnswersOK
  <2>3. \A d \in trusted : scan'[d].phase = "Complete" /\ scan'[d].pc = "returned"
    BY <1>4, <1>5 DEF IInv, AnswersOK
  <2>. QED  BY <2>1, <2>2, <2>3, <1>1, <1>2, <1>3, ScanAssumption DEF IInv, AnswersOK
<1>. QED  BY <1>8, <1>9, <1>10 DEF IInv

\* A worker whose token is cancelled is otherwise what it was.
LEMMA CancelledRecord ==
  ASSUME NEW v \in Worker
  PROVE  LET w == [v EXCEPT !.cancel = TRUE] IN
         /\ w \in Worker /\ w.pc = v.pc /\ w.phase = v.phase /\ w.ok = v.ok
         /\ w.whole = v.whole /\ w.evidence = v.evidence /\ w.cancel
<1> DEFINE w == [v EXCEPT !.cancel = TRUE]
<1>1. w \in Worker
  BY DEF Worker
<1>2. w.pc = v.pc /\ w.phase = v.phase /\ w.ok = v.ok
  BY DEF Worker
<1>3. w.whole = v.whole /\ w.evidence = v.evidence /\ w.cancel
  BY DEF Worker
<1>. QED  BY <1>1, <1>2, <1>3

\* A shut-down leaves no scan active and answers nothing after it.
LEMMA ShutDownInv ==
  ASSUME IInv, ShutDown
  PROVE  IInv'
<1>1. Held(svc) /\ svc \in Service /\ svc' = [svc EXCEPT !.active = None] /\ down'
      /\ UNCHANGED <<issued, answers>>
  BY DEF ShutDown, IInv, Held
<1>2. /\ svc' \in Service /\ svc'.active = None /\ svc'.started = svc.started
      /\ svc'.completed = svc.completed /\ svc'.pages = svc.pages /\ svc'.roots = svc.roots
  BY <1>1 DEF Service
<1>3. /\ scan' \in [Scan -> Worker]
      /\ \A d \in Scan : /\ scan'[d].pc = scan[d].pc /\ scan'[d].phase = scan[d].phase
                         /\ scan'[d].ok = scan[d].ok /\ scan'[d].whole = scan[d].whole
                         /\ scan'[d].evidence = scan[d].evidence
                         /\ scan[d].cancel => scan'[d].cancel
  <2>1. scan \in [Scan -> Worker] /\ svc.active \in Scan \cup {None}
    BY <1>1 DEF IInv, WorkersOK, Service
  <2>2. CASE svc.active = None
    <3>1. scan' = scan
      BY <2>2 DEF ShutDown
    <3>. QED  BY <2>1, <3>1
  <2>3. CASE svc.active # None
    <3> DEFINE a == svc.active
               w == [scan[a] EXCEPT !.cancel = TRUE]
    <3>1. a \in Scan /\ scan' = [scan EXCEPT ![a] = w]
      BY <2>1, <2>3 DEF ShutDown
    <3>2. /\ w \in Worker /\ w.pc = scan[a].pc /\ w.phase = scan[a].phase /\ w.ok = scan[a].ok
          /\ w.whole = scan[a].whole /\ w.evidence = scan[a].evidence /\ w.cancel
      BY <2>1, <3>1, CancelledRecord
    <3> HIDE DEF w, a
    <3>. QED  BY <2>1, <3>1, <3>2
  <2>. QED  BY <2>2, <2>3
<1>4. \A d \in Scan : (Busy(d)' <=> Busy(d)) /\ Outcome(d)' = Outcome(d)
  BY <1>3 DEF Busy, Outcome
<1>5. None \notin gone /\ \A d \in svc.completed : d # None
  BY <1>1, ScanAssumption DEF IInv, AnswersOK, Service
<1>6. Held(svc)'
  <2>1. svc.pages = {d \in svc.completed : Outcome(d)' # "Failed"}
    BY <1>1, <1>4 DEF Held, Service
  <2>2. \A d \in svc.completed : scan'[d].pc = "returned"
    BY <1>1, <1>3 DEF Held, Service
  <2>. QED  BY <2>1, <2>2, <1>1, <1>2, <1>5 DEF Held, answers
<1>7. WorkersOK'
  BY <1>3, <1>4 DEF IInv, WorkersOK, WorkerOK
<1>8. AnswersOK'
  BY <1>1, <1>2, <1>3 DEF IInv, AnswersOK, answers
<1>. QED  BY <1>6, <1>7, <1>8 DEF IInv

\* What a worker does, up to the publication of its result, whatever was asked of it meanwhile.
LEMMA WorkInv ==
  ASSUME IInv, NEW c \in Scan, Work(c)
  PROVE  IInv'
<1> DEFINE v == scan[c]
<1>1. /\ v \in Worker /\ WorkerOK(v) /\ UNCHANGED <<svc, issued, down, answers>>
      /\ v.pc \in {"rebind", "running", "terminal", "returning"} /\ Busy(c)
  BY DEF Work, Rebind, AddCandidate, Push, RunnerEnds, RunnerStops, RunnerFails, RunnerPanics,
         Terminal, Return, At, Busy, IInv, WorkersOK
<1>2. scan \in [Scan -> Worker]
  BY DEF IInv, WorkersOK
\* What a worker does to itself leaves a record that WorkerStep accepts.
<1> DEFINE Good(w) ==
             /\ w \in Worker /\ WorkerOK(w)
             /\ w.released = v.released /\ w.cancel = v.cancel
             /\ w.phase = "Complete" => ~ v.cancel \/ v.phase = "Complete"
<1>3. ASSUME NEW w, Good(w), scan' = [scan EXCEPT ![c] = w]
      PROVE  IInv'
  BY <1>1, <1>3, WorkerStep
<1>4. CASE Rebind(c)
  <2>1. CASE Goto(c, "running")
    <3>1. scan' = [scan EXCEPT ![c] = [v EXCEPT !.pc = "running"]] /\ At(c, "rebind")
      BY <1>2, <1>4, <2>1 DEF Rebind, Goto
    <3>2. Good([v EXCEPT !.pc = "running"])
      BY <1>1, <3>1 DEF At, Worker, WorkerOK
    <3>. QED  BY <1>3, <3>1, <3>2
  <2>2. CASE Fail(c)
    <3>1. scan' = [scan EXCEPT ![c] = [v EXCEPT !.ok = FALSE, !.pc = "returning"]] /\ At(c, "rebind")
      BY <1>2, <1>4, <2>2 DEF Rebind, Fail
    <3>2. Good([v EXCEPT !.ok = FALSE, !.pc = "returning"])
      BY <1>1, <3>1 DEF At, Worker, WorkerOK
    <3>. QED  BY <1>3, <3>1, <3>2
  <2>. QED  BY <1>4, <2>1, <2>2 DEF Rebind
<1>5. CASE AddCandidate(c) \/ Push(c)
  <2>1. PICK e \in {"orphan", "paired"} :
          scan' = [scan EXCEPT ![c] = [v EXCEPT !.evidence = e]] /\ At(c, "running")
    BY <1>2, <1>5 DEF AddCandidate, Push
  <2>2. Good([v EXCEPT !.evidence = e])
    BY <1>1, <2>1 DEF At, Worker, WorkerOK
  <2>. QED  BY <1>3, <2>1, <2>2
\* However the runner returns, as u, Finish leaves a good record.
<1>6. ASSUME NEW u \in Worker, At(c, "running"), Finish(c, u), u.phase = v.phase,
             u.released = v.released, u.cancel = v.cancel, u.ok => u.cancel \/ u.whole
      PROVE  IInv'
  <2>1. v.phase = "Active"
    BY <1>1, <1>6 DEF At, WorkerOK, Worker
  <2>2. CASE u.cancel
    <3> DEFINE w == [u EXCEPT !.pc = "terminal", !.ok = TRUE, !.evidence = "none"]
    <3>1. scan' = [scan EXCEPT ![c] = w]
      BY <1>6, <2>2 DEF Finish
    <3>2. Good(w)
      BY <1>1, <1>6, <2>1, <2>2 DEF Worker, WorkerOK
    <3>. QED  BY <1>3, <3>1, <3>2
  <2>3. CASE ~ u.cancel /\ u.ok
    <3> DEFINE w == [u EXCEPT !.pc = "terminal"]
    <3>1. scan' = [scan EXCEPT ![c] = w]
      BY <1>6, <2>3 DEF Finish
    <3>2. Good(w)
      BY <1>1, <1>6, <2>1, <2>3 DEF Worker, WorkerOK
    <3>. QED  BY <1>3, <3>1, <3>2
  <2>4. CASE ~ u.cancel /\ ~ u.ok
    <3> DEFINE w == [u EXCEPT !.pc = "returning"]
    <3>1. scan' = [scan EXCEPT ![c] = w]
      BY <1>6, <2>4 DEF Finish
    <3>2. Good(w)
      BY <1>1, <1>6, <2>1, <2>4 DEF Worker, WorkerOK
    <3>. QED  BY <1>3, <3>1, <3>2
  <2>. QED  BY <2>2, <2>3, <2>4
<1>7. CASE RunnerEnds(c)
  <2> DEFINE u == [v EXCEPT !.whole = TRUE]
  <2>1. u \in Worker /\ u.phase = v.phase /\ u.released = v.released /\ u.cancel = v.cancel /\ u.whole
    BY <1>1 DEF Worker
  <2>2. At(c, "running") /\ Finish(c, u)
    BY <1>7 DEF RunnerEnds
  <2> HIDE DEF u
  <2>. QED  BY <1>6, <2>1, <2>2
<1>8. CASE RunnerStops(c)
  <2>1. At(c, "running") /\ Finish(c, v) /\ v.cancel /\ v \in Worker
    BY <1>1, <1>8 DEF RunnerStops
  <2>. QED  BY <1>6, <2>1
<1>9. CASE RunnerFails(c)
  <2> DEFINE u == [v EXCEPT !.ok = FALSE]
  <2>1. u \in Worker /\ u.phase = v.phase /\ u.released = v.released /\ u.cancel = v.cancel /\ ~ u.ok
    BY <1>1 DEF Worker
  <2>2. At(c, "running") /\ Finish(c, u)
    BY <1>9 DEF RunnerFails
  <2> HIDE DEF u
  <2>. QED  BY <1>6, <2>1, <2>2
<1>10. ASSUME Fail(c), v.pc \in {"running", "terminal"}
       PROVE  IInv'
  <2> DEFINE w == [v EXCEPT !.ok = FALSE, !.pc = "returning"]
  <2>1. scan' = [scan EXCEPT ![c] = w]
    BY <1>2, <1>10 DEF Fail
  <2>2. Good(w)
    BY <1>1, <1>10 DEF Worker, WorkerOK
  <2>. QED  BY <1>3, <2>1, <2>2
<1>11. CASE RunnerPanics(c)
  BY <1>10, <1>11 DEF RunnerPanics, At
<1>12. CASE Terminal(c)
  <2>1. CASE v.evidence = "orphan"
    BY <1>10, <1>12, <2>1 DEF Terminal, At
  <2>2. CASE v.evidence # "orphan"
    <3> DEFINE ph == IF v.cancel THEN "Cancelled" ELSE "Complete"
               w == [v EXCEPT !.pc = "returning", !.phase = ph]
    <3>1. scan' = [scan EXCEPT ![c] = w] /\ v.pc = "terminal"
      BY <1>2, <1>12, <2>2 DEF Terminal, At
    <3>2. Good(w)
      BY <1>1, <2>2, <3>1 DEF Worker, WorkerOK
    <3>. QED  BY <1>3, <3>1, <3>2
  <2>. QED  BY <2>1, <2>2
<1>13. CASE Return(c)
  <2> DEFINE w == [v EXCEPT !.pc = "returned"]
  <2>1. scan' = [scan EXCEPT ![c] = w] /\ v.pc = "returning"
    BY <1>2, <1>13 DEF Return, Goto, At
  <2>2. Good(w)
    BY <1>1, <2>1 DEF Worker, WorkerOK
  <2>. QED  BY <1>3, <2>1, <2>2
<1>. QED  BY <1>4, <1>5, <1>7, <1>8, <1>9, <1>11, <1>12, <1>13 DEF Work

\* Every step keeps the invariant.
LEMMA NextInv == IInv /\ [Next]_vars => IInv'
<1> SUFFICES ASSUME IInv, [Next]_vars PROVE IInv'
  OBVIOUS
<1>1. CASE Maintain \/ \E c \in Scan : StatusActive(c)
  <2>1. ~ down /\ svc' = Maintained /\ UNCHANGED <<scan, issued, down, answers>>
    BY <1>1 DEF Maintain, StatusActive
  <2>. QED  BY <2>1, MaintainedHeld, ServiceStep
<1>2. CASE \E r \in Root : Authorize(r) \/ SpawnFails(r) \/ ReleaseRoot(r)
  BY <1>2, AuthorizeInv, DropInv
<1>3. CASE \E c \in Scan, feature \in Module : StartNative(c, feature) \/ \E r \in Root : StartRooted(c, feature, r)
  BY <1>3, StartInv
<1>4. CASE \E c \in Scan : StatusCompleted(c) \/ Resolve(c)
  BY <1>4, TrustInv
<1>5. CASE \E c \in Scan : Cancel(c) \/ ReleaseActive(c)
  BY <1>5, FlagInv
<1>6. CASE \E c \in Scan : ReleaseCompleted(c)
  BY <1>6, DropInv
<1>7. CASE ShutDown
  BY <1>7, ShutDownInv
<1>8. CASE \E c \in Scan : Work(c)
  BY <1>8, WorkInv
<1>9. CASE \E x \in Scan \cup Root : Expire(x)
  BY <1>9, ExpireInv
<1>10. CASE UNCHANGED vars
  BY <1>10 DEF vars, answers, IInv, Held, WorkersOK, AnswersOK, Outcome, Busy
<1>. QED  BY <1>1, <1>2, <1>3, <1>4, <1>5, <1>6, <1>7, <1>8, <1>9, <1>10 DEF Next, Command

-----------------------------------------------------------------------------
(* The theorems *)

\* The invariant holds always.
THEOREM Invariance == Spec => []IInv
  BY InitInv, NextInv, PTL DEF Spec

\* The service and its workers keep their types, and no more than MaxSnapshots results
\* and authorizations are ever held.
THEOREM TypeCorrect == Spec => []TypeOK
<1>1. IInv => TypeOK
  BY DEF IInv, Held, WorkersOK, AnswersOK, TypeOK
<1>. QED  BY <1>1, Invariance, PTL

\* The queue of completed snapshots and the queue of pages stay in step through every
\* publication, eviction, expiry and release.
THEOREM QueuesInStep == Spec => []PagesMirrorCompleted
<1>1. IInv => PagesMirrorCompleted
  BY DEF IInv, Held, PagesMirrorCompleted
<1>. QED  BY <1>1, Invariance, PTL

\* A scan whose cancellation was confirmed never becomes Complete, and nobody was told
\* so or selected anything in it.
THEOREM CancellationHolds == Spec => []CancelIsKept
<1>1. IInv => CancelIsKept
  BY DEF IInv, AnswersOK, CancelIsKept
<1>. QED  BY <1>1, Invariance, PTL

\* What was released never comes back, and two workers never run at once.
THEOREM ReleaseHolds == Spec => []ReleasedIsGone
<1>1. IInv => ReleasedIsGone
  <2>1. IInv => svc.pages \subseteq svc.completed
    BY DEF IInv, Held
  <2>. QED  BY <2>1 DEF IInv, Held, WorkersOK, ReleasedIsGone
<1>. QED  BY <1>1, Invariance, PTL

\* Whatever was reported as Complete or selected from ran to its end, without an error.
THEOREM TrustIsEarned == Spec => []TrustedAreWhole
<1>1. IInv => TrustedAreWhole
  BY DEF IInv, WorkersOK, WorkerOK, AnswersOK, TrustedAreWhole, Outcome
<1>. QED  BY <1>1, Invariance, PTL

-----------------------------------------------------------------------------
(* Paths *)

\* A first part of a path is a path.
LEMMA FirstPart ==
  ASSUME NEW p \in Path, NEW n \in 0..Len(p)
  PROVE  /\ SubSeq(p, 1, n) \in Path /\ Len(SubSeq(p, 1, n)) = n
         /\ \A k \in 0..n : SubSeq(SubSeq(p, 1, n), 1, k) = SubSeq(p, 1, k)
         /\ SubSeq(p, 1, Len(p)) = p
<1>. DEFINE s == SubSeq(p, 1, n)
<1>1. p \in Seq(DOMAIN Rank) /\ Len(p) \in Nat /\ SubSeq(p, 1, n) \in Path
  BY TreeAssumption, LenProperties
<1>2. s \in Seq(DOMAIN Rank) /\ Len(s) = n
  <2>1. \A i \in 1..n : p[i] \in DOMAIN Rank
    BY <1>1, ElementOfSeq
  <2>. QED  BY <2>1, <1>1, SubSeqProperties
<1>3. ASSUME NEW k \in 0..n
      PROVE  SubSeq(s, 1, k) = SubSeq(p, 1, k)
  <2>1. CASE k = 0
    BY <2>1, <1>1, <1>2, SubSeqEmpty
  <2>2. CASE k # 0
    <3>1. k \in 1..(n - 1 + 1) /\ n \in 1..Len(p) /\ 1 \in 1..Len(p) /\ 1 \in 1..(n - 1 + 1)
      BY <2>2, <1>1
    <3>2. SubSeq(SubSeq(p, 1, n), 1, k) = SubSeq(p, 1 + 1 - 1, 1 + k - 1)
      BY ONLY <3>1, <1>1, SubSeqOfSubSeq
    <3>. QED  BY <3>2, <2>2, <1>1
  <2>. QED  BY <2>1, <2>2
<1>4. SubSeq(p, 1, Len(p)) = p
  BY <1>1, SubSeqFull
<1>. QED  BY <1>1, <1>2, <1>3, <1>4

\* The folders above a path are its proper first parts.
LEMMA AboveIs ==
  ASSUME NEW p \in Path, NEW q
  PROVE  q \in Above(p) <=> q \in Path /\ Len(q) < Len(p) /\ q = SubSeq(p, 1, Len(q))
<1>1. p \in Seq(DOMAIN Rank) /\ Len(p) \in Nat
  BY TreeAssumption, LenProperties
<1>2. ASSUME q \in Above(p) PROVE q \in Path /\ Len(q) < Len(p) /\ q = SubSeq(p, 1, Len(q))
  <2>1. PICK n \in 0..(Len(p) - 1) : q = SubSeq(p, 1, n)
    BY <1>2 DEF Above
  <2>2. n \in 0..Len(p) /\ n < Len(p)
    BY <1>1
  <2>. QED  BY <2>1, <2>2, FirstPart
<1>3. ASSUME q \in Path, Len(q) < Len(p), q = SubSeq(p, 1, Len(q)) PROVE q \in Above(p)
  <2>1. Len(q) \in 0..(Len(p) - 1)
    BY <1>1, <1>3, TreeAssumption, LenProperties
  <2>. QED  BY <1>3, <2>1 DEF Above
<1>. QED  BY <1>2, <1>3

\* Below and Within in terms of the folders above a path.
LEMMA BelowIs ==
  ASSUME NEW p \in Path, NEW d \in Path
  PROVE  (Below(d, p) <=> d \in Above(p)) /\ (Within(d, p) <=> d \in {p} \cup Above(p))
<1>1. Len(p) \in Nat /\ Len(d) \in Nat /\ SubSeq(d, 1, Len(d)) = d /\ SubSeq(p, 1, Len(p)) = p
  BY TreeAssumption, LenProperties, FirstPart
<1>2. Within(d, p) <=> Len(d) <= Len(p) /\ d = SubSeq(p, 1, Len(d))
  BY <1>1, Zenon DEF Within, IsPrefix
<1>3. d \in Above(p) <=> Len(d) < Len(p) /\ d = SubSeq(p, 1, Len(d))
  BY AboveIs, Zenon
<1>4. Below(d, p) <=> Within(d, p) /\ d # p
  BY Zenon DEF Within, Below, IsStrictPrefix
<1>5. d = p => Len(d) <= Len(p) /\ ~(Len(d) < Len(p)) /\ d = SubSeq(p, 1, Len(d))
  BY <1>1
<1>6. Len(d) = Len(p) /\ d = SubSeq(p, 1, Len(d)) => d = p
  BY <1>1, Zenon
<1>7. Len(d) <= Len(p) <=> (Len(d) < Len(p) \/ Len(d) = Len(p))
  <2>1. Len(p) \in Int /\ Len(d) \in Int
    BY <1>1
  <2>. QED  BY ONLY <2>1
<1>. QED  BY ONLY <1>2, <1>3, <1>4, <1>5, <1>6, <1>7, Zenon

\* The folders above a path are shorter, and what is above them is above it too.
LEMMA AboveOrder ==
  ASSUME NEW p \in Path, NEW q \in Above(p)
  PROVE  /\ q \in Path /\ Len(q) \in Nat /\ Len(p) \in Nat /\ Len(q) < Len(p) /\ p # q /\ p \notin Above(q)
         /\ \A r \in Above(q) : r \in Above(p)
         /\ \A r \in Above(p) : Len(r) < Len(q) => r \in Above(q)
         /\ \A r \in Above(p) : Len(r) = Len(q) => r = q
<1>1. q \in Path /\ Len(q) < Len(p) /\ q = SubSeq(p, 1, Len(q)) /\ Len(q) \in Nat /\ Len(p) \in Nat
  BY AboveIs, TreeAssumption, LenProperties
<1>2. \A k \in 0..Len(q) : SubSeq(q, 1, k) = SubSeq(p, 1, k)
  BY <1>1, FirstPart
<1>3. ASSUME NEW r \in Path PROVE Len(r) \in Nat
  BY TreeAssumption, LenProperties
<1>4. p # q /\ p \notin Above(q)
  BY <1>1, AboveIs
<1>5. \A r \in Above(q) : r \in Above(p)
  BY <1>1, <1>2, <1>3, AboveIs
<1>6. \A r \in Above(p) : Len(r) < Len(q) => r \in Above(q)
  BY <1>1, <1>2, <1>3, AboveIs
<1>7. \A r \in Above(p) : Len(r) = Len(q) => r = q
  BY <1>1, <1>3, AboveIs
<1>. QED  BY <1>1, <1>4, <1>5, <1>6, <1>7

\* The parent is the last of the folders above a path.
LEMMA FrontIs ==
  ASSUME NEW p \in Path, p # <<>>
  PROVE  Front(p) \in Path /\ Front(p) \in Above(p) /\ \A q \in Above(p) : q = Front(p) \/ q \in Above(Front(p))
<1>1. Len(p) \in Nat \ {0}
  BY TreeAssumption, LenProperties, EmptySeq
<1>2. Front(p) \in Above(p) /\ Len(Front(p)) = Len(p) - 1 /\ Front(p) \in Path
  <2>1. Len(p) - 1 \in 0..Len(p) /\ Len(p) - 1 \in 0..(Len(p) - 1)
    BY <1>1
  <2>2. Front(p) = SubSeq(p, 1, Len(p) - 1)
    BY Zenon DEF Front
  <2>. QED  BY <2>1, <2>2, FirstPart DEF Above
<1>3. \A q \in Above(p) : Len(q) < Len(Front(p)) \/ Len(q) = Len(Front(p))
  BY <1>1, <1>2, AboveOrder
<1>. QED  BY <1>2, <1>3, AboveOrder

\* The way down from a folder to what is below it.
LEMMA NextDown ==
  ASSUME NEW p \in Path, NEW d \in Above(p)
  PROVE  \E c \in {p} \cup Above(p) : c \in Path /\ Len(c) = Len(d) + 1 /\ d \in Above(c) /\ Within(d, c)
<1>1. d \in Path /\ Len(d) \in Nat /\ Len(p) \in Nat /\ Len(d) < Len(p) /\ d = SubSeq(p, 1, Len(d))
  BY AboveIs, AboveOrder
<1>. DEFINE c == SubSeq(p, 1, Len(d) + 1)
<1>2. c \in Path /\ Len(c) = Len(d) + 1 /\ SubSeq(c, 1, Len(d)) = d
  <2>1. Len(d) + 1 \in 0..Len(p) /\ Len(d) \in 0..(Len(d) + 1)
    BY <1>1
  <2>. QED  BY <2>1, <1>1, FirstPart
<1>3. d \in Above(c) /\ Within(d, c)
  <2>1. Len(d) < Len(c)
    BY <1>1, <1>2
  <2>. QED  BY <2>1, <1>1, <1>2, AboveIs, BelowIs, Zenon
<1>4. c = p \/ c \in Above(p)
  <2>1. Len(d) + 1 = Len(p) \/ Len(d) + 1 < Len(p)
    BY <1>1
  <2>2. c \in Path /\ c = SubSeq(p, 1, Len(c)) /\ (Len(c) = Len(p) \/ Len(c) < Len(p))
    BY <2>1, <1>2
  <2>3. SubSeq(p, 1, Len(p)) = p
    BY <1>1, FirstPart
  <2>. QED  BY <2>2, <2>3, AboveIs, Zenon
<1>. QED  BY <1>2, <1>3, <1>4

\* How much of a path is left below a folder above it.
LEMMA SubIs ==
  ASSUME NEW p \in Path, NEW d \in Above(p)
  PROVE  Len(Sub(d, p)) = Len(p) - Len(d)
<1>1. Len(d) \in Nat /\ Len(p) \in Nat /\ Len(d) < Len(p) /\ p \in Seq(DOMAIN Rank)
  BY AboveOrder, TreeAssumption
<1>2. \A i \in Len(d) + 1 .. Len(p) : p[i] \in DOMAIN Rank
  BY <1>1, ElementOfSeq
<1>3. Len(SubSeq(p, Len(d) + 1, Len(p))) = Len(p) - (Len(d) + 1) + 1
  <2>1. Len(d) + 1 \in Int /\ Len(p) \in Int /\ Len(d) + 1 <= Len(p)
    BY <1>1
  <2>2. Len(SubSeq(p, Len(d) + 1, Len(p))) = IF Len(d) + 1 <= Len(p) THEN Len(p) - (Len(d) + 1) + 1 ELSE 0
    BY <2>1, <1>2, SubSeqProperties
  <2>3. Len(p) \in Int /\ Len(d) \in Int
    BY <1>1
  <2>. QED  BY ONLY <2>1, <2>2, <2>3
<1>4. Len(Sub(d, p)) = Len(p) - (Len(d) + 1) + 1
  BY ONLY <1>3, Zenon DEF Sub
<1>5. Len(p) \in Int /\ Len(d) \in Int
  BY <1>1
<1>. QED  BY ONLY <1>4, <1>5

-----------------------------------------------------------------------------
(* The tree and the other programs *)

\* What is known of the tree.  Touched paths keep the identity they began with only as
\* written files or denied folders; what exists is below folders, or below links that
\* came later; names of one file show the same.
TreeInv ==
    /\ tree \in [Path -> Node] /\ denied \subseteq touched /\ edits \in Nat
    /\ \A p \in Path :
          /\ tree[p].kind = "absent" => tree[p].id = <<>> /\ tree[p].data = <<>>
          /\ tree[p].kind # "absent" => \E q \in Path, n \in 0..edits : tree[p].id = <<q, n>>
          /\ tree[p].kind = "dir" => tree[p].id[1] = p
          /\ tree[p].kind = "file" => tree[p].data \in Data
          /\ p \in touched /\ tree[p].id = <<p, 0>> => tree[p].kind = IF p \in denied THEN "dir" ELSE "file"
          /\ tree[p].kind # "absent" =>
               \A q \in Above(p) : \/ tree[q].kind = "dir"
                                   \/ q \in touched /\ tree[q].id # <<q, 0>>
          /\ \A q \in Path : tree[p].id = tree[q].id => tree[p].kind = tree[q].kind /\ tree[p].data = tree[q].data

\* What any other program does: what it touches stays touched, what it did not touch is
\* what it was, and nothing comes to carry the identity of the beginning.
Kept ==
    /\ touched \subseteq touched' /\ denied \subseteq denied'
    /\ \A q \in Path : q \notin touched' =>
         /\ tree'[q].kind = tree[q].kind /\ tree'[q].id = tree[q].id /\ tree'[q].data = tree[q].data
    /\ \A q \in Path : tree'[q].id = <<q, 0>> => tree[q].id = <<q, 0>> /\ tree'[q].kind = tree[q].kind
    /\ \A q \in denied' \ denied : Kind(q) = "dir"

\* A change in a folder gives the folder another modification time and nothing else.
LEMMA InFolderKeeps ==
  ASSUME NEW t \in [Path -> Node], NEW p \in Path, edits \in Nat, edits < MaxEdits
  PROVE  /\ InFolder(t, p) \in [Path -> Node]
         /\ \A q \in Path : /\ InFolder(t, p)[q].kind = t[q].kind
                            /\ InFolder(t, p)[q].id = t[q].id
                            /\ InFolder(t, p)[q].data = t[q].data
<1>1. CASE p = <<>>
  BY <1>1 DEF InFolder
<1>2. CASE p # <<>>
  <2>1. Front(p) \in Path
    BY <1>2, FrontIs
  <2>. DEFINE f == Front(p)  n == [t[f] EXCEPT !.stamp = Now]
  <2>2. t[f] \in Node /\ Now \in 0..MaxEdits
    BY <2>1, TreeAssumption DEF Now
  <2>3. n \in Node /\ n.kind = t[f].kind /\ n.id = t[f].id /\ n.data = t[f].data
    BY <2>2 DEF Node
  <2>4. InFolder(t, p) = [t EXCEPT ![f] = n]
    BY <1>2, <2>1 DEF InFolder
  <2>. HIDE DEF f, n
  <2>. QED  BY <2>1, <2>3, <2>4 DEF f
<1>. QED  BY <1>1, <1>2

\* Every tree a scan may start with is in the invariant.
LEMMA TreeInvInit == TreeInit => TreeInv
<1>. SUFFICES ASSUME TreeInit PROVE TreeInv
  OBVIOUS
<1>1. tree \in Starts /\ touched = {} /\ denied = {} /\ edits = 0
  BY DEF TreeInit
<1>2. tree \in [Path -> Node]
  BY <1>1, StartsAssumption
<1>3. ASSUME NEW p \in Path
      PROVE  /\ tree[p].kind = "absent" => tree[p].id = <<>> /\ tree[p].data = <<>>
             /\ tree[p].kind # "absent" => \E q \in Path, n \in 0..edits : tree[p].id = <<q, n>>
             /\ tree[p].kind = "dir" => tree[p].id[1] = p
             /\ tree[p].kind = "file" => tree[p].data \in Data
  <2>1. tree[p].kind \in {"absent", "file", "dir", "link"}
    BY <1>2 DEF Node
  <2>2. /\ tree[p].kind = "absent" => tree[p] = Absent
        /\ tree[p].kind = "file" => tree[p].data \in Data /\ \E q \in Path : tree[p].id = <<q, 0>>
        /\ tree[p].kind \in {"dir", "link"} => tree[p].id = <<p, 0>>
    BY <1>1, StartsAssumption
  <2>. QED  BY <1>1, <2>1, <2>2 DEF Absent
<1>4. ASSUME NEW p \in Path
      PROVE  /\ tree[p].kind # "absent" => \A q \in Above(p) : tree[q].kind = "dir"
             /\ \A q \in Path : tree[p].id = tree[q].id => tree[p].kind = tree[q].kind /\ tree[p].data = tree[q].data
  BY <1>1, StartsAssumption
<1>. QED  BY <1>1, <1>2, <1>3, <1>4 DEF TreeInv

\* Written contents show under every name of the file, and all these names are touched.
LEMMA WriteKeeps ==
  ASSUME TreeInv, NEW p \in Path, NEW d \in Data, Write(p, d), edits < MaxEdits, edits' = edits + 1
  PROVE  TreeInv' /\ Kept
<1>. DEFINE names == {q \in Path : tree[q].id = tree[p].id}
            t == [q \in Path |-> IF q \in names THEN [tree[q] EXCEPT !.data = d, !.stamp = Now] ELSE tree[q]]
<1>1. Kind(p) = "file" /\ tree' = t /\ touched' = touched \cup names /\ denied' = denied
  BY DEF Write, Change
<1>2. tree \in [Path -> Node] /\ Now \in 0..MaxEdits
  BY TreeAssumption DEF TreeInv, Now
<1>3. ASSUME NEW q \in Path
      PROVE  /\ t[q] \in Node /\ t[q].kind = tree[q].kind /\ t[q].id = tree[q].id
             /\ t[q].data = IF q \in names THEN d ELSE tree[q].data
  <2>1. tree[q] \in Node
    BY <1>2
  <2>. QED  BY <2>1, <1>2 DEF Node
<1>4. \A q \in names : tree[q].kind = "file"
  BY <1>1 DEF TreeInv, Kind
<1>. HIDE DEF t
<1>5. t \in [Path -> Node]
  BY <1>3 DEF t
<1>6. Kept
  BY <1>1, <1>3 DEF Kept
<1>7. ASSUME NEW r \in Path
      PROVE  /\ t[r].kind = "absent" => t[r].id = <<>> /\ t[r].data = <<>>
             /\ t[r].kind # "absent" => \E q \in Path, n \in 0..edits' : t[r].id = <<q, n>>
             /\ t[r].kind = "dir" => t[r].id[1] = r
             /\ t[r].kind = "file" => t[r].data \in Data
             /\ r \in touched' /\ t[r].id = <<r, 0>> => t[r].kind = IF r \in denied' THEN "dir" ELSE "file"
  BY <1>1, <1>3, <1>4 DEF TreeInv
<1>8. ASSUME NEW r \in Path, t[r].kind # "absent", NEW q \in Above(r)
      PROVE  t[q].kind = "dir" \/ (q \in touched' /\ t[q].id # <<q, 0>>)
  <2>1. q \in Path
    BY AboveIs
  <2>. QED  BY <2>1, <1>1, <1>3, <1>8 DEF TreeInv
<1>9. ASSUME NEW r \in Path, NEW q \in Path, t[r].id = t[q].id
      PROVE  t[r].kind = t[q].kind /\ t[r].data = t[q].data
  BY <1>3, <1>9 DEF TreeInv
<1>10. TreeInv'
  BY <1>1, <1>5, <1>7, <1>8, <1>9 DEF TreeInv
<1>. QED  BY <1>6, <1>10

\* What is below a deleted folder goes with it.
LEMMA DeleteKeeps ==
  ASSUME TreeInv, NEW p \in Path, Delete(p), edits < MaxEdits, edits' = edits + 1
  PROVE  TreeInv' /\ Kept
<1>. DEFINE swept == {q \in Path : Within(p, q) /\ Exists(q)}
            s == [q \in Path |-> IF q \in swept THEN Absent ELSE tree[q]]
            t == InFolder(s, p)
<1>1. p # <<>> /\ tree' = t /\ touched' = touched \cup swept /\ denied' = denied
  BY DEF Delete, Change
<1>2. tree \in [Path -> Node] /\ edits \in Nat
  BY DEF TreeInv
<1>3. s \in [Path -> Node]
  <2>1. Absent \in Node
    BY TreeAssumption DEF Node, Absent, FileIdentity
  <2>. QED  BY <1>2, <2>1
<1>4. t \in [Path -> Node] /\ \A q \in Path : t[q].kind = s[q].kind /\ t[q].id = s[q].id /\ t[q].data = s[q].data
  <2>. HIDE DEF s
  <2>. QED  BY <1>2, <1>3, InFolderKeeps
<1>5. ASSUME NEW q \in Path
      PROVE  /\ q \in swept => t[q].kind = "absent" /\ t[q].id = <<>> /\ t[q].data = <<>>
             /\ q \notin swept => t[q].kind = tree[q].kind /\ t[q].id = tree[q].id /\ t[q].data = tree[q].data
  <2>1. s[q] = IF q \in swept THEN Absent ELSE tree[q]
    OBVIOUS
  <2>. HIDE DEF s, t, swept
  <2>2. t[q].kind = s[q].kind /\ t[q].id = s[q].id /\ t[q].data = s[q].data
    BY <1>4
  <2>. QED  BY <2>1, <2>2 DEF Absent
<1>. HIDE DEF t
<1>6. \A q \in Path : tree[q].kind # "absent" => tree[q].id # <<>>
  BY DEF TreeInv
<1>7. Kept
  BY <1>1, <1>5 DEF Kept
<1>8. ASSUME NEW r \in Path
      PROVE  /\ t[r].kind = "absent" => t[r].id = <<>> /\ t[r].data = <<>>
             /\ t[r].kind # "absent" => \E q \in Path, n \in 0..edits' : t[r].id = <<q, n>>
             /\ t[r].kind = "dir" => t[r].id[1] = r
             /\ t[r].kind = "file" => t[r].data \in Data
             /\ r \in touched' /\ t[r].id = <<r, 0>> => t[r].kind = IF r \in denied' THEN "dir" ELSE "file"
  BY <1>1, <1>5 DEF TreeInv
<1>9. ASSUME NEW r \in Path, t[r].kind # "absent", NEW q \in Above(r)
      PROVE  t[q].kind = "dir" \/ (q \in touched' /\ t[q].id # <<q, 0>>)
  <2>1. q \in Path /\ r \notin swept
    BY <1>5, <1>9, AboveIs
  <2>2. q \notin swept
    <3>1. SUFFICES ASSUME q \in swept PROVE FALSE
      OBVIOUS
    <3>2. Within(p, r)
      BY <2>1, <3>1, BelowIs, AboveOrder
    <3>3. tree[r].kind # "absent"
      BY <2>1, <1>5, <1>9
    <3>. QED  BY <2>1, <3>2, <3>3 DEF Exists, Kind
  <2>. QED  BY <2>1, <2>2, <1>1, <1>5, <1>9 DEF TreeInv
<1>10. ASSUME NEW r \in Path, NEW q \in Path, t[r].id = t[q].id
      PROVE  t[r].kind = t[q].kind /\ t[r].data = t[q].data
  <2>1. ASSUME NEW u \in Path, u \notin swept, t[u].id = <<>>
        PROVE  tree[u].kind = "absent"
    BY <1>5, <1>6, <2>1
  <2>2. \A u \in Path : tree[u].kind = "absent" => tree[u].data = <<>>
    BY DEF TreeInv
  <2>. QED  BY <1>5, <1>10, <2>1, <2>2 DEF TreeInv
<1>11. TreeInv'
  BY <1>1, <1>2, <1>4, <1>8, <1>9, <1>10 DEF TreeInv
<1>. QED  BY <1>7, <1>11

\* What is created is new: no path had its identity.
LEMMA CreateKeeps ==
  ASSUME TreeInv, NEW p \in Path, NEW n \in Node, Create(p, n), edits < MaxEdits, edits' = edits + 1,
         n.kind = "dir" \/ (n.kind = "file" /\ n.data \in Data)
  PROVE  TreeInv' /\ Kept
<1>. DEFINE e == [n EXCEPT !.id = <<p, Now>>, !.stamp = Now]
            s == [tree EXCEPT ![p] = e]
            t == InFolder(s, p)
<1>1. p # <<>> /\ tree' = t /\ touched' = touched \cup {p} /\ denied' = denied
      /\ tree[p].kind = "absent" /\ tree[Front(p)].kind = "dir"
  BY DEF Create, Change, Exists, Kind
<1>2. tree \in [Path -> Node] /\ edits \in Nat /\ Now \in 0..MaxEdits /\ Now = edits + 1
  BY TreeAssumption DEF TreeInv, Now
<1>3. e \in Node /\ e.kind = n.kind /\ e.data = n.data /\ e.id = <<p, Now>>
  <2>1. <<p, Now>> \in FileIdentity
    BY <1>2 DEF FileIdentity
  <2>. QED  BY <1>2, <2>1 DEF Node
<1>. HIDE DEF e
<1>4. s \in [Path -> Node] /\ t \in [Path -> Node]
  BY <1>2, <1>3, InFolderKeeps
<1>5. /\ t[p].kind = n.kind /\ t[p].data = n.data /\ t[p].id = <<p, Now>>
      /\ \A q \in Path \ {p} : t[q].kind = tree[q].kind /\ t[q].id = tree[q].id /\ t[q].data = tree[q].data
  <2>1. \A q \in Path : t[q].kind = s[q].kind /\ t[q].id = s[q].id /\ t[q].data = s[q].data
    BY <1>2, <1>4, InFolderKeeps
  <2>2. s[p] = e /\ \A q \in Path \ {p} : s[q] = tree[q]
    BY <1>2
  <2>. QED  BY <2>1, <2>2, <1>3
<1>. HIDE DEF t
<1>6. Kept
  BY <1>1, <1>2, <1>5 DEF Kept
<1>7. ASSUME NEW r \in Path
      PROVE  /\ t[r].kind = "absent" => t[r].id = <<>> /\ t[r].data = <<>>
             /\ t[r].kind # "absent" => \E q \in Path, i \in 0..edits' : t[r].id = <<q, i>>
             /\ t[r].kind = "dir" => t[r].id[1] = r
             /\ t[r].kind = "file" => t[r].data \in Data
             /\ r \in touched' /\ t[r].id = <<r, 0>> => t[r].kind = IF r \in denied' THEN "dir" ELSE "file"
  <2>1. CASE r = p
    BY <2>1, <1>1, <1>2, <1>5
  <2>2. CASE r # p
    BY <2>2, <1>1, <1>5 DEF TreeInv
  <2>. QED  BY <2>1, <2>2
<1>8. ASSUME NEW r \in Path, t[r].kind # "absent", NEW q \in Above(r)
      PROVE  t[q].kind = "dir" \/ (q \in touched' /\ t[q].id # <<q, 0>>)
  <2>1. q \in Path
    BY AboveIs
  <2>2. CASE r = p
    <3>1. q # p
      BY <2>2, AboveOrder
    <3>2. q = Front(p) \/ q \in Above(Front(p))
      BY <2>2, <1>1, FrontIs
    <3>3. Front(p) \in Path /\ tree[Front(p)].kind = "dir"
      BY <1>1, FrontIs
    <3>4. tree[q].kind = "dir" \/ (q \in touched /\ tree[q].id # <<q, 0>>)
      BY <3>2, <3>3 DEF TreeInv
    <3>. QED  BY <3>1, <3>4, <2>1, <1>1, <1>5
  <2>3. CASE r # p
    <3>1. tree[q].kind = "dir" \/ (q \in touched /\ tree[q].id # <<q, 0>>)
      BY <2>3, <1>5, <1>8 DEF TreeInv
    <3>. QED  BY <3>1, <2>1, <1>1, <1>2, <1>5
  <2>. QED  BY <2>2, <2>3
<1>9. \A q \in Path : tree[q].id # <<p, Now>>
  BY <1>2 DEF TreeInv
<1>10. ASSUME NEW r \in Path, NEW q \in Path, t[r].id = t[q].id
      PROVE  t[r].kind = t[q].kind /\ t[r].data = t[q].data
  BY <1>5, <1>9, <1>10 DEF TreeInv
<1>11. TreeInv'
  BY <1>1, <1>2, <1>4, <1>7, <1>8, <1>10 DEF TreeInv
<1>. QED  BY <1>6, <1>11

\* What was below a folder that becomes a link is no longer what it was.
LEMMA RedirectKeeps ==
  ASSUME TreeInv, NEW p \in Path, Redirect(p), edits < MaxEdits, edits' = edits + 1
  PROVE  TreeInv' /\ Kept
<1>. DEFINE moved == {q \in Path : Within(p, q) /\ Exists(q)}
            s == [q \in Path |->
                    IF q = p THEN [Absent EXCEPT !.kind = "link", !.id = <<q, Now>>]
                    ELSE IF q \in moved THEN [tree[q] EXCEPT !.id = <<q, Now>>] ELSE tree[q]]
            t == InFolder(s, p)
<1>1. tree' = t /\ touched' = touched \cup moved /\ denied' = denied /\ tree[p].kind = "dir"
  BY DEF Redirect, Change, Kind
<1>2. tree \in [Path -> Node] /\ edits \in Nat /\ Now \in 0..MaxEdits /\ Now = edits + 1
  BY TreeAssumption DEF TreeInv, Now
<1>3. p \in moved
  BY <1>1, BelowIs DEF Exists, Kind
<1>4. ASSUME NEW q \in Path
      PROVE  /\ s[q] \in Node
             /\ q = p => s[q].kind = "link" /\ s[q].id = <<q, Now>>
             /\ q # p /\ q \in moved =>
                  s[q].kind = tree[q].kind /\ s[q].id = <<q, Now>> /\ s[q].data = tree[q].data
             /\ q \notin moved => s[q] = tree[q]
  <2>1. CASE q = p
    <3>1. <<q, Now>> \in FileIdentity /\ s[q] = [Absent EXCEPT !.kind = "link", !.id = <<q, Now>>]
      BY <2>1, <1>2 DEF FileIdentity
    <3>2. Absent \in Node
      BY TreeAssumption DEF Node, Absent, FileIdentity
    <3>. HIDE DEF s
    <3>. QED  BY <2>1, <3>1, <3>2, <1>3 DEF Node
  <2>2. CASE q # p /\ q \in moved
    <3>1. tree[q] \in Node /\ s[q] = [tree[q] EXCEPT !.id = <<q, Now>>] /\ <<q, Now>> \in FileIdentity
      BY <2>2, <1>2 DEF FileIdentity
    <3>. HIDE DEF s
    <3>. QED  BY <3>1, <2>2, <1>2 DEF Node
  <2>3. CASE q \notin moved
    BY <2>3, <1>2, <1>3
  <2>. QED  BY <2>1, <2>2, <2>3
<1>. HIDE DEF s
<1>5. s \in [Path -> Node] /\ t \in [Path -> Node]
  <2>1. s \in [Path -> Node]
    BY <1>4 DEF s
  <2>. QED  BY <2>1, <1>2, InFolderKeeps
<1>6. ASSUME NEW q \in Path
      PROVE  /\ q = p => t[q].kind = "link"
             /\ q \in moved => t[q].id = <<q, Now>> /\ tree[q].kind # "absent"
             /\ q # p => t[q].kind = tree[q].kind /\ t[q].data = tree[q].data
             /\ q \notin moved => t[q].id = tree[q].id
  <2>1. t[q].kind = s[q].kind /\ t[q].id = s[q].id /\ t[q].data = s[q].data
    BY <1>2, <1>5, InFolderKeeps
  <2>. QED  BY <2>1, <1>3, <1>4 DEF Exists, Kind
<1>. HIDE DEF t
<1>7. Kept
  BY <1>1, <1>2, <1>3, <1>6 DEF Kept
<1>8. ASSUME NEW r \in Path
      PROVE  /\ t[r].kind = "absent" => t[r].id = <<>> /\ t[r].data = <<>>
             /\ t[r].kind # "absent" => \E q \in Path, i \in 0..edits' : t[r].id = <<q, i>>
             /\ t[r].kind = "dir" => t[r].id[1] = r
             /\ t[r].kind = "file" => t[r].data \in Data
             /\ r \in touched' /\ t[r].id = <<r, 0>> => t[r].kind = IF r \in denied' THEN "dir" ELSE "file"
  <2>1. CASE r \in moved
    BY <2>1, <1>1, <1>2, <1>6 DEF TreeInv
  <2>2. CASE r \notin moved
    BY <2>2, <1>1, <1>3, <1>6 DEF TreeInv
  <2>. QED  BY <2>1, <2>2
<1>9. ASSUME NEW r \in Path, t[r].kind # "absent", NEW q \in Above(r)
      PROVE  t[q].kind = "dir" \/ (q \in touched' /\ t[q].id # <<q, 0>>)
  <2>1. q \in Path
    BY AboveIs
  <2>2. CASE q \in moved
    BY <2>1, <2>2, <1>1, <1>2, <1>6
  <2>3. CASE q \notin moved
    <3>1. tree[r].kind # "absent"
      BY <1>1, <1>6, <1>9
    <3>. QED  BY <2>1, <2>3, <3>1, <1>1, <1>3, <1>6 DEF TreeInv
  <2>. QED  BY <2>2, <2>3
<1>10. ASSUME NEW q \in Path, NEW u \in Path, tree[q].id = <<u, Now>> PROVE FALSE
  <2>1. tree[q].kind # "absent"
    <3>1. <<u, Now>> # <<>>
      OBVIOUS
    <3>. QED  BY <3>1, <1>10 DEF TreeInv
  <2>2. PICK w \in Path, i \in 0..edits : tree[q].id = <<w, i>>
    BY <2>1 DEF TreeInv
  <2>. QED  BY <2>2, <1>2, <1>10
<1>11. ASSUME NEW r \in Path, NEW q \in Path, t[r].id = t[q].id
      PROVE  t[r].kind = t[q].kind /\ t[r].data = t[q].data
  BY <1>3, <1>6, <1>10, <1>11 DEF TreeInv
<1>12. TreeInv'
  BY <1>1, <1>2, <1>5, <1>8, <1>9, <1>11 DEF TreeInv
<1>. QED  BY <1>7, <1>12

\* A folder that may no longer be listed stays a folder.
LEMMA DenyKeeps ==
  ASSUME TreeInv, NEW p \in Path, Deny(p), edits < MaxEdits, edits' = edits + 1
  PROVE  TreeInv' /\ Kept
<1>1. tree' = tree /\ touched' = touched \cup {p} /\ denied' = denied \cup {p} /\ tree[p].kind = "dir"
  BY DEF Deny, Kind
<1>2. edits' \in Nat /\ \A i \in 0..edits : i \in 0..edits'
  BY DEF TreeInv
<1>3. Kept
  BY <1>1 DEF Kept, Kind
<1>. QED  BY <1>1, <1>2, <1>3 DEF TreeInv

\* No other program, and no cancellation, breaks what is known of the tree.
LEMMA WorldKeeps ==
  ASSUME TreeInv, OtherPrograms \/ CancelScan \/ UNCHANGED treeVars
  PROVE  TreeInv' /\ Kept
<1>1. CASE OtherPrograms
  <2>. edits < MaxEdits /\ edits' = edits + 1
    BY <1>1 DEF OtherPrograms
  <2>1. PICK p \in Path : \/ \E d \in Data : Write(p, d) \/ Create(p, File(p, d))
                          \/ Delete(p) \/ Create(p, Folder(p)) \/ Redirect(p) \/ Deny(p)
    BY <1>1 DEF OtherPrograms
  <2>2. Folder(p) \in Node /\ Folder(p).kind = "dir"
    BY TreeAssumption DEF Folder, Node, FileIdentity
  <2>3. ASSUME NEW d \in Data
        PROVE  File(p, d) \in Node /\ File(p, d).kind = "file" /\ File(p, d).data \in Data
    BY TreeAssumption DEF File, Node, FileIdentity
  <2>4. CASE \E d \in Data : Write(p, d) \/ Create(p, File(p, d))
    BY <2>3, <2>4, WriteKeeps, CreateKeeps
  <2>. QED  BY <2>1, <2>2, <2>4, DeleteKeeps, CreateKeeps, RedirectKeeps, DenyKeeps
<1>2. CASE CancelScan \/ UNCHANGED treeVars
  BY <1>2 DEF CancelScan, treeVars, TreeInv, Kept
<1>. QED  BY <1>1, <1>2

\* The files the report answers for, unless something is done to them yet.
Due(p) == Kind(p) = "file" /\ Left(p) /\ InScope(p) /\ Listed(p)

\* A walk that comes to d at depth k comes to p.
Toward(d, k, p) == d = p \/ (Below(d, p) /\ Len(p) - Len(d) + k <= scope.depth)

\* Some target or some entry of the heap leads to p.
Ahead(p) ==
    \/ turn = "idle"
    \/ \E n \in targets : Toward(Targets[n], 0, p)
    \/ \E i \in DOMAIN heap : Toward(heap[i].path, heap[i].depth, p)

\* A finding on p of this kind is in the list.
Among(out, p, evidence) == \E n \in DOMAIN out : out[n].evidence = evidence /\ out[n].path = p

\* The file in hand is p, and what was found of it so far is true of it.
InHand(p) ==
    /\ hand.path = p
    /\ \/ turn = "opening"
       \/ turn = "reading" /\ hand.opened.id = tree[p].id /\ hand.opened.data = tree[p].data
                           /\ hand.out = NameHits(p)
       \/ turn = "judging" /\ Among(hand.out, p, "Unavailable")
       \/ /\ turn = "judging" /\ hand.sha256 = tree[p].data /\ (hand.mz <=> tree[p].data \in MZ)
          /\ Hits(tree[p].data) \/ Last(p) \in KnownName => Among(hand.out, p, "Deterministic")

\* What a due file has come to: still ahead, in hand, told, or excused.
Cared(p) ==
    IF p \in seen THEN Excused(p) \/ Answered(p) \/ InHand(p)
    ELSE Excused(p) \/ Ahead(p)

\* The types of what the scan keeps; a report is made when nothing is left to walk.
SweepShape ==
    /\ scope \in Sweep /\ targets \subseteq DOMAIN Targets /\ seen \subseteq Path
    /\ heap \in Seq([path : Path, depth : Nat])
    /\ findings \in Seq(ScannedFinding)
    /\ DOMAIN summary = {"scanned", "cancelled", "truncated"}
    /\ DOMAIN hand = {"path", "hint", "opened", "sha256", "mz", "out"}
    /\ hand.out \in Seq(ScannedFinding)
    /\ hand.path \in Path /\ hand.sha256 \in Data \cup {Mixed, NoHash}
    /\ turn = "listing" => heap # <<>> /\ Last(heap).depth < scope.depth /\ ~Due(Last(heap).path)
    /\ turn = "reported" /\ ~Broken => heap = <<>> /\ targets = {}

\* Until the scan is broken off, every due file is cared for.
Cares == turn # "unused" /\ ~Broken => \A p \in Path : Due(p) => Cared(p)
SweepInv == SweepShape /\ Cares

-----------------------------------------------------------------------------
(* The scan for threats *)

\* The last element of a sequence and what is before it.
LEMMA FrontAndLast ==
  ASSUME NEW S, NEW s \in Seq(S), s # <<>>
  PROVE  /\ Last(s) \in S /\ Len(s) \in DOMAIN s /\ Last(s) = s[Len(s)]
         /\ Front(s) \in Seq(S) /\ DOMAIN Front(s) = DOMAIN s \ {Len(s)}
         /\ \A i \in DOMAIN Front(s) : Front(s)[i] = s[i]
<1>1. Len(s) \in Nat \ {0} /\ DOMAIN s = 1..Len(s) /\ \A i \in 1..Len(s) : s[i] \in S
  BY EmptySeq, LenProperties, ElementOfSeq
<1>2. Last(s) = s[Len(s)] /\ Front(s) = SubSeq(s, 1, Len(s) - 1)
  BY Zenon DEF Last, Front
<1>. DEFINE f == SubSeq(s, 1, Len(s) - 1)
<1>3. f \in Seq(S) /\ Len(f) = Len(s) - 1 /\ \A i \in 1..(Len(s) - 1) : f[i] = s[i]
  BY <1>1, SubSeqProperties
<1>4. DOMAIN f = 1..(Len(s) - 1)
  BY <1>1, <1>3, LenProperties
<1>. HIDE DEF f
<1>. QED  BY <1>1, <1>2, <1>3, <1>4 DEF f

\* The elements of two sequences are those of the two in one.
LEMMA ConcatIs ==
  ASSUME NEW S, NEW a \in Seq(S), NEW b \in Seq(S)
  PROVE  /\ a \o b \in Seq(S)
         /\ \A i \in DOMAIN a : i \in DOMAIN (a \o b) /\ (a \o b)[i] = a[i]
         /\ \A i \in DOMAIN b : Len(a) + i \in DOMAIN (a \o b) /\ (a \o b)[Len(a) + i] = b[i]
<1>1. /\ a \o b \in Seq(S) /\ Len(a) \in Nat /\ Len(b) \in Nat
      /\ DOMAIN a = 1..Len(a) /\ DOMAIN b = 1..Len(b) /\ DOMAIN (a \o b) = 1..(Len(a) + Len(b))
  BY ConcatProperties, LenProperties
<1>2. \A i \in 1..Len(a) + Len(b) : (a \o b)[i] = IF i <= Len(a) THEN a[i] ELSE b[i - Len(a)]
  BY ConcatProperties
<1>3. \A i \in DOMAIN a : i \in DOMAIN (a \o b) /\ (a \o b)[i] = a[i]
  BY <1>1, <1>2
<1>4. ASSUME NEW i \in DOMAIN b PROVE Len(a) + i \in DOMAIN (a \o b) /\ (a \o b)[Len(a) + i] = b[i]
  BY <1>1, <1>2
<1>. QED  BY <1>1, <1>3, <1>4

\* What is in a list of findings is in the list with more after it, or before it.
LEMMA AmongBoth ==
  ASSUME NEW a \in Seq(ScannedFinding), NEW b \in Seq(ScannedFinding), NEW p, NEW e
  PROVE  /\ a \o b \in Seq(ScannedFinding)
         /\ Among(a, p, e) => Among(a \o b, p, e)
         /\ Among(b, p, e) => Among(a \o b, p, e)
<1>1. /\ a \o b \in Seq(ScannedFinding)
      /\ \A i \in DOMAIN a : i \in DOMAIN (a \o b) /\ (a \o b)[i] = a[i]
      /\ \A i \in DOMAIN b : Len(a) + i \in DOMAIN (a \o b) /\ (a \o b)[Len(a) + i] = b[i]
  BY ConcatIs
<1>. QED  BY <1>1 DEF Among

\* A report of one finding holds it.
LEMMA OneFinding ==
  ASSUME NEW p \in Path, NEW e \in Evidence, NEW s \in Data \cup {Mixed, NoHash}
  PROVE  <<Finding(p, e, s)>> \in Seq(ScannedFinding) /\ Among(<<Finding(p, e, s)>>, p, e)
BY DEF Finding, ScannedFinding, Among

\* A report that is still whole holds what it was told.
LEMMA TellTells ==
  ASSUME SweepShape, NEW out \in Seq(ScannedFinding), Tell(out)
  PROVE  /\ findings' \in Seq(ScannedFinding) /\ DOMAIN summary' = DOMAIN summary
         /\ ~Broken' => /\ ~Broken
                        /\ \A p, e : Told(p, e) \/ Among(out, p, e) => Told(p, e)'
<1>. DEFINE room == scope.findings - Len(findings)
            n == IF Len(out) < room THEN Len(out) ELSE room
<1>1. /\ findings' = findings \o SubSeq(out, 1, n)
      /\ summary' = [summary EXCEPT !.truncated = @ \/ Len(out) > room]
  BY DEF Tell
<1>2. findings \in Seq(ScannedFinding) /\ Len(findings) \in Nat /\ Len(out) \in Nat /\ room \in Int
  BY ThreatAssumption, LenProperties DEF SweepShape, ScanScope
<1>3. SubSeq(out, 1, n) \in Seq(ScannedFinding)
  <2>1. n \in Int /\ \A i \in 1..n : i \in 1..Len(out)
    BY <1>2
  <2>2. \A i \in 1..n : out[i] \in ScannedFinding
    BY <2>1, ElementOfSeq
  <2>. HIDE DEF n
  <2>. QED  BY <2>1, <2>2, SubSeqProperties
<1>4. DOMAIN summary' = DOMAIN summary /\ summary'.cancelled = summary.cancelled
      /\ (summary.truncated => summary'.truncated) /\ (Len(out) > room => summary'.truncated)
  <2>1. DOMAIN summary = {"scanned", "cancelled", "truncated"}
    BY DEF SweepShape
  <2>. QED  BY <1>1, <2>1
<1>5. ASSUME ~Broken' PROVE ~Broken /\ findings' = findings \o out
  <2>1. ~summary'.truncated /\ ~summary'.cancelled
    BY <1>5 DEF Broken
  <2>2. n = Len(out)
    BY <1>2, <1>4, <2>1
  <2>3. SubSeq(out, 1, n) = out
    BY <2>2, SubSeqFull
  <2>. QED  BY <1>1, <1>4, <2>1, <2>3 DEF Broken
<1>6. ASSUME findings' = findings \o out, NEW p, NEW e, Told(p, e) \/ Among(out, p, e) PROVE Told(p, e)'
  <2>1. Told(p, e) <=> Among(findings, p, e)
    BY DEF Told, Among
  <2>2. Told(p, e)' <=> Among(findings', p, e)
    BY DEF Told, Among
  <2>. QED  BY <1>2, <1>6, <2>1, <2>2, AmongBoth
<1>. HIDE DEF n
<1>7. findings' \in Seq(ScannedFinding)
  BY <1>1, <1>2, <1>3, ConcatProperties
<1>. QED  BY <1>4, <1>5, <1>6, <1>7
\* What is due stays as it is, and only what was due is.
LEMMA LeftBefore ==
  ASSUME TreeInv, TreeInv', Kept, NEW p \in Path, Kind(p)' = "file", Left(p)'
  PROVE  Kind(p) = "file" /\ Left(p) /\ tree'[p].id = tree[p].id /\ tree'[p].data = tree[p].data
<1>1. tree'[p].kind = "file" /\ \A q \in {p} \cup Above(p) :
         q \notin touched' \/ (q \in denied' /\ tree'[q].id = <<q, 0>>)
  BY DEF Kind, Left
<1>2. p \notin touched'
  BY <1>1 DEF TreeInv
<1>3. tree[p].kind = "file" /\ tree'[p].id = tree[p].id /\ tree'[p].data = tree[p].data
  BY <1>1, <1>2 DEF Kept
<1>4. ASSUME NEW q \in {p} \cup Above(p)
      PROVE  q \notin touched \/ (q \in denied /\ tree[q].id = <<q, 0>>)
  <2>1. q \in Path
    BY AboveIs
  <2>2. CASE q \notin touched'
    BY <2>2 DEF Kept
  <2>3. CASE q \in touched /\ q \in denied' /\ tree'[q].id = <<q, 0>>
    <3>1. tree[q].id = <<q, 0>>
      BY <2>1, <2>3 DEF Kept
    <3>2. q \in denied \/ tree[q].kind = "dir"
      BY <2>3 DEF Kept, Kind
    <3>. QED  BY <2>1, <2>3, <3>1, <3>2 DEF TreeInv
  <2>. QED  BY <1>1, <2>2, <2>3
<1>. QED  BY <1>3, <1>4 DEF Kind, Left

\* All that is above a due file still is a folder.
LEMMA FoldersAbove ==
  ASSUME TreeInv, NEW p \in Path, Due(p), NEW q \in Above(p)
  PROVE  q \in Path /\ Kind(q) = "dir"
<1>1. q \in Path /\ tree[p].kind = "file"
  BY AboveIs DEF Due, Kind
<1>2. q \notin touched \/ tree[q].id = <<q, 0>>
  BY DEF Due, Left
<1>. QED  BY <1>1, <1>2 DEF TreeInv, Kind

\* The step of the scan leaves the tree alone.
LEMMA DueStays ==
  ASSUME UNCHANGED <<treeVars, scope, dropped>>
  PROVE  \A p : Due(p)' <=> Due(p)
BY DEF treeVars, Due, Left, InScope, Listed, Kind

\* The invariant survives what happens around the scan.
LEMMA AroundSweep ==
  ASSUME TreeInv, TreeInv', Kept, SweepInv, UNCHANGED sweepVars
  PROVE  SweepInv'
<1>. USE DEF sweepVars
<1>1. ASSUME NEW p \in Path, Due(p)'
      PROVE  Due(p) /\ tree'[p].id = tree[p].id /\ tree'[p].data = tree[p].data
  <2>1. Kind(p)' = "file" /\ Left(p)' /\ InScope(p)' /\ Listed(p)'
    BY <1>1 DEF Due
  <2>2. (InScope(p)' <=> InScope(p)) /\ (Listed(p)' <=> Listed(p))
    BY DEF InScope, Listed
  <2>. QED  BY <2>1, <2>2, LeftBefore DEF Due
<1>2. SweepShape'
  <2>1. turn = "listing" => Last(heap).path \in Path
    <3>. SUFFICES ASSUME turn = "listing" PROVE Last(heap).path \in Path
      OBVIOUS
    <3>1. heap \in Seq([path : Path, depth : Nat]) /\ heap # <<>>
      BY DEF SweepInv, SweepShape
    <3>2. Last(heap) \in [path : Path, depth : Nat]
      BY <3>1, FrontAndLast
    <3>. QED  BY <3>2
  <2>2. turn = "listing" => ~Due(Last(heap).path)'
    BY <1>1, <2>1 DEF SweepInv, SweepShape
  <2>3. (Broken' <=> Broken) /\ Targets' = Targets
    BY DEF Broken, Targets
  <2>. QED  BY <2>2, <2>3 DEF SweepInv, SweepShape
<1>3. ASSUME NEW p \in Path, tree'[p].id = tree[p].id, tree'[p].data = tree[p].data
      PROVE  Cared(p)' <=> Cared(p)
  <2>1. (Excused(p)' <=> Excused(p)) /\ (Ahead(p)' <=> Ahead(p)) /\ (InHand(p)' <=> InHand(p))
    BY <1>3 DEF Excused, Ahead, InHand, Told, Toward, Targets
  <2>2. Answered(p)' <=> Answered(p)
    BY <1>3 DEF Answered, Told, Heuristics
  <2>. QED  BY <2>1, <2>2 DEF Cared
<1>4. Cares'
  <2>1. Broken' <=> Broken
    BY DEF Broken
  <2>. QED  BY <1>1, <1>3, <2>1 DEF Cares, SweepInv
<1>. QED  BY <1>2, <1>4 DEF SweepInv

\* What was told excuses or answers for a path from then on.
LEMMA StillTold ==
  ASSUME UNCHANGED <<treeVars, scope>>, \A q, e : Told(q, e) => Told(q, e)', NEW p
  PROVE  (Excused(p) => Excused(p)') /\ (Answered(p) => Answered(p)')
<1>1. tree' = tree /\ scope' = scope
  BY DEF treeVars
<1>2. Excused(p) => Excused(p)'
  BY DEF Excused
<1>3. Answered(p) => Answered(p)'
  BY <1>1 DEF Answered, Heuristics
<1>. QED  BY <1>2, <1>3

\* The targets of a scan are paths.
LEMMA ScopeIs ==
  ASSUME SweepShape
  PROVE  /\ scope.folders \in Seq(Path) /\ scope.images \in Seq(Path) /\ scope.depth \in Nat
         /\ Targets \in Seq(Path)
         /\ \A i \in DOMAIN scope.folders : i \in DOMAIN Targets /\ i <= Len(scope.folders) /\ Targets[i] = scope.folders[i]
         /\ \A i \in DOMAIN scope.images :
               \E n \in DOMAIN Targets : ~(n <= Len(scope.folders)) /\ Targets[n] = scope.images[i]
         /\ scope.scope = "Folder" => scope.images = <<>>
<1>1. /\ scope.folders \in Seq(Path) /\ scope.images \in Seq(Path) /\ scope.depth \in Nat
      /\ scope.scope = "Folder" => scope.images = <<>>
  BY ThreatAssumption DEF SweepShape, ScanScope
<1>. DEFINE a == scope.folders  b == scope.images
<1>2. a \in Seq(Path) /\ b \in Seq(Path) /\ Len(a) \in Nat /\ DOMAIN a = 1..Len(a) /\ DOMAIN b \subseteq Nat \ {0}
  BY <1>1, LenProperties
<1>. HIDE DEF a, b
<1>3. /\ a \o b \in Seq(Path)
      /\ \A i \in DOMAIN a : i \in DOMAIN (a \o b) /\ (a \o b)[i] = a[i]
      /\ \A i \in DOMAIN b : Len(a) + i \in DOMAIN (a \o b) /\ (a \o b)[Len(a) + i] = b[i]
  BY <1>2, ConcatIs
<1>4. (\A i \in DOMAIN a : i <= Len(a)) /\ \A i \in DOMAIN b : ~(Len(a) + i <= Len(a))
  BY <1>2
<1>. QED  BY <1>1, <1>3, <1>4 DEF Targets, a, b

\* The targets that are taken lead to every due file.
LEMMA StartSweepKeeps ==
  ASSUME TreeInv, SweepInv, StartSweep, UNCHANGED treeVars
  PROVE  SweepInv'
<1>. SweepShape /\ Cares
  BY DEF SweepInv
<1>1. /\ turn = "idle" /\ turn' = "walking"
      /\ UNCHANGED <<scope, heap, seen, dropped, hand, summary, findings>>
      /\ targets' = IF scope.scope = "Folder" THEN DOMAIN scope.folders
                    ELSE {n \in DOMAIN Targets :
                            Kind(Targets[n]) = IF n <= Len(scope.folders) THEN "dir" ELSE "file"}
  BY DEF StartSweep
<1>2. Targets' = Targets /\ targets' \subseteq DOMAIN Targets
  BY <1>1, ScopeIs DEF Targets
<1>3. SweepShape'
  BY <1>1, <1>2 DEF SweepShape, Broken
<1>4. ASSUME NEW p \in Path, Due(p)
      PROVE  Ahead(p)'
  <2>1. SUFFICES \E n \in targets' : Toward(Targets[n], 0, p)
    <3>1. turn' # "idle"
      BY <1>1
    <3>. QED  BY <1>1, <1>2 DEF Ahead, Toward
  <2>2. CASE \E t \in Range(scope.folders) : Below(t, p) /\ Len(Sub(t, p)) <= scope.depth
    <3>1. PICK i \in DOMAIN scope.folders : Below(scope.folders[i], p) /\ Len(Sub(scope.folders[i], p)) <= scope.depth
      BY <2>2 DEF Range
    <3>. DEFINE t == scope.folders[i]
    <3>2. t \in Path /\ i \in DOMAIN Targets /\ i <= Len(scope.folders) /\ Targets[i] = t
      BY ScopeIs, LenProperties, ElementOfSeq
    <3>. HIDE DEF t
    <3>3. t \in Above(p)
      BY <3>1, <3>2, BelowIs DEF t
    <3>4. Kind(t) = "dir" /\ Len(Sub(t, p)) = Len(p) - Len(t)
      BY <3>3, <1>4, FoldersAbove, SubIs
    <3>5. Toward(Targets[i], 0, p)
      <4>1. Len(p) - Len(t) \in Int /\ Len(p) - Len(t) <= scope.depth
        BY <3>1, <3>3, <3>4, AboveOrder DEF t
      <4>. QED  BY <4>1, <3>1, <3>2 DEF Toward, t
    <3>6. i \in targets'
      BY <1>1, <3>2, <3>4
    <3>. QED  BY <3>5, <3>6
  <2>3. CASE p \in Range(scope.images)
    <3>1. PICK i \in DOMAIN scope.images : scope.images[i] = p
      BY <2>3 DEF Range
    <3>2. PICK n \in DOMAIN Targets : ~(n <= Len(scope.folders)) /\ Targets[n] = p
      BY <3>1, ScopeIs
    <3>3. scope.scope # "Folder"
      BY <3>1, ScopeIs
    <3>4. Kind(p) = "file"
      BY <1>4 DEF Due
    <3>5. n \in targets'
      BY <1>1, <3>2, <3>3, <3>4
    <3>. QED  BY <3>2, <3>5 DEF Toward
  <2>. QED  BY <1>4, <2>2, <2>3 DEF Due, InScope
<1>5. ASSUME ~Broken', NEW p \in Path, Due(p)'
      PROVE  Cared(p)'
  <2>1. Due(p) /\ Cared(p)
    BY <1>1, <1>5, DueStays DEF Cares, Broken
  <2>2. ~InHand(p)
    BY <1>1 DEF InHand
  <2>3. \A q, e : Told(q, e) => Told(q, e)'
    BY <1>1 DEF Told
  <2>4. (Excused(p) => Excused(p)') /\ (Answered(p) => Answered(p)')
    BY <1>1, <2>3, StillTold
  <2>. QED  BY <1>1, <1>4, <2>1, <2>2, <2>4 DEF Cared
<1>. QED  BY <1>3, <1>5 DEF SweepInv, Cares

\* The walk of a target is ahead of what the target was ahead of.
LEMMA NextTargetKeeps ==
  ASSUME TreeInv, SweepInv, NextTarget, UNCHANGED treeVars
  PROVE  SweepInv'
<1>. SweepShape /\ Cares
  BY DEF SweepInv
<1>1. PICK n \in targets : /\ heap' = <<[path |-> Targets[n], depth |-> 0]>> /\ targets' = targets \ {n}
                           /\ turn = "walking" /\ heap = <<>>
                           /\ UNCHANGED <<turn, scope, seen, dropped, hand, summary, findings>>
  BY DEF NextTarget
<1>2. Targets' = Targets /\ Targets[n] \in Path
  <2>1. Targets \in Seq(Path) /\ n \in DOMAIN Targets
    BY ScopeIs DEF SweepShape
  <2>2. Targets[n] \in Path
    BY <2>1, LenProperties, ElementOfSeq
  <2>. QED  BY <1>1, <2>2 DEF Targets
<1>3. SweepShape'
  BY <1>1, <1>2 DEF SweepShape, Broken
<1>4. ASSUME NEW p \in Path, Ahead(p)
      PROVE  Ahead(p)'
  <2>1. PICK k \in targets : Toward(Targets[k], 0, p)
    BY <1>1, <1>4 DEF Ahead
  <2>2. Toward(Targets[k], 0, p)'
    BY <1>1, <1>2, <2>1 DEF Toward
  <2>3. CASE k = n
    BY <1>1, <2>1, <2>3 DEF Ahead, Toward
  <2>4. CASE k # n
    <3>1. k \in targets'
      BY <1>1, <2>4
    <3>. QED  BY <2>2, <3>1, <1>2 DEF Ahead
  <2>. QED  BY <2>3, <2>4
<1>5. ASSUME ~Broken', NEW p \in Path, Due(p)'
      PROVE  Cared(p)'
  <2>1. Due(p) /\ Cared(p)
    BY <1>1, <1>5, DueStays DEF Cares, Broken
  <2>2. ~InHand(p)
    BY <1>1 DEF InHand
  <2>3. \A q, e : Told(q, e) => Told(q, e)'
    BY <1>1 DEF Told
  <2>4. (Excused(p) => Excused(p)') /\ (Answered(p) => Answered(p)')
    BY <1>1, <2>3, StillTold
  <2>. QED  BY <1>1, <1>4, <2>1, <2>2, <2>4 DEF Cared
<1>. QED  BY <1>3, <1>5 DEF SweepInv, Cares

\* A scan ends when nothing is ahead, or says that it was cut short.
LEMMA EndsKeep ==
  ASSUME TreeInv, SweepInv, EndSweep \/ GivesUp, UNCHANGED treeVars
  PROVE  SweepInv'
<1>. SweepShape /\ Cares
  BY DEF SweepInv
<1>1. CASE EndSweep
  <2>1. /\ turn = "walking" /\ heap = <<>> /\ (targets = {} \/ Broken) /\ turn' = "reported"
        /\ UNCHANGED <<scope, targets, heap, seen, dropped, hand, summary, findings>>
    BY <1>1 DEF EndSweep
  <2>2. SweepShape'
    BY <2>1 DEF SweepShape, Broken, Targets
  <2>3. ASSUME ~Broken', NEW p \in Path, Due(p)'
        PROVE  Cared(p)'
    <3>1. Due(p) /\ Cared(p) /\ targets = {}
      BY <2>1, <2>3, DueStays DEF Cares, Broken
    <3>2. ~InHand(p) /\ ~Ahead(p)
      BY <2>1, <3>1 DEF InHand, Ahead
    <3>3. \A q, e : Told(q, e) => Told(q, e)'
      BY <2>1 DEF Told
    <3>4. (Excused(p) => Excused(p)') /\ (Answered(p) => Answered(p)')
      BY <2>1, <3>3, StillTold
    <3>. QED  BY <2>1, <3>1, <3>2, <3>4 DEF Cared
  <2>. QED  BY <2>2, <2>3 DEF SweepInv, Cares
<1>2. CASE GivesUp
  <2>1. /\ turn = "walking" /\ heap' = <<>> /\ UNCHANGED <<turn, scope, targets, seen, dropped, hand, findings>>
        /\ summary' = IF cancelled THEN [summary EXCEPT !.cancelled = TRUE] ELSE [summary EXCEPT !.truncated = TRUE]
    BY <1>2 DEF GivesUp
  <2>2. DOMAIN summary' = DOMAIN summary /\ (summary'.cancelled \/ summary'.truncated)
    BY <2>1 DEF SweepShape
  <2>3. SweepShape'
    <3>1. heap' \in Seq([path : Path, depth : Nat]) /\ turn' = "walking" /\ Targets' = Targets
      BY <2>1, EmptySeq DEF Targets
    <3>. HIDE <1>2
    <3>. QED  BY <2>1, <2>2, <3>1 DEF SweepShape
  <2>. QED  BY <2>2, <2>3 DEF SweepInv, Cares, Broken
<1>. QED  BY <1>1, <1>2

\* Where a walk to a due file may be: at the file, or at a folder that it will list.
LEMMA OnTheWay ==
  ASSUME TreeInv, SweepShape, NEW p \in Path, Due(p), NEW d \in Path, NEW k \in Nat, Toward(d, k, p)
  PROVE  \/ d = p /\ Kind(d) = "file"
         \/ /\ d \in Above(p) /\ Kind(d) = "dir" /\ k < scope.depth
            /\ Len(p) - Len(d) + k <= scope.depth
<1>1. CASE d = p
  BY <1>1 DEF Due
<1>2. CASE Below(d, p) /\ Len(p) - Len(d) + k <= scope.depth
  <2>1. d \in Above(p) /\ Kind(d) = "dir"
    BY <1>2, BelowIs, FoldersAbove
  <2>2. Len(d) \in Nat /\ Len(p) \in Nat /\ Len(d) < Len(p) /\ scope.depth \in Nat
    BY <2>1, AboveOrder, ScopeIs
  <2>3. Len(p) - Len(d) + k <= scope.depth => k < scope.depth
    BY ONLY <2>2, k \in Nat
  <2>. QED  BY <1>2, <2>1, <2>3
<1>. QED  BY <1>1, <1>2 DEF Toward

\* The heap holds places to go to.
LEMMA HeapIs ==
  ASSUME SweepShape, heap # <<>>
  PROVE  /\ Last(heap).path \in Path /\ Last(heap).depth \in Nat
         /\ Front(heap) \in Seq([path : Path, depth : Nat])
<1>1. heap \in Seq([path : Path, depth : Nat])
  BY DEF SweepShape
<1>2. Last(heap) \in [path : Path, depth : Nat] /\ Front(heap) \in Seq([path : Path, depth : Nat])
  BY <1>1, FrontAndLast
<1>. QED  BY <1>2

\* What is ahead stays ahead, unless it was to be come to from the path at hand.
LEMMA AheadPop ==
  ASSUME SweepShape, heap # <<>>, turn # "idle", UNCHANGED <<scope, targets>>, NEW rest,
         heap' = Front(heap) \o rest, rest \in Seq([path : Path, depth : Nat]), NEW p, Ahead(p)
  PROVE  Ahead(p)' \/ Toward(Last(heap).path, Last(heap).depth, p)
<1>1. CASE \E n \in targets : Toward(Targets[n], 0, p)
  BY <1>1 DEF Ahead, Toward, Targets
<1>2. CASE \E i \in DOMAIN heap : Toward(heap[i].path, heap[i].depth, p)
  <2>1. PICK i \in DOMAIN heap : Toward(heap[i].path, heap[i].depth, p)
    BY <1>2
  <2>. DEFINE f == Front(heap)
  <2>2. /\ DOMAIN f = DOMAIN heap \ {Len(heap)} /\ Last(heap) = heap[Len(heap)]
        /\ \A j \in DOMAIN f : f[j] = heap[j]
        /\ f \in Seq([path : Path, depth : Nat])
    <3>1. heap \in Seq([path : Path, depth : Nat])
      BY DEF SweepShape
    <3>. QED  BY <3>1, FrontAndLast
  <2>. HIDE DEF f
  <2>3. \A j \in DOMAIN f : j \in DOMAIN (f \o rest) /\ (f \o rest)[j] = f[j]
    BY <2>2, ConcatIs
  <2>4. CASE i = Len(heap)
    BY <2>1, <2>2, <2>4
  <2>5. CASE i # Len(heap)
    <3>1. i \in DOMAIN heap' /\ heap'[i] = heap[i]
      BY <2>2, <2>3, <2>5 DEF f
    <3>. QED  BY <2>1, <3>1 DEF Ahead, Toward
  <2>. QED  BY <2>4, <2>5
<1>. QED  BY <1>1, <1>2 DEF Ahead

\* What is left of the heap is a heap.
LEMMA PopIs ==
  ASSUME SweepShape, heap # <<>>, heap' = Front(heap)
  PROVE  heap' = Front(heap) \o <<>> /\ heap' \in Seq([path : Path, depth : Nat])
BY HeapIs, ConcatEmptySeq

\* An entry that is looked at is a file to take in hand, a folder to list or nothing due.
LEMMA LookKeeps ==
  ASSUME TreeInv, SweepInv, Look, UNCHANGED treeVars
  PROVE  SweepInv'
<1>. SweepShape /\ Cares
  BY DEF SweepInv
<1>. DEFINE e == Last(heap)
<1>1. turn = "walking" /\ heap # <<>> /\ UNCHANGED <<scope, targets, dropped, findings>> /\ Targets' = Targets
  BY DEF Look, Targets
<1>2. e.path \in Path /\ e.depth \in Nat
  BY <1>1, HeapIs
<1>3. \A q, t : Told(q, t) => Told(q, t)'
  BY <1>1 DEF Told
<1>4. \A q \in Path : (Excused(q) => Excused(q)') /\ (Answered(q) => Answered(q)') /\ ~InHand(q)
  BY <1>1, <1>3, StillTold DEF InHand
<1>. HIDE DEF e
<1>5. CASE /\ \/ Kind(e.path) \in {"absent", "link"}
              \/ Kind(e.path) = "dir" /\ e.depth >= scope.depth
              \/ Kind(e.path) = "file" /\ e.path \in seen
           /\ heap' = Front(heap) /\ UNCHANGED <<turn, seen, hand, summary>>
  <2>1. heap' = Front(heap) \o <<>> /\ heap' \in Seq([path : Path, depth : Nat])
    BY <1>1, <1>5, PopIs
  <2>2. SweepShape'
    BY <1>1, <1>5, <2>1 DEF SweepShape, Broken
  <2>3. ASSUME ~Broken', NEW p \in Path, Due(p)'
        PROVE  Cared(p)'
    <3>1. Due(p) /\ Cared(p)
      BY <1>1, <1>5, <2>3, DueStays DEF Cares, Broken
    <3>2. CASE p \in seen
      BY <1>4, <1>5, <3>1, <3>2 DEF Cared
    <3>3. CASE p \notin seen /\ Ahead(p)
      <4>1. Ahead(p)' \/ Toward(e.path, e.depth, p)
        BY <1>1, <2>1, <3>3, AheadPop, EmptySeq DEF e
      <4>2. ~Toward(e.path, e.depth, p)
        BY <1>2, <1>5, <3>1, <3>3, OnTheWay, ScopeIs
      <4>. QED  BY <1>5, <3>3, <4>1, <4>2 DEF Cared
    <3>4. CASE p \notin seen /\ Excused(p)
      BY <1>4, <1>5, <3>4 DEF Cared
    <3>. QED  BY <3>1, <3>2, <3>3, <3>4 DEF Cared
  <2>. QED  BY <2>2, <2>3 DEF SweepInv, Cares
<1>6. CASE Kind(e.path) = "dir" /\ e.depth < scope.depth /\ turn' = "listing" /\ UNCHANGED <<heap, seen, hand, summary>>
  <2>1. ~Due(Last(heap).path)'
    BY <1>1, <1>6 DEF Due, Kind, treeVars, e
  <2>2. SweepShape'
    BY <1>1, <1>6, <2>1 DEF SweepShape, Broken, e
  <2>3. ASSUME ~Broken', NEW p \in Path, Due(p)'
        PROVE  Cared(p)'
    <3>1. Due(p) /\ Cared(p)
      BY <1>1, <1>6, <2>3, DueStays DEF Cares, Broken
    <3>2. Ahead(p) => Ahead(p)'
      BY <1>1, <1>6 DEF Ahead, Toward
    <3>. QED  BY <1>4, <1>6, <3>1, <3>2 DEF Cared
  <2>. QED  BY <2>2, <2>3 DEF SweepInv, Cares
<1>7. CASE /\ Kind(e.path) = "file" /\ e.path \notin seen /\ turn' = "opening" /\ heap' = Front(heap)
           /\ seen' = seen \cup {e.path} /\ summary' = [summary EXCEPT !.scanned = @ + 1]
           /\ hand' = [EmptyHanded EXCEPT !.path = e.path, !.hint = Bytes(tree[e.path])]
  <2>1. heap' = Front(heap) \o <<>> /\ heap' \in Seq([path : Path, depth : Nat])
    BY <1>1, <1>7, PopIs
  <2>2. DOMAIN summary' = DOMAIN summary /\ (Broken' <=> Broken)
    BY <1>7 DEF SweepShape, Broken
  <2>3. /\ DOMAIN hand' = DOMAIN hand /\ hand'.out \in Seq(ScannedFinding)
        /\ hand'.path = e.path /\ hand'.sha256 = NoHash
    BY <1>7 DEF SweepShape, EmptyHanded
  <2>4. SweepShape'
    BY <1>1, <1>2, <1>7, <2>1, <2>2, <2>3 DEF SweepShape
  <2>5. ASSUME ~Broken', NEW p \in Path, Due(p)'
        PROVE  Cared(p)'
    <3>1. Due(p) /\ Cared(p)
      BY <1>1, <2>2, <2>5, DueStays DEF Cares
    <3>2. CASE p \in seen
      BY <1>4, <1>7, <3>1, <3>2 DEF Cared
    <3>3. CASE p = e.path
      BY <1>7, <2>3, <3>3 DEF Cared, InHand
    <3>4. CASE p \notin seen' /\ Ahead(p)
      <4>1. Ahead(p)' \/ Toward(e.path, e.depth, p)
        BY <1>1, <2>1, <3>4, AheadPop, EmptySeq DEF e
      <4>2. ~Toward(e.path, e.depth, p)
        BY <1>2, <1>7, <3>1, <3>4, OnTheWay, ScopeIs
      <4>. QED  BY <3>4, <4>1, <4>2 DEF Cared
    <3>5. CASE p \notin seen' /\ Excused(p)
      BY <1>4, <3>5 DEF Cared
    <3>. QED  BY <1>7, <3>1, <3>2, <3>3, <3>4, <3>5 DEF Cared
  <2>. QED  BY <2>4, <2>5 DEF SweepInv, Cares
<1>. QED  BY <1>5, <1>6, <1>7 DEF Look, Pop, e

\* A place that cannot be looked at is told as unavailable, which excuses what is below.
LEMMA LookFailsKeeps ==
  ASSUME TreeInv, SweepInv, LookFails, UNCHANGED treeVars
  PROVE  SweepInv'
<1>. SweepShape /\ Cares
  BY DEF SweepInv
<1>. DEFINE e == Last(heap)  out == <<Finding(e.path, "Unavailable", NoHash)>>
<1>1. /\ turn = "walking" /\ heap # <<>> /\ UNCHANGED <<turn, scope, targets, seen, dropped, hand>>
      /\ Targets' = Targets /\ heap' = Front(heap) /\ Tell(out)
  BY DEF LookFails, Pop, Targets
<1>2. e.path \in Path /\ e.depth \in Nat
  BY <1>1, HeapIs
<1>3. heap' = Front(heap) \o <<>> /\ heap' \in Seq([path : Path, depth : Nat])
  BY <1>1, PopIs
<1>. HIDE DEF e
<1>4. out \in Seq(ScannedFinding) /\ Among(out, e.path, "Unavailable")
  BY <1>2, OneFinding DEF Evidence
<1>. HIDE DEF out
<1>5. /\ findings' \in Seq(ScannedFinding) /\ DOMAIN summary' = DOMAIN summary
      /\ ~Broken' => ~Broken /\ \A q, t : Told(q, t) \/ Among(out, q, t) => Told(q, t)'
  BY <1>1, <1>4, TellTells
<1>6. SweepShape'
  BY <1>1, <1>3, <1>5 DEF SweepShape
<1>7. ASSUME ~Broken', NEW p \in Path, Due(p)'
      PROVE  Cared(p)'
  <2>1. Due(p) /\ Cared(p)
    BY <1>1, <1>5, <1>7, DueStays DEF Cares
  <2>2. (Excused(p) => Excused(p)') /\ (Answered(p) => Answered(p)') /\ ~InHand(p)
    BY <1>1, <1>5, <1>7, StillTold DEF InHand
  <2>3. CASE p \notin seen /\ Ahead(p)
    <3>1. Ahead(p)' \/ Toward(e.path, e.depth, p)
      BY <1>1, <1>3, <2>3, AheadPop, EmptySeq DEF e
    <3>2. Toward(e.path, e.depth, p) => \E q \in {p} \cup Above(p) : q = e.path
      BY <1>2, <2>1, OnTheWay
    <3>3. \A q : q = e.path => Told(q, "Unavailable")'
      BY <1>4, <1>5, <1>7
    <3>. QED  BY <1>1, <2>3, <3>1, <3>2, <3>3 DEF Cared, Excused
  <2>. QED  BY <1>1, <2>1, <2>2, <2>3 DEF Cared
<1>. QED  BY <1>6, <1>7 DEF SweepInv, Cares

\* A listed folder leaves all its children ahead but those it loses, and one that cannot be listed is told.
LEMMA ListKeeps ==
  ASSUME TreeInv, SweepInv, List, UNCHANGED treeVars
  PROVE  SweepInv'
<1>. SweepShape /\ Cares
  BY DEF SweepInv
<1>. DEFINE e == Last(heap)  front == Front(heap)
<1>1. /\ turn = "listing" /\ turn' = "walking" /\ heap # <<>> /\ UNCHANGED <<scope, targets, seen, hand>>
      /\ Targets' = Targets /\ e.depth < scope.depth /\ ~Due(e.path)
  BY DEF List, Targets, SweepShape
<1>0. \A p : Due(p)' => Due(p)
  <2>1. dropped \subseteq dropped'
    BY DEF List
  <2>. QED  BY <1>1, <2>1 DEF treeVars, Due, Left, InScope, Listed, Kind
<1>2. e.path \in Path /\ e.depth \in Nat /\ front \in Seq([path : Path, depth : Nat]) /\ scope.depth \in Nat
  BY <1>1, HeapIs, ScopeIs
<1>3. /\ \/ /\ Kind(e.path) \in {"dir", "link"} /\ e.path \notin denied
            /\ \E lost \in SUBSET Children(e.path) : \E s \in Orders(Children(e.path) \ lost) :
                 /\ heap' = front \o [n \in DOMAIN s |-> [path |-> s[n], depth |-> e.depth + 1]]
                 /\ dropped' = dropped \cup lost
            /\ UNCHANGED <<findings, summary>>
         \/ heap' = front /\ Tell(<<Finding(e.path, "Unavailable", NoHash)>>)
  BY DEF List, Pop
<1>4. ASSUME NEW p \in Path, Due(p), Toward(e.path, e.depth, p)
      PROVE  e.path \in Above(p) /\ Len(p) - Len(e.path) + e.depth <= scope.depth
  BY <1>1, <1>2, <1>4, OnTheWay
<1>5. CASE /\ \E lost \in SUBSET Children(e.path) : \E s \in Orders(Children(e.path) \ lost) :
                 /\ heap' = front \o [n \in DOMAIN s |-> [path |-> s[n], depth |-> e.depth + 1]]
                 /\ dropped' = dropped \cup lost
           /\ UNCHANGED <<findings, summary>>
  <2>0. PICK lost \in SUBSET Children(e.path) : \E s \in Orders(Children(e.path) \ lost) :
               /\ heap' = front \o [n \in DOMAIN s |-> [path |-> s[n], depth |-> e.depth + 1]]
               /\ dropped' = dropped \cup lost
    BY <1>5
  <2>1. PICK s \in Orders(Children(e.path) \ lost) :
               /\ heap' = front \o [n \in DOMAIN s |-> [path |-> s[n], depth |-> e.depth + 1]]
               /\ dropped' = dropped \cup lost
    BY <2>0
  <2>. DEFINE rest == [n \in DOMAIN s |-> [path |-> s[n], depth |-> e.depth + 1]]
  <2>. HIDE DEF e
  <2>2. /\ rest \in Seq([path : Path, depth : Nat])
        /\ \A c \in Children(e.path) \ lost : \E n \in DOMAIN s : s[n] = c
    <3>1. e.path \in Path /\ e.depth + 1 \in Nat
      BY <1>2
    <3>. DEFINE C == Children(e.path) \ lost  k == e.depth + 1
    <3>2. s \in Orders(C) /\ C \subseteq Path
      BY DEF Children
    <3>. HIDE DEF C, k
    <3>3. /\ [n \in DOMAIN s |-> [path |-> s[n], depth |-> k]] \in Seq([path : Path, depth : Nat])
          /\ \A c \in C : \E n \in DOMAIN s : s[n] = c
      <4>1. k \in Nat
        BY <3>1 DEF k
      <4>. DEFINE m0 == Cardinality(C)  T == [path : Path, depth : Nat]
      <4>2. m0 \in Nat
        BY <3>2, TreeAssumption, FS_Subset, FS_CardinalityType
      <4>3. s \in [1..m0 -> C] /\ Range(s) = C
        BY <3>2, Zenon DEF Orders
      <4>. HIDE DEF m0
      <4>4. [n \in DOMAIN s |-> [path |-> s[n], depth |-> k]] \in [1..m0 -> T]
        BY <3>2, <4>1, <4>3
      <4>5. \A c \in C : \E n \in DOMAIN s : s[n] = c
        BY <4>3 DEF Range
      <4>6. [1..m0 -> T] \subseteq Seq(T)
        <5>1. Seq(T) = UNION {[1..n -> T] : n \in Nat}
          BY SeqDef, Zenon
        <5>. HIDE DEF T
        <5>. QED  BY <4>2, <5>1
      <4>. QED  BY <4>4, <4>5, <4>6
    <3>. QED  BY <3>3 DEF C, k
  <2>3. /\ DOMAIN rest = DOMAIN s
        /\ \A n \in DOMAIN s : rest[n].path = s[n] /\ rest[n].depth = e.depth + 1
    OBVIOUS
  <2>. HIDE DEF front, rest
  <2>4. /\ heap' = front \o rest /\ heap' \in Seq([path : Path, depth : Nat])
        /\ \A n \in DOMAIN rest : Len(front) + n \in DOMAIN heap' /\ heap'[Len(front) + n] = rest[n]
    <3>1. heap' = front \o rest
      BY <2>1 DEF rest
    <3>. QED  BY <1>2, <2>2, <3>1, ConcatIs
  <2>5. SweepShape'
    BY <1>1, <1>5, <2>4 DEF SweepShape
  <2>6. ASSUME NEW p \in Path, Due(p), Listed(p)', Toward(e.path, e.depth, p)
        PROVE  Ahead(p)'
    <3>1. e.path \in Above(p) /\ Len(p) - Len(e.path) + e.depth <= scope.depth
      BY <1>4, <2>6
    <3>2. PICK c \in {p} \cup Above(p) : c \in Path /\ Len(c) = Len(e.path) + 1 /\ Within(e.path, c)
      BY <3>1, NextDown
    <3>3. Exists(c)
      BY <2>6, <3>2, FoldersAbove DEF Exists, Due
    <3>4. c \in Children(e.path) \ lost
      BY <2>1, <2>6, <3>2, <3>3 DEF Children, Listed
    <3>5. PICK n \in DOMAIN s : s[n] = c
      BY <2>2, <3>4
    <3>6. Toward(c, e.depth + 1, p)
      <4>1. CASE c = p
        BY <4>1 DEF Toward
      <4>2. CASE c \in Above(p)
        <5>1. Below(c, p)
          BY <3>2, <4>2, BelowIs
        <5>2. Len(p) \in Nat /\ Len(c) \in Nat /\ Len(e.path) \in Nat
          BY <3>1, <4>2, AboveOrder
        <5>3. Len(p) - Len(c) + (e.depth + 1) <= scope.depth
          BY <1>2, <3>1, <3>2, <5>2
        <5>. QED  BY <5>1, <5>3 DEF Toward
      <4>. QED  BY <3>2, <4>1, <4>2
    <3>7. Len(front) + n \in DOMAIN heap' /\ heap'[Len(front) + n].path = c /\ heap'[Len(front) + n].depth = e.depth + 1
      BY <2>3, <2>4, <3>5
    <3>. QED  BY <1>1, <3>6, <3>7 DEF Ahead, Toward
  <2>7. ASSUME ~Broken', NEW p \in Path, Due(p)'
        PROVE  Cared(p)'
    <3>1. Due(p) /\ Cared(p) /\ Listed(p)'
      BY <1>0, <1>1, <1>5, <2>7 DEF Cares, Broken, Due
    <3>2. \A q, t : Told(q, t) => Told(q, t)'
      BY <1>5 DEF Told
    <3>3. (Excused(p) => Excused(p)') /\ (Answered(p) => Answered(p)') /\ ~InHand(p)
      BY <1>1, <3>2, StillTold DEF InHand
    <3>4. Ahead(p) => Ahead(p)' \/ Toward(e.path, e.depth, p)
      BY <1>1, <2>2, <2>4, AheadPop DEF e, front
    <3>. QED  BY <1>1, <2>6, <3>1, <3>3, <3>4 DEF Cared
  <2>. QED  BY <2>5, <2>7 DEF SweepInv, Cares
<1>6. CASE heap' = front /\ Tell(<<Finding(e.path, "Unavailable", NoHash)>>)
  <2>. DEFINE out == <<Finding(e.path, "Unavailable", NoHash)>>
  <2>1. heap' = Front(heap) \o <<>> /\ heap' \in Seq([path : Path, depth : Nat])
    BY <1>1, <1>6, PopIs
  <2>. HIDE DEF e
  <2>2. out \in Seq(ScannedFinding) /\ Among(out, e.path, "Unavailable")
    BY <1>2, OneFinding DEF Evidence
  <2>. HIDE DEF out
  <2>3. /\ findings' \in Seq(ScannedFinding) /\ DOMAIN summary' = DOMAIN summary
        /\ ~Broken' => ~Broken /\ \A q, t : Told(q, t) \/ Among(out, q, t) => Told(q, t)'
    BY <1>6, <2>2, TellTells DEF out
  <2>4. SweepShape'
    BY <1>1, <2>1, <2>3 DEF SweepShape
  <2>5. ASSUME ~Broken', NEW p \in Path, Due(p)'
        PROVE  Cared(p)'
    <3>1. Due(p) /\ Cared(p)
      BY <1>0, <1>1, <2>3, <2>5 DEF Cares
    <3>2. (Excused(p) => Excused(p)') /\ (Answered(p) => Answered(p)') /\ ~InHand(p)
      BY <1>1, <2>3, <2>5, StillTold DEF InHand
    <3>3. CASE p \notin seen /\ Ahead(p)
      <4>1. Ahead(p)' \/ Toward(e.path, e.depth, p)
        BY <1>1, <2>1, <3>3, AheadPop, EmptySeq DEF e
      <4>2. Toward(e.path, e.depth, p) => \E q \in {p} \cup Above(p) : q = e.path
        BY <1>4, <3>1
      <4>3. \A q : q = e.path => Told(q, "Unavailable")'
        BY <2>2, <2>3, <2>5
      <4>. QED  BY <1>1, <3>3, <4>1, <4>2, <4>3 DEF Cared, Excused
    <3>. QED  BY <1>1, <3>1, <3>2, <3>3 DEF Cared
  <2>. QED  BY <2>4, <2>5 DEF SweepInv, Cares
<1>. QED  BY <1>3, <1>5, <1>6

\* What a judged file must come to.
Settles(out, p) ==
    \/ Among(out, p, "Unavailable")
    \/ /\ Hits(tree[p].data) \/ Last(p) \in KnownName => Among(out, p, "Deterministic")
       /\ Heuristics(p, tree[p].data \in MZ, Signer[tree[p].data]) # {} /\ tree[p].data \notin scope.allowlist
          => Among(out, p, "Heuristic")

\* A file that is done with is answered for by what it came to.
LEMMA FileDoneKeeps ==
  ASSUME TreeInv, SweepInv, NEW out \in Seq(ScannedFinding), FileDone(out), UNCHANGED treeVars,
         turn \in {"opening", "reading", "judging"},
         \A p \in Path : Due(p) /\ InHand(p) => Settles(out, p)
  PROVE  SweepInv'
<1>. SweepShape /\ Cares
  BY DEF SweepInv
<1>1. /\ Tell(out) /\ turn' = "walking" /\ hand' = EmptyHanded
      /\ UNCHANGED <<scope, targets, heap, seen, dropped>> /\ Targets' = Targets
  BY DEF FileDone, Targets
<1>2. /\ findings' \in Seq(ScannedFinding) /\ DOMAIN summary' = DOMAIN summary
      /\ ~Broken' => ~Broken /\ \A q, t : Told(q, t) \/ Among(out, q, t) => Told(q, t)'
  BY <1>1, TellTells
<1>3. /\ DOMAIN EmptyHanded = DOMAIN hand /\ EmptyHanded.out \in Seq(ScannedFinding)
      /\ EmptyHanded.path \in Path /\ EmptyHanded.sha256 = NoHash
  BY TreeAssumption DEF SweepShape, EmptyHanded
<1>4. SweepShape'
  BY <1>1, <1>2, <1>3 DEF SweepShape
<1>5. ASSUME ~Broken', NEW p \in Path, Due(p)'
      PROVE  Cared(p)'
  <2>1. Due(p) /\ Cared(p) /\ turn # "unused"
    BY <1>1, <1>2, <1>5, DueStays DEF Cares
  <2>2. (Excused(p) => Excused(p)') /\ (Answered(p) => Answered(p)') /\ (Ahead(p) => Ahead(p)')
    <3>1. Ahead(p) => Ahead(p)'
      BY <1>1 DEF Ahead, Toward
    <3>. QED  BY <1>1, <1>2, <1>5, <3>1, StillTold
  <2>3. CASE InHand(p)
    <3>1. Settles(out, p)
      BY <2>1, <2>3
    <3>2. Among(out, p, "Unavailable") => Excused(p)'
      BY <1>2, <1>5 DEF Excused
    <3>3. CASE ~Among(out, p, "Unavailable")
      <4>1. tree' = tree
        BY DEF treeVars
      <4>2. /\ Among(out, p, "Deterministic") => Told(p, "Deterministic")'
            /\ Among(out, p, "Heuristic") => Told(p, "Heuristic")'
        BY <1>2, <1>5
      <4>3. Answered(p)'
        BY <1>1, <3>1, <3>3, <4>1, <4>2 DEF Answered, Settles, Heuristics
      <4>. QED  BY <2>1, <2>2, <4>3, <1>1 DEF Cared
    <3>4. Excused(p)' => Cared(p)'
      BY DEF Cared
    <3>. QED  BY <3>2, <3>3, <3>4
  <2>. QED  BY <1>1, <2>1, <2>2, <2>3 DEF Cared
<1>. QED  BY <1>4, <1>5 DEF SweepInv, Cares

\* A known name alone makes a deterministic finding.
LEMMA NameHitsAre ==
  ASSUME NEW p \in Path
  PROVE  /\ NameHits(p) \in Seq(ScannedFinding)
         /\ Last(p) \in KnownName => NameHits(p) # <<>> /\ Among(NameHits(p), p, "Deterministic")
BY OneFinding DEF NameHits, Evidence

\* A file that cannot be read is told as unavailable.
LEMMA UnavailableIs ==
  ASSUME SweepShape
  PROVE  Unavailable \in Seq(ScannedFinding) /\ Among(Unavailable, hand.path, "Unavailable")
<1>. DEFINE one == <<Finding(hand.path, "Unavailable", NoHash)>>
<1>1. one \in Seq(ScannedFinding) /\ Among(one, hand.path, "Unavailable")
  BY OneFinding DEF SweepShape, Evidence
<1>. HIDE DEF one
<1>2. hand.out \o one \in Seq(ScannedFinding) /\ Among(hand.out \o one, hand.path, "Unavailable")
  BY <1>1, AmongBoth DEF SweepShape
<1>. QED  BY <1>2 DEF Unavailable, one

\* A step on the file in hand that tells nothing yet.
LEMMA HandKeeps ==
  ASSUME TreeInv, SweepInv, UNCHANGED <<scope, targets, heap, seen, dropped, summary, findings>>, UNCHANGED treeVars,
         turn \in {"opening", "reading"}, turn' \in {"reading", "judging"},
         DOMAIN hand' = DOMAIN hand, hand'.out \in Seq(ScannedFinding), hand'.path = hand.path,
         hand'.sha256 \in Data \cup {Mixed, NoHash},
         \A p \in Path : Due(p) /\ InHand(p) => InHand(p)'
  PROVE  SweepInv'
<1>. SweepShape /\ Cares
  BY DEF SweepInv
<1>1. Targets' = Targets /\ (Broken' <=> Broken)
  BY DEF Targets, Broken
<1>2. SweepShape'
  BY <1>1 DEF SweepShape
<1>3. ASSUME ~Broken', NEW p \in Path, Due(p)'
      PROVE  Cared(p)'
  <2>1. Due(p) /\ Cared(p)
    BY <1>1, <1>3, DueStays DEF Cares
  <2>2. \A q, t : Told(q, t) => Told(q, t)'
    BY DEF Told
  <2>3. (Excused(p) => Excused(p)') /\ (Answered(p) => Answered(p)')
    BY <2>2, StillTold
  <2>4. Ahead(p) => Ahead(p)'
    BY <1>1 DEF Ahead, Toward
  <2>. QED  BY <2>1, <2>3, <2>4 DEF Cared
<1>. QED  BY <1>2, <1>3 DEF SweepInv, Cares

\* A file that opens is the one that was looked at, or else it is told as unavailable.
LEMMA OpenKeeps ==
  ASSUME TreeInv, SweepInv, OpenFile \/ OpenFails, UNCHANGED treeVars
  PROVE  SweepInv'
<1>. SweepShape
  BY DEF SweepInv
<1>1. CASE OpenFile
  <2>1. /\ turn = "opening" /\ turn' = "reading"
        /\ hand' = [hand EXCEPT !.opened = tree[hand.path], !.out = NameHits(hand.path)]
        /\ UNCHANGED <<scope, targets, heap, seen, dropped, summary, findings>>
    BY <1>1 DEF OpenFile
  <2>2. /\ DOMAIN hand' = DOMAIN hand /\ hand'.path = hand.path /\ hand'.sha256 = hand.sha256
        /\ hand'.opened = tree[hand.path] /\ hand'.out = NameHits(hand.path)
    BY <2>1 DEF SweepShape
  <2>3. hand.path \in Path /\ hand.sha256 \in Data \cup {Mixed, NoHash}
    BY DEF SweepShape
  <2>4. \A p \in Path : InHand(p) => InHand(p)'
    BY <2>1, <2>2 DEF InHand, NameHits, Finding, treeVars
  <2>. QED  BY <2>1, <2>2, <2>3, <2>4, HandKeeps, NameHitsAre
<1>2. CASE OpenFails
  <2>. DEFINE one == <<Finding(hand.path, "Unavailable", NoHash)>>
              out == NameHits(hand.path) \o one
  <2>1. turn = "opening" /\ FileDone(out)
    BY <1>2 DEF OpenFails
  <2>2. one \in Seq(ScannedFinding) /\ Among(one, hand.path, "Unavailable") /\ NameHits(hand.path) \in Seq(ScannedFinding)
    BY OneFinding, NameHitsAre DEF SweepShape, Evidence
  <2>. HIDE DEF one
  <2>3. out \in Seq(ScannedFinding) /\ Among(out, hand.path, "Unavailable")
    BY <2>2, AmongBoth
  <2>. HIDE DEF out
  <2>4. \A p \in Path : InHand(p) => Settles(out, p)
    BY <2>3 DEF InHand, Settles
  <2>. QED  BY <2>1, <2>3, <2>4, FileDoneKeeps
<1>. QED  BY <1>1, <1>2

\* A read that stops early tells so; a header alone tells nothing yet.
LEMMA StopsKeep ==
  ASSUME TreeInv, SweepInv, ReadHeader \/ ReadStops, UNCHANGED treeVars
  PROVE  SweepInv'
<1>. SweepShape
  BY DEF SweepInv
<1>1. CASE ReadHeader
  <2>1. /\ turn = "reading" /\ turn' = "judging"
        /\ \E v : hand' = [hand EXCEPT !.mz = v, !.out = Unavailable]
        /\ UNCHANGED <<scope, targets, heap, seen, dropped, summary, findings>>
    BY <1>1 DEF ReadHeader
  <2>2. /\ DOMAIN hand' = DOMAIN hand /\ hand'.path = hand.path /\ hand'.sha256 = hand.sha256
        /\ hand'.out = Unavailable
    BY <2>1 DEF SweepShape
  <2>3. hand.sha256 \in Data \cup {Mixed, NoHash}
    BY DEF SweepShape
  <2>4. \A p \in Path : InHand(p) => InHand(p)'
    <3>1. Among(hand'.out, hand.path, "Unavailable")
      BY <2>2, UnavailableIs
    <3>. QED  BY <2>1, <2>2, <3>1 DEF InHand, Among
  <2>. QED  BY <2>1, <2>2, <2>3, <2>4, HandKeeps, UnavailableIs
<1>2. CASE ReadStops
  <2>1. turn = "reading" /\ FileDone(Unavailable)
    BY <1>2 DEF ReadStops
  <2>2. \A p \in Path : InHand(p) => Settles(Unavailable, p)
    BY UnavailableIs DEF InHand, Settles
  <2>. QED  BY <2>1, <2>2, FileDoneKeeps, UnavailableIs
<1>. QED  BY <1>1, <1>2

\* The hash of a due file is that of the contents it still has.
LEMMA HashKeeps ==
  ASSUME TreeInv, SweepInv, NEW data \in Data \cup {Mixed}, HashFile(data), UNCHANGED treeVars
  PROVE  SweepInv'
<1>. SweepShape
  BY DEF SweepInv
<1>. DEFINE marked == [n \in DOMAIN hand.out |-> [hand.out[n] EXCEPT !.sha256 = data]]
            hit == IF Hits(data) THEN <<Finding(hand.path, "Deterministic", data)>> ELSE <<>>
            mz == data \in MZ \/ (data = Mixed /\ hand.opened.data \in MZ)
<1>1. /\ turn = "reading" /\ turn' = "judging" /\ data \in Readable
      /\ hand' = [hand EXCEPT !.sha256 = data, !.mz = mz, !.out = marked \o hit]
      /\ UNCHANGED <<scope, targets, heap, seen, dropped, summary, findings>>
  BY DEF HashFile
<1>2. /\ marked \in Seq(ScannedFinding)
      /\ \A p, e : Among(hand.out, p, e) => Among(marked, p, e)
  <2>1. hand.out \in Seq(ScannedFinding)
    BY DEF SweepShape
  <2>. DEFINE T == ScannedFinding
  <2>2. Len(hand.out) \in Nat /\ DOMAIN hand.out = 1..Len(hand.out)
    BY <2>1, LenProperties
  <2>3. ASSUME NEW n \in DOMAIN hand.out
        PROVE  /\ marked[n] \in ScannedFinding /\ marked[n].path = hand.out[n].path
               /\ marked[n].evidence = hand.out[n].evidence
    <3>1. hand.out[n] \in ScannedFinding
      BY <2>1, <2>2, ElementOfSeq
    <3>. QED  BY <3>1 DEF ScannedFinding
  <2>4. DOMAIN marked = DOMAIN hand.out
    OBVIOUS
  <2>5. marked \in [1..Len(hand.out) -> ScannedFinding]
    BY <2>2, <2>3
  <2>. HIDE DEF marked
  <2>6. marked \in Seq(ScannedFinding)
    <3>1. Seq(T) = UNION {[1..n -> T] : n \in Nat}
      BY SeqDef, Zenon
    <3>. HIDE DEF T
    <3>2. \A n \in Nat : [1..n -> T] \subseteq Seq(T)
      BY <3>1
    <3>. QED  BY <2>2, <2>5, <3>2 DEF T
  <2>. QED  BY <2>3, <2>4, <2>6 DEF Among
<1>3. hit \in Seq(ScannedFinding) /\ (Hits(data) => Among(hit, hand.path, "Deterministic"))
  <2>1. hand.path \in Path
    BY DEF SweepShape
  <2>. QED  BY <2>1, OneFinding, EmptySeq DEF Evidence
<1>. HIDE DEF marked, hit
<1>4. /\ marked \o hit \in Seq(ScannedFinding)
      /\ \A p, e : Among(marked, p, e) \/ Among(hit, p, e) => Among(marked \o hit, p, e)
  BY <1>2, <1>3, AmongBoth
<1>5. /\ DOMAIN hand' = DOMAIN hand /\ hand'.path = hand.path /\ hand'.sha256 = data
      /\ hand'.out = marked \o hit /\ (hand'.mz <=> mz)
  BY <1>1 DEF SweepShape
<1>6. ASSUME NEW p \in Path, Due(p), InHand(p)
      PROVE  InHand(p)'
  <2>1. /\ hand.path = p /\ hand.opened.id = tree[p].id /\ hand.opened.data = tree[p].data
        /\ hand.out = NameHits(p)
    BY <1>1, <1>6 DEF InHand
  <2>2. \A q \in Path : tree[q].id = hand.opened.id => tree[q].data = tree[p].data
    BY <2>1 DEF TreeInv
  <2>3. data = tree[p].data
    BY <1>1, <2>1, <2>2 DEF Readable
  <2>4. mz <=> tree[p].data \in MZ
    BY <2>1, <2>3
  <2>. HIDE DEF mz
  <2>5. Hits(data) \/ Last(p) \in KnownName => Among(marked \o hit, p, "Deterministic")
    BY <1>2, <1>3, <1>4, <2>1, NameHitsAre
  <2>6. tree' = tree
    BY DEF treeVars
  <2>. QED  BY <1>1, <1>5, <2>1, <2>3, <2>4, <2>5, <2>6 DEF InHand, Among
<1>. HIDE DEF mz
<1>. QED  BY <1>1, <1>4, <1>5, <1>6, HandKeeps

\* What the heuristics would say of the contents, they say of what was read of them.
LEMMA HeuristicsAgree ==
  ASSUME NEW p, NEW mz, NEW data, mz <=> data \in MZ, NEW s, NeedsSigner(p, mz) => s = Signer[data]
  PROVE  Heuristics(p, data \in MZ, Signer[data]) \subseteq Heuristics(p, mz, s)
BY DEF Heuristics, NeedsSigner

\* There are four heuristics.
LEMMA HeuristicsFinite ==
  ASSUME NEW p, NEW mz, NEW s
  PROVE  IsFiniteSet(Heuristics(p, mz, s))
<1>1. IsFiniteSet({"H001", "H002", "H004", "H005"})
  <2>1. {"H001", "H002", "H004", "H005"} = (({"H001"} \cup {"H002"}) \cup {"H004"}) \cup {"H005"}
    OBVIOUS
  <2>2. IsFiniteSet({"H001"})
    BY FS_Singleton, Zenon
  <2>3. \A S, x : IsFiniteSet(S) => IsFiniteSet(S \cup {x})
    BY FS_AddElement, Zenon
  <2>4. IsFiniteSet((({"H001"} \cup {"H002"}) \cup {"H004"}) \cup {"H005"})
    BY ONLY <2>2, <2>3, Zenon
  <2>. QED  BY ONLY <2>1, <2>4, Zenon
<1>2. Heuristics(p, mz, s) \in SUBSET {"H001", "H002", "H004", "H005"}
  BY DEF Heuristics
<1>. QED  BY <1>1, <1>2, FS_Subset

\* A judged due file comes to what its contents and its name ask for.
LEMMA JudgeKeeps ==
  ASSUME TreeInv, SweepInv, Judge, UNCHANGED treeVars
  PROVE  SweepInv'
<1>. SweepShape
  BY DEF SweepInv
<1>. DEFINE signer == IF NeedsSigner(hand.path, hand.mz) THEN Verify(hand.path) ELSE "NotApplicable"
            met == IF Allowed THEN {} ELSE Heuristics(hand.path, hand.mz, signer)
            told == [n \in 1 .. Cardinality(met) |-> Finding(hand.path, "Heuristic", hand.sha256)]
            rest == IF Unchecked(hand.path, hand.mz, signer)
                    THEN <<Finding(hand.path, "Unavailable", hand.sha256)>> ELSE <<>>
            out == hand.out \o told \o rest
<1>1. turn = "judging" /\ FileDone(out)
  BY DEF Judge
<1>2. hand.path \in Path /\ hand.sha256 \in Data \cup {Mixed, NoHash} /\ hand.out \in Seq(ScannedFinding)
  BY DEF SweepShape
<1>3. rest \in Seq(ScannedFinding)
  BY <1>2, OneFinding, EmptySeq DEF Evidence
<1>. HIDE DEF rest
<1>4. IsFiniteSet(met)
  BY HeuristicsFinite, FS_EmptySet
<1>. HIDE DEF met
<1>5. told \in Seq(ScannedFinding) /\ (met # {} => Among(told, hand.path, "Heuristic"))
  <2>1. Cardinality(met) \in Nat /\ (met # {} => 1 \in 1..Cardinality(met))
    BY <1>4, FS_CardinalityType, FS_EmptySet
  <2>2. Finding(hand.path, "Heuristic", hand.sha256) \in ScannedFinding
    BY <1>2 DEF Finding, ScannedFinding, Evidence
  <2>. DEFINE k == Cardinality(met)  T == ScannedFinding
  <2>3. told \in [1..k -> T]
    BY <2>2
  <2>4. met # {} => Among(told, hand.path, "Heuristic")
    BY <2>1 DEF Among, Finding
  <2>. HIDE DEF told, k, T
  <2>5. Seq(T) = UNION {[1..n -> T] : n \in Nat}
    BY SeqDef, Zenon
  <2>6. told \in Seq(T)
    BY <2>1, <2>3, <2>5 DEF k
  <2>. QED  BY <2>4, <2>6 DEF T
<1>. HIDE DEF told
<1>6. /\ out \in Seq(ScannedFinding)
      /\ \A p, e : Among(hand.out, p, e) \/ Among(told, p, e) => Among(out, p, e)
  <2>1. /\ hand.out \o told \in Seq(ScannedFinding)
        /\ \A p, e : Among(hand.out, p, e) \/ Among(told, p, e) => Among(hand.out \o told, p, e)
    BY <1>2, <1>5, AmongBoth
  <2>. QED  BY <1>3, <2>1, AmongBoth
<1>. HIDE DEF out
<1>7. ASSUME NEW p \in Path, Due(p), InHand(p)
      PROVE  Settles(out, p)
  <2>1. hand.path = p
    BY <1>7 DEF InHand
  <2>2. CASE Among(hand.out, p, "Unavailable")
    BY <1>6, <2>2 DEF Settles
  <2>3. CASE /\ hand.sha256 = tree[p].data /\ (hand.mz <=> tree[p].data \in MZ)
             /\ Hits(tree[p].data) \/ Last(p) \in KnownName => Among(hand.out, p, "Deterministic")
    <3>1. NeedsSigner(p, hand.mz) => signer = Signer[tree[p].data]
      BY <1>7, <2>1 DEF Verify, Due
    <3>. HIDE DEF signer
    <3>2. Heuristics(p, tree[p].data \in MZ, Signer[tree[p].data]) \subseteq Heuristics(p, hand.mz, signer)
      BY <2>3, <3>1, HeuristicsAgree
    <3>3. /\ Heuristics(p, tree[p].data \in MZ, Signer[tree[p].data]) # {} /\ tree[p].data \notin scope.allowlist
             => met # {}
      BY <2>1, <2>3, <3>2 DEF met, Allowed
    <3>. QED  BY <1>5, <1>6, <2>1, <2>3, <3>3 DEF Settles
  <2>. QED  BY <1>1, <1>7, <2>2, <2>3 DEF InHand
<1>. QED  BY <1>1, <1>6, <1>7, FileDoneKeeps

\* Every step of the scan keeps the invariant.
LEMMA SweepStepKeeps ==
  ASSUME TreeInv, SweepInv, SweepNext
  PROVE  TreeInv' /\ SweepInv'
<1>1. UNCHANGED treeVars
  BY DEF SweepNext
<1>2. TreeInv'
  BY <1>1, WorldKeeps
<1>3. \/ StartSweep \/ NextTarget \/ EndSweep \/ GivesUp \/ Look \/ LookFails \/ List
      \/ OpenFile \/ OpenFails \/ (\E data \in Data \cup {Mixed} : HashFile(data))
      \/ ReadHeader \/ ReadStops \/ Judge
  BY DEF SweepNext
<1>4. CASE StartSweep \/ NextTarget \/ EndSweep \/ GivesUp
  BY <1>1, <1>2, <1>4, StartSweepKeeps, NextTargetKeeps, EndsKeep
<1>5. CASE Look \/ LookFails \/ List
  BY <1>1, <1>2, <1>5, LookKeeps, LookFailsKeeps, ListKeeps
<1>6. CASE OpenFile \/ OpenFails \/ ReadHeader \/ ReadStops \/ Judge
  BY <1>1, <1>2, <1>6, OpenKeeps, StopsKeep, JudgeKeeps
<1>7. CASE \E data \in Data \cup {Mixed} : HashFile(data)
  BY <1>1, <1>2, <1>7, HashKeeps
<1>. QED  BY <1>2, <1>3, <1>4, <1>5, <1>6, <1>7

\* A scan that was not run yet has everything ahead.
LEMMA SweepStarts ==
  ASSUME NEW start \in Turn, start \in {"unused", "idle"}, NEW S, S \subseteq Sweep, SweepInit(start, S)
  PROVE  SweepInv
<1>1. /\ turn = start /\ scope \in Sweep /\ targets = {} /\ heap = <<>> /\ seen = {} /\ hand = EmptyHanded
      /\ summary = [scanned |-> 0, cancelled |-> FALSE, truncated |-> FALSE] /\ findings = <<>>
  BY DEF SweepInit
<1>2. SweepShape
  BY <1>1, TreeAssumption, EmptySeq DEF SweepShape, EmptyHanded
<1>3. Cares
  BY <1>1 DEF Cares, Cared, Ahead
<1>. QED  BY <1>2, <1>3 DEF SweepInv

\* What the invariant says of a report.
LEMMA ReportIsHonest ==
  ASSUME TreeInv, SweepInv
  PROVE  NothingOverlooked
<1>. SUFFICES ASSUME turn = "reported", ~Broken, NEW p \in Path, Listed(p), Kind(p) = "file", Left(p), InScope(p)
              PROVE  Excused(p) \/ Answered(p)
  BY DEF NothingOverlooked, Answers
<1>1. Due(p) /\ heap = <<>> /\ targets = {}
  BY DEF Due, SweepInv, SweepShape
<1>2. Cared(p)
  BY <1>1 DEF SweepInv, Cares
<1>3. ~Ahead(p) /\ ~InHand(p)
  BY <1>1 DEF Ahead, InHand
<1>. QED  BY <1>2, <1>3 DEF Cared

\* A report that claims neither a cancellation nor a limit answers for every file of its scope
\* that nothing was done to since the scan started: it tells what the contents and the name of
\* the file ask for, or that the file or a folder above it was unavailable.  Excepted are the
\* files that the enumeration of a folder on the way to them lost, which no report tells.
THEOREM ReportsOverlookNothing == FolderSpec => []NothingOverlooked
<1>1. FolderInit => TreeInv /\ SweepInv
  <2>. SUFFICES ASSUME FolderInit PROVE TreeInv /\ SweepInv
    OBVIOUS
  <2>1. TreeInit /\ (SweepUnused \/ SweepInit("idle", Sweep))
    BY DEF FolderInit
  <2>2. CASE SweepUnused
    <3>. DEFINE one == {CHOOSE q \in Sweep : TRUE}
    <3>1. SweepInit("unused", one)
      BY <2>2 DEF SweepUnused
    <3>2. one \subseteq Sweep
      BY ThreatAssumption
    <3>. HIDE DEF one
    <3>. QED  BY <2>1, <3>1, <3>2, TreeInvInit, SweepStarts DEF Turn
  <2>. QED  BY <2>1, <2>2, TreeInvInit, SweepStarts DEF Turn
<1>2. TreeInv /\ SweepInv /\ [FolderNext]_folderVars => (TreeInv /\ SweepInv)'
  <2>. SUFFICES ASSUME TreeInv, SweepInv, [FolderNext]_folderVars PROVE TreeInv' /\ SweepInv'
    OBVIOUS
  <2>1. CASE SweepNext
    BY <2>1, SweepStepKeeps
  <2>2. CASE (OtherPrograms \/ CancelScan \/ UNCHANGED treeVars) /\ UNCHANGED sweepVars
    BY <2>2, WorldKeeps, AroundSweep
  <2>3. SweepNext \/ ((OtherPrograms \/ CancelScan \/ UNCHANGED treeVars) /\ UNCHANGED sweepVars)
    BY DEF FolderNext, EngineNext, FinderNext, World, folderVars
  <2>. QED  BY <2>1, <2>2, <2>3
<1>3. TreeInv /\ SweepInv => NothingOverlooked
  BY ReportIsHonest
<1>. QED  BY <1>1, <1>2, <1>3, PTL DEF FolderSpec

-----------------------------------------------------------------------------
(* The scans for empty folders and for duplicates *)

\* A sequence, of whatever elements.
Sequence(s) == s \in Seq(Range(s))

\* What a folder names, as long as nobody touched it.
Child(d, c) == c \in Path /\ Len(c) = Len(d) + 1 /\ Within(d, c)
Remains(c) == Exists(c) /\ AsFound(c)

\* The walk is in a chain of folders, one level after the other.
FrameOK(i, f) ==
    /\ DOMAIN f = {"path", "id", "depth", "listed", "todo", "reasons"}
    /\ f.path \in Path /\ Len(f.path) = i - 1 /\ f.depth = i - 1
    /\ \A e \in f.todo : Child(f.path, e.path)

ColOK(c) ==
    /\ DOMAIN c = {"files", "open", "found", "folders", "types", "sizes", "members", "marks", "stop", "unproven"}
    /\ Sequence(c.files) /\ \A n \in DOMAIN c.files : c.files[n].path \in Path

WalkShape ==
    /\ ColOK(col) /\ Sequence(stack) /\ (at = "walking" => stack # <<>>) /\ (at = "idle" => ~stopped)
    /\ \A i \in DOMAIN stack : FrameOK(i, stack[i])

LevelOK(n, l) ==
    /\ DOMAIN l = {"entry", "empty", "below"}
    /\ DOMAIN l.entry = {"path", "id", "kind", "bytes", "stamp"}
    /\ l.entry.path \in Path /\ Len(l.entry.path) = n

\* The levels the collector has open are the folders of the walk, and at most one more.
OpenShape ==
    /\ ~col.stop /\ Sequence(col.open) /\ Len(col.open) >= Len(stack) - 1
    /\ \A n \in DOMAIN col.open :
         LevelOK(n, col.open[n]) /\ (n < Len(stack) => col.open[n].entry.path = stack[n + 1].path)
    /\ stopped => Top.reasons # {}

Found == {col.found[n].path : n \in DOMAIN col.found}

\* Nothing remains below these folders but some of them.
Closed(F) == \A d \in F : \A c : Child(d, c) /\ Remains(c) => c \in F

\* A folder that may still be found empty.
Hopeful(n) ==
    /\ col.open[n].empty /\ stack[n + 1].listed /\ stack[n + 1].reasons = {}
    /\ n + 1 = Len(stack) => Len(col.open) = n

\* What becomes of a folder in it: it was found empty, or is still to be looked at or left.
Awaited(n, c) ==
    \/ c \in Found \/ \E e \in stack[n + 1].todo : e.path = c
    \/ n + 1 < Len(stack) /\ c = stack[n + 2].path

Hopes == ~cancelled => \A n \in DOMAIN col.open : n < Len(stack) /\ Hopeful(n) =>
             \A c : Child(stack[n + 1].path, c) /\ Remains(c) => Awaited(n, c)

EmptyInv ==
    /\ Sequence(col.found) /\ Found \subseteq Path /\ Closed(Found)
    /\ at = "walking" => OpenShape /\ Hopes
    /\ at = "complete" => Shown \subseteq Path /\ Closed(Shown)

\* The digest of a file that nobody touched is that of what it holds.
Holds(e, d) == e.path \in Path /\ (AsFound(e.path) => tree[e.path].data = d)

CopiesInv ==
    /\ \A h \in hashes : DOMAIN h = {"entry", "digest", "done"} /\ h.entry.path \in Path
    /\ at = "wholes" => \A h \in hashes : h.done => Holds(h.entry, h.digest)
    /\ at = "grouped" => \A h \in hashes : Holds(h.entry, h.digest)
    /\ at = "complete" => \A r \in rows : Holds(r.entry, r.digest) /\ Holds(r.keeper, r.digest)

\* The two scans proved about, and what their walk and what they keep have in common.
WalkScan == Is({"empty"}) \/ Is({"duplicates"})
WalkInv == WalkShape /\ (Is({"empty"}) => EmptyInv)
FinderInv == WalkScan => WalkInv /\ (Is({"duplicates"}) => CopiesInv)

-----------------------------------------------------------------------------
(* Sequences of whatever elements *)

\* What is known of a sequence of whatever elements.
LEMMA SequenceIs ==
  ASSUME NEW s, Sequence(s)
  PROVE  Len(s) \in Nat /\ DOMAIN s = 1..Len(s) /\ (s # <<>> <=> Len(s) # 0)
<1>1. s \in Seq(Range(s))
  BY DEF Sequence
<1>. QED  BY <1>1, LenProperties, EmptySeq

\* A sequence over some set is one.
LEMMA IsSequence ==
  ASSUME NEW S, NEW s \in Seq(S)
  PROVE  Sequence(s)
<1>1. Len(s) \in Nat /\ s \in [1..Len(s) -> S]
  BY LenProperties
<1>2. s \in [1..Len(s) -> Range(s)]
  BY <1>1 DEF Range
<1>. DEFINE T == Range(s)
<1>3. Seq(T) = UNION {[1..n -> T] : n \in Nat}
  BY SeqDef, Zenon
<1>. QED  BY <1>1, <1>2, <1>3, Zenon DEF Sequence

\* One element more.
LEMMA AppendIs ==
  ASSUME NEW s, Sequence(s), NEW e
  PROVE  /\ Sequence(Append(s, e)) /\ Len(Append(s, e)) = Len(s) + 1
         /\ \A i \in DOMAIN s : Append(s, e)[i] = s[i]
         /\ Append(s, e)[Len(s) + 1] = e
<1>. DEFINE T == Range(s) \cup {e}
<1>1. s \in Seq(T) /\ e \in T
  BY SeqMonotonic DEF Sequence
<1>. HIDE DEF T
<1>2. Append(s, e) \in Seq(T) /\ Len(Append(s, e)) = Len(s) + 1
  BY <1>1
<1>3. Len(s) \in Nat /\ DOMAIN s = 1..Len(s)
  BY SequenceIs
<1>4. (\A i \in DOMAIN s : Append(s, e)[i] = s[i]) /\ Append(s, e)[Len(s) + 1] = e
  BY <1>1, <1>3
<1>5. Sequence(Append(s, e))
  BY <1>2, IsSequence, Zenon
<1>. QED  BY <1>2, <1>4, <1>5

\* Another element in its place.
LEMMA ExceptIs ==
  ASSUME NEW s, Sequence(s), NEW n \in DOMAIN s, NEW e
  PROVE  /\ Sequence([s EXCEPT ![n] = e]) /\ Len([s EXCEPT ![n] = e]) = Len(s)
         /\ \A i \in DOMAIN s : [s EXCEPT ![n] = e][i] = IF i = n THEN e ELSE s[i]
<1>. DEFINE T == Range(s) \cup {e}
<1>1. s \in Seq(T) /\ e \in T
  BY SeqMonotonic DEF Sequence
<1>2. Len(s) \in Nat /\ DOMAIN s = 1..Len(s)
  BY SequenceIs
<1>. HIDE DEF T
<1>3. n \in 1..Len(s)
  BY <1>2
<1>. QED  BY <1>1, <1>2, <1>3, ExceptSeq, IsSequence

\* Its first elements.
LEMMA BeginningIs ==
  ASSUME NEW s, Sequence(s), NEW n \in 0..Len(s)
  PROVE  /\ Sequence(SubSeq(s, 1, n)) /\ Len(SubSeq(s, 1, n)) = n
         /\ \A i \in 1..n : i \in DOMAIN s /\ SubSeq(s, 1, n)[i] = s[i]
<1>1. Len(s) \in Nat /\ DOMAIN s = 1..Len(s)
  BY SequenceIs
<1>2. \A i \in 1..n : s[i] \in Range(s) /\ i \in DOMAIN s
  BY <1>1 DEF Range
<1>3. /\ SubSeq(s, 1, n) \in Seq(Range(s)) /\ Len(SubSeq(s, 1, n)) = IF 1 <= n THEN n - 1 + 1 ELSE 0
      /\ \A i \in 1..n - 1 + 1 : SubSeq(s, 1, n)[i] = s[1 + i - 1]
  BY <1>1, <1>2, SubSeqProperties
<1>4. Sequence(SubSeq(s, 1, n))
  BY <1>3, IsSequence
<1>5. Len(SubSeq(s, 1, n)) = n
  BY <1>1, <1>3
<1>6. \A i \in 1..n : SubSeq(s, 1, n)[i] = s[i]
  BY <1>1, <1>3
<1>. QED  BY <1>2, <1>4, <1>5, <1>6

\* All its elements but the last.
LEMMA FrontOf ==
  ASSUME NEW s, Sequence(s), s # <<>>
  PROVE  /\ Sequence(Front(s)) /\ Len(Front(s)) = Len(s) - 1
         /\ \A i \in 1..(Len(s) - 1) : i \in DOMAIN s /\ Front(s)[i] = s[i]
<1>1. Len(s) \in Nat \ {0}
  BY SequenceIs
<1>2. Len(s) - 1 \in 0..Len(s)
  BY <1>1
<1>3. Front(s) = SubSeq(s, 1, Len(s) - 1)
  BY Zenon DEF Front
<1>. QED  BY <1>2, <1>3, BeginningIs

\* The sequence of nothing.
LEMMA NoneIsSequence == Sequence(<<>>) /\ Len(<<>>) = 0 /\ \A n : n \notin DOMAIN <<>>
<1>1. <<>> \in Seq({}) /\ Len(<<>>) = 0
  BY EmptySeq
<1>2. DOMAIN <<>> = 1..Len(<<>>) /\ Sequence(<<>>)
  BY <1>1, IsSequence, LenProperties, Zenon
<1>. QED  BY <1>1, <1>2

-----------------------------------------------------------------------------
(* The chain of folders the walk is in, and the levels the collector has open *)

\* The folder at the top of the walk.
LEMMA TopIs ==
  ASSUME WalkShape, stack # <<>>
  PROVE  /\ Len(stack) \in Nat \ {0} /\ DOMAIN stack = 1..Len(stack) /\ Len(stack) \in DOMAIN stack
         /\ FrameOK(Len(stack), Top)
<1>1. Sequence(stack)
  BY DEF WalkShape
<1>2. Len(stack) \in Nat \ {0} /\ DOMAIN stack = 1..Len(stack)
  BY <1>1, SequenceIs
<1>. QED  BY <1>2 DEF WalkShape, Top

\* A change at the top leaves the chain as it is.
LEMMA FramesAre ==
  ASSUME WalkShape, stack # <<>>, NEW g, FrameOK(Len(stack), g)
  PROVE  /\ Sequence(Frames(g)) /\ Len(Frames(g)) = Len(stack) /\ DOMAIN Frames(g) = DOMAIN stack
         /\ Frames(g) # <<>> /\ Frames(g)[Len(stack)] = g
         /\ \A i \in DOMAIN stack : FrameOK(i, Frames(g)[i]) /\ (i < Len(stack) => Frames(g)[i] = stack[i])
<1>. DEFINE s == Frames(g)
<1>1. Sequence(stack) /\ Len(stack) \in Nat \ {0} /\ Len(stack) \in DOMAIN stack /\ DOMAIN stack = 1..Len(stack)
  BY TopIs DEF WalkShape
<1>2. /\ Sequence(s) /\ Len(s) = Len(stack)
      /\ \A i \in DOMAIN stack : s[i] = IF i = Len(stack) THEN g ELSE stack[i]
  BY <1>1, ExceptIs DEF Frames
<1>. HIDE DEF s
<1>3. DOMAIN s = DOMAIN stack /\ s # <<>>
  BY <1>1, <1>2, SequenceIs
<1>. QED  BY <1>1, <1>2, <1>3 DEF s, WalkShape

\* What the walk enters is one level further down.
LEMMA EnteredIs ==
  ASSUME WalkShape, stack # <<>>, NEW g, FrameOK(Len(stack), g), NEW h, FrameOK(Len(stack) + 1, h)
  PROVE  LET s == Append(Frames(g), h) IN
         /\ Sequence(s) /\ Len(s) = Len(stack) + 1 /\ DOMAIN s = 1..(Len(stack) + 1) /\ s # <<>>
         /\ s[Len(stack)] = g /\ s[Len(stack) + 1] = h
         /\ \A i \in DOMAIN s : FrameOK(i, s[i])
         /\ \A i \in DOMAIN stack : i < Len(stack) => s[i] = stack[i]
<1>. DEFINE r == Frames(g)
<1>1. /\ Sequence(r) /\ Len(r) = Len(stack) /\ DOMAIN r = DOMAIN stack /\ r[Len(stack)] = g
      /\ \A i \in DOMAIN stack : FrameOK(i, r[i]) /\ (i < Len(stack) => r[i] = stack[i])
  BY FramesAre
<1>2. Len(stack) \in Nat \ {0} /\ DOMAIN stack = 1..Len(stack)
  BY TopIs
<1>. HIDE DEF r
<1>. DEFINE s == Append(r, h)
<1>3. /\ Sequence(s) /\ Len(s) = Len(stack) + 1 /\ s[Len(stack) + 1] = h
      /\ \A i \in DOMAIN r : s[i] = r[i]
  BY <1>1, AppendIs
<1>. HIDE DEF s
<1>4. DOMAIN s = 1..(Len(stack) + 1) /\ s # <<>>
  BY <1>2, <1>3, SequenceIs
<1>5. \A i \in DOMAIN s : FrameOK(i, s[i])
  BY <1>1, <1>2, <1>3, <1>4
<1>6. s[Len(stack)] = g /\ \A i \in DOMAIN stack : i < Len(stack) => s[i] = stack[i]
  BY <1>1, <1>2, <1>3
<1>. QED  BY <1>3, <1>4, <1>5, <1>6 DEF s, r

\* What is left when the walk leaves the folder at the top.
LEMMA LeftIs ==
  ASSUME WalkShape, stack # <<>>
  PROVE  LET s == Front(stack) IN
         /\ Sequence(s) /\ Len(s) = Len(stack) - 1 /\ DOMAIN s = 1..(Len(stack) - 1)
         /\ \A i \in DOMAIN s : i \in DOMAIN stack /\ s[i] = stack[i] /\ FrameOK(i, s[i])
<1>. DEFINE s == Front(stack)
<1>1. Len(stack) \in Nat \ {0} /\ DOMAIN stack = 1..Len(stack) /\ Sequence(stack)
  BY TopIs DEF WalkShape
<1>2. /\ Sequence(s) /\ Len(s) = Len(stack) - 1
      /\ \A i \in 1..(Len(stack) - 1) : i \in DOMAIN stack /\ s[i] = stack[i]
  BY <1>1, FrontOf
<1>. HIDE DEF s
<1>3. DOMAIN s = 1..(Len(stack) - 1)
  BY <1>2, SequenceIs
<1>. QED  BY <1>2, <1>3 DEF s, WalkShape

\* What the collector of empty folders may make of the levels it has open while the walk
\* stays where it is: nothing becomes more empty.
OpenFrom(o) ==
    /\ Sequence(o) /\ Len(o) >= Len(stack) - 1
    /\ \A n \in DOMAIN o :
         /\ LevelOK(n, o[n])
         /\ n < Len(stack) => o[n].entry.path = col.open[n].entry.path /\ (o[n].empty => col.open[n].empty)

\* The last level is given up, the others stay what they are.
LEMMA NotEmptyIs ==
  ASSUME NEW o, Sequence(o), \A n \in DOMAIN o : LevelOK(n, o[n])
  PROVE  LET r == NotEmpty(o) IN
         /\ Sequence(r) /\ Len(r) = Len(o) /\ DOMAIN r = DOMAIN o
         /\ \A n \in DOMAIN o : /\ LevelOK(n, r[n]) /\ r[n].entry = o[n].entry
                                /\ (r[n].empty => o[n].empty) /\ (n = Len(o) => ~r[n].empty)
<1>1. CASE o = <<>>
  BY <1>1, NoneIsSequence DEF NotEmpty
<1>2. CASE o # <<>>
  <2>1. Len(o) \in Nat \ {0} /\ DOMAIN o = 1..Len(o) /\ Len(o) \in DOMAIN o
    BY <1>2, SequenceIs
  <2>. DEFINE l == [o[Len(o)] EXCEPT !.empty = FALSE]
              r == [o EXCEPT ![Len(o)] = l]
  <2>2. NotEmpty(o) = r
    BY <1>2 DEF NotEmpty
  <2>3. Sequence(r) /\ Len(r) = Len(o) /\ \A i \in DOMAIN o : r[i] = IF i = Len(o) THEN l ELSE o[i]
    BY <2>1, ExceptIs
  <2>4. LevelOK(Len(o), l) /\ l.entry = o[Len(o)].entry /\ ~l.empty
    BY <2>1 DEF LevelOK
  <2>. HIDE DEF r, l
  <2>5. DOMAIN r = DOMAIN o
    BY <2>1, <2>3, SequenceIs
  <2>. QED  BY <2>1, <2>2, <2>3, <2>4, <2>5
<1>. QED  BY <1>1, <1>2

\* The levels below one are dropped, and it is given up with them.
LEMMA GiveUpIs ==
  ASSUME NEW o, Sequence(o), \A n \in DOMAIN o : LevelOK(n, o[n]), NEW k \in Nat, Len(o) >= k
  PROVE  LET r == GiveUp(o, k) IN
         /\ Sequence(r) /\ Len(r) = k /\ DOMAIN r = 1..k
         /\ \A n \in 1..k : /\ n \in DOMAIN o /\ LevelOK(n, r[n]) /\ r[n].entry = o[n].entry
                            /\ (r[n].empty => o[n].empty) /\ (n = k /\ Len(o) # k => ~r[n].empty)
<1>1. Len(o) \in Nat /\ DOMAIN o = 1..Len(o)
  BY SequenceIs
<1>2. CASE Len(o) <= k
  <2>1. GiveUp(o, k) = o
    BY <1>2, Zenon DEF GiveUp
  <2>2. Len(o) = k
    <3>1. Len(o) >= k /\ k \in Nat /\ Len(o) \in Nat
      BY <1>1, Zenon
    <3>. QED  BY ONLY <3>1, <1>2
  <2>. QED  BY <1>1, <2>1, <2>2
<1>3. CASE ~(Len(o) <= k)
  <2>. DEFINE s == SubSeq(o, 1, k)
  <2>1. GiveUp(o, k) = NotEmpty(s)
    BY <1>3 DEF GiveUp
  <2>2. Sequence(s) /\ Len(s) = k /\ \A i \in 1..k : i \in DOMAIN o /\ s[i] = o[i]
    BY <1>1, <1>3, BeginningIs
  <2>. HIDE DEF s
  <2>3. DOMAIN s = 1..k
    BY <2>2, SequenceIs
  <2>. DEFINE r == NotEmpty(s)
  <2>4. /\ Sequence(r) /\ Len(r) = Len(s) /\ DOMAIN r = DOMAIN s
        /\ \A n \in DOMAIN s : /\ LevelOK(n, r[n]) /\ r[n].entry = s[n].entry
                               /\ (r[n].empty => s[n].empty) /\ (n = Len(s) => ~r[n].empty)
    BY <2>2, <2>3, NotEmptyIs
  <2>. HIDE DEF r
  <2>. QED  BY <2>1, <2>2, <2>3, <2>4 DEF r
<1>. QED  BY <1>2, <1>3

-----------------------------------------------------------------------------
(* What the invariant keeps to around the scan, and what the collectors make of it *)

\* What is as it was found after another program acted was so before, with the same contents.
LEMMA WasAsFound ==
  ASSUME Kept, NEW c \in Path, AsFound(c)'
  PROVE  AsFound(c) /\ tree'[c].kind = tree[c].kind /\ tree'[c].data = tree[c].data
<1>1. c \notin touched' /\ touched \subseteq touched'
  BY DEF AsFound, Kept
<1>. QED  BY <1>1 DEF AsFound, Kept

\* The invariant survives what happens around the scan.
LEMMA FinderRests ==
  ASSUME FinderInv, Kept, cancelled => cancelled', UNCHANGED finderVars
  PROVE  FinderInv'
<1>. USE DEF finderVars
<1>1. (Is({"empty"})' <=> Is({"empty"})) /\ (Is({"duplicates"})' <=> Is({"duplicates"}))
  BY DEF Is
<1>2. WalkShape => WalkShape'
  BY DEF WalkShape
<1>3. \A c \in Path : Remains(c)' => Remains(c)
  BY WasAsFound DEF Remains, Exists, Kind
<1>4. ASSUME EmptyInv PROVE EmptyInv'
  <2>1. Found' = Found /\ Shown' = Shown
    BY DEF Found, Shown
  <2>2. \A F : Closed(F) => (\A d \in F : \A c : Child(d, c) /\ Remains(c)' => c \in F)
    BY <1>3 DEF Closed, Child
  <2>3. Closed(Found)' /\ (at = "complete" => Closed(Shown)')
    BY <1>4, <2>1, <2>2 DEF EmptyInv, Closed
  <2>4. OpenShape => OpenShape'
    BY DEF OpenShape, Top
  <2>5. Hopes => Hopes'
    <3>. SUFFICES ASSUME Hopes, ~cancelled', NEW n \in DOMAIN col.open, n < Len(stack), Hopeful(n)',
                         NEW c, Child(stack[n + 1].path, c), Remains(c)'
                  PROVE  Awaited(n, c)'
      BY DEF Hopes
    <3>1. Hopeful(n) /\ Remains(c) /\ ~cancelled
      BY <1>3 DEF Hopeful, Child
    <3>2. Awaited(n, c)
      BY <3>1 DEF Hopes
    <3>. QED  BY <2>1, <3>2 DEF Awaited
  <2>. QED  BY <1>4, <2>1, <2>3, <2>4, <2>5 DEF EmptyInv
<1>5. ASSUME CopiesInv PROVE CopiesInv'
  <2>1. \A e, d : Holds(e, d) => Holds(e, d)'
    BY WasAsFound DEF Holds
  <2>. QED  BY <1>5, <2>1 DEF CopiesInv
<1>. QED  BY <1>1, <1>2, <1>4, <1>5 DEF FinderInv, WalkScan, WalkInv

\* The collectors of the two scans.
LEMMA CollectorFor ==
  ASSUME NEW e, NEW depth, NEW proven, NEW p, NEW reasons
  PROVE  /\ Is({"empty"}) => /\ OnEntry(e, depth, proven) = EnterFolder(col, e, depth)
                             /\ OnLeave(p, depth, reasons) = LeaveEmpty(col, p, depth, reasons)
                             /\ OnBlocked = [col EXCEPT !.open = NotEmpty(col.open)]
         /\ Is({"duplicates"}) => /\ OnEntry(e, depth, proven) = CollectFile(col, e, proven)
                                  /\ OnLeave(p, depth, reasons) = col
                                  /\ OnBlocked = col
<1>1. ASSUME Is({"empty"})
      PROVE  ~Is({"duplicates"}) /\ ~Is({"large", "duplicates"}) /\ ~Is({"analysis"})
  BY <1>1 DEF Is
<1>2. ASSUME Is({"duplicates"})
      PROVE  Is({"large", "duplicates"}) /\ ~Is({"empty"}) /\ ~Is({"analysis"})
  BY <1>2 DEF Is
<1>3. CASE Is({"empty"})
  BY <1>1, <1>3, Zenon DEF OnEntry, OnLeave, OnBlocked
<1>4. CASE Is({"duplicates"})
  BY <1>2, <1>4, Zenon DEF OnEntry, OnLeave, OnBlocked
<1>. QED  BY <1>3, <1>4

\* The collector of empty folders changes nothing but what it has open while it walks down.
LEMMA OnlyOpen ==
  ASSUME NEW d, ColOK(d), NEW o
  PROVE  LET c == [d EXCEPT !.open = o] IN
         /\ ColOK(c) /\ c.open = o /\ c.found = d.found /\ c.stop = d.stop /\ c.marks = d.marks
<1>1. DOMAIN d = {"files", "open", "found", "folders", "types", "sizes", "members", "marks", "stop", "unproven"}
  BY DEF ColOK
<1>. QED  BY <1>1 DEF ColOK

\* A file that is collected is where the walk met it.
LEMMA CollectFileIs ==
  ASSUME ColOK(col), NEW e, NEW proven, e.path \in Path
  PROVE  ColOK(CollectFile(col, e, proven))
<1>1. DOMAIN col = {"files", "open", "found", "folders", "types", "sizes", "members", "marks", "stop", "unproven"}
  BY DEF ColOK
<1>2. ColOK(Halt(col))
  BY <1>1 DEF Halt, ColOK
<1>3. ASSUME NEW u
      PROVE  ColOK([col EXCEPT !.files = Append(col.files, e), !.unproven = u])
  <2>. DEFINE s == Append(col.files, e)
  <2>1. Sequence(col.files) /\ Len(col.files) \in Nat /\ DOMAIN col.files = 1..Len(col.files)
    BY SequenceIs DEF ColOK
  <2>2. /\ Sequence(s) /\ Len(s) = Len(col.files) + 1 /\ s[Len(col.files) + 1] = e
        /\ \A i \in DOMAIN col.files : s[i] = col.files[i]
    BY <2>1, AppendIs
  <2>. HIDE DEF s
  <2>3. DOMAIN s = 1..Len(s)
    BY <2>2, SequenceIs
  <2>4. \A i \in DOMAIN s : s[i].path \in Path
    BY <2>1, <2>2, <2>3 DEF ColOK
  <2>. DEFINE c == [col EXCEPT !.files = s, !.unproven = u]
  <2>5. DOMAIN c = DOMAIN col /\ c.files = s
    BY <1>1
  <2>. HIDE DEF c
  <2>6. ColOK(c)
    BY <1>1, <2>2, <2>4, <2>5 DEF ColOK
  <2>. QED  BY <2>6 DEF c, s
<1>. QED  BY <1>2, <1>3, Zenon DEF CollectFile

\* What was found is closed as long as nothing happens to it and to the tree.
LEMMA TreeStands ==
  ASSUME UNCHANGED treeVars
  PROVE  /\ \A c : Remains(c)' <=> Remains(c)
         /\ \A F : (\A d \in F : \A c : Child(d, c) /\ Remains(c)' => c \in F) <=> Closed(F)
         /\ cancelled' = cancelled
<1>1. \A c : Remains(c)' <=> Remains(c)
  BY DEF treeVars, Remains, Exists, Kind, AsFound
<1>2. ASSUME NEW F
      PROVE  (\A d \in F : \A c : Child(d, c) /\ Remains(c)' => c \in F) <=> Closed(F)
  BY <1>1 DEF Closed
<1>. QED  BY <1>1, <1>2 DEF treeVars

\* A step that finds nothing leaves what was found as it was.
LEMMA FoundStands ==
  ASSUME UNCHANGED treeVars, EmptyInv, col'.found = col.found
  PROVE  Found' = Found /\ Sequence(col'.found) /\ Found' \subseteq Path /\ Closed(Found)'
<1>1. Found' = Found
  BY DEF Found
<1>2. Closed(Found)'
  BY <1>1, TreeStands DEF Closed, EmptyInv
<1>. QED  BY <1>1, <1>2 DEF EmptyInv

\* The folder at the top keeps its place.  Unless it was given up, every folder in it that
\* remains is found or still to be looked at.
Answerable(o, g) ==
    \A n : n = Len(stack) - 1 /\ n \in DOMAIN o /\ o[n].empty /\ Len(o) = n
           /\ g.listed /\ g.reasons = {} /\ ~cancelled =>
             \A c : Child(g.path, c) /\ Remains(c) => c \in Found \/ \E e \in g.todo : e.path = c

\* The walk stays where it is: what the folders above the top wait for is unchanged.
LEMMA StayKeeps ==
  ASSUME WalkShape, EmptyInv, at = "walking", at' = "walking", UNCHANGED treeVars,
         NEW g, FrameOK(Len(stack), g), g.path = Top.path, stack' = Frames(g),
         stopped' => g.reasons # {}, ColOK(col'), col'.found = col.found, ~col'.stop,
         OpenFrom(col'.open), Answerable(col'.open, g)
  PROVE  WalkShape' /\ EmptyInv'
<1>1. stack # <<>> /\ OpenShape /\ Hopes
  BY DEF WalkShape, EmptyInv
<1>2. Len(stack) \in Nat \ {0} /\ DOMAIN stack = 1..Len(stack)
  BY <1>1, TopIs
<1>3. /\ Sequence(stack') /\ Len(stack') = Len(stack) /\ DOMAIN stack' = DOMAIN stack
      /\ stack' # <<>> /\ stack'[Len(stack)] = g
      /\ \A i \in DOMAIN stack : FrameOK(i, stack'[i]) /\ (i < Len(stack) => stack'[i] = stack[i])
  BY <1>1, FramesAre
<1>4. \A i \in DOMAIN stack : stack'[i].path = stack[i].path
  BY <1>2, <1>3 DEF Top
<1>. DEFINE o == col'.open
<1>5. /\ Sequence(o) /\ Len(o) >= Len(stack) - 1 /\ Len(o) \in Nat /\ DOMAIN o = 1..Len(o)
      /\ \A n \in DOMAIN o :
           /\ LevelOK(n, o[n])
           /\ n < Len(stack) => o[n].entry.path = col.open[n].entry.path /\ (o[n].empty => col.open[n].empty)
  BY SequenceIs DEF OpenFrom
<1>6. /\ Sequence(col.open) /\ Len(col.open) >= Len(stack) - 1 /\ DOMAIN col.open = 1..Len(col.open)
      /\ Len(col.open) \in Nat
      /\ \A n \in DOMAIN col.open : n < Len(stack) => col.open[n].entry.path = stack[n + 1].path
  BY <1>1, SequenceIs DEF OpenShape
<1>. HIDE DEF o
<1>7. \A n \in DOMAIN o : n < Len(stack) => n \in DOMAIN col.open /\ n + 1 \in DOMAIN stack /\ n \in Nat
  BY <1>2, <1>5, <1>6
<1>8. WalkShape'
  BY <1>3 DEF WalkShape
<1>9. Found' = Found /\ Sequence(col'.found) /\ Found' \subseteq Path /\ Closed(Found)'
  BY FoundStands
<1>10. OpenShape'
  <2>1. stopped' => Top'.reasons # {}
    BY <1>3 DEF Top
  <2>2. \A n \in DOMAIN o : n < Len(stack) => o[n].entry.path = stack'[n + 1].path
    BY <1>4, <1>5, <1>6, <1>7
  <2>. QED  BY <1>3, <1>5, <2>1, <2>2 DEF OpenShape, o
<1>11. Hopes'
  <2>. SUFFICES ASSUME ~cancelled, NEW n \in DOMAIN o, n < Len(stack), Hopeful(n)',
                       NEW c, Child(stack'[n + 1].path, c), Remains(c)
                PROVE  Awaited(n, c)'
    BY <1>3, TreeStands DEF Hopes, o
  <2>1. o[n].empty /\ stack'[n + 1].listed /\ stack'[n + 1].reasons = {} /\ (n + 1 = Len(stack) => Len(o) = n)
    BY <1>3 DEF Hopeful, o
  <2>2. n \in DOMAIN col.open /\ n + 1 \in DOMAIN stack /\ n \in Nat /\ col.open[n].empty
    BY <1>5, <1>7, <2>1
  <2>3. CASE n + 1 = Len(stack)
    <3>1. n = Len(stack) - 1 /\ stack'[n + 1] = g /\ Len(o) = n
      BY <1>2, <1>3, <2>1, <2>2, <2>3
    <3>2. Answerable(o, g)
      BY DEF o
    <3>3. c \in Found \/ \E e \in g.todo : e.path = c
      BY <2>1, <3>1, <3>2 DEF Answerable
    <3>. QED  BY <1>9, <3>1, <3>3 DEF Awaited
  <2>4. CASE n + 1 # Len(stack)
    <3>1. n + 1 < Len(stack) /\ stack'[n + 1] = stack[n + 1] /\ n + 2 \in DOMAIN stack
      BY <1>2, <1>3, <2>2, <2>4
    <3>2. Hopeful(n)
      BY <2>1, <2>2, <2>4, <3>1 DEF Hopeful
    <3>3. Awaited(n, c)
      BY <1>1, <2>2, <3>1, <3>2 DEF Hopes
    <3>4. stack'[n + 2].path = stack[n + 2].path
      BY <1>4, <3>1
    <3>. QED  BY <1>3, <1>9, <3>1, <3>3, <3>4 DEF Awaited
  <2>. QED  BY <2>3, <2>4
<1>. QED  BY <1>8, <1>9, <1>10, <1>11 DEF EmptyInv

\* The walk enters a folder: what was still to be looked at is looked at now.
LEMMA PushKeeps ==
  ASSUME WalkShape, EmptyInv, at = "walking", at' = "walking", UNCHANGED treeVars, ~stopped',
         NEW g, FrameOK(Len(stack), g), g.path = Top.path, g.listed = Top.listed, g.reasons = Top.reasons,
         NEW h, FrameOK(Len(stack) + 1, h), ~h.listed, \A e \in Top.todo : e \in g.todo \/ e.path = h.path,
         Sequence(stack'), Len(stack') = Len(stack) + 1, DOMAIN stack' = 1..(Len(stack) + 1),
         stack' # <<>>, stack'[Len(stack)] = g, stack'[Len(stack) + 1] = h,
         \A i \in DOMAIN stack' : FrameOK(i, stack'[i]),
         \A i \in DOMAIN stack : i < Len(stack) => stack'[i] = stack[i],
         ColOK(col'), col'.found = col.found, ~col'.stop,
         OpenFrom(col'.open), Len(col'.open) = Len(stack), col'.open[Len(stack)].entry.path = h.path,
         \A n : n = Len(stack) - 1 /\ n \in DOMAIN col'.open /\ col'.open[n].empty => Len(col.open) = n
  PROVE  WalkShape' /\ EmptyInv'
<1>1. stack # <<>> /\ OpenShape /\ Hopes
  BY DEF WalkShape, EmptyInv
<1>2. Len(stack) \in Nat \ {0} /\ DOMAIN stack = 1..Len(stack)
  BY <1>1, TopIs
<1>3. /\ Sequence(stack') /\ Len(stack') = Len(stack) + 1 /\ DOMAIN stack' = 1..(Len(stack) + 1)
      /\ stack' # <<>> /\ stack'[Len(stack)] = g /\ stack'[Len(stack) + 1] = h
      /\ \A i \in DOMAIN stack' : FrameOK(i, stack'[i])
      /\ \A i \in DOMAIN stack : i < Len(stack) => stack'[i] = stack[i]
  OBVIOUS
<1>4. \A i \in DOMAIN stack : stack'[i].path = stack[i].path
  BY <1>2, <1>3 DEF Top
<1>. DEFINE o == col'.open
<1>5. /\ Sequence(o) /\ Len(o) = Len(stack) /\ DOMAIN o = 1..Len(stack) /\ o[Len(stack)].entry.path = h.path
      /\ \A n \in DOMAIN o :
           /\ LevelOK(n, o[n])
           /\ n < Len(stack) => o[n].entry.path = col.open[n].entry.path /\ (o[n].empty => col.open[n].empty)
      /\ \A n : n = Len(stack) - 1 /\ n \in DOMAIN o /\ o[n].empty => Len(col.open) = n
  BY SequenceIs DEF OpenFrom
<1>6. /\ Sequence(col.open) /\ Len(col.open) >= Len(stack) - 1 /\ DOMAIN col.open = 1..Len(col.open)
      /\ Len(col.open) \in Nat
      /\ \A n \in DOMAIN col.open : n < Len(stack) => col.open[n].entry.path = stack[n + 1].path
  BY <1>1, SequenceIs DEF OpenShape
<1>. HIDE DEF o
<1>7. \A n \in DOMAIN o : n < Len(stack) => n \in DOMAIN col.open /\ n + 1 \in DOMAIN stack /\ n \in Nat
  BY <1>2, <1>5, <1>6
<1>8. WalkShape'
  BY <1>3 DEF WalkShape
<1>9. Found' = Found /\ Sequence(col'.found) /\ Found' \subseteq Path /\ Closed(Found)'
  BY FoundStands
<1>10. OpenShape'
  <2>1. \A n \in DOMAIN o : o[n].entry.path = stack'[n + 1].path
    <3>. SUFFICES ASSUME NEW n \in DOMAIN o PROVE o[n].entry.path = stack'[n + 1].path
      OBVIOUS
    <3>1. CASE n < Len(stack)
      BY <3>1, <1>4, <1>5, <1>6, <1>7
    <3>2. CASE ~(n < Len(stack))
      <4>1. n = Len(stack)
        BY <1>2, <1>5, <3>2
      <4>. QED  BY <4>1, <1>3, <1>5
    <3>. QED  BY <3>1, <3>2
  <2>2. Len(o) >= Len(stack') - 1
    BY <1>2, <1>3, <1>5
  <2>. QED  BY <1>5, <2>1, <2>2 DEF OpenShape, o
<1>11. Hopes'
  <2>. SUFFICES ASSUME ~cancelled, NEW n \in DOMAIN o, n < Len(stack'), Hopeful(n)',
                       NEW c, Child(stack'[n + 1].path, c), Remains(c)
                PROVE  Awaited(n, c)'
    BY TreeStands DEF Hopes, o
  <2>1. o[n].empty /\ stack'[n + 1].listed /\ stack'[n + 1].reasons = {} /\ n \in 1..Len(stack)
    BY <1>5 DEF Hopeful, o
  <2>2. n # Len(stack)
    BY <1>3, <2>1
  <2>3. n < Len(stack) /\ n \in DOMAIN col.open /\ n + 1 \in DOMAIN stack /\ n \in Nat /\ col.open[n].empty
    BY <1>2, <1>5, <1>7, <2>1, <2>2
  <2>4. stack'[n + 1].path = stack[n + 1].path /\ stack[n + 1].listed /\ stack[n + 1].reasons = {}
    <3>1. CASE n + 1 = Len(stack)
      BY <3>1, <1>3, <2>1 DEF Top
    <3>2. CASE n + 1 # Len(stack)
      BY <3>2, <1>2, <1>3, <2>1, <2>3
    <3>. QED  BY <3>1, <3>2
  <2>5. n + 1 = Len(stack) => Len(col.open) = n
    <3>. SUFFICES ASSUME n + 1 = Len(stack) PROVE Len(col.open) = n
      OBVIOUS
    <3>1. n = Len(stack) - 1
      BY <2>3
    <3>. QED  BY <3>1, <1>5, <2>1
  <2>6. Awaited(n, c)
    BY <1>1, <2>3, <2>4, <2>5 DEF Hopes, Hopeful
  <2>7. CASE n + 1 = Len(stack)
    <3>1. c \in Found \/ \E e \in Top.todo : e.path = c
      BY <2>6, <2>7 DEF Awaited, Top
    <3>2. stack'[n + 1] = g /\ stack'[n + 2] = h /\ n + 1 < Len(stack')
      BY <1>2, <1>3, <2>3, <2>7
    <3>. QED  BY <1>9, <3>1, <3>2 DEF Awaited
  <2>8. CASE n + 1 # Len(stack)
    <3>1. n + 1 < Len(stack) /\ n + 2 \in DOMAIN stack /\ stack'[n + 1] = stack[n + 1] /\ n + 1 < Len(stack')
      BY <1>2, <1>3, <2>3, <2>8
    <3>2. stack'[n + 2].path = stack[n + 2].path
      BY <1>4, <3>1
    <3>. QED  BY <1>9, <2>6, <3>1, <3>2 DEF Awaited
  <2>. QED  BY <2>7, <2>8
<1>. QED  BY <1>8, <1>9, <1>10, <1>11 DEF EmptyInv

\* What the collector has open after it was told of a thing in the folder at the top.
LEMMA EnterFolderIs ==
  ASSUME WalkShape, OpenShape, stack # <<>>, NEW e, e.path \in Path, Len(e.path) = Len(stack),
         DOMAIN e = {"path", "id", "kind", "bytes", "stamp"}
  PROVE  LET c == EnterFolder(col, e, Len(stack)) IN
         /\ ColOK(c) /\ c.found = col.found /\ ~c.stop /\ OpenFrom(c.open)
         /\ \A n : n = Len(stack) - 1 /\ n \in DOMAIN c.open /\ c.open[n].empty =>
              e.kind = "dir" /\ Len(col.open) = n
         /\ e.kind = "dir" => Len(c.open) = Len(stack) /\ c.open[Len(stack)].entry.path = e.path
<1>. DEFINE L == Len(stack)
<1>1. L \in Nat \ {0} /\ L - 1 \in Nat
  BY TopIs
<1>. HIDE DEF L
<1>2. ColOK(col) /\ Sequence(col.open) /\ Len(col.open) >= L - 1 /\ (\A n \in DOMAIN col.open : LevelOK(n, col.open[n])) /\ ~col.stop
  BY DEF WalkShape, OpenShape, L
<1>3. Len(col.open) \in Nat /\ DOMAIN col.open = 1..Len(col.open)
  BY <1>2, SequenceIs
<1>. DEFINE s == GiveUp(col.open, L - 1)
<1>4. /\ Sequence(s) /\ Len(s) = L - 1 /\ DOMAIN s = 1..(L - 1)
      /\ \A n \in 1..(L - 1) : /\ n \in DOMAIN col.open /\ LevelOK(n, s[n]) /\ s[n].entry = col.open[n].entry
                               /\ (s[n].empty => col.open[n].empty)
                               /\ (n = L - 1 /\ Len(col.open) # L - 1 => ~s[n].empty)
  BY <1>1, <1>2, GiveUpIs
<1>. HIDE DEF s
<1>. DEFINE l == [entry |-> e, empty |-> TRUE, below |-> 0]
            o == IF e.kind = "dir" THEN Append(s, l) ELSE NotEmpty(s)
<1>5. LevelOK(L, l) /\ l.entry.path = e.path
  BY DEF LevelOK, L
<1>6. /\ Sequence(o) /\ Len(o) >= L - 1 /\ (\A n \in DOMAIN o : LevelOK(n, o[n]))
      /\ \A n \in DOMAIN o : n < L => o[n].entry = s[n].entry /\ (o[n].empty => s[n].empty) /\ n \in 1..(L - 1)
      /\ \A n : n = L - 1 /\ n \in DOMAIN o /\ o[n].empty => e.kind = "dir"
      /\ e.kind = "dir" => Len(o) = L /\ o[L].entry.path = e.path
  <2>1. CASE e.kind = "dir"
    <3>. HIDE DEF l
    <3>. DEFINE r == Append(s, l)
    <3>1. o = r
      BY <2>1
    <3>2. Sequence(r) /\ Len(r) = Len(s) + 1 /\ r[Len(s) + 1] = l /\ \A i \in DOMAIN s : r[i] = s[i]
      BY <1>4, AppendIs
    <3>. HIDE DEF r
    <3>3. DOMAIN r = 1..L /\ Len(r) = L /\ r[L] = l
      BY <1>1, <1>4, <3>2, SequenceIs
    <3>4. \A n \in 1..L : n < L => n \in 1..(L - 1)
      BY <1>1
    <3>5. \A n \in 1..L : LevelOK(n, r[n])
      BY <1>1, <1>4, <1>5, <3>2, <3>3
    <3>6. \A n \in DOMAIN r : n < L => r[n] = s[n] /\ n \in 1..(L - 1)
      BY <1>4, <3>2, <3>3, <3>4
    <3>. HIDE DEF o
    <3>7. Len(r) >= L - 1
      BY <1>1, <3>3
    <3>. QED  BY <2>1, <1>5, <3>1, <3>2, <3>3, <3>5, <3>6, <3>7
  <2>2. CASE e.kind # "dir"
    <3>. DEFINE r == NotEmpty(s)
    <3>1. o = r
      BY <2>2
    <3>2. /\ Sequence(r) /\ Len(r) = Len(s) /\ DOMAIN r = DOMAIN s
          /\ \A n \in DOMAIN s : /\ LevelOK(n, r[n]) /\ r[n].entry = s[n].entry
                                 /\ (r[n].empty => s[n].empty) /\ (n = Len(s) => ~r[n].empty)
      BY <1>4, NotEmptyIs
    <3>. HIDE DEF r, o
    <3>3. Len(r) >= L - 1
      BY <1>1, <1>4, <3>2
    <3>. QED  BY <2>2, <1>4, <3>1, <3>2, <3>3
  <2>. QED  BY <2>1, <2>2
<1>. DEFINE c == [col EXCEPT !.open = o]
<1>7. EnterFolder(col, e, L) = c
  BY DEF EnterFolder, s
<1>. HIDE DEF o
<1>8. ColOK(c) /\ c.open = o /\ c.found = col.found /\ ~c.stop
  BY <1>2, OnlyOpen
<1>. HIDE DEF c
<1>9. OpenFrom(o)
  BY <1>4, <1>6 DEF OpenFrom, L
<1>10. \A n : n = L - 1 /\ n \in DOMAIN o /\ o[n].empty => e.kind = "dir" /\ Len(col.open) = n
  <2>. SUFFICES ASSUME NEW n, n = L - 1, n \in DOMAIN o, o[n].empty
                PROVE  e.kind = "dir" /\ Len(col.open) = n
    OBVIOUS
  <2>1. n < L
    BY <1>1
  <2>2. s[n].empty /\ n \in 1..(L - 1)
    BY <2>1, <1>6
  <2>. QED  BY <2>2, <1>4, <1>6
<1>. QED  BY <1>6, <1>7, <1>8, <1>9, <1>10 DEF L

\* What it has open after it was told that something in the last folder is not known.
LEMMA NotEmptyKeeps ==
  ASSUME NEW o, OpenFrom(o)
  PROVE  OpenFrom(NotEmpty(o))
<1>. DEFINE r == NotEmpty(o)
<1>1. /\ Sequence(r) /\ Len(r) = Len(o) /\ DOMAIN r = DOMAIN o
      /\ \A n \in DOMAIN o : LevelOK(n, r[n]) /\ r[n].entry = o[n].entry /\ (r[n].empty => o[n].empty)
  BY NotEmptyIs DEF OpenFrom
<1>. HIDE DEF r
<1>2. OpenFrom(r)
  BY <1>1 DEF OpenFrom
<1>. QED  BY <1>2 DEF r

\* What is open needs no change.
LEMMA StandsOpen ==
  ASSUME WalkShape, OpenShape
  PROVE  OpenFrom(col.open)
BY DEF OpenShape, OpenFrom

\* What the collector of empty folders makes of a folder that the walk leaves.
LEMMA AboveToldIs ==
  ASSUME NEW o, Sequence(o), o # <<>>, \A n \in DOMAIN o : LevelOK(n, o[n]), NEW below, NEW empty
  PROVE  LET r == AboveTold(o, below, empty) IN
         /\ Sequence(r) /\ Len(r) = Len(o) /\ DOMAIN r = DOMAIN o
         /\ \A n \in DOMAIN o : /\ LevelOK(n, r[n]) /\ r[n].entry = o[n].entry
                                /\ (r[n].empty => o[n].empty) /\ (n = Len(o) /\ r[n].empty => empty)
<1>1. Len(o) \in Nat \ {0} /\ DOMAIN o = 1..Len(o) /\ Len(o) \in DOMAIN o
  BY SequenceIs
<1>. DEFINE L == Len(o)
            k == [o[L] EXCEPT !.empty = o[L].empty /\ empty]
            l == [k EXCEPT !.below = o[L].below + 1 + below]
            q == [o EXCEPT ![L] = k]
            r == [q EXCEPT ![L] = l]
<1>2. DOMAIN o[L] = {"entry", "empty", "below"} /\ LevelOK(L, o[L])
  BY <1>1 DEF LevelOK
<1>3. DOMAIN k = DOMAIN o[L] /\ k.entry = o[L].entry /\ (k.empty <=> o[L].empty /\ empty) /\ k.below = o[L].below
  BY <1>2
<1>. HIDE DEF k
<1>4. Sequence(q) /\ Len(q) = L /\ \A i \in DOMAIN o : q[i] = IF i = L THEN k ELSE o[i]
  BY <1>1, ExceptIs
<1>5. DOMAIN q = DOMAIN o /\ q[L] = k
  BY <1>1, <1>4, SequenceIs
<1>6. AboveTold(o, below, empty) = r
  BY <1>3, <1>5 DEF AboveTold, k
<1>7. DOMAIN l = DOMAIN k /\ l.entry = k.entry /\ (l.empty <=> k.empty)
  BY <1>2, <1>3
<1>. HIDE DEF l, q
<1>8. Sequence(r) /\ Len(r) = L /\ \A i \in DOMAIN o : r[i] = IF i = L THEN l ELSE o[i]
  BY <1>1, <1>4, <1>5, ExceptIs
<1>. HIDE DEF r
<1>9. DOMAIN r = DOMAIN o
  BY <1>1, <1>8, SequenceIs
<1>10. LevelOK(L, l) /\ l.entry = o[L].entry /\ (l.empty => o[L].empty /\ empty)
  BY <1>2, <1>3, <1>7 DEF LevelOK
<1>. QED  BY <1>6, <1>8, <1>9, <1>10

\* The folder that is left is found empty only if all in it was, and the one above it may be empty
\* only then.
LEMMA LeaveEmptyIs ==
  ASSUME WalkShape, EmptyInv, at = "walking", Len(stack) # 1, NEW reasons
  PROVE  LET c == LeaveEmpty(col, Top.path, Top.depth, reasons)
             L == Len(stack)
         IN /\ ColOK(c) /\ ~c.stop /\ Sequence(c.open) /\ Len(c.open) = L - 2 /\ DOMAIN c.open = 1..(L - 2)
            /\ \A n \in 1..(L - 2) : /\ LevelOK(n, c.open[n]) /\ c.open[n].entry.path = col.open[n].entry.path
                                     /\ (c.open[n].empty => col.open[n].empty)
            /\ \/ /\ c.found = col.found
                  /\ L - 2 \in DOMAIN c.open => ~c.open[L - 2].empty
               \/ /\ reasons = {} /\ col.open[L - 1].empty /\ Len(col.open) = L - 1
                  /\ \E x : x.path = Top.path /\ c.found = Append(col.found, x)
<1>. DEFINE L == Len(stack)
            p == Top.path
            c == LeaveEmpty(col, p, Top.depth, reasons)
<1>1. stack # <<>> /\ OpenShape
  BY DEF WalkShape, EmptyInv
<1>2. /\ L \in Nat \ {0} /\ L # 1 /\ L \in DOMAIN stack /\ Top.depth = L - 1 /\ Len(p) = L - 1 /\ Top = stack[L]
      /\ Top.path \in Path
  BY <1>1, TopIs DEF FrameOK, Top
<1>. HIDE DEF L
<1>3. L - 1 \in Nat \ {0} /\ L - 2 \in Nat /\ Top.depth # 0
  BY <1>2
<1>4. /\ ColOK(col) /\ ~col.stop /\ Sequence(col.open) /\ Len(col.open) >= L - 1
      /\ \A n \in DOMAIN col.open :
           LevelOK(n, col.open[n]) /\ (n < L => col.open[n].entry.path = stack[n + 1].path)
  BY <1>1 DEF WalkShape, OpenShape, L
<1>5. Len(col.open) \in Nat /\ DOMAIN col.open = 1..Len(col.open) /\ L - 1 \in DOMAIN col.open
  <2>1. Len(col.open) \in Nat /\ DOMAIN col.open = 1..Len(col.open)
    BY <1>4, SequenceIs
  <2>2. L - 1 \in 1..Len(col.open)
    BY <2>1, <1>2, <1>3, <1>4
  <2>. QED  BY <2>1, <2>2
<1>. DEFINE level == {n \in DOMAIN col.open : col.open[n].entry.path = p}
            m1 == CHOOSE x \in level : TRUE
<1>6. level = {L - 1}
  <2>1. col.open[L - 1].entry.path = p
    <3>1. L - 1 < L /\ L - 1 + 1 = L
      BY <1>2
    <3>. QED  BY <3>1, <1>2, <1>4, <1>5
  <2>2. \A n \in DOMAIN col.open : Len(col.open[n].entry.path) = n
    BY <1>4 DEF LevelOK
  <2>. QED  BY <1>2, <1>5, <2>1, <2>2
<1>7. m1 = L - 1 /\ level # {}
  BY <1>6
<1>. HIDE DEF level, m1
<1>. DEFINE s == GiveUp(col.open, L - 1)
<1>8. /\ Sequence(s) /\ Len(s) = L - 1 /\ DOMAIN s = 1..(L - 1)
      /\ \A n \in 1..(L - 1) : /\ n \in DOMAIN col.open /\ LevelOK(n, s[n]) /\ s[n].entry = col.open[n].entry
                               /\ (s[n].empty => col.open[n].empty)
                               /\ (n = L - 1 /\ Len(col.open) # L - 1 => ~s[n].empty)
  BY <1>3, <1>4, GiveUpIs
<1>. HIDE DEF s
<1>. DEFINE this == s[L - 1]
            empty == this.empty /\ reasons = {} /\ ~ProtectedFolder(p)
            outer == SubSeq(s, 1, L - 2)
            x == [this.entry EXCEPT !.bytes = 0]
            o == IF outer = <<>> THEN outer ELSE AboveTold(outer, this.below, empty)
            f == IF empty THEN Append(col.found, x) ELSE col.found
<1>9. c = [col EXCEPT !.open = o, !.found = f]
  <2>1. m1 - 1 = L - 2
    BY <1>2, <1>7
  <2>. QED  BY <1>3, <1>7, <2>1 DEF LeaveEmpty, s, level, m1
<1>10. x.path = p /\ L - 1 \in 1..(L - 1) /\ LevelOK(L - 1, this) /\ this.entry = col.open[L - 1].entry
  <2>1. L - 1 \in 1..(L - 1)
    BY <1>2, <1>3
  <2>2. LevelOK(L - 1, this) /\ this.entry = col.open[L - 1].entry
    BY <2>1, <1>8
  <2>3. this.entry.path = p
    BY <2>2, <1>6 DEF level
  <2>4. x.path = this.entry.path
    BY <2>2 DEF LevelOK
  <2>. QED  BY <2>1, <2>2, <2>3, <2>4
<1>11. empty => reasons = {} /\ col.open[L - 1].empty /\ Len(col.open) = L - 1
  BY <1>8, <1>10
<1>. HIDE DEF this, empty, x
<1>12. Sequence(outer) /\ Len(outer) = L - 2 /\ \A i \in 1..(L - 2) : i \in DOMAIN s /\ outer[i] = s[i]
  <2>1. L - 2 \in 0..Len(s)
    BY <1>2, <1>3, <1>8
  <2>. QED  BY <2>1, <1>8, BeginningIs
<1>. HIDE DEF outer
<1>13. DOMAIN outer = 1..(L - 2) /\ \A i \in 1..(L - 2) : i \in 1..(L - 1)
  <2>1. DOMAIN outer = 1..(L - 2)
    BY <1>12, SequenceIs
  <2>. QED  BY <2>1, <1>2, <1>3
<1>14. /\ Sequence(o) /\ Len(o) = L - 2 /\ DOMAIN o = 1..(L - 2)
       /\ \A n \in 1..(L - 2) : LevelOK(n, o[n]) /\ o[n].entry = s[n].entry /\ (o[n].empty => s[n].empty)
       /\ L - 2 \in DOMAIN o /\ o[L - 2].empty => empty
  <2>1. CASE outer = <<>>
    <3>1. o = outer /\ L - 2 = 0
      BY <2>1, <1>12, NoneIsSequence
    <3>. HIDE DEF o
    <3>. QED  BY <3>1, <1>12, <1>13
  <2>2. CASE outer # <<>>
    <3>. DEFINE r == AboveTold(outer, this.below, empty)
    <3>1. o = r
      BY <2>2
    <3>2. \A n \in DOMAIN outer : LevelOK(n, outer[n])
      BY <1>8, <1>12, <1>13
    <3>3. /\ Sequence(r) /\ Len(r) = Len(outer) /\ DOMAIN r = DOMAIN outer
          /\ \A n \in DOMAIN outer : /\ LevelOK(n, r[n]) /\ r[n].entry = outer[n].entry
                                     /\ (r[n].empty => outer[n].empty) /\ (n = Len(outer) /\ r[n].empty => empty)
      BY <2>2, <3>2, <1>12, AboveToldIs
    <3>. HIDE DEF r, o
    <3>. QED  BY <3>1, <3>3, <1>12, <1>13
  <2>. QED  BY <2>1, <2>2
<1>. HIDE DEF o, f
<1>15. ColOK(c) /\ c.open = o /\ c.found = f /\ ~c.stop
  <2>1. DOMAIN col = {"files", "open", "found", "folders", "types", "sizes", "members", "marks", "stop", "unproven"}
    BY <1>4 DEF ColOK
  <2>. DEFINE d == [col EXCEPT !.open = o, !.found = f]
  <2>2. DOMAIN d = DOMAIN col /\ d.open = o /\ d.found = f /\ d.stop = col.stop /\ d.files = col.files
    BY <2>1
  <2>3. c = d
    BY <1>9
  <2>. HIDE DEF d, c
  <2>. QED  BY <1>4, <2>1, <2>2, <2>3 DEF ColOK
<1>. HIDE DEF c
<1>16. \A n \in 1..(L - 2) : o[n].entry.path = col.open[n].entry.path /\ (o[n].empty => col.open[n].empty)
  BY <1>8, <1>13, <1>14
<1>17. CASE empty
  <2>1. f = Append(col.found, x)
    BY <1>17 DEF f
  <2>. QED  BY <2>1, <1>10, <1>11, <1>14, <1>15, <1>16, <1>17 DEF c, L
<1>18. CASE ~empty
  <2>1. f = col.found
    BY <1>18 DEF f
  <2>. QED  BY <2>1, <1>14, <1>15, <1>16, <1>18 DEF c, L
<1>. QED  BY <1>17, <1>18

\* The walk leaves the folder at the top: the one above it is as incomplete, and the first
\* folder ends the walk.
LEMMA LeaveShape ==
  ASSUME WalkShape, LeaveFolder, ColOK(col')
  PROVE  /\ WalkShape' /\ stack # <<>>
         /\ Len(stack) = 1 => at' = "walked"
         /\ Len(stack) # 1 =>
              /\ at' = "walking" /\ Len(stack') = Len(stack) - 1 /\ DOMAIN stack' = 1..(Len(stack) - 1)
              /\ \A i \in 1..(Len(stack) - 1) :
                   /\ i \in DOMAIN stack /\ stack'[i].path = stack[i].path
                   /\ stack'[i].listed = stack[i].listed /\ stack'[i].todo = stack[i].todo
                   /\ stack'[i].reasons = {} => stack[i].reasons = {}
              /\ Top.reasons # {} => Top'.reasons # {}
<1>. DEFINE L == Len(stack)
            outer == Front(stack)
            reasons == Top.reasons \cup IF cancelled THEN {"Cancelled"} ELSE {}
            passed == reasons \cup IF OnLeave(Top.path, Top.depth, reasons).stop /\ ~stopped
                                   THEN {"RecordLimit"} ELSE {}
<1>1. at = "walking" /\ stack # <<>>
  BY DEF LeaveFolder, WalkShape
<1>2. /\ outer # <<>> => /\ stack' = [outer EXCEPT ![Len(outer)].reasons = @ \cup passed]
                         /\ UNCHANGED <<at, partial>>
      /\ outer = <<>> => stack' = <<>> /\ at' = "walked"
  BY DEF LeaveFolder
<1>3. Top.reasons # {} => passed # {}
  OBVIOUS
<1>. HIDE DEF passed
<1>4. L \in Nat \ {0} /\ DOMAIN stack = 1..L /\ L \in DOMAIN stack
  BY <1>1, TopIs
<1>5. /\ Sequence(outer) /\ Len(outer) = L - 1 /\ DOMAIN outer = 1..(L - 1)
      /\ \A i \in DOMAIN outer : i \in DOMAIN stack /\ outer[i] = stack[i] /\ FrameOK(i, outer[i])
  BY <1>1, LeftIs
<1>. HIDE DEF L, outer
<1>6. outer = <<>> <=> L = 1
  BY <1>4, <1>5, SequenceIs
<1>7. CASE L = 1
  <2>1. stack' = <<>> /\ at' = "walked"
    BY <1>2, <1>6, <1>7
  <2>. QED  BY <2>1, <1>1, <1>7, NoneIsSequence DEF WalkShape, L
<1>8. CASE L # 1
  <2>1. outer # <<>> /\ L - 1 \in DOMAIN outer /\ Len(outer) = L - 1 /\ at' = "walking"
    BY <1>1, <1>2, <1>4, <1>5, <1>6, <1>8
  <2>. DEFINE k == L - 1
              g == [outer[k] EXCEPT !.reasons = @ \cup passed]
  <2>2. stack' = [outer EXCEPT ![k] = g]
    BY <1>2, <2>1
  <2>3. FrameOK(k, outer[k]) /\ outer[k] = stack[k]
    BY <1>5, <2>1
  <2>4. /\ FrameOK(k, g) /\ g.path = stack[k].path /\ g.listed = stack[k].listed /\ g.todo = stack[k].todo
        /\ g.reasons = stack[k].reasons \cup passed
    BY <2>3 DEF FrameOK
  <2>. HIDE DEF g
  <2>5. Sequence(stack') /\ Len(stack') = L - 1 /\ \A i \in DOMAIN outer : stack'[i] = IF i = k THEN g ELSE outer[i]
    BY <2>1, <2>2, <1>5, ExceptIs
  <2>6. DOMAIN stack' = 1..(L - 1) /\ stack' # <<>>
    <3>1. DOMAIN stack' = 1..(L - 1) /\ (stack' # <<>> <=> Len(stack') # 0)
      BY <2>5, SequenceIs
    <3>. QED  BY <3>1, <2>5, <1>4, <1>8
  <2>7. \A i \in 1..(L - 1) : FrameOK(i, stack'[i])
    BY <1>5, <2>4, <2>5
  <2>8. WalkShape'
    BY <2>1, <2>5, <2>6, <2>7 DEF WalkShape
  <2>9. \A i \in 1..(L - 1) :
          /\ i \in DOMAIN stack /\ stack'[i].path = stack[i].path
          /\ stack'[i].listed = stack[i].listed /\ stack'[i].todo = stack[i].todo
          /\ stack'[i].reasons = {} => stack[i].reasons = {}
    BY <1>5, <2>4, <2>5
  <2>10. Top' = g
    BY <1>5, <2>1, <2>5 DEF Top
  <2>11. Top.reasons # {} => Top'.reasons # {}
    BY <1>3, <2>4, <2>10
  <2>. HIDE DEF k
  <2>. QED  BY <1>1, <1>8, <2>1, <2>5, <2>6, <2>8, <2>9, <2>11 DEF L
<1>. QED  BY <1>7, <1>8

\* A folder that was found empty, and the folders in it were found empty before.
LEMMA LeaveKeeps ==
  ASSUME WalkShape, EmptyInv, Is({"empty"}), LeaveFolder, UNCHANGED treeVars
  PROVE  WalkShape' /\ EmptyInv'
<1>. DEFINE L == Len(stack)
            p == Top.path
            reasons == Top.reasons \cup IF cancelled THEN {"Cancelled"} ELSE {}
            c == LeaveEmpty(col, p, Top.depth, reasons)
<1>1. /\ at = "walking" /\ stack # <<>> /\ Top.listed /\ (Top.todo = {} \/ stopped \/ cancelled)
      /\ OpenShape /\ Hopes /\ ColOK(col)
  BY DEF LeaveFolder, WalkShape, EmptyInv
<1>2. col' = c /\ stopped' = (stopped \/ c.stop)
  <2>. HIDE DEF reasons
  <2>1. OnLeave(p, Top.depth, reasons) = c
    BY CollectorFor, Zenon
  <2>. HIDE DEF c
  <2>. QED  BY <2>1 DEF LeaveFolder, reasons
<1>3. L \in Nat \ {0} /\ DOMAIN stack = 1..L /\ Top = stack[L] /\ FrameOK(L, Top)
  BY <1>1, TopIs DEF Top
<1>4. reasons = {} => Top.reasons = {} /\ ~cancelled /\ Top.todo = {}
  BY <1>1 DEF OpenShape
<1>. HIDE DEF c, reasons
<1>5. CASE L = 1
  <2>1. Top.depth = 0
    BY <1>3, <1>5 DEF FrameOK
  <2>2. col' = col
    BY <2>1, <1>2 DEF LeaveEmpty, c
  <2>3. WalkShape' /\ at' = "walked"
    BY <2>2, <1>1, <1>5, LeaveShape
  <2>. QED  BY <2>2, <2>3, FoundStands DEF EmptyInv
<1>6. CASE L # 1
  <2>1. /\ ColOK(c) /\ ~c.stop /\ Sequence(c.open) /\ Len(c.open) = L - 2 /\ DOMAIN c.open = 1..(L - 2)
        /\ \A n \in 1..(L - 2) : /\ LevelOK(n, c.open[n]) /\ c.open[n].entry.path = col.open[n].entry.path
                                 /\ (c.open[n].empty => col.open[n].empty)
        /\ \/ /\ c.found = col.found
              /\ L - 2 \in DOMAIN c.open => ~c.open[L - 2].empty
           \/ /\ reasons = {} /\ col.open[L - 1].empty /\ Len(col.open) = L - 1
              /\ \E x : x.path = p /\ c.found = Append(col.found, x)
    BY <1>1, <1>6, LeaveEmptyIs DEF c
  <2>2. /\ WalkShape' /\ at' = "walking" /\ Len(stack') = L - 1 /\ DOMAIN stack' = 1..(L - 1)
        /\ \A i \in 1..(L - 1) :
             /\ i \in DOMAIN stack /\ stack'[i].path = stack[i].path
             /\ stack'[i].listed = stack[i].listed /\ stack'[i].todo = stack[i].todo
             /\ stack'[i].reasons = {} => stack[i].reasons = {}
        /\ Top.reasons # {} => Top'.reasons # {}
    BY <1>2, <1>6, <2>1, LeaveShape
  <2>. HIDE DEF L, p
  <2>3. /\ Sequence(col.open) /\ Len(col.open) >= L - 1 /\ DOMAIN col.open = 1..Len(col.open)
        /\ Len(col.open) \in Nat
        /\ \A n \in DOMAIN col.open : n < L => col.open[n].entry.path = stack[n + 1].path
    BY <1>1, SequenceIs DEF OpenShape, L
  <2>4. L - 1 \in DOMAIN col.open /\ \A n \in 1..(L - 2) : n \in DOMAIN col.open /\ n + 1 \in 1..(L - 1) /\ n < L /\ n \in Nat
    BY <1>3, <1>6, <2>3
  <2>5. Sequence(col.found) /\ Found \subseteq Path /\ Closed(Found)
    BY DEF EmptyInv
  <2>6. /\ Sequence(col'.found) /\ Found' \subseteq Path /\ Closed(Found') /\ Found \subseteq Found'
        /\ L - 2 \in DOMAIN c.open /\ c.open[L - 2].empty => p \in Found'
    <3>1. CASE c.found = col.found /\ (L - 2 \in DOMAIN c.open => ~c.open[L - 2].empty)
      <4>1. Found' = Found
        BY <3>1, <1>2 DEF Found
      <4>. QED  BY <3>1, <4>1, <1>2, <2>5
    <3>2. CASE /\ reasons = {} /\ col.open[L - 1].empty /\ Len(col.open) = L - 1
               /\ \E x : x.path = p /\ c.found = Append(col.found, x)
      <4>1. PICK x : x.path = p /\ c.found = Append(col.found, x)
        BY <3>2
      <4>. DEFINE f == Append(col.found, x)
      <4>2. /\ Sequence(f) /\ Len(f) = Len(col.found) + 1 /\ f[Len(col.found) + 1] = x
            /\ \A i \in DOMAIN col.found : f[i] = col.found[i]
        BY <2>5, AppendIs
      <4>. HIDE DEF f
      <4>3. DOMAIN f = 1..(Len(col.found) + 1) /\ DOMAIN col.found = 1..Len(col.found) /\ Len(col.found) \in Nat
        BY <2>5, <4>2, SequenceIs
      <4>4. Found' = {f[n].path : n \in DOMAIN f}
        BY <1>2, <4>1 DEF Found, f
      <4>5. Found' = Found \cup {p}
        <5>1. Len(col.found) + 1 \in DOMAIN f /\ \A i \in DOMAIN col.found : i \in DOMAIN f
          BY <4>3
        <5>2. \A i \in DOMAIN f : i \in DOMAIN col.found \/ i = Len(col.found) + 1
          BY <4>3
        <5>3. \A i \in DOMAIN f : f[i].path \in Found \/ f[i].path = p
          BY <5>2, <4>1, <4>2 DEF Found
        <5>4. p \in Found' /\ \A i \in DOMAIN col.found : col.found[i].path \in Found'
          BY <5>1, <4>1, <4>2, <4>4
        <5>5. Found' \subseteq Found \cup {p}
          BY <5>3, <4>4
        <5>. QED  BY <5>4, <5>5 DEF Found
      <4>6. p \in Path
        BY <1>3 DEF FrameOK, p
      <4>7. \A d : Child(p, d) /\ Remains(d) => d \in Found
        <5>0. L - 1 < L /\ L - 1 + 1 = L /\ Top = stack[L]
          BY <1>3
        <5>1. Hopeful(L - 1) /\ L - 1 < L /\ stack[L - 1 + 1].path = p
          BY <5>0, <1>1, <1>4, <3>2 DEF Hopeful, L, p
        <5>2. \A d : Child(p, d) /\ Remains(d) => Awaited(L - 1, d)
          BY <5>1, <1>1, <1>4, <2>4, <3>2 DEF Hopes, L
        <5>3. \A d : ~(\E e \in stack[L - 1 + 1].todo : e.path = d) /\ ~(L - 1 + 1 < Len(stack))
          <6>1. stack[L - 1 + 1].todo = {}
            BY <5>0, <1>4, <3>2
          <6>2. ~(L - 1 + 1 < Len(stack))
            BY <1>3, <5>0 DEF L
          <6>. QED  BY <6>1, <6>2
        <5>. QED  BY <5>2, <5>3 DEF Awaited
      <4>8. Closed(Found')
        BY <2>5, <4>5, <4>7 DEF Closed
      <4>9. Sequence(col'.found)
        BY <1>2, <4>1, <4>2 DEF f
      <4>. QED  BY <2>5, <4>5, <4>6, <4>8, <4>9
    <3>. QED  BY <2>1, <3>1, <3>2
  <2>7. Closed(Found)'
    BY <2>6, TreeStands DEF Closed
  <2>8. OpenShape'
    <3>1. Len(c.open) >= Len(stack') - 1
      BY <1>3, <2>1, <2>2
    <3>2. \A n \in 1..(L - 2) : c.open[n].entry.path = stack'[n + 1].path
      BY <2>1, <2>2, <2>3, <2>4
    <3>3. stopped' => Top'.reasons # {}
      BY <1>1, <1>2, <2>1, <2>2 DEF OpenShape
    <3>. QED  BY <1>2, <2>1, <3>1, <3>2, <3>3 DEF OpenShape
  <2>9. Hopes'
    <3>. SUFFICES ASSUME ~cancelled, NEW n \in 1..(L - 2), Hopeful(n)', NEW d, Child(stack'[n + 1].path, d), Remains(d)
                  PROVE  Awaited(n, d)'
      BY <1>2, <2>1, TreeStands DEF Hopes
    <3>1. c.open[n].empty /\ stack'[n + 1].listed /\ stack'[n + 1].reasons = {}
      BY <1>2 DEF Hopeful
    <3>2. /\ n \in DOMAIN col.open /\ n + 1 \in 1..(L - 1) /\ n < Len(stack) /\ n \in Nat /\ n + 1 # Len(stack)
      <4>1. L \in Nat /\ n \in DOMAIN col.open /\ n + 1 \in 1..(L - 1) /\ n < L /\ n \in Nat
        BY <1>3, <2>4
      <4>2. n + 1 # L
        BY <4>1
      <4>. QED  BY <4>1, <4>2 DEF L
    <3>3. Hopeful(n)
      BY <3>1, <3>2, <2>1, <2>2 DEF Hopeful
    <3>4. Child(stack[n + 1].path, d)
      BY <2>2, <3>2
    <3>5. Awaited(n, d)
      BY <1>1, <3>2, <3>3, <3>4 DEF Hopes
    <3>6. CASE n + 1 < Len(stack) /\ d = stack[n + 2].path
      <4>1. CASE n = L - 2
        <5>1. d = p
          BY <1>3, <3>6, <4>1 DEF p, L
        <5>2. d \in Found'
          BY <5>1, <4>1, <2>1, <2>6, <3>1
        <5>. QED  BY <5>2 DEF Awaited
      <4>2. CASE n # L - 2
        <5>1. n + 2 \in 1..(L - 1) /\ n + 1 < L - 1
          BY <1>3, <4>2
        <5>. QED  BY <5>1, <2>2, <3>6 DEF Awaited
      <4>. QED  BY <4>1, <4>2
    <3>7. CASE d \in Found \/ \E e \in stack[n + 1].todo : e.path = d
      BY <3>7, <3>2, <2>2, <2>6 DEF Awaited
    <3>. QED  BY <3>5, <3>6, <3>7 DEF Awaited
  <2>. QED  BY <2>2, <2>6, <2>7, <2>8, <2>9 DEF EmptyInv
<1>. QED  BY <1>5, <1>6

-----------------------------------------------------------------------------
(* The steps of the walk *)

\* A change at the top of the walk.
LEMMA StayShape ==
  ASSUME WalkShape, stack # <<>>, at' = "walking", NEW g, FrameOK(Len(stack), g), stack' = Frames(g), ColOK(col')
  PROVE  WalkShape'
<1>1. /\ Sequence(stack') /\ DOMAIN stack' = DOMAIN stack /\ stack' # <<>>
      /\ \A i \in DOMAIN stack : FrameOK(i, stack'[i])
  BY FramesAre
<1>. QED  BY <1>1 DEF WalkShape

\* Something in the folder at the top is not known: the folder is not found empty.
LEMMA GivenUpKeeps ==
  ASSUME WalkInv, WalkScan, at = "walking", at' = "walking", UNCHANGED <<treeVars, req>>,
         NEW f, FrameOK(Len(stack), f), f.path = Top.path, NEW R, R # {},
         stack' = Frames([f EXCEPT !.reasons = f.reasons \cup R]),
         ColOK(col'), Is({"empty"}) => col'.found = col.found /\ ~col'.stop /\ OpenFrom(col'.open)
  PROVE  WalkInv'
<1>. DEFINE g == [f EXCEPT !.reasons = f.reasons \cup R]
<1>1. FrameOK(Len(stack), g) /\ g.path = Top.path /\ g.reasons # {}
  BY DEF FrameOK
<1>. HIDE DEF g
<1>2. Is({"empty"})' <=> Is({"empty"})
  BY DEF Is
<1>3. stack # <<>> /\ stack' = Frames(g)
  BY DEF WalkInv, WalkShape, g
<1>4. WalkShape'
  BY <1>1, <1>3, StayShape DEF WalkInv
<1>5. ASSUME Is({"empty"}) PROVE EmptyInv'
  <2>1. Answerable(col'.open, g)
    BY <1>1 DEF Answerable
  <2>. QED  BY <1>1, <1>3, <1>5, <2>1, StayKeeps DEF WalkInv
<1>. QED  BY <1>2, <1>4, <1>5 DEF WalkInv

\* What the collectors hold after something was given up.
LEMMA BlockedIs ==
  ASSUME WalkInv, WalkScan, at = "walking"
  PROVE  /\ ColOK(OnBlocked)
         /\ Is({"empty"}) => OnBlocked.found = col.found /\ ~OnBlocked.stop /\ OpenFrom(OnBlocked.open)
<1>1. ColOK(col)
  BY DEF WalkInv, WalkShape
<1>2. CASE Is({"empty"})
  <2>. DEFINE o == NotEmpty(col.open)
              c == [col EXCEPT !.open = o]
  <2>1. OnBlocked = c
    BY <1>2, CollectorFor, Zenon
  <2>2. OpenFrom(o) /\ ~col.stop
    BY <1>2, StandsOpen, NotEmptyKeeps DEF WalkInv, EmptyInv, OpenShape
  <2>. HIDE DEF o
  <2>3. ColOK(c) /\ c.open = o /\ c.found = col.found /\ c.stop = col.stop
    BY <1>1, OnlyOpen
  <2>. QED  BY <2>1, <2>2, <2>3
<1>3. CASE ~Is({"empty"})
  <2>1. OnBlocked = col
    BY <1>3, CollectorFor, Zenon DEF WalkScan
  <2>. QED  BY <1>1, <1>3, <2>1
<1>. QED  BY <1>2, <1>3

\* A folder or an entry that cannot be read.
LEMMA BlockedKeeps ==
  ASSUME WalkInv, WalkScan, at = "walking", at' = "walking", UNCHANGED <<treeVars, req>>,
         NEW f, FrameOK(Len(stack), f), f.path = Top.path, NEW reason, NEW n, Blocked(f, reason, n)
  PROVE  WalkInv'
<1>1. PICK r : stack' = Frames([f EXCEPT !.reasons = f.reasons \cup {r}]) /\ col' = OnBlocked
  BY DEF Blocked
<1>. QED  BY <1>1, BlockedIs, GivenUpKeeps

\* The walk begins at the folder itself.
LEMMA StartFinderKeeps ==
  ASSUME WalkInv, WalkScan, StartFinder, UNCHANGED treeVars
  PROVE  WalkInv'
<1>1. at = "idle" /\ req' = req /\ stopped' = stopped /\ rows' = rows /\ ~stopped
  BY DEF StartFinder, WalkInv, WalkShape
<1>2. Is({"empty"})' <=> Is({"empty"})
  BY <1>1 DEF Is
<1>. DEFINE h == Inside(<<>>, tree[<<>>].id, 0)
            s == <<h>>
<1>3. \/ at' = "unsupported" /\ stack' = stack /\ col' = col
      \/ at' = "walking" /\ stack' = s /\ col' = Collector
  <2>1. ~Is({"analysis"})
    BY DEF WalkScan, Is
  <2>. QED  BY <2>1 DEF StartFinder
<1>4. CASE at' = "unsupported" /\ stack' = stack /\ col' = col
  <2>1. WalkShape'
    BY <1>4 DEF WalkInv, WalkShape
  <2>2. EmptyInv => EmptyInv'
    BY <1>4, FoundStands DEF EmptyInv
  <2>. QED  BY <1>2, <2>1, <2>2 DEF WalkInv
<1>5. CASE at' = "walking" /\ stack' = s /\ col' = Collector
  <2>1. FrameOK(1, h)
    <3>1. <<>> \in Path /\ Len(<<>>) = 0
      BY TreeAssumption, NoneIsSequence
    <3>. QED  BY <3>1 DEF FrameOK, Inside
  <2>. HIDE DEF h
  <2>2. Sequence(s) /\ Len(s) = 1 /\ DOMAIN s = {1} /\ s # <<>> /\ s[1] = h
    <3>1. s \in Seq({h}) /\ Len(s) = 1 /\ s[1] = h
      OBVIOUS
    <3>. HIDE DEF s
    <3>2. Sequence(s)
      BY <3>1, IsSequence
    <3>. QED  BY <3>1, <3>2, SequenceIs
  <2>. HIDE DEF s
  <2>3. ColOK(Collector) /\ Collector.open = <<>> /\ Collector.found = <<>> /\ Collector.stop = FALSE
    BY NoneIsSequence DEF ColOK, Collector
  <2>4. WalkShape'
    BY <1>1, <1>5, <2>1, <2>2, <2>3 DEF WalkShape
  <2>5. EmptyInv'
    <3>1. Found' = {}
      BY <1>5, <2>3, NoneIsSequence DEF Found
    <3>2. OpenShape' /\ Hopes'
      BY <1>1, <1>5, <2>2, <2>3, NoneIsSequence DEF OpenShape, Hopes
    <3>. QED  BY <1>5, <2>3, <3>1, <3>2, NoneIsSequence DEF EmptyInv, Closed
  <2>. QED  BY <1>2, <2>4, <2>5 DEF WalkInv
<1>. QED  BY <1>3, <1>4, <1>5

\* What is listed names everything that remains in the folder.
LEMMA ListFolderKeeps ==
  ASSUME WalkInv, WalkScan, ListFolder, UNCHANGED treeVars
  PROVE  WalkInv'
<1>. DEFINE f == [Top EXCEPT !.listed = TRUE]
<1>1. at = "walking" /\ at' = "walking" /\ req' = req /\ WalkShape /\ stack # <<>>
  BY DEF ListFolder, WalkInv, WalkShape
<1>2. (Is({"empty"})' <=> Is({"empty"})) /\ ColOK(col)
  BY <1>1 DEF Is, WalkShape
<1>3. FrameOK(Len(stack), Top)
  BY <1>1, TopIs
<1>4. FrameOK(Len(stack), f) /\ f.path = Top.path /\ f.listed /\ f.reasons = Top.reasons
  BY <1>3 DEF FrameOK
<1>. HIDE DEF f
<1>5. CASE cancelled \/ Listable(f.path, f.id)
  <2>. DEFINE T == IF cancelled THEN {} ELSE Entries(f.path)
              g == [f EXCEPT !.todo = T]
  <2>1. stack' = Frames(g) /\ col' = col /\ stopped' = stopped
    BY <1>5 DEF ListFolder, f
  <2>2. \A e \in T : Child(f.path, e.path)
    BY DEF Entries, Entry, Children, Child
  <2>3. ~cancelled => \A c : Child(f.path, c) /\ Remains(c) => \E e \in T : e.path = c
    <3>. SUFFICES ASSUME ~cancelled, NEW c, Child(f.path, c), Remains(c) PROVE \E e \in T : e.path = c
      OBVIOUS
    <3>1. c \in Children(f.path) /\ T = Entries(f.path)
      BY DEF Children, Child, Remains
    <3>2. Entry(c) \in T
      BY <3>1 DEF Entries
    <3>. QED  BY <3>2 DEF Entry
  <2>. HIDE DEF T
  <2>4. FrameOK(Len(stack), g) /\ g.path = Top.path /\ g.reasons = Top.reasons /\ g.todo = T
    BY <1>4, <2>2 DEF FrameOK
  <2>. HIDE DEF g
  <2>5. WalkShape'
    BY <1>1, <1>2, <2>1, <2>4, StayShape
  <2>6. ASSUME Is({"empty"}) PROVE EmptyInv'
    <3>1. EmptyInv /\ OpenShape
      BY <1>1, <2>6 DEF WalkInv, EmptyInv
    <3>2. stopped' => g.reasons # {}
      BY <2>1, <2>4, <3>1 DEF OpenShape
    <3>3. OpenFrom(col'.open) /\ ~col'.stop /\ col'.found = col.found
      BY <1>1, <2>1, <3>1, StandsOpen DEF OpenShape
    <3>4. Answerable(col'.open, g)
      BY <1>4, <2>3, <2>4 DEF Answerable
    <3>. QED  BY <1>1, <1>2, <2>1, <2>4, <3>1, <3>2, <3>3, <3>4, StayKeeps
  <2>. QED  BY <1>2, <2>5, <2>6 DEF WalkInv
<1>6. CASE ~(cancelled \/ Listable(f.path, f.id))
  <2>1. Blocked(f, ListFailure(f.path), notes + 1)
    BY <1>6 DEF ListFolder, f
  <2>. QED  BY <1>1, <1>4, <2>1, BlockedKeeps
<1>. QED  BY <1>5, <1>6

\* An entry that is still what it was listed as is of the same kind.
LEMMA SameKind ==
  ASSUME NEW e, Mismatch(e) = "none"
  PROVE  Kind(e.path) = e.kind
<1>1. "LinkLike" # "none" /\ "Changed" # "none"
  OBVIOUS
<1>2. CASE Kind(e.path) = "link"
  BY <1>1, <1>2, Zenon DEF Mismatch
<1>. QED  BY <1>1, Zenon DEF Mismatch

\* What may become of an entry.
LEMMA VisitIs ==
  ASSUME VisitEntry
  PROVE  \E e \in Top.todo :
           LET f == [Top EXCEPT !.todo = Top.todo \ {e}]
           IN \/ \E reason, n : Blocked(f, reason, n)
              \/ \E r : stack' = Frames([f EXCEPT !.reasons = f.reasons \cup {r}]) /\ col' = OnBlocked
              \/ Mismatch(e) = "none" /\ \E proven \in BOOLEAN : Meet(f, e, proven)
<1>1. PICK e \in Top.todo :
         LET f == [Top EXCEPT !.todo = Top.todo \ {e}]
             over == claimed >= req.entries
             wrong == IF over THEN "EntryLimit" ELSE Mismatch(e)
             skip == Skip(e, f.depth)
         IN IF wrong # "none" THEN Blocked(f, wrong, notes + 1)
            ELSE IF notes >= req.diagnostics THEN Blocked(f, "none", notes)
            ELSE IF skip # "none"
            THEN col' = OnBlocked /\ stack' = Frames([f EXCEPT !.reasons = f.reasons \cup {skip}])
            ELSE \E proven \in BOOLEAN : Meet(f, e, proven)
  BY DEF VisitEntry
<1>. DEFINE f == [Top EXCEPT !.todo = Top.todo \ {e}]
            over == claimed >= req.entries
            wrong == IF over THEN "EntryLimit" ELSE Mismatch(e)
<1>2. wrong = "none" => Mismatch(e) = "none"
  OBVIOUS
<1>. HIDE DEF f, wrong
<1>3. \/ wrong # "none" /\ Blocked(f, wrong, notes + 1)
      \/ Blocked(f, "none", notes)
      \/ col' = OnBlocked /\ stack' = Frames([f EXCEPT !.reasons = f.reasons \cup {Skip(e, f.depth)}])
      \/ wrong = "none" /\ \E proven \in BOOLEAN : Meet(f, e, proven)
  BY <1>1, Zenon DEF f, wrong
<1>. QED  BY <1>2, <1>3 DEF f

\* Whatever is looked at: what is left of the folder is given up, or is found, or is still to
\* be looked at, or is entered.
LEMMA VisitKeeps ==
  ASSUME WalkInv, WalkScan, VisitEntry, UNCHANGED treeVars
  PROVE  WalkInv'
<1>1. at = "walking" /\ at' = "walking" /\ req' = req /\ WalkShape /\ stack # <<>>
  BY DEF VisitEntry, WalkInv, WalkShape
<1>2. PICK e \in Top.todo :
         LET f == [Top EXCEPT !.todo = Top.todo \ {e}]
         IN \/ \E reason, n : Blocked(f, reason, n)
            \/ \E r : stack' = Frames([f EXCEPT !.reasons = f.reasons \cup {r}]) /\ col' = OnBlocked
            \/ Mismatch(e) = "none" /\ \E proven \in BOOLEAN : Meet(f, e, proven)
  BY VisitIs
<1>. DEFINE f == [Top EXCEPT !.todo = Top.todo \ {e}]
            L == Len(stack)
<1>3. FrameOK(L, Top) /\ L \in Nat \ {0}
  BY <1>1, TopIs
<1>4. /\ FrameOK(L, f) /\ f.path = Top.path /\ f.listed = Top.listed /\ f.reasons = Top.reasons
      /\ f.depth = L - 1 /\ f.todo = Top.todo \ {e}
  BY <1>3 DEF FrameOK
<1>5. e.path \in Path /\ Len(e.path) = L
  <2>1. Child(Top.path, e.path) /\ Len(Top.path) = L - 1
    BY <1>3 DEF FrameOK
  <2>. QED  BY <2>1, <1>3 DEF Child
<1>6. (Is({"empty"})' <=> Is({"empty"})) /\ ColOK(col)
  BY <1>1 DEF Is, WalkShape
<1>. HIDE DEF f
<1>7. CASE \E reason, n : Blocked(f, reason, n)
  BY <1>1, <1>4, <1>7, BlockedKeeps
<1>8. CASE \E r : stack' = Frames([f EXCEPT !.reasons = f.reasons \cup {r}]) /\ col' = OnBlocked
  BY <1>1, <1>4, <1>8, BlockedIs, GivenUpKeeps
<1>9. CASE Mismatch(e) = "none" /\ \E proven \in BOOLEAN : Meet(f, e, proven)
  <2>0. PICK proven \in BOOLEAN : Meet(f, e, proven)
    BY <1>9
  <2>. DEFINE x == Observed(e.path)
              c == OnEntry(x, f.depth + 1, proven)
  <2>1. PICK refused :
          /\ col' = IF refused # "none" /\ ~c.stop /\ Is({"empty"}) THEN [c EXCEPT !.open = NotEmpty(c.open)] ELSE c
          /\ stopped' = (refused = "RecordLimit")
          /\ refused = "none" /\ e.kind = "dir" =>
               stack' = Append(Frames(f), Inside(e.path, e.id, f.depth + 1))
          /\ refused # "none" => stack' = Frames([f EXCEPT !.reasons = f.reasons \cup {refused}])
          /\ refused = "none" /\ e.kind # "dir" => stack' = Frames([f EXCEPT !.reasons = f.reasons \cup {}])
    <3>. DEFINE o == OnEntry(Observed(e.path), f.depth + 1, proven)
                given == CASE o.stop -> "RecordLimit"
                           [] e.kind # "dir" -> "none"
                           [] Cardinality(dirs) >= req.limit -> "RecordLimit"
                           [] e.id \in dirs -> "Changed"
                           [] OTHER -> "none"
    <3>1. /\ col' = IF given # "none" /\ ~o.stop /\ Is({"empty"}) THEN [o EXCEPT !.open = NotEmpty(o.open)] ELSE o
          /\ stopped' = (given = "RecordLimit")
          /\ IF given # "none" \/ e.kind # "dir"
             THEN stack' = Frames([f EXCEPT !.reasons = f.reasons \cup (IF given # "none" THEN {given} ELSE {})])
             ELSE stack' = Append(Frames(f), Inside(e.path, e.id, f.depth + 1))
      BY <2>0, Zenon DEF Meet
    <3>2. c = o
      OBVIOUS
    <3>. HIDE DEF given, o, c
    <3>3. col' = IF given # "none" /\ ~c.stop /\ Is({"empty"}) THEN [c EXCEPT !.open = NotEmpty(c.open)] ELSE c
      BY <3>1, <3>2, Zenon
    <3>4. /\ given = "none" /\ e.kind = "dir" =>
               stack' = Append(Frames(f), Inside(e.path, e.id, f.depth + 1))
          /\ given # "none" => stack' = Frames([f EXCEPT !.reasons = f.reasons \cup {given}])
          /\ given = "none" /\ e.kind # "dir" => stack' = Frames([f EXCEPT !.reasons = f.reasons \cup {}])
      BY <3>1, Zenon
    <3>. QED  BY <3>1, <3>3, <3>4, Zenon
  <2>2. x.path = e.path /\ x.kind = e.kind /\ DOMAIN x = {"path", "id", "kind", "bytes", "stamp"}
    BY <1>9, SameKind DEF Observed
  <2>. HIDE DEF x
  <2>3. f.depth + 1 = L
    BY <1>3, <1>4
  <2>4. ASSUME Is({"empty"})
        PROVE  /\ ColOK(c) /\ c.found = col.found /\ ~c.stop /\ OpenFrom(c.open)
               /\ \A n : n = L - 1 /\ n \in DOMAIN c.open /\ c.open[n].empty => e.kind = "dir" /\ Len(col.open) = n
               /\ e.kind = "dir" => Len(c.open) = L /\ c.open[L].entry.path = e.path
    <3>1. c = EnterFolder(col, x, L)
      BY <2>3, <2>4, CollectorFor, Zenon
    <3>2. OpenShape
      BY <1>1, <2>4 DEF WalkInv, EmptyInv
    <3>. HIDE DEF c
    <3>. QED  BY <3>1, <3>2, <1>1, <1>5, <2>2, EnterFolderIs
  <2>5. ASSUME ~Is({"empty"}) PROVE ColOK(c)
    <3>1. c = CollectFile(col, x, proven)
      BY <2>5, CollectorFor, Zenon DEF WalkScan
    <3>. QED  BY <3>1, <1>5, <1>6, <2>2, CollectFileIs
  <2>. HIDE DEF c
  <2>6. CASE refused # "none"
    <3>. DEFINE d == [c EXCEPT !.open = NotEmpty(c.open)]
    <3>1. ASSUME Is({"empty"})
          PROVE  ColOK(col') /\ col'.found = col.found /\ ~col'.stop /\ OpenFrom(col'.open)
      <4>1. col' = d
        BY <2>1, <2>4, <2>6, <3>1
      <4>2. ColOK(d) /\ d.open = NotEmpty(c.open) /\ d.found = c.found /\ d.stop = c.stop
        BY <2>4, <3>1, OnlyOpen
      <4>3. OpenFrom(NotEmpty(c.open))
        BY <2>4, <3>1, NotEmptyKeeps
      <4>. HIDE DEF d
      <4>. QED  BY <4>1, <4>2, <4>3, <2>4, <3>1
    <3>2. ASSUME ~Is({"empty"}) PROVE ColOK(col')
      BY <2>1, <2>5, <3>2
    <3>. HIDE DEF d
    <3>3. stack' = Frames([f EXCEPT !.reasons = f.reasons \cup {refused}])
      BY <2>1, <2>6
    <3>. QED  BY <1>1, <1>4, <3>1, <3>2, <3>3, GivenUpKeeps
  <2>7. CASE refused = "none"
    <3>1. col' = c /\ ~stopped' /\ ColOK(c)
      BY <2>1, <2>4, <2>5, <2>7
    <3>2. CASE e.kind = "dir"
      <4>. DEFINE h == Inside(e.path, e.id, f.depth + 1)
      <4>1. stack' = Append(Frames(f), h)
        BY <2>1, <2>7, <3>2
      <4>2. FrameOK(L + 1, h) /\ ~h.listed /\ h.path = e.path
        BY <1>3, <1>5, <2>3 DEF FrameOK, Inside
      <4>. HIDE DEF h
      <4>3. /\ Sequence(stack') /\ Len(stack') = Len(stack) + 1 /\ DOMAIN stack' = 1..(Len(stack) + 1)
            /\ stack' # <<>> /\ stack'[Len(stack)] = f /\ stack'[Len(stack) + 1] = h
            /\ \A i \in DOMAIN stack' : FrameOK(i, stack'[i])
            /\ \A i \in DOMAIN stack : i < Len(stack) => stack'[i] = stack[i]
        BY <1>1, <1>4, <4>1, <4>2, EnteredIs
      <4>4. WalkShape'
        BY <1>1, <3>1, <4>3 DEF WalkShape
      <4>5. ASSUME Is({"empty"}) PROVE EmptyInv'
        <5>1. EmptyInv /\ \A y \in Top.todo : y \in f.todo \/ y.path = h.path
          BY <1>4, <4>2, <4>5 DEF WalkInv
        <5>2. /\ col'.found = col.found /\ ~col'.stop /\ OpenFrom(col'.open)
              /\ \A n : n = L - 1 /\ n \in DOMAIN col'.open /\ col'.open[n].empty => Len(col.open) = n
              /\ Len(col'.open) = L /\ col'.open[L].entry.path = h.path /\ ColOK(col')
          BY <2>4, <3>1, <3>2, <4>2, <4>5
        <5>. QED  BY <1>1, <1>4, <3>1, <4>2, <4>3, <5>1, <5>2, PushKeeps
      <4>. QED  BY <1>6, <4>4, <4>5 DEF WalkInv
    <3>3. CASE e.kind # "dir"
      <4>. DEFINE g == [f EXCEPT !.reasons = f.reasons \cup {}]
      <4>1. stack' = Frames(g)
        BY <2>1, <2>7, <3>3
      <4>2. FrameOK(L, g) /\ g.path = Top.path /\ g.todo = f.todo
        BY <1>4 DEF FrameOK
      <4>. HIDE DEF g
      <4>3. WalkShape'
        BY <1>1, <3>1, <4>1, <4>2, StayShape
      <4>4. ASSUME Is({"empty"}) PROVE EmptyInv'
        <5>1. col'.found = col.found /\ ~col'.stop /\ OpenFrom(col'.open) /\ ColOK(col') /\ EmptyInv
          BY <2>4, <3>1, <4>4 DEF WalkInv
        <5>2. Answerable(col'.open, g)
          BY <2>4, <3>1, <3>3, <4>4 DEF Answerable
        <5>. QED  BY <1>1, <3>1, <4>1, <4>2, <5>1, <5>2, StayKeeps
      <4>. QED  BY <1>6, <4>3, <4>4 DEF WalkInv
    <3>. QED  BY <3>2, <3>3
  <2>. QED  BY <2>6, <2>7
<1>. QED  BY <1>2, <1>7, <1>8, <1>9 DEF f

\* The walk leaves a folder, whoever collects.
LEMMA LeaveFolderKeeps ==
  ASSUME WalkInv, WalkScan, LeaveFolder, UNCHANGED treeVars
  PROVE  WalkInv'
<1>1. req' = req /\ WalkShape /\ (Is({"empty"})' <=> Is({"empty"}))
  BY DEF LeaveFolder, WalkInv, Is
<1>2. CASE Is({"empty"})
  BY <1>1, <1>2, LeaveKeeps DEF WalkInv
<1>3. CASE ~Is({"empty"})
  <2>. DEFINE reasons == Top.reasons \cup IF cancelled THEN {"Cancelled"} ELSE {}
  <2>1. col' = OnLeave(Top.path, Top.depth, reasons)
    BY DEF LeaveFolder
  <2>. HIDE DEF reasons
  <2>2. OnLeave(Top.path, Top.depth, reasons) = col
    BY <1>3, CollectorFor, Zenon DEF WalkScan
  <2>3. WalkShape'
    BY <1>1, <2>1, <2>2, LeaveShape DEF WalkShape
  <2>. QED  BY <1>1, <1>3, <2>3 DEF WalkInv
<1>. QED  BY <1>2, <1>3

\* Nothing is found any more once the walk is over, and all that was found is published.
LEMMA AfterWalkKeeps ==
  ASSUME WalkInv, WalkScan, UNCHANGED <<treeVars, req, stack, stopped, col>>, at' \notin {"idle", "walking"},
         Is({"empty"}) /\ at' = "complete" => rows' = Plain(Range(col.found))
  PROVE  WalkInv'
<1>1. (Is({"empty"})' <=> Is({"empty"})) /\ WalkShape'
  BY DEF Is, WalkInv, WalkShape
<1>2. ASSUME Is({"empty"}) PROVE EmptyInv'
  <2>1. EmptyInv /\ Found' = Found /\ Sequence(col'.found) /\ Found' \subseteq Path /\ Closed(Found)'
    BY <1>2, FoundStands DEF WalkInv
  <2>2. at' = "complete" => Shown' = Found
    <3>. SUFFICES ASSUME at' = "complete" PROVE Shown' = Found
      OBVIOUS
    <3>1. rows' = {[entry |-> e] : e \in Range(col.found)}
      BY <1>2 DEF Plain
    <3>2. Shown' = {e.path : e \in Range(col.found)}
      <4>. DEFINE R == Range(col.found)
      <4>1. Shown' = {row.entry.path : row \in rows'}
        BY DEF Shown
      <4>. HIDE DEF R
      <4>2. \A e \in R : [entry |-> e] \in rows' /\ [entry |-> e].entry = e
        BY <3>1 DEF R
      <4>3. \A row \in rows' : \E e \in R : row.entry = e
        BY <3>1 DEF R
      <4>4. Shown' \subseteq {e.path : e \in R}
        BY <4>1, <4>3
      <4>5. \A e \in R : e.path \in Shown'
        BY <4>1, <4>2
      <4>. QED  BY <4>4, <4>5 DEF R
    <3>. QED  BY <3>2 DEF Found, Range
  <2>3. at' = "complete" => Shown' \subseteq Path /\ Closed(Shown)'
    BY <2>1, <2>2 DEF Closed
  <2>. QED  BY <2>1, <2>3 DEF EmptyInv
<1>. QED  BY <1>1, <1>2 DEF WalkInv

\* What a digest says of a file stays true as long as nothing happens to the tree.
LEMMA HoldsStands ==
  ASSUME UNCHANGED treeVars
  PROVE  \A e, d : Holds(e, d)' <=> Holds(e, d)
BY DEF treeVars, Holds, AsFound

\* The files to read are files the walk met.
LEMMA StartHashingKeeps ==
  ASSUME WalkShape, StartHashing
  PROVE  CopiesInv'
<1>1. at' = "heads" /\ hashes' = {Unread(e) : e \in SameSize(Proven)}
  BY DEF StartHashing
<1>2. \A e \in SameSize(Proven) : e.path \in Path
  BY DEF SameSize, OneName, Proven, Range, WalkShape, ColOK
<1>. QED  BY <1>1, <1>2 DEF CopiesInv, Unread

\* A digest of everything is of what the file holds as it is read.
LEMMA ReadFileKeeps ==
  ASSUME CopiesInv, ReadFile, UNCHANGED treeVars
  PROVE  CopiesInv'
<1>1. PICK h \in {x \in hashes : ~x.done} :
        /\ at \in {"heads", "wholes"} /\ at' = at
        /\ \/ hashes' = (hashes \ {h}) \cup {[h EXCEPT !.digest = Digest(tree[h.entry.path].data), !.done = TRUE]}
           \/ hashes' = hashes \ {h}
  BY DEF ReadFile
<1>. DEFINE x == [h EXCEPT !.digest = Digest(tree[h.entry.path].data), !.done = TRUE]
<1>2. DOMAIN h = {"entry", "digest", "done"} /\ h.entry.path \in Path
  BY DEF CopiesInv
<1>3. DOMAIN x = {"entry", "digest", "done"} /\ x.entry = h.entry /\ x.digest = Digest(tree[h.entry.path].data)
  BY <1>2
<1>4. at = "wholes" => Holds(x.entry, x.digest)
  BY <1>2, <1>3 DEF Holds, Digest
<1>. HIDE DEF x
<1>5. \A y \in hashes' : y \in hashes \/ y = x
  BY <1>1 DEF x
<1>. QED  BY <1>1, <1>2, <1>3, <1>4, <1>5, HoldsStands DEF CopiesInv

\* Between the two rounds nothing counts as read.
LEMMA EndReadingKeeps ==
  ASSUME CopiesInv, EndReading, UNCHANGED treeVars
  PROVE  CopiesInv'
<1>1. CASE at = "heads"
  <2>1. at' = "wholes" /\ hashes' = {[h EXCEPT !.done = FALSE] : h \in Repeated}
    BY <1>1 DEF EndReading
  <2>2. \A h \in Repeated : DOMAIN h = {"entry", "digest", "done"} /\ h.entry.path \in Path
    BY DEF Repeated, CopiesInv
  <2>3. ASSUME NEW h \in Repeated
        PROVE  LET x == [h EXCEPT !.done = FALSE] IN
               DOMAIN x = {"entry", "digest", "done"} /\ x.entry.path \in Path /\ ~x.done
    BY <2>2
  <2>. QED  BY <2>1, <2>3 DEF CopiesInv
<1>2. CASE at # "heads"
  <2>1. at = "wholes" /\ at' = "grouped" /\ hashes' = Repeated /\ \A h \in hashes : h.done
    BY <1>2 DEF EndReading
  <2>2. Repeated \subseteq hashes
    BY DEF Repeated
  <2>. QED  BY <2>1, <2>2, HoldsStands DEF CopiesInv
<1>. QED  BY <1>1, <1>2

\* What is published of a group: each of its files with another of the same digest.
LEMMA PublishKeeps ==
  ASSUME CopiesInv, Is({"duplicates"}), Publish, UNCHANGED treeVars
  PROVE  CopiesInv'
<1>1. PICK ranked \in Rankings :
        LET kept == Fitting(ranked)
        IN IF Acceptable(kept) THEN at' = "complete" /\ rows' = Harvest(kept)
           ELSE at' = "refused" /\ UNCHANGED rows
  BY DEF Publish
<1>. DEFINE kept == Fitting(ranked)
<1>2. at = "grouped" /\ hashes' = hashes
  BY DEF Publish
<1>3. kept \subseteq Groups
  BY DEF Fitting, Rankings, Range
<1>4. Harvest(kept) = UNION {GroupRows(g) : g \in kept}
  <2>. HIDE DEF kept
  <2>1. ~Is({"large"})
    BY DEF Is
  <2>2. ~Is({"analysis"})
    BY DEF Is
  <2>. QED  BY <2>1, <2>2, Zenon DEF Harvest
<1>. HIDE DEF kept
<1>5. ASSUME NEW r \in Harvest(kept)
      PROVE  Holds(r.entry, r.digest) /\ Holds(r.keeper, r.digest)
  <2>1. PICK g \in Groups : r \in GroupRows(g)
    BY <1>3, <1>4, <1>5
  <2>2. PICK h \in hashes : g = Alike(h)
    BY <2>1 DEF Groups
  <2>3. PICK x \in g \X g : r = [entry |-> x[1].entry, keeper |-> x[2].entry, digest |-> x[1].digest]
    BY <2>1 DEF GroupRows
  <2>4. x[1] \in hashes /\ x[2] \in hashes /\ x[1].digest = h.digest /\ x[2].digest = h.digest
    BY <2>2, <2>3 DEF Alike
  <2>. QED  BY <1>2, <2>3, <2>4 DEF CopiesInv
<1>6. (at' = "complete" /\ rows' = Harvest(kept)) \/ at' = "refused"
  BY <1>1 DEF kept
<1>. QED  BY <1>2, <1>5, <1>6, HoldsStands DEF CopiesInv

\* Before anything is read there is nothing a digest could be wrong about.
LEMMA NoDigestYet ==
  ASSUME CopiesInv, hashes' = hashes, at' \notin {"wholes", "grouped", "complete"}
  PROVE  CopiesInv'
BY DEF CopiesInv

\* Every step of the two scans keeps the invariant.
LEMMA FinderStepKeeps ==
  ASSUME FinderInv, FinderNext, UNCHANGED treeVars
  PROVE  FinderInv'
<1>1. req' = req
  BY DEF FinderNext, StartFinder, ListFolder, VisitEntry, LeaveFolder, StartHashing,
     ReadFile, EndReading, Publish, BrowserStarted, GiveIn
<1>. SUFFICES ASSUME WalkScan PROVE WalkInv' /\ (Is({"duplicates"}) => CopiesInv')
  BY <1>1 DEF FinderInv, WalkScan, Is
<1>2. WalkInv /\ (Is({"duplicates"}) => CopiesInv)
  BY DEF FinderInv
<1>3. CASE StartFinder \/ ListFolder \/ VisitEntry \/ LeaveFolder
  <2>1. hashes' = hashes /\ at' \notin {"wholes", "grouped", "complete"}
    BY <1>3 DEF StartFinder, ListFolder, VisitEntry, LeaveFolder
  <2>. QED  BY <1>2, <1>3, <2>1, StartFinderKeeps, ListFolderKeeps, VisitKeeps, LeaveFolderKeeps, NoDigestYet
<1>4. CASE StartHashing \/ ReadFile \/ EndReading
  <2>1. UNCHANGED <<stack, stopped, col>> /\ at' \notin {"idle", "walking", "complete"}
    BY <1>4 DEF StartHashing, ReadFile, EndReading, walking
  <2>. QED  BY <1>1, <1>2, <1>4, <2>1, AfterWalkKeeps, StartHashingKeeps, ReadFileKeeps, EndReadingKeeps DEF WalkInv
<1>5. CASE Publish
  <2>1. UNCHANGED <<stack, stopped, col>> /\ at' \in {"complete", "refused"}
    BY <1>5 DEF Publish, walking
  <2>2. ASSUME Is({"empty"}), at' = "complete" PROVE rows' = Plain(Range(col.found))
    <3>1. \E kept : rows' = Harvest(kept)
      BY <1>5, <2>2 DEF Publish
    <3>2. ~Is({"large"}) /\ ~Is({"duplicates"}) /\ ~Is({"analysis"})
      BY <2>2 DEF Is
    <3>3. \A kept : Harvest(kept) = Plain(Range(col.found))
      BY <3>2, Zenon DEF Harvest
    <3>. QED  BY <3>1, <3>3
  <2>. QED  BY <1>1, <1>2, <1>5, <2>1, <2>2, AfterWalkKeeps, PublishKeeps
<1>6. CASE BrowserStarted \/ GiveIn
  <2>1. UNCHANGED <<stack, stopped, col, hashes>> /\ at' \in {"unsupported", "cancelled"}
    BY <1>6 DEF BrowserStarted, GiveIn, walking
  <2>. QED  BY <1>1, <1>2, <2>1, AfterWalkKeeps, NoDigestYet
<1>. QED  BY <1>3, <1>4, <1>5, <1>6 DEF FinderNext

\* A scan that was not run yet has found nothing.
LEMMA FinderStarts ==
  ASSUME NEW start, start \in {"unused", "idle"}, NEW S, FinderInit(start, S)
  PROVE  FinderInv
<1>1. /\ at = start /\ stack = <<>> /\ ~stopped /\ col = Collector /\ hashes = {}
  BY DEF FinderInit
<1>2. ColOK(Collector) /\ Collector.found = <<>>
  BY NoneIsSequence DEF ColOK, Collector
<1>3. WalkShape
  BY <1>1, <1>2, NoneIsSequence DEF WalkShape
<1>4. EmptyInv
  BY <1>1, <1>2, NoneIsSequence DEF EmptyInv, Found, Closed
<1>5. CopiesInv
  BY <1>1 DEF CopiesInv
<1>. QED  BY <1>3, <1>4, <1>5 DEF FinderInv, WalkInv

\* Whatever remains below a folder that is offered is offered: the way down to it leads
\* through folders that remain, and from each to the next.
LEMMA ClosedBelow ==
  ASSUME TreeInv, NEW F \in SUBSET Path, Closed(F), NEW p \in Path, Remains(p), NEW d \in F, d \in Above(p)
  PROVE  p \in F
<1>1. \A q \in {p} \cup Above(p) : q \in Path /\ Remains(q)
  <2>. SUFFICES ASSUME NEW q \in Above(p) PROVE q \in Path /\ Remains(q)
    OBVIOUS
  <2>1. q \in Path /\ \A r \in Above(q) : r \in Above(p)
    BY AboveOrder
  <2>2. q \notin touched
    BY DEF Remains, AsFound
  <2>3. tree[q].kind = "dir"
    BY <2>2 DEF TreeInv, Remains, Exists, Kind
  <2>4. AsFound(q)
    BY <2>1, <2>2 DEF Remains, AsFound
  <2>. QED  BY <2>1, <2>3, <2>4 DEF Remains, Exists, Kind
<1>. DEFINE G == {n \in Nat : \E q \in F : q \in Above(p) /\ Len(p) - Len(q) = n}
<1>. SUFFICES ASSUME p \notin F PROVE FALSE
  OBVIOUS
<1>2. Len(p) - Len(d) \in G
  BY AboveOrder
<1>3. IsWellFoundedOn(OpToRel(<, Nat), Nat)
  BY NatLessThanWellFounded
<1>4. PICK x \in G : \A y \in G : ~ (<<y, x>> \in OpToRel(<, Nat))
  BY <1>2, <1>3, WFMin
<1>5. PICK q \in F : q \in Above(p) /\ Len(p) - Len(q) = x
  OBVIOUS
<1>6. PICK c \in {p} \cup Above(p) : c \in Path /\ Len(c) = Len(q) + 1 /\ q \in Above(c) /\ Within(q, c)
  BY <1>5, NextDown
<1>7. c \in F
  BY <1>1, <1>6 DEF Closed, Child
<1>8. c \in Above(p)
  BY <1>6, <1>7
<1>9. Len(c) \in Nat /\ Len(q) \in Nat /\ Len(p) \in Nat /\ Len(c) < Len(p)
  BY <1>5, <1>8, AboveOrder
<1>10. Len(p) - Len(c) \in G /\ Len(p) - Len(c) < x
  BY <1>5, <1>6, <1>7, <1>8, <1>9
<1>11. <<Len(p) - Len(c), x>> \in OpToRel(<, Nat)
  BY <1>10 DEF OpToRel
<1>. QED  BY <1>4, <1>10, <1>11

\* A cancelled scan stays cancelled.
LEMMA WorldCancels ==
  ASSUME OtherPrograms \/ CancelScan \/ UNCHANGED treeVars, cancelled
  PROVE  cancelled'
BY DEF OtherPrograms, CancelScan, treeVars, Write, Delete, Create, Redirect, Deny, Change

\* The invariant of the scans for empty folders and for duplicates, with that of the tree.
LEMMA FinderInvariance == FolderSpec => [](TreeInv /\ FinderInv)
<1>1. FolderInit => TreeInv /\ FinderInv
  BY TreeInvInit, FinderStarts DEF FolderInit, FinderUnused
<1>2. TreeInv /\ FinderInv /\ [FolderNext]_folderVars => (TreeInv /\ FinderInv)'
  <2>. SUFFICES ASSUME TreeInv, FinderInv, [FolderNext]_folderVars PROVE TreeInv' /\ FinderInv'
    OBVIOUS
  <2>1. CASE FinderNext /\ UNCHANGED treeVars
    BY <2>1, FinderStepKeeps, WorldKeeps
  <2>2. CASE (OtherPrograms \/ CancelScan \/ UNCHANGED treeVars) /\ UNCHANGED finderVars
    BY <2>2, WorldKeeps, WorldCancels, FinderRests
  <2>3. \/ FinderNext /\ UNCHANGED treeVars
        \/ (OtherPrograms \/ CancelScan \/ UNCHANGED treeVars) /\ UNCHANGED finderVars
    BY DEF FolderNext, SweepNext, World, folderVars
  <2>. QED  BY <2>1, <2>2, <2>3
<1>. QED  BY <1>1, <1>2, PTL DEF FolderSpec

\* Below a folder offered as empty there is nothing another program left alone but folders
\* offered as empty themselves.
THEOREM OffersOnlyEmpty == FolderSpec => []EmptyIsEmpty
<1>1. TreeInv /\ FinderInv => EmptyIsEmpty
  <2>. SUFFICES ASSUME TreeInv, FinderInv, at = "complete", Is({"empty"}), NEW d \in Shown, NEW p \in Path,
                       Below(d, p), Exists(p), AsFound(p)
                PROVE  p \in Shown
    BY DEF EmptyIsEmpty
  <2>1. Shown \subseteq Path /\ Closed(Shown)
    BY DEF FinderInv, WalkScan, WalkInv, EmptyInv
  <2>2. d \in Above(p) /\ Remains(p)
    BY <2>1, BelowIs DEF Remains
  <2>. QED  BY <2>1, <2>2, ClosedBelow
<1>. QED  BY <1>1, FinderInvariance, PTL

\* Whatever is selected of the duplicates, each file is compared with another that stays and
\* holds the same where nobody touched the two.
THEOREM SelectionsSpareACopy == FolderSpec => []DuplicatesSpareACopy
<1>1. FinderInv => DuplicatesSpareACopy
  <2>. SUFFICES ASSUME FinderInv, at = "complete", Is({"duplicates"}), NEW S \in SUBSET rows, Accepted(S),
                       NEW row \in S, NEW k \in KeepersFor(S, row)
                PROVE  /\ k.id \notin {s.entry.id : s \in S}
                       /\ AsFound(k.path) /\ AsFound(row.entry.path) =>
                            tree[k.path].data = tree[row.entry.path].data
    BY DEF DuplicatesSpareACopy
  <2>1. \A r \in rows : Holds(r.entry, r.digest) /\ Holds(r.keeper, r.digest)
    BY DEF FinderInv, WalkScan, CopiesInv
  <2>2. CASE Spares(S, row) # {}
    <3>1. PICK r \in Spares(S, row) : k = r.entry
      BY <2>2 DEF KeepersFor
    <3>2. r \in rows /\ r.digest = row.digest /\ r.entry.id \notin {s.entry.id : s \in S}
      BY DEF Spares
    <3>. QED  BY <2>1, <3>1, <3>2 DEF Holds
  <2>3. CASE Spares(S, row) = {}
    <3>1. k = row.keeper /\ row.keeper.id \notin {s.entry.id : s \in S}
      BY <2>3 DEF KeepersFor, Accepted
    <3>. QED  BY <2>1, <3>1 DEF Holds
  <2>. QED  BY <2>2, <2>3
<1>. QED  BY <1>1, FinderInvariance, PTL
=============================================================================
