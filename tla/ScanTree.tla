------------------------------ MODULE ScanTree ------------------------------
(***************************************************************************)
(* The folder a scan walks: a bounded tree of paths that other programs     *)
(* change while the scan reads it one entry at a time, and what the         *)
(* FileSystem trait (cleanup-core/filesystem.rs) tells about it.  Both the  *)
(* temporary and project scans (ScanEngine) and the storage finders         *)
(* (StorageFinders) read the tree through these operators.                  *)
(*                                                                         *)
(* A path is the sequence of names below the folder the scans are about;    *)
(* the empty sequence is that folder.                                       *)
(***************************************************************************)
EXTENDS Integers, FiniteSets, Sequences, SequencesExt, FiniteSetsExt, Functions

CONSTANTS
    Path,      \* the paths there may be: a finite set closed under prefixes
    Rank,      \* [names -> Nat], the order of the names in a path's key
    Data,      \* what a file may contain
    Size,      \* [Data -> Nat], its length
    Prefix,    \* [Data -> start], the part within the first 4096 bytes
    Protections, \* the sets of folders that may be protected
    Starts,    \* the trees a scan may find
    MaxEdits   \* bound on what other programs do during the scan

ASSUME TreeAssumption ==
    /\ IsFiniteSet(Path) /\ <<>> \in Path /\ Path \subseteq Seq(DOMAIN Rank)
    /\ \A p \in Path : \A n \in 0..Len(p) : SubSeq(p, 1, n) \in Path
    /\ Size \in [Data -> Nat] /\ MaxEdits \in Nat
    /\ Protections \subseteq SUBSET Path

VARIABLES
    tree,      \* what is at each path
    protection, \* the folders of the ProtectionPolicy and of the machine
    touched,   \* the paths another program changed since the scan began
    denied,    \* folders that cannot be listed
    edits,     \* how often another program acted
    cancelled  \* the CancellationToken

treeVars == <<tree, protection, touched, denied, edits, cancelled>>

Name == UNION {ToSet(p) : p \in Path}

\* The place something was made at, and when: no other thing has it.
FileIdentity == (Path \X Nat) \cup {<<>>}

Node == [kind : {"absent", "file", "dir", "link"},
         id : FileIdentity,
         data : Data \cup {<<>>}, stamp : 0..MaxEdits]

Absent == [kind |-> "absent", id |-> <<>>, data |-> <<>>, stamp |-> 0]
Folder(p) == [kind |-> "dir", id |-> <<p, 0>>, data |-> <<>>, stamp |-> 0]
File(p, d) == [kind |-> "file", id |-> <<p, 0>>, data |-> d, stamp |-> 0]

-----------------------------------------------------------------------------
(* PathSemantics *)

Within(d, p) == IsPrefix(d, p)
Below(d, p) == IsStrictPrefix(d, p)
Above(p) == {SubSeq(p, 1, n) : n \in 0..(Len(p) - 1)}
Sub(d, p) == SubSeq(p, Len(d) + 1, Len(p))

\* The order of semantics.key: the names one after the other.
Before(p, q) ==
    \/ Below(p, q)
    \/ \E n \in 1..(IF Len(p) < Len(q) THEN Len(p) ELSE Len(q)) :
         /\ SubSeq(p, 1, n - 1) = SubSeq(q, 1, n - 1)
         /\ Rank[p[n]] < Rank[q[n]]

First(S) == CHOOSE p \in S : \A q \in S \ {p} : Before(p, q)
FinalOf(S) == CHOOSE p \in S : \A q \in S \ {p} : Before(q, p)

-----------------------------------------------------------------------------
(* FileSystem *)

Kind(p) == tree[p].kind
Exists(p) == Kind(p) # "absent"
Bytes(n) == IF n.kind = "file" THEN Size[n.data] ELSE 0
Children(p) == {q \in Path : Len(q) = Len(p) + 1 /\ Within(p, q) /\ Exists(q)}

\* canonicalize gives the path back: it exists and no link leads to it.
Canonical(p) == Exists(p) /\ \A a \in Above(p) : Kind(a) = "dir"

\* read_dir of a folder the caller knows by its identity.
Listable(p, id) == Kind(p) = "dir" /\ tree[p].id = id /\ p \notin denied
ListFailure(p) == IF p \in denied THEN "Unreadable" ELSE "Changed"

\* An entry as read_dir names it: what was there when it was listed.
Entry(p) == [path |-> p, kind |-> Kind(p), id |-> tree[p].id]
Entries(p) == {Entry(q) : q \in Children(p)}

\* The folders of version control count as protected wherever they are.
IsProtected(p) == \E r \in protection : Within(r, p)

\* ProtectionPolicy::compile: a scan starts only with a policy whose folders are
\* there, as folders and without a link on the way.
Compiles == \A r \in protection : Kind(r) = "dir" /\ Canonical(r)

\* modified is not a time of this scan's own past.
Settled(n) == n.stamp = 0

-----------------------------------------------------------------------------
(* What other programs do *)

\* What a scan finds is below folders, and two names of one file show the same.
ASSUME StartsAssumption ==
    \A t \in Starts :
        /\ t \in [Path -> Node]
        /\ \A p \in Path :
             /\ t[p].kind = "absent" => t[p] = Absent
             /\ t[p].kind = "file" => t[p].data \in Data /\ \E q \in Path : t[p].id = <<q, 0>>
             /\ t[p].kind \in {"dir", "link"} => t[p].id = <<p, 0>>
             /\ t[p].kind # "absent" => \A q \in Above(p) : t[q].kind = "dir"
             /\ \A q \in Path : t[p].id = t[q].id => t[p].kind = t[q].kind /\ t[p].data = t[q].data

TreeInit ==
    /\ tree \in Starts /\ protection \in Protections
    /\ touched = {} /\ denied = {} /\ edits = 0 /\ cancelled = FALSE

\* Nothing happened to p nor to a folder above it since the scan began.
AsFound(p) == ({p} \cup Above(p)) \cap touched = {}

Now == edits + 1

\* A file or folder coming or going changes the time of its folder.
InFolder(t, p) ==
    IF p = <<>> THEN t ELSE [t EXCEPT ![Front(p)].stamp = Now]

Change(t, S) ==
    /\ tree' = t /\ touched' = touched \cup S
    /\ UNCHANGED <<protection, denied, cancelled>>

\* A file is written: every name of it shows the new content.
Write(p, d) ==
    /\ Kind(p) = "file"
    /\ LET names == {q \in Path : tree[q].id = tree[p].id}
       IN Change([q \in Path |-> IF q \in names
                                 THEN [tree[q] EXCEPT !.data = d, !.stamp = Now]
                                 ELSE tree[q]], names)

Delete(p) ==
    /\ p # <<>> /\ Exists(p)
    /\ LET gone == {q \in Path : Within(p, q) /\ Exists(q)}
       IN Change(InFolder([q \in Path |-> IF q \in gone THEN Absent ELSE tree[q]],
                          p), gone)

Create(p, n) ==
    /\ p # <<>> /\ ~Exists(p) /\ Kind(Front(p)) = "dir"
    /\ Change(InFolder([tree EXCEPT ![p] = [n EXCEPT !.id = <<p, Now>>,
                                                     !.stamp = Now]], p), {p})

\* A folder is replaced by a link to one that holds the same names.
Redirect(p) ==
    /\ p # <<>> /\ Kind(p) = "dir"
    /\ LET moved == {q \in Path : Within(p, q) /\ Exists(q)}
       IN Change(InFolder([q \in Path |->
            IF q = p THEN [Absent EXCEPT !.kind = "link", !.id = <<q, Now>>]
            ELSE IF q \in moved THEN [tree[q] EXCEPT !.id = <<q, Now>>]
            ELSE tree[q]], p), moved)

Deny(p) ==
    /\ Kind(p) = "dir" /\ p \notin denied
    /\ denied' = denied \cup {p} /\ touched' = touched \cup {p}
    /\ UNCHANGED <<tree, protection, cancelled>>

OtherPrograms ==
    /\ edits < MaxEdits /\ edits' = edits + 1
    /\ \E p \in Path :
         \/ \E d \in Data : Write(p, d)
         \/ Delete(p)
         \/ \E d \in Data : Create(p, File(p, d))
         \/ Create(p, Folder(p))
         \/ Redirect(p)
         \/ Deny(p)

CancelScan ==
    /\ ~cancelled /\ cancelled' = TRUE
    /\ UNCHANGED <<tree, protection, touched, denied, edits>>

-----------------------------------------------------------------------------
TreeTypeOK ==
    /\ tree \in [Path -> Node] /\ protection \in Protections
    /\ touched \subseteq Path /\ denied \subseteq Path
    /\ edits \in 0..MaxEdits /\ cancelled \in BOOLEAN
=============================================================================
