---------------------------- MODULE RuleCatalog ----------------------------
(***************************************************************************)
(* The rules a scan is given (cleanup-core/rules.rs): what a catalog may    *)
(* say and what load_catalog refuses, so that a scan meets no other rule.   *)
(*                                                                         *)
(* A rule is identified by its position; the prefixes and suffixes of names *)
(* are the sets of names they stand for.                                    *)
(***************************************************************************)
EXTENDS ScanTree

Lifecycle == {"candidate", "verified", "stable", "deprecated", "disabled"}
Risk == {"safe", "recoverable", "highImpact"}
ScannerKind == {"direct", "projectArtifacts"}

\* target_type: what a target may be.
TargetType == {{"file"}, {"dir"}, {"file", "dir"}}

\* A depth that a rule does not give.
Unset == -1
Depth == Nat \cup {Unset}

CleanupRule ==
    [lifecycle : Lifecycle, risk : Risk, selected : BOOLEAN, artifact : BOOLEAN,
     scanner : ScannerKind, roots : SUBSET Path, targets : SUBSET Name,
     types : TargetType, rootDepth : Nat, projectDepth : Depth, targetDepth : Depth,
     all : SUBSET Name, any : SUBSET Name, aged : BOOLEAN,
     excludedNames : SUBSET Name, excludedPaths : SUBSET Path]

CatalogLimits == [rules : Nat, roots : Nat, names : Nat, paths : Nat, depth : Nat]

HasMarkers(r) == r.all \cup r.any # {}
DefinesProject(r) ==
    HasMarkers(r) \/ r.artifact \/ r.projectDepth # Unset \/ r.targetDepth # Unset

\* What is selected unless the user says otherwise must be proven and harmless.
MayBeSelected(r) == r.lifecycle \in {"verified", "stable"} /\ r.risk # "highImpact"

FewNames(r, l) ==
    \A S \in {r.targets, r.all, r.any, r.excludedNames} : Cardinality(S) <= l.names

\* An excluded path leads somewhere below the root.
ProperPaths(r, l) ==
    Cardinality(r.excludedPaths) <= l.paths /\ <<>> \notin r.excludedPaths

ValidRule(r, l) ==
    /\ r \in CleanupRule
    /\ r.selected => MayBeSelected(r)
    /\ Cardinality(r.roots) \in 1..l.roots /\ r.targets # {}
    /\ FewNames(r, l) /\ ProperPaths(r, l)
    /\ \A d \in {r.rootDepth, r.projectDepth, r.targetDepth} : d <= l.depth
    /\ r.scanner = "direct" => ~DefinesProject(r)
    /\ r.scanner = "projectArtifacts" =>
         /\ HasMarkers(r) /\ r.artifact
         /\ r.projectDepth # Unset /\ r.targetDepth # Unset

ValidCatalog(rules, l) ==
    /\ l \in CatalogLimits /\ Len(rules) \in 1..l.rules
    /\ \A n \in DOMAIN rules : ValidRule(rules[n], l)
=============================================================================
