---------------------------- MODULE FolderScans ----------------------------
(***************************************************************************)
(* The scans of a folder together: a scan of the rule engine, one of the    *)
(* storage finders or one for threats reads the shared tree while other     *)
(* programs change it and the user may cancel.                              *)
(***************************************************************************)
EXTENDS ScanEngine, StorageFinders, ThreatScans

folderVars == <<treeVars, engineVars, finderVars, sweepVars>>

\* They keep nothing in common but the tree: one of them scans it.
EngineUnused == EngineInit("unused", {CHOOSE l \in Limits : TRUE})
FinderUnused == FinderInit("unused", {CHOOSE q \in Request : TRUE})
SweepUnused == SweepInit("unused", {CHOOSE q \in Sweep : TRUE})

FolderInit ==
    /\ TreeInit
    /\ \/ EngineInit("idle", Limits) /\ FinderUnused /\ SweepUnused
       \/ EngineUnused /\ FinderInit("idle", Request) /\ SweepUnused
       \/ EngineUnused /\ FinderUnused /\ SweepInit("idle", Sweep)

Over == phase \in ScanEnd \/ at \in Ends \/ turn = "reported"

World ==
    /\ ~Over
    /\ CancelScan \/ ("idle" \notin {phase, at, turn} /\ OtherPrograms)
    /\ UNCHANGED <<engineVars, finderVars, sweepVars>>

FolderNext ==
    \/ EngineNext /\ UNCHANGED <<treeVars, finderVars, sweepVars>>
    \/ FinderNext /\ UNCHANGED <<treeVars, engineVars, sweepVars>>
    \/ SweepNext /\ UNCHANGED <<engineVars, finderVars>>
    \/ World
    \/ Over /\ UNCHANGED folderVars

FolderSpec == FolderInit /\ [][FolderNext]_folderVars

FolderTypeOK == TreeTypeOK /\ EngineTypeOK /\ FinderTypeOK /\ SweepTypeOK
=============================================================================
