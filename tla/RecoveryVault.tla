---------------------------- MODULE RecoveryVault ----------------------------
(***************************************************************************)
(* What a cleanup plan may do to the files it names, with no journal, no   *)
(* crash and no retry in sight.  Each plan has, for each file, authority   *)
(* for one effect; the effect is a move into recovery or, for a Permanent  *)
(* plan only, a removal; only the plan that holds a file returns it.       *)
(***************************************************************************)
CONSTANTS File, Plan, NoFile, NoPlan

VARIABLES
    plan,       \* what each plan names, fixed once it is made
    custody,    \* where each file is, and which plan put it there
    authority   \* per plan and file: unused, armed, spent

vars == <<plan, custody, authority>>

AtSource == [kind |-> "source", by |-> NoPlan]
Lost == [kind |-> "lost", by |-> NoPlan]
InRecovery(p) == [kind |-> "recovery", by |-> p]
RemovedBy(p) == [kind |-> "removed", by |-> p]

Unplanned == [items |-> {}, disposition |-> "Quarantine", keeper |-> NoFile]
PlanRecord == [items : SUBSET File, keeper : File \cup {NoFile},
               disposition : {"RecycleBin", "Quarantine", "Permanent"}]

Init ==
    /\ plan = [p \in Plan |-> Unplanned]
    /\ custody = [f \in File |-> AtSource]
    /\ authority = [p \in Plan |-> [f \in File |-> "unused"]]

MakePlan(p) ==
    /\ plan[p] = Unplanned
    /\ \E r \in PlanRecord : plan' = [plan EXCEPT ![p] = r]
    /\ UNCHANGED <<custody, authority>>

Arm(p, f) ==
    /\ f \in plan[p].items
    /\ authority[p][f] = "unused"
    /\ authority' = [authority EXCEPT ![p][f] = "armed"]
    /\ UNCHANGED <<plan, custody>>

\* One effect per plan and file, of the kind the plan was made for.
Use(p, f) ==
    /\ authority[p][f] = "armed"
    /\ custody[f] = AtSource
    /\ authority' = [authority EXCEPT ![p][f] = "spent"]
    /\ \/ /\ plan[p].disposition = "Quarantine"
          /\ custody' = [custody EXCEPT ![f] = InRecovery(p)]
       \/ /\ plan[p].disposition = "Permanent"
          /\ custody' = [custody EXCEPT ![f] = RemovedBy(p)]
    /\ UNCHANGED plan

\* Authority lapses without an effect: a refusal, a crash, a restart.
Lapse(p) ==
    /\ \E F \in SUBSET plan[p].items :
        authority' = [authority EXCEPT ![p] =
            [f \in File |-> IF f \in F THEN "spent" ELSE @[f]]]
    /\ UNCHANGED <<plan, custody>>

Return(p, f) ==
    /\ authority[p][f] = "spent"
    /\ custody[f] = InRecovery(p)
    /\ custody' = [custody EXCEPT ![f] = AtSource]
    /\ UNCHANGED <<plan, authority>>

\* The user deletes a file, from its place or from recovery.
Lose(f) ==
    /\ custody[f].kind \in {"source", "recovery"}
    /\ custody' = [custody EXCEPT ![f] = Lost]
    /\ UNCHANGED <<plan, authority>>

Next ==
    \/ \E p \in Plan : MakePlan(p) \/ Lapse(p)
    \/ \E p \in Plan, f \in File : Arm(p, f) \/ Use(p, f) \/ Return(p, f)
    \/ \E f \in File : Lose(f)

Spec == Init /\ [][Next]_vars
=============================================================================
