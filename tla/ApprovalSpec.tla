---------------------------- MODULE ApprovalSpec ----------------------------
(***************************************************************************)
(* What the InstallPlan approver promises, independent of how it reads the *)
(* cluster (spec section 6): a plan is approved only in enforce mode, only *)
(* while no plan is installing and the current plan has not failed, only  *)
(* when it is the one and only approvable plan among those awaiting        *)
(* approval, and an approval is never taken back.  A plan that stays the   *)
(* one approvable plan is eventually approved.  Everything else (the plans *)
(* awaiting approval, whether the approver is blocked, the policy) is the  *)
(* environment's and may change at any step.                               *)
(***************************************************************************)
EXTENDS FiniteSets

CONSTANTS
    Plans,    \* InstallPlan names
    CSVs,     \* CSV names a plan may target
    Modes     \* remediation modes

VARIABLES
    approved, \* plans the approver has approved
    pending,  \* plan -> the CSVs it targets, {} when not awaiting approval
    blocked,  \* a plan is installing, or the current plan failed
    allow,    \* the allow-list (spec.versions); {} allows any CSV
    mode      \* remediation of the policy the approver acts on

avars == <<approved, pending, blocked, allow, mode>>

(* A plan is approvable when it targets exactly one CSV and that CSV is
   allowed.                                                                *)
ApprovableNow ==
    {q \in Plans : /\ Cardinality(pending[q]) = 1
                   /\ allow = {} \/ pending[q] \subseteq allow}

Init ==
    /\ approved = {}
    /\ pending \in [Plans -> SUBSET CSVs]
    /\ blocked \in BOOLEAN
    /\ allow \in SUBSET CSVs
    /\ mode \in Modes

(* The approver approves q: ambiguity (zero or several approvable plans)
   is never resolved on the user's behalf.  Whether the approver is blocked
   is the environment's, and may change in the same step.                  *)
Approve(q) ==
    /\ mode = "enforce"
    /\ ~blocked
    /\ ApprovableNow = {q}
    /\ approved' = approved \cup {q}
    /\ blocked' \in BOOLEAN
    /\ UNCHANGED <<pending, allow, mode>>

(* OLM, users and the cache change what is pending and the policy.         *)
Observe ==
    /\ pending' \in [Plans -> SUBSET CSVs]
    /\ blocked' \in BOOLEAN
    /\ allow' \in SUBSET CSVs
    /\ mode' \in Modes
    /\ UNCHANGED approved

Next == (\E q \in Plans : Approve(q)) \/ Observe

Safety == Init /\ [][Next]_avars

(* Progress: an approval that stays allowed and is not yet made is made.   *)
Progress == WF_avars(\E q \in Plans : q \notin approved /\ Approve(q))

Spec == Safety /\ Progress
=============================================================================
