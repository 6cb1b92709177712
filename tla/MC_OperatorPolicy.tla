--------------------------- MODULE MC_OperatorPolicy ---------------------------
(* Instantiation of OperatorPolicy for TLC: two CSVs, two InstallPlans, two
   OperatorGroup slots, and the policy specs and starting clusters each
   configuration picks from.                                                *)
EXTENDS OperatorPolicy

CONSTANTS c1, c2, p1, p2, g1, g2

MCCSVs    == {c1, c2}
MCPlanIds == {p1, p2}
MCOGIds   == {g1, g2}

MCPlanShapes == {{c1}, {c2}, {c1, c2}}

Spec_(rem, vers, named, subValid, ogValid) ==
    [remediation |-> rem, versions |-> vers, approval |-> "Automatic",
     subValid |-> subValid, ogValid |-> ogValid, ogSpecified |-> named]

NoOGs   == [i \in MCOGIds |-> Absent]
NoPlans == [q \in MCPlanIds |-> Absent]
NoCSVs  == [c \in MCCSVs |-> "Absent"]

EmptyNS == [ogs |-> NoOGs, sub |-> Absent, plans |-> NoPlans, csv |-> NoCSVs,
            dep |-> "Missing", cat |-> "Ready", ns |-> TRUE]

NamedOG == [name |-> "Named", spec |-> "Match", by |-> "user"]

(* A Subscription installed earlier by hand, with Automatic approval.     *)
OldSub == [spec |-> "Match", approval |-> "Automatic", resFailed |-> "None",
           installedCSV |-> c1, ipRef |-> None]

(* OperatorGroup handling: an enforced policy with a named OperatorGroup,
   and the same policy in inform mode.                                     *)
OGSpecsNamed == {Spec_("enforce", {}, TRUE, TRUE, TRUE),
                 Spec_("inform", {}, TRUE, TRUE, TRUE)}
OGSpecsEnforced == {Spec_("enforce", {}, TRUE, TRUE, TRUE)}
OGSpecsDefault == {Spec_("enforce", {}, FALSE, TRUE, TRUE)}
OGClusters == {EmptyNS}

(* Approval: an allow-list of c1 in enforce mode, and inform mode; the
   namespace holds the OperatorGroup and an installed Subscription.        *)
IPSpecs == {Spec_("enforce", {c1}, TRUE, TRUE, TRUE)}
IPSpecsAny == {Spec_("enforce", {}, TRUE, TRUE, TRUE),
               Spec_("inform", {c1}, TRUE, TRUE, TRUE)}
IPClusters ==
    {[EmptyNS EXCEPT !.ogs = [NoOGs EXCEPT ![g1] = NamedOG],
                     !.sub = [OldSub EXCEPT !.approval = "Manual"],
                     !.csv = [NoCSVs EXCEPT ![c1] = "Succeeded"],
                     !.dep = "Available"]}

(* Validation and failures: invalid specs, a missing namespace, failing
   API calls.                                                              *)
ErrSpecs == {Spec_("enforce", {}, TRUE, TRUE, TRUE),
             Spec_("enforce", {}, TRUE, FALSE, FALSE),
             Spec_("inform", {}, FALSE, FALSE, TRUE)}
ErrClusters ==
    {[EmptyNS EXCEPT !.ns = FALSE],
     [EmptyNS EXCEPT !.ogs = [NoOGs EXCEPT ![g1] = [NamedOG EXCEPT !.spec = "Drift"]],
                     !.sub = [OldSub EXCEPT !.spec = "Drift"]],
     [EmptyNS EXCEPT !.ogs = [NoOGs EXCEPT ![g1] = NamedOG], !.sub = OldSub,
                     !.csv = [NoCSVs EXCEPT ![c1] = "Succeeded"],
                     !.dep = "Available"]}

(* Stripped status: an enforced policy whose allow-list forces Manual
   approval on a Subscription installed with Automatic approval.          *)
StripSpecs == {Spec_("enforce", {c1}, TRUE, TRUE, TRUE)}
StripClusters ==
    {[EmptyNS EXCEPT !.ogs = [NoOGs EXCEPT ![g1] = NamedOG], !.sub = OldSub,
                     !.csv = [NoCSVs EXCEPT ![c1] = "Succeeded"],
                     !.dep = "Available"]}
=============================================================================
