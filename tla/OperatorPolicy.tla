---------------------------- MODULE OperatorPolicy ----------------------------
(***************************************************************************)
(* The OperatorPolicy reconciler of                                        *)
(* src/controllers/operatorpolicy_controller.go, for one policy.           *)
(*                                                                         *)
(* The reconciler reads every dependency through the dependency-watch      *)
(* cache (DynamicWatcher), which lags behind the cluster: `cluster` is the *)
(* API server's state and `cache` the reconciler's view of it, brought up  *)
(* to date one kind at a time by Sync.  A reconcile run is one step per    *)
(* handler of handleResources (pc), so the cluster, OLM, the user and the  *)
(* cache all interleave between the stages of a run.  Each stage action    *)
(* is the whole handler: its reads, its writes to the cluster and its      *)
(* updateStatus calls on the in-memory policy status `conds`.              *)
(*                                                                         *)
(* Object contents are abstracted to what decides the handlers' branches:  *)
(* an object's spec is the outcome mergeObjects computes for it against   *)
(* the desired object ("Match": no difference; "Defaulted": a difference   *)
(* the server-side dry run absorbs; "Drift": a real difference;            *)
(* "Immutable": the dry run is rejected as Forbidden).                     *)
(***************************************************************************)
EXTENDS Naturals, FiniteSets

CONSTANTS
    CSVs,          \* ClusterServiceVersion names (model values)
    PlanIds,       \* InstallPlan names (model values)
    OGIds,         \* slots for OperatorGroups in the operator namespace
    PlanShapes,    \* sets of CSVs an InstallPlan created by OLM may target
    PolicySpecs,   \* the policy specs the user may apply (records, see below)
    EditOutcomes,  \* what a user's edit of an object does to its merge outcome
    Env,           \* the environment actors enabled in this model
    Faults,        \* the API calls that may fail: "read" (cache), "write"
    MaxEnvSteps    \* bound on the number of environment steps

CONSTANTS
    None,          \* no CSV or InstallPlan referenced (model value)
    Absent,        \* no object at this place (model value)
    Nil            \* a nil object passed between handlers (model value)

Outcomes    == {"Match", "Defaulted", "Drift", "Immutable"}
Phases      == {"RequiresApproval", "Installing", "Complete", "Failed"}
Remediation == {"inform", "enforce"}
Approvals   == {"Manual", "Automatic"}

(* spec.remediationAction, spec.versions, spec.subscription.installPlanApproval,
   whether spec.subscription / spec.operatorGroup pass buildSubscription /
   buildOperatorGroup, and whether spec.operatorGroup is given at all.      *)
PolicySpec == [remediation: Remediation, versions: SUBSET CSVs,
               approval: Approvals, subValid: BOOLEAN, ogValid: BOOLEAN,
               ogSpecified: BOOLEAN]

ASSUME PolicySpecs \subseteq PolicySpec /\ PolicySpecs # {}
ASSUME PlanShapes \subseteq (SUBSET CSVs \ {{}})
ASSUME EditOutcomes \subseteq Outcomes
ASSUME Faults \subseteq {"read", "write"}
ASSUME MaxEnvSteps \in Nat

(* Name of an OperatorGroup: the one named in the policy, one generated from
   the "<namespace>-" prefix the default OperatorGroup uses, or another.    *)
OGNames  == {"Named", "Generated", "Other"}
OGState  == [name: OGNames, spec: Outcomes, by: {"ctl", "user"}]
SubState == [spec: Outcomes, approval: Approvals,
             resFailed: {"None", "Mine", "Other"},
             installedCSV: CSVs \cup {None}, ipRef: PlanIds \cup {None}]
PlanState == [csvs: PlanShapes, owner: {"Mine", "Other"}, phase: Phases,
              approved: BOOLEAN]
Cluster == [ogs: [OGIds -> OGState \cup {Absent}],
            sub: SubState \cup {Absent},
            plans: [PlanIds -> PlanState \cup {Absent}],
            csv: [CSVs -> {"Absent", "Succeeded", "Failed"}],
            dep: {"Missing", "Available", "Unavailable"},
            cat: {"Missing", "NoState", "Ready", "NotReady"},
            ns: BOOLEAN]
Kinds == {"ogs", "sub", "plans", "csv", "dep", "cat", "ns"}

(* The condition types of the policy status and the reasons (condition plus
   message) each handler can write to them.                                *)
Dims == {"Valid", "OG", "Sub", "IP", "CSV", "Dep", "Cat"}
Reasons == {"Unset", "Valid", "Invalid", "Unknown", "Missing", "Created",
            "Matches", "Preexisting", "Mismatch", "MismatchUnfixable",
            "Updated", "TooMany", "ResolutionFailed", "NoPlans", "Failed",
            "Installing", "NoApprovals", "Upgrade", "Approved", "NoCSV",
            "CSVMissing", "CSVSucceeded", "CSVFailed", "NoDeployments",
            "Available", "Unavailable", "CatMissing", "CatUnknownState",
            "CatFound", "CatUnhealthy"}
NonCompliantReasons ==
    {"Invalid", "Unknown", "Missing", "Mismatch", "MismatchUnfixable",
     "TooMany", "ResolutionFailed", "Failed", "Installing", "Upgrade",
     "NoCSV", "CSVMissing", "CSVFailed", "Unavailable", "CatMissing",
     "CatUnknownState", "CatUnhealthy"}

(* Stages of one run, in the order handleResources calls them.            *)
Stage == [build |-> "og", og |-> "sub", sub |-> "ip", ip |-> "csv",
          csv |-> "dep", dep |-> "cat", cat |-> "finish"]
Stages == DOMAIN Stage

VARIABLES
    cluster,    \* the API server's objects in the operator namespace
    cache,      \* the dependency-watch cache's view of them
    policy,     \* the OperatorPolicy spec as the user last applied it
    status,     \* the persisted policy status: a reason per condition type
    lastEvent,  \* compliance of the last compliance event emitted
    trigger,    \* a reconcile request is queued
    envSteps,   \* environment steps taken so far
    audit,      \* history: every InstallPlan approval the reconciler made
    pc,         \* "idle" or the stage of the current run
    pol,        \* the policy spec read at the start of the run
    conds,      \* the in-memory policy status of the current run
    changed,    \* condChanged of handleResources so far
    early,      \* an early compliance event is pending in this run
    runErr,     \* the run returns an error (and is requeued)
    subOut,     \* the Subscription handleSubscription passes on: Nil or its status
    csvOut,     \* the CSV handleCSV passes on: Nil or its name
    ran,        \* history: the stages that evaluated in this run
    subSeen,    \* history: the Subscription handleSubscription read, or Absent
    pending,    \* kinds with watch events the informers have not delivered
    policySeen, \* the policy spec in the manager's cache, which Reconcile reads
    statusSeen, \* the policy status in the manager's cache
    polSynced,  \* the cached policy is the API server's (same resourceVersion)
    rvOK,       \* the run's policy still has the server's resourceVersion
    base,       \* the status the current run started from
    faulty,     \* API calls of the current run may fail (Faults)
    lastEmit,   \* history: the status transition of the last final event
    deleted,    \* the policy has been deleted from the API server
    deletedSeen,\* the manager's cache has the deletion (Get is NotFound)
    watched     \* the DynamicWatcher has a watcher for the policy

envVars == <<policy, envSteps, trigger>>
runVars == <<pol, conds, changed, early, runErr, subOut, csvOut, ran, subSeen,
             base, faulty>>
polVars == <<policySeen, statusSeen, polSynced, rvOK, lastEmit>>
delVars == <<deleted, deletedSeen, watched>>
vars == <<cluster, cache, policy, status, lastEvent, trigger, envSteps,
          audit, pc, runVars, pending, polVars, delVars>>

Compliance(c) ==
    IF \E d \in Dims : c[d] \in NonCompliantReasons
    THEN "NonCompliant" ELSE "Compliant"

(* Desired Subscription approval (buildSubscription): forced to Manual when
   enforcing a version allow-list.                                         *)
DesiredApproval(p) ==
    IF p.remediation = "enforce" /\ p.versions # {} THEN "Manual" ELSE p.approval

(* Name of the OperatorGroup buildOperatorGroup builds.                    *)
DesiredOGName(p) == IF p.ogSpecified THEN "Named" ELSE "Generated"

(* Outcome of mergeObjects for the Subscription: a differing
   installPlanApproval is a real difference unless the object is immutable. *)
SubOutcome(s, p) ==
    IF s.spec # "Immutable" /\ s.approval # DesiredApproval(p)
    THEN "Drift" ELSE s.spec

(* Faults are transient: a run is faulty, and then any of its API calls of
   a kind in Faults may fail, only while the environment budget lasts; each
   faulty run spends one step of it.                                       *)
FaultChoice == IF Faults # {} /\ envSteps < MaxEnvSteps THEN BOOLEAN ELSE {FALSE}
FaultSpent(f) == envSteps' = IF f THEN envSteps + 1 ELSE envSteps
Fails(k) == k \in Faults /\ faulty
MayFail(k) == IF Fails(k) THEN BOOLEAN ELSE {FALSE}

FreeOG(c) == {i \in OGIds : c.ogs[i] = Absent}

CONSTANT InitClusters  \* cluster states the namespace may start in
CONSTANT PolicyCacheLag \* the manager's policy cache may lag the API server
ASSUME PolicyCacheLag \in BOOLEAN
ASSUME InitClusters \subseteq Cluster /\ InitClusters # {}

RunReset ==
    /\ pol' = CHOOSE p \in PolicySpecs : TRUE
    /\ conds' = [d \in Dims |-> "Unset"]
    /\ changed' = FALSE /\ early' = FALSE /\ runErr' = FALSE
    /\ subOut' = Nil /\ csvOut' = Nil /\ ran' = {} /\ subSeen' = Absent
    /\ base' = [d \in Dims |-> "Unset"]
    /\ faulty' = FALSE

Init ==
    /\ cluster \in InitClusters
    /\ cache = cluster
    /\ policy \in PolicySpecs
    /\ status = [d \in Dims |-> "Unset"]
    /\ lastEvent = "none"
    /\ trigger = TRUE           \* creating the policy enqueues it
    /\ envSteps = 0
    /\ audit = {}
    /\ pc = "idle"
    /\ pol = CHOOSE p \in PolicySpecs : TRUE
    /\ conds = [d \in Dims |-> "Unset"]
    /\ changed = FALSE /\ early = FALSE /\ runErr = FALSE
    /\ subOut = Nil /\ csvOut = Nil /\ ran = {} /\ subSeen = Absent
    /\ pending = {}
    /\ base = [d \in Dims |-> "Unset"]
    /\ faulty = FALSE
    /\ policySeen = policy /\ statusSeen = status /\ polSynced = TRUE
    /\ rvOK = FALSE /\ lastEmit = None
    /\ deleted = FALSE /\ deletedSeen = FALSE /\ watched = FALSE

-----------------------------------------------------------------------------
(***************************************************************************)
(* Environment: the user, OLM and the cluster.  Steps that create or edit  *)
(* objects spend the MaxEnvSteps budget; OLM's progress of an existing     *)
(* InstallPlan is finite by itself and does not.                           *)
(***************************************************************************)
EnvStep(actor) ==
    /\ actor \in Env
    /\ envSteps < MaxEnvSteps
    /\ envSteps' = envSteps + 1

SetCluster(k, v) == cluster' = [cluster EXCEPT ![k] = v]

UserAddOG ==
    /\ EnvStep("ogAdd")
    /\ \E i \in FreeOG(cluster) :
         SetCluster("ogs", [cluster.ogs EXCEPT ![i] =
                              [name |-> "Other", spec |-> "Match", by |-> "user"]])
    /\ UNCHANGED <<policy, trigger>>

UserDeleteOG ==
    /\ EnvStep("ogDelete")
    /\ \E i \in OGIds \ FreeOG(cluster) :
         SetCluster("ogs", [cluster.ogs EXCEPT ![i] = Absent])
    /\ UNCHANGED <<policy, trigger>>

UserEditOG ==
    /\ EnvStep("ogEdit")
    /\ \E i \in OGIds \ FreeOG(cluster), e \in EditOutcomes :
         /\ cluster.ogs[i].spec # e
         /\ SetCluster("ogs", [cluster.ogs EXCEPT ![i].spec = e])
    /\ UNCHANGED <<policy, trigger>>

UserEditSub ==
    /\ EnvStep("subEdit")
    /\ cluster.sub # Absent
    /\ \E e \in EditOutcomes :
         /\ cluster.sub.spec # e
         /\ SetCluster("sub", [cluster.sub EXCEPT !.spec = e])
    /\ UNCHANGED <<policy, trigger>>

(* OLM writes the namespace's ResolutionFailed condition on the
   Subscription: about this Subscription ("Mine") or another one.          *)
OLMResolution ==
    /\ EnvStep("resolution")
    /\ cluster.sub # Absent
    /\ \E r \in {"None", "Mine", "Other"} :
         /\ cluster.sub.resFailed # r
         /\ SetCluster("sub", [cluster.sub EXCEPT !.resFailed = r])
    /\ UNCHANGED <<policy, trigger>>

(* OLM resolves an upgrade into a new InstallPlan, owned by this
   Subscription (which then references it) or by another one; with
   Automatic approval it is created approved.                              *)
OLMCreatePlan ==
    /\ EnvStep("olm")
    /\ cluster.sub # Absent
    /\ \E p \in PlanIds, shape \in PlanShapes, owner \in {"Mine", "Other"} :
         /\ cluster.plans[p] = Absent
         /\ cluster' = [cluster EXCEPT
               !.plans[p] = [csvs |-> shape, owner |-> owner,
                             phase |-> "RequiresApproval",
                             approved |-> cluster.sub.approval = "Automatic"],
               !.sub = IF owner = "Mine" THEN [@ EXCEPT !.ipRef = p] ELSE @]
    /\ UNCHANGED <<policy, trigger>>

(* OLM starts installing an approved InstallPlan.                          *)
OLMInstall ==
    /\ "olm" \in Env
    /\ \E p \in PlanIds :
         /\ cluster.plans[p] # Absent
         /\ cluster.plans[p].phase = "RequiresApproval"
         /\ cluster.plans[p].approved
         /\ SetCluster("plans", [cluster.plans EXCEPT ![p].phase = "Installing"])
    /\ UNCHANGED envVars

(* An installing InstallPlan completes, installing one of its CSVs (which
   becomes the Subscription's installedCSV when the plan is this
   Subscription's), or fails.                                              *)
OLMFinish ==
    /\ "olm" \in Env
    /\ \E p \in PlanIds :
         /\ cluster.plans[p] # Absent
         /\ cluster.plans[p].phase = "Installing"
         /\ \/ SetCluster("plans", [cluster.plans EXCEPT ![p].phase = "Failed"])
            \/ \E c \in cluster.plans[p].csvs :
                 cluster' = [cluster EXCEPT
                    !.plans[p].phase = "Complete",
                    !.csv[c] = "Succeeded",
                    !.dep = "Available",
                    !.sub = IF @ # Absent /\ cluster.plans[p].owner = "Mine"
                            THEN [@ EXCEPT !.installedCSV = c] ELSE @]
    /\ UNCHANGED envVars

(* The installed operator's health changes: its CSV phase, its Deployment,
   the CatalogSource's connection state; the namespace gets created.       *)
HealthChange ==
    /\ EnvStep("health")
    /\ \/ \E c \in CSVs, ph \in {"Succeeded", "Failed"} :
            /\ cluster.csv[c] \notin {"Absent", ph}
            /\ SetCluster("csv", [cluster.csv EXCEPT ![c] = ph])
       \/ \E d \in {"Available", "Unavailable"} :
            /\ cluster.dep \notin {"Missing", d}
            /\ SetCluster("dep", d)
       \/ \E s \in {"Missing", "NoState", "Ready", "NotReady"} :
            /\ cluster.cat # s
            /\ SetCluster("cat", s)
       \/ /\ ~cluster.ns
          /\ SetCluster("ns", TRUE)
    /\ UNCHANGED <<policy, trigger>>

(* The user applies another policy spec: the generation changes, so the
   policy is enqueued (GenerationChangedPredicate).                        *)
UserEditPolicy ==
    /\ EnvStep("policy")
    /\ ~deleted
    /\ \E p \in PolicySpecs \ {policy} : policy' = p
    /\ trigger' = (trigger \/ ~PolicyCacheLag)
    /\ UNCHANGED cluster

(* The user deletes the policy.  GenerationChangedPredicate passes delete
   events, so the manager enqueues it once its cache has the deletion.
   The objects the policy created stay: they carry no owner reference.     *)
UserDeletePolicy ==
    /\ EnvStep("delete")
    /\ ~deleted
    /\ deleted' = TRUE
    /\ trigger' = (trigger \/ ~PolicyCacheLag)
    /\ UNCHANGED <<cluster, policy>>

Environment ==
    \/ /\ \/ UserAddOG \/ UserDeleteOG \/ UserEditOG \/ UserEditSub
          \/ OLMResolution \/ OLMCreatePlan \/ OLMInstall \/ OLMFinish
          \/ HealthChange \/ UserEditPolicy
       /\ UNCHANGED deleted
    \/ UserDeletePolicy

(* Every write to the cluster, by anyone, is a watch event of its kind.  *)
Touch == pending' = pending \cup {k \in Kinds : cluster'[k] # cluster[k]}

(* The informer of kind k delivers its events: the cache catches up and
   the dependency watch enqueues the policy.                               *)
Sync(k) ==
    /\ k \in pending
    /\ pending' = pending \ {k}
    /\ cache' = [cache EXCEPT ![k] = cluster[k]]
    /\ trigger' = (trigger \/ watched)

-----------------------------------------------------------------------------
(***************************************************************************)
(* The reconciler.  Record(d, r) is updateStatus(policy, cond) on the      *)
(* in-memory status: it reports a change when the reason differs.         *)
(***************************************************************************)
Record(d, r) ==
    /\ conds' = [conds EXCEPT ![d] = r]
    /\ changed' = (changed \/ conds[d] # r)

(* updateStatus after a successful create or update: handled as changed.  *)
RecordWrite(d, r) ==
    /\ conds' = [conds EXCEPT ![d] = r]
    /\ changed' = TRUE

Advance == pc' = Stage[pc] /\ ran' = ran \cup {pc} /\ UNCHANGED runErr

(* A handler returns an error: handleResources returns at once.            *)
Abort == pc' = "finish" /\ runErr' = TRUE /\ ran' = ran \cup {pc}

(* Mutant: the not-found branch returns without removing the watcher.    *)
ReconcileGoneKeepsWatcher ==
    /\ pc = "idle"
    /\ trigger
    /\ deletedSeen
    /\ trigger' = FALSE
    /\ UNCHANGED <<cluster, cache, policy, status, lastEvent, envSteps, audit,
                   pc, runVars, polVars, deleted, deletedSeen, watched>>

(* Reconcile, policy not found: the watcher is removed and nil is
   returned, so nothing is requeued.  A failure to remove it is only
   logged: the watcher stays until a dependency event brings Reconcile
   back.                                                                   *)
ReconcileGone ==
    /\ pc = "idle"
    /\ trigger
    /\ deletedSeen
    /\ trigger' = FALSE
    /\ \E f \in FaultChoice : watched' = (watched /\ f) /\ FaultSpent(f)
    /\ UNCHANGED <<cluster, cache, policy, status, lastEvent, audit,
                   pc, runVars, polVars, deleted, deletedSeen>>

(* Reconcile: the policy is read and a query batch started, which
   registers the policy's watcher with the DynamicWatcher.                 *)
StartReconcile ==
    /\ pc = "idle"
    /\ trigger
    /\ ~deletedSeen
    /\ trigger' = FALSE
    /\ watched' = TRUE
    /\ \E f \in FaultChoice : faulty' = f /\ FaultSpent(f)
    /\ pc' = "build"
    /\ pol' = policySeen
    /\ conds' = statusSeen /\ base' = statusSeen
    /\ rvOK' = polSynced
    /\ changed' = FALSE /\ early' = FALSE /\ runErr' = FALSE
    /\ subOut' = Nil /\ csvOut' = Nil /\ ran' = {} /\ subSeen' = Absent
    /\ UNCHANGED <<cluster, cache, policy, status, lastEvent, audit,
                   policySeen, statusSeen, polSynced, lastEmit, deleted,
                   deletedSeen>>

(* buildResources: validation of both specs and of the namespace's
   existence, read from the cache, into the Valid condition.               *)
BuildResources ==
    /\ pc = "build"
    /\ \/ /\ Fails("read")
          /\ Abort
          /\ UNCHANGED <<conds, changed>>
       \/ /\ Record("Valid", IF pol.subValid /\ pol.ogValid /\ cache.ns
                             THEN "Valid" ELSE "Invalid")
          /\ Advance
    /\ UNCHANGED <<cluster, early, subOut, csvOut, audit, subSeen>>

(* Mutant: an enforced policy only reports a mismatch, never updates.    *)
OGVerdictNoUpdate(o, p) ==
    CASE o.spec \in {"Match", "Defaulted"}                      -> "Matches"
      [] ~p.ogSpecified                                        -> "Preexisting"
      [] p.remediation = "enforce" /\ o.spec = "Immutable"     -> "MismatchUnfixable"
      [] OTHER                                                 -> "Mismatch"

(* Verdict of handleOpGroup on the single OperatorGroup o whose name
   matches, when no update is made; "Update" when one is due.              *)
OGVerdict(o, p) ==
    CASE o.spec \in {"Match", "Defaulted"}                      -> "Matches"
      [] ~p.ogSpecified                                        -> "Preexisting"
      [] p.remediation = "enforce" /\ o.spec = "Immutable"     -> "MismatchUnfixable"
      [] p.remediation = "inform"                              -> "Mismatch"
      [] OTHER                                                 -> "Update"

(* handleOpGroup with no OperatorGroup in the cache: report it missing and,
   when enforcing, create the desired one.  The create fails if one of the
   same name exists or the namespace does not; earlyConds are then lost.   *)
OpGroupMissing ==
    LET chg    == conds["OG"] # "Missing"
        taken  == pol.ogSpecified /\ \E i \in OGIds \ FreeOG(cluster) :
                                         cluster.ogs[i].name = "Named"
    IN  \/ /\ pol.remediation = "inform"
           /\ Record("OG", "Missing") /\ Advance
           /\ UNCHANGED <<cluster, early>>
        \/ /\ pol.remediation = "enforce"
           /\ \/ Fails("write") \/ taken \/ ~cluster.ns
           /\ Record("OG", "Missing") /\ Abort
           /\ UNCHANGED <<cluster, early>>
        \/ /\ pol.remediation = "enforce"
           /\ ~taken /\ cluster.ns
           /\ \E i \in FreeOG(cluster) :
                SetCluster("ogs", [cluster.ogs EXCEPT ![i] =
                   [name |-> DesiredOGName(pol), spec |-> "Match", by |-> "ctl"]])
           /\ RecordWrite("OG", "Created") /\ Advance
           /\ early' = (early \/ chg)

(* handleOpGroup with exactly one OperatorGroup o (slot i) in the cache.
   A non-Match spec is checked by a dry-run update of the cached copy,
   which fails if the object changed since (resourceVersion) or is gone.   *)
OpGroupSingle(i) ==
    LET o   == cache.ogs[i]
        v   == OGVerdict(o, pol)
        chg == conds["OG"] # "Mismatch"
    IN  \/ /\ o.name # DesiredOGName(pol)
           /\ Record("OG", IF pol.ogSpecified THEN "Mismatch" ELSE "Preexisting")
           /\ Advance
           /\ UNCHANGED <<cluster, early>>
        \/ /\ o.name = DesiredOGName(pol)
           /\ o.spec # "Match"
           /\ Fails("write") \/ cluster.ogs[i] # o
           /\ Abort
           /\ UNCHANGED <<cluster, conds, changed, early>>
        \/ /\ o.name = DesiredOGName(pol)
           /\ o.spec = "Match" \/ cluster.ogs[i] = o
           /\ \/ /\ v # "Update"
                 /\ Record("OG", v) /\ Advance
                 /\ UNCHANGED <<cluster, early>>
              \/ /\ v = "Update" /\ Fails("write")
                 /\ Record("OG", "Mismatch") /\ Abort
                 /\ UNCHANGED <<cluster, early>>
              \/ /\ v = "Update"
                 /\ SetCluster("ogs", [cluster.ogs EXCEPT ![i].spec = "Match"])
                 /\ RecordWrite("OG", "Updated") /\ Advance
                 /\ early' = (early \/ chg)

HandleOpGroup ==
    /\ pc = "og"
    /\ LET found == OGIds \ FreeOG(cache) IN
       \/ /\ ~pol.ogValid
          /\ Record("OG", "Unknown") /\ Advance
          /\ UNCHANGED <<cluster, early>>
       \/ /\ pol.ogValid /\ Fails("read")
          /\ Abort
          /\ UNCHANGED <<cluster, conds, changed, early>>
       \/ pol.ogValid /\ found = {} /\ OpGroupMissing
       \/ pol.ogValid /\ \E i \in found : found = {i} /\ OpGroupSingle(i)
       \/ /\ pol.ogValid /\ Cardinality(found) > 1
          /\ Record("OG", "TooMany") /\ Advance
          /\ UNCHANGED <<cluster, early>>
    /\ UNCHANGED <<subOut, csvOut, audit, subSeen>>

(* Mutant: the InstallPlan reference is not carried over.                 *)
SubStatusNoRef(s) == [installedCSV |-> s.installedCSV]

(* The status part of a Subscription that later handlers read.            *)
SubStatus(s) == [installedCSV |-> s.installedCSV, ipRef |-> s.ipRef]
NoStatus     == [installedCSV |-> None, ipRef |-> None]

(* Verdict of handleSubscription on a found Subscription with merge
   outcome out and the ResolutionFailed condition it sees; "Update" when
   an update is due.                                                       *)
SubVerdict(out, resFailed, p) ==
    CASE out \in {"Match", "Defaulted"} /\ resFailed = "Mine" -> "ResolutionFailed"
      [] out \in {"Match", "Defaulted"}                      -> "Matches"
      [] p.remediation = "enforce" /\ out = "Immutable"      -> "MismatchUnfixable"
      [] p.remediation = "inform"                            -> "Mismatch"
      [] OTHER                                               -> "Update"

(* handleSubscription with no Subscription in the cache.  In inform mode
   the desired Subscription (with no status) is passed on.                 *)
SubMissing ==
    LET chg == conds["Sub"] # "Missing" IN
    \/ /\ pol.remediation = "inform"
       /\ Record("Sub", "Missing") /\ Advance
       /\ subOut' = NoStatus
       /\ UNCHANGED <<cluster, early>>
    \/ /\ pol.remediation = "enforce"
       /\ Fails("write") \/ cluster.sub # Absent \/ ~cluster.ns
       /\ Record("Sub", "Missing") /\ Abort
       /\ subOut' = Nil
       /\ UNCHANGED <<cluster, early>>
    \/ /\ pol.remediation = "enforce"
       /\ cluster.sub = Absent /\ cluster.ns
       /\ SetCluster("sub", [spec |-> "Match", approval |-> DesiredApproval(pol),
                             resFailed |-> "None", installedCSV |-> None,
                             ipRef |-> None])
       /\ RecordWrite("Sub", "Created") /\ Advance
       /\ early' = (early \/ chg)
       /\ subOut' = NoStatus

(* handleSubscription with Subscription s in the cache.  mergeObjects
   dry-runs the update of the merged copy when it differs; once the dry
   run succeeds it strips the status from that copy, which is the
   Subscription passed on (mergedSub).                                     *)
SubFound(s) ==
    LET out      == SubOutcome(s, pol)
        stripped == out \in {"Defaulted", "Drift"}
        seen     == IF stripped THEN NoStatus ELSE SubStatus(s)
        v        == SubVerdict(out, IF stripped THEN "None" ELSE s.resFailed, pol)
        chg      == conds["Sub"] # "Mismatch"
    IN  \/ /\ out # "Match"
           /\ Fails("write") \/ cluster.sub # s
           /\ Abort
           /\ subOut' = Nil
           /\ UNCHANGED <<cluster, conds, changed, early>>
        \/ /\ out = "Match" \/ cluster.sub = s
           /\ subOut' = seen
           /\ \/ /\ v # "Update"
                 /\ Record("Sub", v) /\ Advance
                 /\ UNCHANGED <<cluster, early>>
              \/ /\ v = "Update" /\ Fails("write")
                 /\ Record("Sub", "Mismatch") /\ Abort
                 /\ UNCHANGED <<cluster, early>>
              \/ /\ v = "Update"
                 /\ SetCluster("sub", [cluster.sub EXCEPT
                          !.spec = "Match", !.approval = DesiredApproval(pol)])
                 /\ RecordWrite("Sub", "Updated") /\ Advance
                 /\ early' = (early \/ chg)

HandleSubscription ==
    /\ pc = "sub"
    /\ subSeen' = IF pol.subValid THEN cache.sub ELSE Absent
    /\ \/ /\ ~pol.subValid
          /\ Record("Sub", "Unknown") /\ Advance
          /\ subOut' = Nil
          /\ UNCHANGED <<cluster, early>>
       \/ /\ pol.subValid /\ Fails("read")
          /\ Abort
          /\ subOut' = Nil
          /\ UNCHANGED <<cluster, conds, changed, early>>
       \/ pol.subValid /\ cache.sub = Absent /\ SubMissing
       \/ pol.subValid /\ cache.sub # Absent /\ SubFound(cache.sub)
    /\ UNCHANGED <<csvOut, audit>>

(* InstallPlans in view c owned by the policy's Subscription.             *)
Owned(c) == {q \in PlanIds : c.plans[q] # Absent /\ c.plans[q].owner = "Mine"}
Requiring(c) == {q \in Owned(c) : c.plans[q].phase = "RequiresApproval"}

(* Plans handleInstallPlan may approve: one CSV, allowed by spec.versions
   (any CSV when the list is empty).                                       *)
Approvable(c, p) ==
    {q \in Requiring(c) : /\ Cardinality(c.plans[q].csvs) = 1
                          /\ p.versions = {} \/ c.plans[q].csvs \subseteq p.versions}

(* Mutant: only an empty approvable set is left to the user.              *)
IPVerdictAmbiguous(c, s, p) ==
    CASE Owned(c) = {}                                           -> "NoPlans"
      [] \E q \in Owned(c) : c.plans[q].phase = "Failed" /\ s.ipRef = q -> "Failed"
      [] \E q \in Owned(c) : c.plans[q].phase = "Installing"   -> "Installing"
      [] Requiring(c) = {}                                       -> "NoApprovals"
      [] p.remediation = "inform"                                -> "Upgrade"
      [] Approvable(c, p) = {}                                   -> "Upgrade"
      [] OTHER                                                   -> "Approve"

(* Mutant: any failed plan blocks, not only the referenced one.          *)
IPVerdictAnyFailed(c, s, p) ==
    CASE Owned(c) = {}                                           -> "NoPlans"
      [] \E q \in Owned(c) : c.plans[q].phase = "Failed"         -> "Failed"
      [] \E q \in Owned(c) : c.plans[q].phase = "Installing"   -> "Installing"
      [] Requiring(c) = {}                                       -> "NoApprovals"
      [] p.remediation = "inform"                                -> "Upgrade"
      [] Cardinality(Approvable(c, p)) # 1                       -> "Upgrade"
      [] OTHER                                                   -> "Approve"

(* Verdict of handleInstallPlan for Subscription status s; "Approve" when
   exactly one plan is approvable in enforce mode.                         *)
IPVerdict(c, s, p) ==
    CASE Owned(c) = {}                                           -> "NoPlans"
      [] \E q \in Owned(c) : c.plans[q].phase = "Failed" /\ s.ipRef = q -> "Failed"
      [] \E q \in Owned(c) : c.plans[q].phase = "Installing"   -> "Installing"
      [] Requiring(c) = {}                                       -> "NoApprovals"
      [] p.remediation = "inform"                                -> "Upgrade"
      [] Cardinality(Approvable(c, p)) # 1                       -> "Upgrade"
      [] OTHER                                                   -> "Approve"

(* handleInstallPlan: the approval updates the cached copy of the plan,
   which carries its resourceVersion and so conflicts if the plan changed. *)
HandleInstallPlan ==
    /\ pc = "ip"
    /\ \/ /\ subOut = Nil
          /\ Record("IP", "Unknown") /\ Advance
          /\ UNCHANGED <<cluster, audit>>
       \/ /\ subOut # Nil /\ Fails("read")
          /\ Abort
          /\ UNCHANGED <<cluster, conds, changed, audit>>
       \/ /\ subOut # Nil
          /\ LET v == IPVerdict(cache, subOut, pol) IN
             \/ /\ v # "Approve"
                /\ Record("IP", v) /\ Advance
                /\ UNCHANGED <<cluster, audit>>
             \/ /\ v = "Approve"
                /\ \E q \in Approvable(cache, pol) :
                   \/ /\ Fails("write") \/ cluster.plans[q] # cache.plans[q]
                      /\ Abort
                      /\ UNCHANGED <<cluster, conds, changed, audit>>
                   \/ /\ cluster.plans[q] = cache.plans[q]
                      /\ SetCluster("plans", [cluster.plans EXCEPT ![q].approved = TRUE])
                      /\ Record("IP", "Approved") /\ Advance
                      /\ audit' = audit \cup
                            {[plan |-> q, csvs |-> cache.plans[q].csvs,
                              versions |-> pol.versions,
                              remediation |-> pol.remediation]}
    /\ UNCHANGED <<early, subOut, csvOut, subSeen>>

(* handleCSV: the Subscription's installedCSV, read from the cache.        *)
HandleCSV ==
    /\ pc = "csv"
    /\ LET name == IF subOut = Nil THEN None ELSE subOut.installedCSV IN
       \/ /\ name = None
          /\ Record("CSV", "NoCSV") /\ Advance
          /\ csvOut' = Nil
       \/ /\ name # None /\ Fails("read")
          /\ Abort
          /\ csvOut' = Nil
          /\ UNCHANGED <<conds, changed>>
       \/ /\ name # None
          /\ LET st == cache.csv[name] IN
             /\ Record("CSV", CASE st = "Absent"    -> "CSVMissing"
                                [] st = "Succeeded" -> "CSVSucceeded"
                                [] OTHER            -> "CSVFailed")
             /\ csvOut' = IF st = "Absent" THEN Nil ELSE name
          /\ Advance
    /\ UNCHANGED <<cluster, early, subOut, audit, subSeen>>

(* handleDeployment: the CSV's Deployment and its unavailable replicas.    *)
HandleDeployment ==
    /\ pc = "dep"
    /\ \/ /\ csvOut = Nil
          /\ Record("Dep", "NoDeployments") /\ Advance
       \/ /\ csvOut # Nil /\ Fails("read")
          /\ Abort
          /\ UNCHANGED <<conds, changed>>
       \/ /\ csvOut # Nil
          /\ Record("Dep", CASE cache.dep = "Missing"   -> "NoDeployments"
                             [] cache.dep = "Available" -> "Available"
                             [] OTHER                   -> "Unavailable")
          /\ Advance
    /\ UNCHANGED <<cluster, early, subOut, csvOut, audit, subSeen>>

(* handleCatalogSource: existence and gRPC connection state.               *)
HandleCatalogSource ==
    /\ pc = "cat"
    /\ \/ /\ subOut = Nil
          /\ Record("Cat", "Unknown") /\ Advance
       \/ /\ subOut # Nil /\ Fails("read")
          /\ Abort
          /\ UNCHANGED <<conds, changed>>
       \/ /\ subOut # Nil
          /\ Record("Cat", CASE cache.cat = "Missing" -> "CatMissing"
                             [] cache.cat = "NoState" -> "CatUnknownState"
                             [] cache.cat = "Ready"   -> "CatFound"
                             [] OTHER                 -> "CatUnhealthy")
          /\ Advance
    /\ UNCHANGED <<cluster, early, subOut, csvOut, audit, subSeen>>

(* Compliance of the last event Reconcile emits: the final event when a
   condition changed, else the last early event, if any.                  *)
EmittedEvent ==
    CASE changed -> Compliance(conds)
      [] early   -> "NonCompliant"
      [] OTHER   -> lastEvent

(* Mutant: the status is written without the resourceVersion (a patch).  *)
StatusWriteFailsNoRV ==
    CASE ~changed -> {FALSE}
      [] OTHER    -> MayFail("write")

(* Outcomes of Status().Update: no call when nothing changed, a conflict
   when the run's copy of the policy is stale, else success or a fault.   *)
StatusWriteFails ==
    CASE ~changed -> {FALSE}
      [] ~rvOK    -> {TRUE}
      [] OTHER    -> MayFail("write")

(* Mutant: the status update's error is logged, not returned.             *)
ReconcileRequeuesNoStatusErr(fail, evFail) == runErr \/ evFail

(* Reconcile returns the aggregate of the handlers' error, the status
   update's and the events', and a non-nil aggregate requeues.            *)
ReconcileRequeues(fail, evFail) == runErr \/ fail \/ evFail

(* End of Reconcile: when a condition changed, write the status with the
   resourceVersion of the cached policy (a conflict when it is stale, or a
   failure) and emit the early events and the final compliance event;
   events are emitted even if the status write failed.  The final event,
   emitted last, may fail too (evFail).  Any error requeues.              *)
FinishReconcile ==
    /\ pc = "finish"
    /\ \E fail \in StatusWriteFails,
          evFail \in IF changed THEN MayFail("write") ELSE {FALSE} :
         /\ status' = IF changed /\ ~fail THEN conds ELSE status
         /\ statusSeen' = IF changed /\ ~fail /\ ~PolicyCacheLag
                          THEN conds ELSE statusSeen
         /\ polSynced' = (polSynced /\ ~(changed /\ ~fail /\ PolicyCacheLag))
         /\ trigger' = (trigger \/ ReconcileRequeues(fail, evFail))
         /\ lastEvent' = CASE ~evFail -> EmittedEvent
                            [] early   -> "NonCompliant"
                            [] OTHER   -> lastEvent
         /\ lastEmit' = IF changed /\ ~evFail
                        THEN [from |-> base, to |-> conds] ELSE lastEmit
    /\ rvOK' = FALSE
    /\ pc' = "idle"
    /\ RunReset
    /\ UNCHANGED <<cluster, cache, policy, envSteps, audit, policySeen,
                   delVars>>

Stage_ ==
    \/ BuildResources \/ HandleOpGroup \/ HandleSubscription
    \/ HandleInstallPlan \/ HandleCSV \/ HandleDeployment \/ HandleCatalogSource

ReconcilerStep ==
    \/ StartReconcile /\ UNCHANGED pending
    \/ ReconcileGone /\ UNCHANGED pending
    \/ Stage_ /\ Touch
             /\ UNCHANGED <<cache, policy, status, lastEvent, trigger, envSteps, pol,
                            base, faulty, polVars, delVars>>
    \/ FinishReconcile /\ UNCHANGED pending

SyncStep(k) ==
    Sync(k) /\ UNCHANGED <<cluster, policy, status, lastEvent, envSteps, audit,
                           pc, runVars, polVars, delVars>>

(* A write to the policy by the user changes its resourceVersion.  Without
   cache lag the manager's cache has it at once.                           *)
PolicyWritten ==
    IF policy' = policy /\ deleted' = deleted
    THEN UNCHANGED <<policySeen, polSynced, rvOK, deletedSeen>>
    ELSE /\ rvOK' = FALSE
         /\ IF PolicyCacheLag
            THEN polSynced' = FALSE /\ UNCHANGED <<policySeen, deletedSeen>>
            ELSE /\ policySeen' = policy' /\ deletedSeen' = deleted'
                 /\ UNCHANGED polSynced

(* SetupWithManager's predicate on the manager's policy events:
   GenerationChangedPredicate passes an update only when the spec (its
   generation) changed, and passes every delete.                           *)
GenerationChanged == policySeen # policy \/ deletedSeen # deleted

(* The manager's informer delivers the policy: the cache catches up, and
   the policy is enqueued only when its spec changed or it was deleted.    *)
SyncPolicy ==
    /\ ~polSynced
    /\ policySeen' = policy /\ statusSeen' = status /\ polSynced' = TRUE
    /\ deletedSeen' = deleted
    /\ trigger' = (trigger \/ GenerationChanged)
    /\ UNCHANGED <<cluster, cache, policy, status, lastEvent, envSteps, audit,
                   pc, runVars, pending, rvOK, lastEmit, deleted, watched>>

Next ==
    \/ Environment /\ Touch /\ PolicyWritten
                   /\ UNCHANGED <<cache, status, lastEvent, audit, pc, runVars,
                                  statusSeen, lastEmit, watched>>
    \/ \E k \in Kinds : SyncStep(k)
    \/ SyncPolicy
    \/ ReconcilerStep

(* controller-runtime runs a queued reconcile, and a run, once started,
   goes to its end; informers deliver every event.                         *)
Fairness ==
    /\ WF_vars(ReconcilerStep)
    /\ \A k \in Kinds : WF_vars(SyncStep(k))
    /\ WF_vars(SyncPolicy)

Spec == Init /\ [][Next]_vars /\ Fairness

-----------------------------------------------------------------------------
(***************************************************************************)
(* Properties.                                                             *)
(***************************************************************************)
SubStatusType == [installedCSV: CSVs \cup {None}, ipRef: PlanIds \cup {None}]

(* Every variable holds a value of its type; in particular the Subscription
   handleSubscription passes on carries the status fields later handlers
   read.                                                                   *)
TypeOK ==
    /\ cluster \in Cluster /\ cache \in Cluster
    /\ policy \in PolicySpecs /\ pol \in PolicySpecs
    /\ status \in [Dims -> Reasons] /\ conds \in [Dims -> Reasons]
    /\ lastEvent \in {"none", "Compliant", "NonCompliant"}
    /\ trigger \in BOOLEAN /\ changed \in BOOLEAN
    /\ early \in BOOLEAN /\ runErr \in BOOLEAN
    /\ envSteps \in 0..MaxEnvSteps
    /\ pc \in Stages \cup {"idle", "finish"}
    /\ subOut \in SubStatusType \cup {Nil}
    /\ csvOut \in CSVs \cup {Nil}
    /\ ran \subseteq Stages
    /\ subSeen \in SubState \cup {Absent}
    /\ pending \subseteq Kinds
    /\ policySeen \in PolicySpecs /\ statusSeen \in [Dims -> Reasons]
    /\ polSynced \in BOOLEAN /\ rvOK \in BOOLEAN
    /\ base \in [Dims -> Reasons] /\ faulty \in BOOLEAN
    /\ lastEmit \in {None} \cup [from: [Dims -> Reasons], to: [Dims -> Reasons]]
    /\ deleted \in BOOLEAN /\ deletedSeen \in BOOLEAN /\ watched \in BOOLEAN

(* handleOpGroup creates at most one OperatorGroup in the namespace: a
   second reconcile that still sees no OperatorGroup in the lagging cache
   must not create another one (spec: "exactly one creation call made").    *)
NoDuplicateOperatorGroup ==
    Cardinality({i \in OGIds : cluster.ogs[i] # Absent /\ cluster.ogs[i].by = "ctl"}) <= 1

(* The approver's view for the abstract specification: the CSVs of each
   owned plan the cache shows awaiting approval.                           *)
ApprovalView ==
    [q \in PlanIds |-> IF q \in Requiring(cache) THEN cache.plans[q].csvs ELSE {}]

(* The InstallPlan the Subscription references, as the approver knows it:
   during handleInstallPlan, from the Subscription the run read earlier.  *)
ApprovalRef ==
    CASE pc = "ip" /\ subOut # Nil -> subOut.ipRef
      [] cache.sub # Absent        -> cache.sub.ipRef
      [] OTHER                     -> None

(* Steps 1 and 2 of handleInstallPlan's scan, in the same view: an owned
   plan is installing, or the referenced plan failed.                      *)
ApprovalBlocked ==
    \E q \in Owned(cache) :
        \/ cache.plans[q].phase = "Installing"
        \/ cache.plans[q].phase = "Failed" /\ ApprovalRef = q

Approval == INSTANCE ApprovalSpec
    WITH Plans <- PlanIds, Modes <- {"enforce", "inform"},
         approved <- {a.plan : a \in audit}, pending <- ApprovalView,
         blocked <- ApprovalBlocked,
         allow <- pol.versions, mode <- pol.remediation

(* handleInstallPlan implements the approval specification: each approval
   it makes is, in the view it read and under the policy of its run, the
   only approvable plan in enforce mode, so ambiguity between several
   plans is never resolved by approving one of them.                       *)
ApprovalRefinement == Approval!Safety

(* Every plan the approval specification says to approve, and that stays
   so, is eventually approved: the requeue after a conflicting approval and
   the watch events of new plans bring handleInstallPlan back to it.      *)
ApprovalProgress == Approval!Progress

(* An enforced policy whose OperatorGroup is named converges: whatever the
   user does to the OperatorGroup within the budget, the persisted status
   eventually stays at "matches", unless the policy is deleted.           *)
EnforcedOperatorGroupConverges == <>[](deleted \/ status["OG"] = "Matches")

(* Reconcile announces each change of the policy's status once: two final
   compliance events in a row never carry the same transition (spec §1:
   never a duplicate user-facing signal).  A run that starts from a stale
   cached status, or whose status write failed, recomputes the transition
   the previous run already announced.                                     *)
NoRepeatedTransition ==
    [][FinishReconcile /\ changed /\ ~faulty => lastEmit' # lastEmit]_vars

(* The final compliance event of a run never contradicts the status the
   run leaves persisted (spec section 1: no wrong user-facing signal).
   Reconcile emits its events after Status().Update whether or not the
   update succeeded; in a run where no API call fails, the update still
   conflicts when the cached policy was stale.                             *)
EventMatchesPersistedStatus ==
    [][FinishReconcile /\ changed /\ ~faulty => lastEvent' = Compliance(status')]_vars

(* A status write persists only conditions computed from the policy spec
   the API server holds: Status().Update carries the resourceVersion of
   the policy the run read, so a run that read a stale cached copy, or
   whose policy the user edited or deleted meanwhile, cannot overwrite the
   status with conditions of an old spec.                                  *)
StatusWrittenForCurrentSpec ==
    [][status' # status => pol = policy /\ ~deleted]_vars

NumOperatorGroups(c) == Cardinality(OGIds \ FreeOG(c))

(* Once the user's OperatorGroup edits and transient API faults stop, the
   persisted status settles on what the namespace and the spec are: Valid
   reflects the spec and the namespace, and two OperatorGroups (a user's
   added beside the one the controller created from a cache that did not
   show it yet) are reported as TooMany.  Failed handlers, failed status
   writes and failed events must each requeue the policy for this.        *)
StatusSettlesAfterFaults ==
    <>[](/\ status["Valid"] = IF policy.subValid /\ policy.ogValid /\ cluster.ns
                              THEN "Valid" ELSE "Invalid"
         /\ policy.ogValid /\ NumOperatorGroups(cluster) > 1
                => status["OG"] = "TooMany")

(* When the subscription spec is invalid, no condition that depends on the
   Subscription is reported compliant at the end of a run (spec §8: "never
   silently Compliant").                                                   *)
InvalidNeverCompliant ==
    (pc = "finish" /\ ~runErr /\ ~pol.subValid) =>
        \A d \in {"Sub", "IP", "CSV", "Dep", "Cat"} : conds[d] \in NonCompliantReasons

(* A handler's error does not stop the later handlers: every stage is
   evaluated in every run (spec §2: errors are aggregated).                 *)
PipelineContinuesAfterError == pc = "finish" => ran = Stages

(* A Subscription whose status names an installed CSV is never reported as
   having no CSV by handleCSV in the same run.                              *)
InstalledCSVReported ==
    ("csv" \in ran /\ subSeen # Absent /\ subSeen.installedCSV # None)
        => conds["CSV"] # "NoCSV"
(* Deleting the policy ends its reconciliation: whether the deletion
   reaches a run in flight, reaches the manager's cache late, or arrives
   while dependency events keep enqueueing the policy, Reconcile eventually
   finds it gone and calls RemoveWatcher, after which nothing enqueues it
   again and no run starts (no leaked watcher, no requeue loop).           *)
DeletedPolicyUnwatched ==
    deleted ~> [](~watched /\ ~trigger /\ pc = "idle")
=============================================================================
