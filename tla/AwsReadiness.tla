---------------------------- MODULE AwsReadiness ----------------------------
(***************************************************************************)
(* The AWS page and the API behind it. The page loads reports of what is   *)
(* configured, reachable, built, planned and evaluated, each computed on   *)
(* its own, and offers to build, push, plan and apply by them. The API     *)
(* decides on a request by checks of its own, on what there is when it     *)
(* arrives; it reads AWS and the database at one moment.                   *)
(*                                                                         *)
(* The configuration does not change while the API runs. The one target    *)
(* of the catalogue of images, Sample, is also the one that is planned;    *)
(* what the worker does with a request is the subject of AwsReleases.      *)
(***************************************************************************)
EXTENDS Naturals, Sequences

CONSTANTS
  Environment, \* environments an image may be built for
  Production,  \* those in which every plan is of high risk
  Place,       \* the places of Terraform workspaces in the list sorted by name
  Sample,      \* the target
  Setting,     \* viewers and configurations
  FirstWorld,  \* what there may be when the page is opened
  Load,        \* loads of the page that may be under way at once
  Lost,        \* sets of reports that fail together on their way
  MaxMoves,    \* bound on the changes behind the page
  None         \* null

Reach     == {"CONNECTED", "AUTH_FAILED", "ERROR"}
Image     == [env : Environment, stage : {"built", "pushed"}]
Plan      == [env : Environment, verdict : {"eligible", "high", "blocked"}, age : 0..2]
Verdict   == {None, "PASSED", "BLOCKED"}

\* What the API finds: how AWS answers, images, the plans that succeeded in their order, with
\* ages less than a day, a day to the second, and more; and the latest guardrail evaluation.
World ==
  [reach : Reach, images : SUBSET Image, plans : Seq(Plan), evaluation : Verdict]

\* What the instances give the constants: first worlds are worlds, workspaces have places, and
\* null is no value of any kind.
ReadinessAssumption ==
  /\ FirstWorld \subseteq World
  /\ \A s \in Setting : s.workspaces \subseteq DOMAIN Place /\ s.granted \in Reach
  /\ None \notin DOMAIN Place \cup Load \cup Environment \cup Nat
  /\ None \notin {"build", "push", "plan", "apply", "READY", "NOT_CONFIGURED"}
  /\ MaxMoves \in Nat
  /\ "request" \notin Load

VARIABLES
  setting,   \* who looks, and what is configured
  world,     \* what the API finds now
  moves,     \* changes of it so far
  loads,     \* how far the loads are, and what there was since they asked
  loading,   \* the page shows that it loads
  shown,     \* the reports shown
  workspace, \* the report of the first target's workspace, with calm as below
  calm,      \* history: nothing changed since the reports that are shown were made
  press,     \* the request on its way, with what was shown when it was made
  applying   \* the request to apply, or the load after it, that is waited for

vars == <<setting, world, moves, loads, loading, shown, workspace, calm, press, applying>>
-----------------------------------------------------------------------------
(* The reports.                                                            *)

\* getAwsConfiguration
Configured(s) == {"region", "accessKey", "secretKey"} \subseteq s.config

\* _remoteStateConfig
RemoteState == {"bucket", "lockTable", "stateRegion"}
StateConfigured(s) == RemoteState \subseteq s.config

\* getStatus, getIdentity
AwsStatus(s, w) == IF Configured(s) THEN w.reach ELSE "NOT_CONFIGURED"

\* getReadiness
Readiness(s) ==
  LET wanted == {"region", "accessKey", "secretKey", "account"}
  IN IF wanted \cap s.config = {} THEN "NOT_CONFIGURED"
     ELSE IF wanted \subseteq s.config THEN "READY" ELSE "PARTIAL"

\* getPermissions: a check that finds the credentials refused decides, then one that fails.
Permissions(s, w) ==
  IF Configured(s) /\ w.reach = "CONNECTED" THEN s.granted ELSE AwsStatus(s, w)

\* getRemoteStateReadiness: what is configured is looked for; READY does not ask for all of it.
RemoteStateReadiness(s, w) ==
  IF RemoteState \cap s.config = {} THEN "NOT_CONFIGURED"
  ELSE IF ~Configured(s) THEN "AUTH_FAILED"
  ELSE IF /\ {"bucket", "lockTable"} \cap s.config # {}
          /\ ~(w.reach = "CONNECTED" /\ s.stored)
       THEN "ERROR" ELSE "READY"

\* _listResponse: every list is empty unless AWS answers.
ListResponse(s, w, items) == IF AwsStatus(s, w) = "CONNECTED" THEN items ELSE {}

\* listDeploymentTargets
Targets(s, w) == ListResponse(s, w, s.workspaces \cap s.allowed)

\* targets.items[0]
IsFirst(t, targets) == t \in targets /\ \A u \in targets : Place[t] <= Place[u]
First(targets) ==
  IF \E t \in targets : IsFirst(t, targets) THEN CHOOSE t \in targets : IsFirst(t, targets)
  ELSE None
FirstTarget(s, w) == First(Targets(s, w))

\* getWorkspaceReadiness
WorkspaceReadiness(s, t, w) ==
  IF t \notin Targets(s, w) \/ s.files = "state" \/ ~s.tool THEN "ERROR"
  ELSE IF s.files = "some" THEN "PARTIAL" ELSE "READY"

\* _latestPushedEcrImage, of any environment
HasPushedImage(w) == \E i \in w.images : i.stage = "pushed"

\* getTerraformPlanReadiness, which the page asks for no target and no environment.
PlanReadiness(s, w) ==
  IF ~Configured(s) \/ ~StateConfigured(s) \/ FirstTarget(s, w) = None THEN "NOT_CONFIGURED"
  ELSE IF s.tool /\ FirstTarget(s, w) = Sample /\ HasPushedImage(w)
       THEN "READY" ELSE "BLOCKED"

\* getAwsGuardrailConfigStatus: what is missing can only be an allowlist.
GuardrailsConfigured(s) == {"accounts", "regions"} \subseteq s.config

\* getGuardrailReadiness
GuardrailReadiness(s) ==
  IF ~Configured(s) THEN "NOT_CONFIGURED"
  ELSE IF GuardrailsConfigured(s) THEN "PASSED" ELSE "BLOCKED"

\* p is the latest plan that succeeded, of some environments.
LatestPlan(p, w, envs) ==
  /\ p \in DOMAIN w.plans /\ w.plans[p].env \in envs
  /\ \A q \in DOMAIN w.plans : w.plans[q].env \in envs => q <= p

\* Faulty: readiness does not look at the risk of the plan.
FreshAtAnyRisk(plan) == plan.age = 0

FreshAndEligible(plan) == plan.age = 0 /\ plan.verdict = "eligible"

\* getTerraformApplyReadiness, asked for no target and no environment either.
ApplyReadiness(s, w) ==
  LET target == FirstTarget(s, w)
      found  == {p \in DOMAIN w.plans : target = Sample /\ LatestPlan(p, w, Environment)}
      plan   == CHOOSE p \in found : TRUE
  IN [ plan   |-> IF found = {} THEN None ELSE plan,
       env    |-> IF found = {} THEN None ELSE w.plans[plan].env,
       status |-> IF ~Configured(s) \/ ~StateConfigured(s) \/ target = None THEN "NOT_CONFIGURED"
                  ELSE IF /\ found # {} /\ s.tool /\ s.applyEnabled
                          /\ GuardrailReadiness(s) # "BLOCKED"
                          /\ FreshAndEligible(w.plans[plan])
                       THEN "READY" ELSE "BLOCKED" ]

\* listAwsEcrBuildTargets: the target is listed with its repository.
BuildTargets(s) == IF {"target", "repository"} \subseteq s.ecr THEN {Sample} ELSE {}

\* getEcrReadiness; a repository that may not be listed is as one that is not there.
EcrReadiness(s, w) ==
  [ targets |-> BuildTargets(s),
    status  |-> IF ~Configured(s) \/ BuildTargets(s) = {} THEN "NOT_CONFIGURED"
                ELSE IF w.reach # "CONNECTED" THEN "ERROR"
                ELSE IF "exists" \in s.ecr THEN "READY" ELSE "PARTIAL" ]

\* The GETs and what they report; images are a list.
Reports == {"identity", "readiness", "permissions", "remoteState", "ecr", "plan",
            "guardrails", "apply", "evaluations", "images"}

Report(s, k, w) ==
  IF k = "identity"         THEN AwsStatus(s, w)
  ELSE IF k = "readiness"   THEN Readiness(s)
  ELSE IF k = "permissions" THEN Permissions(s, w)
  ELSE IF k = "remoteState" THEN RemoteStateReadiness(s, w)
  ELSE IF k = "ecr"         THEN EcrReadiness(s, w)
  ELSE IF k = "plan"        THEN PlanReadiness(s, w)
  ELSE IF k = "guardrails"  THEN GuardrailReadiness(s)
  ELSE IF k = "apply"       THEN ApplyReadiness(s, w)
  ELSE IF k = "evaluations" THEN w.evaluation
  ELSE ListResponse(s, w, w.images)

\* requireRole and requireProviderInventoryAccess
MayView(s) == s.role \in {"OWNER", "ADMIN"} /\ s.enabled

\* What every member may ask for.
TenantData == {"apply", "evaluations", "images"}

Serve(s, k, w) == IF MayView(s) \/ k \in TenantData THEN Report(s, k, w) ELSE None
-----------------------------------------------------------------------------
(* The requests, and what the API answers to them.                         *)

\* _requireAllowedEcrRepository, of a target that is listed.
Repository(w) ==
  BuildTargets(setting) # {} /\ AwsStatus(setting, w) = "CONNECTED" /\ "exists" \in setting.ecr

\* What planDeployment and applyDeployment ask for alike.
Deployable(w) == StateConfigured(setting) /\ setting.tool /\ Sample \in Targets(setting, w)

\* buildEcrImage, pushEcrImage, planDeployment and applyDeployment
Accepts(p, w) ==
  /\ MayView(setting)
  /\ p.kind = "build" => Repository(w)
  /\ p.kind = "push"  => /\ "push" \in setting.config /\ Repository(w)
                         /\ [env |-> p.env, stage |-> "built"] \in w.images
  /\ p.kind = "plan"  => Deployable(w) /\ [env |-> p.env, stage |-> "pushed"] \in w.images
  /\ p.kind = "apply" =>
       /\ setting.applyEnabled /\ GuardrailReadiness(setting) # "BLOCKED" /\ Deployable(w)
       /\ \E q \in DOMAIN w.plans : /\ LatestPlan(q, w, {p.env})
                                    /\ w.plans[q].age <= 1 /\ w.plans[q].verdict = "eligible"

\* What there may be when a request was handled; the guardrails of an operation are shown from
\* its creation.
After(p) ==
  IF ~Accepts(p, world) \/ p.kind \in {"build", "push"} THEN {world}
  ELSE {[world EXCEPT !.evaluation = v] :
          v \in IF p.kind = "plan" THEN {"PASSED", "BLOCKED"} ELSE {"PASSED"}}
-----------------------------------------------------------------------------
Idle        == [stage |-> "idle", seen |-> <<>>, target |-> None]
Begun       == [stage |-> "status", seen |-> <<>>, target |-> None]
NoWorkspace == [report |-> None, calm |-> FALSE]
NoPress     == [kind |-> None, env |-> None, plan |-> None, ready |-> FALSE, calm |-> FALSE]
NothingShown == [k \in Reports |-> None]

Init ==
  /\ setting \in Setting
  /\ world \in FirstWorld
  /\ moves = 0
  /\ loads = [l \in Load |-> IF l = CHOOSE m \in Load : TRUE THEN Begun ELSE Idle]
  /\ loading = TRUE
  /\ shown = NothingShown /\ workspace = NoWorkspace /\ calm = TRUE
  /\ press = NoPress /\ applying = None

\* The loads when the world became w: those that wait for reports may find it.
Noted(w) ==
  [l \in Load |-> IF loads[l].stage \in {"asking", "workspace"} /\ w # world
                  THEN [loads[l] EXCEPT !.seen = Append(@, w)] ELSE loads[l]]

\* The world becomes w, or stays as it is; loads and press are the caller's.
Becomes(w) ==
  /\ world' = w
  /\ w # world => moves < MaxMoves
  /\ moves' = IF w = world THEN moves ELSE moves + 1
  /\ calm' = (calm /\ w = world)
  /\ workspace' = [workspace EXCEPT !.calm = @ /\ w = world]

\* Something changes behind the page.
Moves(w) ==
  /\ w # world /\ Becomes(w)
  /\ loads' = Noted(w)
  /\ press' = [press EXCEPT !.calm = FALSE]
  /\ UNCHANGED <<setting, loading, shown, applying>>

ReachChanges(r) == Moves([world EXCEPT !.reach = r])
Imaged(i)       == Moves([world EXCEPT !.images = @ \cup {i}])
Evaluated(v)    == Moves([world EXCEPT !.evaluation = v])

\* A plan ends with its guardrails' verdict; none of production is eligible.
WithPlan(e, v) ==
  [world EXCEPT !.plans = Append(@, [env |-> e, verdict |-> v, age |-> 0]),
                !.evaluation = IF v = "blocked" THEN "BLOCKED" ELSE "PASSED"]
PlanEnds(e, v) == (e \in Production => v # "eligible") /\ Moves(WithPlan(e, v))

\* Plans up to p come of age.
Older(plan) == IF plan.age < 2 THEN [plan EXCEPT !.age = @ + 1] ELSE plan
WithAge(p)  ==
  [world EXCEPT !.plans = [q \in DOMAIN @ |-> IF q <= p THEN Older(@[q]) ELSE @[q]]]
Ages(p) == Moves(WithAge(p))
-----------------------------------------------------------------------------
(* Loads of the page.                                                      *)

\* A load may begin; l is where it is kept, one that is free.
Free(l) ==
  /\ loads[l].stage = "idle"
  /\ l = CHOOSE m \in Load : loads[m].stage = "idle"

Ends(l) ==
  /\ loads' = [loads EXCEPT ![l] = Idle]
  /\ loading' = FALSE
  /\ applying' = IF applying = l THEN None ELSE applying

\* The button that refreshes is disabled while the page shows that it loads.
Refresh(l) ==
  /\ ~loading /\ Free(l)
  /\ loads' = [loads EXCEPT ![l] = Begun]
  /\ loading' = TRUE
  /\ UNCHANGED <<setting, world, moves, shown, workspace, calm, press, applying>>

StatusBlocked(l) ==
  /\ loads[l].stage = "status" /\ ~setting.enabled
  /\ shown' = NothingShown /\ workspace' = NoWorkspace /\ calm' = TRUE
  /\ Ends(l)
  /\ UNCHANGED <<setting, world, moves, press>>

StatusFails(l) ==
  /\ loads[l].stage = "status"
  /\ Ends(l)
  /\ UNCHANGED <<setting, world, moves, shown, workspace, calm, press>>

StatusAnswered(l) ==
  /\ loads[l].stage = "status" /\ setting.enabled
  /\ loads' = [loads EXCEPT ![l].stage = "asking", ![l].seen = <<world>>]
  /\ UNCHANGED <<setting, world, moves, loading, shown, workspace, calm, press, applying>>

\* All reports are there, but those that were lost; each is of something there was. The first
\* target's workspace is asked for next.
Show(l) ==
  LET seen == loads[l].seen
  IN /\ loads[l].stage = "asking"
     /\ \E lost \in Lost : \E of \in [Reports \ lost -> DOMAIN seen] :
          shown' = [k \in Reports |-> IF k \in lost THEN None ELSE Serve(setting, k, seen[of[k]])]
     /\ calm' = (Len(seen) = 1)
     /\ \E t \in {None} \cup (IF MayView(setting)
                              THEN {FirstTarget(setting, seen[i]) : i \in DOMAIN seen} ELSE {}) :
          IF t = None THEN Ends(l) /\ workspace' = NoWorkspace
          ELSE /\ loads' = [loads EXCEPT ![l] = [stage |-> "workspace", seen |-> <<world>>,
                                                 target |-> t]]
               /\ UNCHANGED <<loading, workspace, applying>>
     /\ UNCHANGED <<setting, world, moves, press>>

WorkspaceAnswered(l) ==
  LET seen == loads[l].seen
  IN /\ loads[l].stage = "workspace"
     /\ \/ workspace' = NoWorkspace
        \/ \E i \in DOMAIN seen :
             workspace' = [report |-> WorkspaceReadiness(setting, loads[l].target, seen[i]),
                           calm   |-> Len(seen) = 1]
     /\ Ends(l)
     /\ UNCHANGED <<setting, world, moves, shown, calm, press>>
-----------------------------------------------------------------------------
(* Buttons.                                                                *)

ShownImages == IF shown["images"] = None THEN {} ELSE shown["images"]

\* guardrailsBlocked
GuardrailsBlocked == shown["guardrails"] = "BLOCKED" \/ shown["evaluations"] = "BLOCKED"

Press(kind, env, plan) ==
  /\ press.kind = None
  /\ press' = [ kind |-> kind, env |-> env, plan |-> plan, calm |-> calm,
                ready |-> shown["ecr"] # None /\ shown["ecr"].status = "READY" ]
  /\ UNCHANGED <<setting, world, moves, loads, loading, shown, workspace, calm>>

\* Whatever the status of the registry is.
requestEcrBuild ==
  /\ shown["ecr"] # None /\ shown["ecr"].targets # {}
  /\ Press("build", None, None) /\ UNCHANGED applying

requestEcrPush(e) ==
  /\ [env |-> e, stage |-> "built"] \in ShownImages
  /\ Press("push", e, None) /\ UNCHANGED applying

requestTerraformPlan(e) ==
  /\ shown["plan"] = "READY" /\ ~GuardrailsBlocked
  /\ [env |-> e, stage |-> "pushed"] \in ShownImages
  /\ Press("plan", e, None) /\ UNCHANGED applying

requestTerraformApply ==
  /\ shown["apply"] # None /\ shown["apply"].status = "READY" /\ ~GuardrailsBlocked
  /\ applying = None
  /\ Press("apply", shown["apply"].env, shown["apply"].plan) /\ applying' = "request"

\* An accepted request is followed by a load.
Accepted(l) ==
  /\ press.kind # None /\ Accepts(press, world) /\ Free(l)
  /\ \E w \in After(press) : Becomes(w) /\ loads' = [Noted(w) EXCEPT ![l] = Begun]
  /\ press' = NoPress
  /\ loading' = TRUE
  /\ applying' = IF press.kind = "apply" THEN l ELSE applying
  /\ UNCHANGED <<setting, shown>>

\* A request that is refused, or lost, or whose answer is lost, is followed by none.
Refused ==
  /\ press.kind # None
  /\ \E w \in After(press) \cup {world} : Becomes(w) /\ loads' = Noted(w)
  /\ press' = NoPress
  /\ applying' = IF press.kind = "apply" THEN None ELSE applying
  /\ UNCHANGED <<setting, loading, shown>>

Next ==
  \/ \E r \in Reach : ReachChanges(r)
  \/ \E i \in Image : Imaged(i)
  \/ \E v \in Verdict \ {None} : Evaluated(v)
  \/ \E e \in Environment, v \in {"eligible", "high", "blocked"} : PlanEnds(e, v)
  \/ \E p \in DOMAIN world.plans : Ages(p)
  \/ \E l \in Load : \/ Refresh(l) \/ StatusBlocked(l) \/ StatusFails(l) \/ StatusAnswered(l)
                     \/ Show(l) \/ WorkspaceAnswered(l) \/ Accepted(l)
  \/ \E e \in Environment : requestEcrPush(e) \/ requestTerraformPlan(e)
  \/ requestEcrBuild \/ requestTerraformApply \/ Refused

Spec == Init /\ [][Next]_vars
-----------------------------------------------------------------------------
(* What holds.                                                             *)

TypeOK ==
  /\ setting \in Setting
  /\ world \in World
  /\ moves \in 0..MaxMoves
  /\ loads \in [Load -> [stage : {"idle", "status", "asking", "workspace"}, seen : Seq(World),
                         target : DOMAIN Place \cup {None}]]
  /\ loading \in BOOLEAN
  /\ DOMAIN shown = Reports
  /\ workspace \in [report : {None, "READY", "PARTIAL", "ERROR"}, calm : BOOLEAN]
  /\ calm \in BOOLEAN
  /\ press \in [kind : {None, "build", "push", "plan", "apply"}, env : Environment \cup {None},
                plan : Nat \cup {None}, ready : BOOLEAN, calm : BOOLEAN]
  /\ applying \in Load \cup {None, "request"}

\* v came before w, or is w.
Before(v, w) ==
  /\ v.images \subseteq w.images
  /\ Len(v.plans) <= Len(w.plans)
  /\ \A p \in DOMAIN v.plans : /\ v.plans[p].env = w.plans[p].env
                               /\ v.plans[p].verdict = w.plans[p].verdict
                               /\ v.plans[p].age <= w.plans[p].age

\* A load has seen what there is now last.
LoadsSound ==
  \A l \in Load :
    loads[l].stage \in {"asking", "workspace"} =>
      LET seen == loads[l].seen
      IN /\ seen # <<>> /\ seen[Len(seen)] = world
         /\ \A i \in DOMAIN seen : Before(seen[i], world)

\* Reports that nothing followed are those of now; an image or a plan that is shown is one.
ShownSound ==
  /\ calm => \A k \in Reports : shown[k] \in {None, Serve(setting, k, world)}
  /\ \A k \in Reports \ TenantData : shown[k] # None => MayView(setting)
  /\ ShownImages \subseteq world.images
  /\ shown["apply"] # None /\ shown["apply"].status = "READY" =>
       /\ shown["apply"].plan \in DOMAIN world.plans
       /\ world.plans[shown["apply"].plan].env = shown["apply"].env

\* The same of a request that is on its way.
PressSound ==
  /\ press.kind \in {"build", "plan"} \/ press.ready => MayView(setting)
  /\ press.kind = "push"  => [env |-> press.env, stage |-> "built"] \in world.images
  /\ press.kind = "plan"  => [env |-> press.env, stage |-> "pushed"] \in world.images
  /\ press.kind = "apply" => /\ press.plan \in DOMAIN world.plans
                             /\ world.plans[press.plan].env = press.env
  /\ press.calm =>
       /\ press.kind # None
       /\ press.ready => EcrReadiness(setting, world).status = "READY"
       /\ press.kind = "plan" => PlanReadiness(setting, world) = "READY"
       /\ press.kind = "apply" =>
            LET told == ApplyReadiness(setting, world)
            IN told.status = "READY" /\ told.plan = press.plan /\ told.env = press.env

\* A workspace that is asked for is of the first target whenever AWS answers.
WorkspaceSound ==
  LET target == First(setting.workspaces \cap setting.allowed)
  IN /\ \A l \in Load : loads[l].stage = "workspace" => loads[l].target = target
     /\ workspace.calm => workspace.report = WorkspaceReadiness(setting, target, world)

OffersInv == TypeOK /\ LoadsSound /\ ShownSound /\ PressSound /\ WorkspaceSound

\* What the page offers without having asked: to build and push whatever the registry's status
\* is, to push although that is switched off, to apply to members who may not.
Sure(p) ==
  /\ p.kind \in {"build", "push"} => p.ready
  /\ p.kind = "push" => "push" \in setting.config
  /\ p.kind = "apply" => MayView(setting)

\* A request that the page offered, and that finds nothing changed since the reports on the page
\* were made, is accepted.
OfferedIsAccepted == press.calm /\ Sure(press) => Accepts(press, world)

\* The plan that the API would apply is of the environment the page showed, and no older than
\* the plan shown; with nothing changed it is that plan.
ShownPlanIsApplied ==
  press.kind = "apply" =>
    \A q \in DOMAIN world.plans :
      LatestPlan(q, world, {press.env}) => q >= press.plan /\ (press.calm => q = press.plan)

\* Where the plan section says READY, with nothing changed since, no other section denies it.
SectionsAgree ==
  calm /\ shown["plan"] = "READY" =>
    /\ shown["identity"] \in {None, "CONNECTED"}
    /\ shown["permissions"] # "NOT_CONFIGURED" /\ shown["remoteState"] # "NOT_CONFIGURED"
    /\ shown["readiness"] # "NOT_CONFIGURED"
    /\ workspace.calm /\ setting.files # "state" => workspace.report # "ERROR"

OffersTruthful == OfferedIsAccepted /\ ShownPlanIsApplied /\ SectionsAgree
=============================================================================
