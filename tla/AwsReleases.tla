----------------------------- MODULE AwsReleases -----------------------------
(***************************************************************************)
(* The way of an image to AWS: built, pushed, planned, applied with        *)
(* approval, recorded as a release, promoted and rolled back. Each step is *)
(* an operation the API creates from an earlier one that succeeded, and    *)
(* the worker carries out; operations of the operations module that are    *)
(* seen here as released when they need no approval or have it.            *)
(*                                                                         *)
(* One target workspace. Terraform keeps a state per environment, which a  *)
(* plan reads and an apply moves; an apply of a plan of an older state is  *)
(* refused.                                                                *)
(***************************************************************************)
EXTENDS AwsGuardrails, FiniteSets, Sequences

CONSTANTS
  MaxOps,      \* bound on the operations created
  MaxFaults,   \* bound on failures of any kind, and on plans that grow stale
  Environment, \* Production among them
  Text         \* the plans Terraform may print

Op == 1..MaxOps

VARIABLES
  op,      \* operations: what each is asked to do
  status,  \* Operation.status; FAILED stands for every end without success
  result,  \* Operation.result of a plan: the text it printed
  stale,   \* plans that succeeded more than 24 hours ago
  order,   \* plans in the order in which they succeeded (updatedAt)
  run,     \* where the worker stands in an apply, and what it holds
  release, \* aws_releases, by the operation that created the row
  cloud,   \* per environment: the serial of the Terraform state, and the image deployed
  torn,    \* history: environments where two records overlapped, or one was cut short
  faults   \* failures so far

vars == <<op, status, result, stale, order, run, release, cloud, torn, faults>>
-----------------------------------------------------------------------------
OperationType == {"BUILD", "PUSH", "PLAN", "APPLY", "PROMOTE", "ROLLBACK"}
Step == {"none", "checked", "planned", "applied", "superseded", "counted"}

NoOp  == [type |-> None, env |-> None, image |-> None, source |-> None, approved |-> FALSE]
NoRun == [step |-> "none", text |-> None, serial |-> 0, version |-> 0]

Done(o, type) == op[o].type = type /\ status[o] = "SUCCEEDED"
Recording(e)  == {o \in Op : op[o].env = e /\ run[o].step \in {"applied", "superseded", "counted"}}

\* evaluateOperationPolicy: the types that wait for an approval.
NeedsApproval(type, env) ==
  \/ type \in {"APPLY", "ROLLBACK"}
  \/ type \in {"PUSH", "PROMOTE"} /\ env \in Production

Init ==
  /\ op = [o \in Op |-> NoOp]
  /\ status = [o \in Op |-> "NONE"]
  /\ result = [o \in Op |-> None]
  /\ stale = {}
  /\ order = <<>>
  /\ run = [o \in Op |-> NoRun]
  /\ release = [o \in Op |-> None]
  /\ cloud = [e \in Environment |-> [serial |-> 0, image |-> None]]
  /\ torn = {}
  /\ faults = 0

-----------------------------------------------------------------------------
(* The API.                                                                *)

Fault == faults < MaxFaults /\ faults' = faults + 1

\* createQueuedOperation; the ids are given out in order.
Create(type, env, image, source) ==
  \E o \in Op :
    /\ status[o] = "NONE" /\ \A p \in 1..(o - 1) : status[p] # "NONE"
    /\ op' = [op EXCEPT ![o] = [type |-> type, env |-> env,
                                image |-> IF type = "BUILD" THEN o ELSE image,
                                source |-> source, approved |-> FALSE]]
    /\ status' = [status EXCEPT ![o] =
                    IF NeedsApproval(type, env) THEN "PENDING_APPROVAL" ELSE "QUEUED"]
    /\ UNCHANGED <<result, stale, order, run, release, cloud, torn, faults>>

\* approveOperation, by another user with an approval role.
Approve(o) ==
  /\ status[o] = "PENDING_APPROVAL"
  /\ op' = [op EXCEPT ![o].approved = TRUE]
  /\ status' = [status EXCEPT ![o] = "QUEUED"]
  /\ UNCHANGED <<result, stale, order, run, release, cloud, torn, faults>>

\* buildEcrImage: the tag names the environment and the second, so that every build has its
\* own image.
BuildEcrImage(e) == Create("BUILD", e, None, None)

\* pushEcrImage: of a successful build of the same environment; the idempotency key is made
\* of the tag, so that an image is pushed by one operation only.
PushEcrImage(b) ==
  /\ Done(b, "BUILD")
  /\ ~\E o \in Op : op[o].type = "PUSH" /\ op[o].image = op[b].image
  /\ Create("PUSH", op[b].env, op[b].image, b)

\* Faulty: the environment of the pushed image is not compared with the requested one.
PushedForAny(p, e) == Done(p, "PUSH")

\* _requirePushedEcrImageOperation
PushedFor(p, e) == Done(p, "PUSH") /\ op[p].env = e

PlanDeployment(p, e) ==
  /\ PushedFor(p, e)
  /\ Create("PLAN", e, op[p].image, p)

\* The checks of a source plan, which the API and the worker share.
Eligible(p) ==
  /\ p \notin stale
  /\ ApplyEligible(result[p])
  /\ RiskLevel(result[p], op[p].env) \notin {"HIGH", "BLOCKED"}

\* p is the latest plan that succeeded, of one environment or of any.
Latest(p, envs) ==
  /\ op[p].env \in envs
  /\ \E i \in DOMAIN order :
       /\ order[i] = p
       /\ \A j \in DOMAIN order : op[order[j]].env \in envs => j <= i

\* applyDeployment: environment and image are those of the plan.
ApplyDeployment(envs) ==
  \E p \in Op : Latest(p, envs) /\ Eligible(p) /\ Create("APPLY", op[p].env, op[p].image, p)

\* promoteRelease: of a release of any status, to any environment.
PromoteRelease(r, e) ==
  /\ release[r] # None
  /\ Create("PROMOTE", e, release[r].image, r)

\* rollbackRelease: to a release that is not the active one found.
RollbackRelease(r) ==
  /\ release[r] # None
  /\ \E a \in Op \ {r} : /\ release[a] # None /\ release[a].env = release[r].env
                         /\ release[a].status = "ACTIVE"
                         /\ Create("ROLLBACK", release[r].env, release[r].image, r)

-----------------------------------------------------------------------------
(* The worker.                                                             *)

Settle(o, outcome) == status' = [status EXCEPT ![o] = outcome]

\* An operation ends without success: a tool, a gate or the database refuses, or the worker
\* dies. A record that was begun is cut short.
Fail(o) ==
  /\ status[o] \in {"QUEUED", "RUNNING"}
  /\ Settle(o, "FAILED")
  /\ run' = [run EXCEPT ![o] = NoRun]
  /\ torn' = torn \cup {e \in Environment : o \in Recording(e)}
  /\ Fault
  /\ UNCHANGED <<op, result, stale, order, release, cloud>>

\* executeAwsEcrOperation: a push to production asks for the approval again.
RunImage(o) ==
  /\ status[o] = "QUEUED"
  /\ \/ op[o].type = "BUILD"
     \/ op[o].type = "PUSH" /\ (op[o].env \in Production => op[o].approved)
  /\ Settle(o, "SUCCEEDED")
  /\ UNCHANGED <<op, result, stale, order, run, release, cloud, torn, faults>>

\* executeAwsTerraformEcsPlan
RunPlan(o, text) ==
  /\ status[o] = "QUEUED"
  /\ op[o].type = "PLAN"
  /\ Settle(o, "SUCCEEDED")
  /\ result' = [result EXCEPT ![o] = text]
  /\ order' = Append(order, o)
  /\ UNCHANGED <<op, stale, run, release, cloud, torn, faults>>

\* 24 hours pass.
Expire(p) ==
  /\ Done(p, "PLAN")
  /\ p \notin stale
  /\ stale' = stale \cup {p}
  /\ Fault
  /\ UNCHANGED <<op, status, result, order, run, release, cloud, torn>>

\* What executeAwsTerraformEcsApplyGeneric reads of the input first: an approval, and a
\* workspaceSlug, which only applyDeployment writes.
GateOpens(o) == op[o].approved /\ op[o].type = "APPLY"

\* The gate, and the checks of the source plan, made again where there is one.
BeginApply(o) ==
  /\ status[o] = "QUEUED"
  /\ op[o].type \in {"APPLY", "PROMOTE", "ROLLBACK"}
  /\ GateOpens(o)
  /\ op[o].type = "APPLY" => Eligible(op[o].source)
  /\ Settle(o, "RUNNING")
  /\ run' = [run EXCEPT ![o] = [NoRun EXCEPT !.step = "checked"]]
  /\ UNCHANGED <<op, result, stale, order, release, cloud, torn, faults>>

\* Faulty: the counts of the fresh plan are not compared with those that were approved.
UnblockedPlan(o, text) == ApplyEligible(text)

\* The fresh plan: not blocked, nothing destroyed, and the counts of the plan approved.
AcceptablePlan(o, text) ==
  /\ ApplyEligible(text)
  /\ op[o].type = "APPLY" => Counts(text) = Counts(result[op[o].source])

\* plan -lock=true -out: the file remembers the serial of the state.
FreshPlan(o, text) ==
  /\ run[o].step = "checked"
  /\ AcceptablePlan(o, text)
  /\ run' = [run EXCEPT ![o] = [step |-> "planned", text |-> text,
                                serial |-> cloud[op[o].env].serial, version |-> 0]]
  /\ UNCHANGED <<op, status, result, stale, order, release, cloud, torn, faults>>

\* apply of the file: Terraform refuses one of an older state, and keeps the serial of one
\* that changes nothing.
TerraformApply(o) ==
  LET e == op[o].env
      n == IF ChangesNothing(run[o].text) THEN cloud[e].serial ELSE cloud[e].serial + 1
  IN /\ run[o].step = "planned"
     /\ run[o].serial = cloud[e].serial
     /\ cloud' = [cloud EXCEPT ![e] = [serial |-> n, image |-> op[o].image]]
     /\ run' = [run EXCEPT ![o].step = "applied"]
     /\ torn' = torn \cup {x \in {e} : Recording(e) # {}}
     /\ UNCHANGED <<op, status, result, stale, order, release, faults>>

\* apply stops half way: the state has moved, and the image is the old one or the new.
ApplyBreaks(o) ==
  LET e == op[o].env
  IN /\ run[o].step = "planned"
     /\ run[o].serial = cloud[e].serial
     /\ \E image \in {cloud[e].image, op[o].image} :
          cloud' = [cloud EXCEPT ![e] = [serial |-> @.serial + 1, image |-> image]]
     /\ Settle(o, "FAILED")
     /\ run' = [run EXCEPT ![o] = NoRun]
     /\ torn' = torn \cup {e}
     /\ Fault
     /\ UNCHANGED <<op, result, stale, order, release>>

\* recordNewAwsRelease: the active rows of the environment.
Superseded(e) ==
  {r \in Op : release[r] # None /\ release[r].env = e /\ release[r].status = "ACTIVE"}

Supersede(o) ==
  /\ run[o].step = "applied"
  /\ release' = [r \in Op |-> IF r \in Superseded(op[o].env)
                              THEN [release[r] EXCEPT !.status = "SUPERSEDED"] ELSE release[r]]
  /\ run' = [run EXCEPT ![o].step = "superseded"]
  /\ UNCHANGED <<op, status, result, stale, order, cloud, torn, faults>>

\* Faulty: the version is the number of the rows there are.
VersionFromZero(e) == Cardinality({r \in Op : release[r] # None /\ release[r].env = e})

NextVersion(e) == Cardinality({r \in Op : release[r] # None /\ release[r].env = e}) + 1

CountReleases(o) ==
  /\ run[o].step = "superseded"
  /\ run' = [run EXCEPT ![o] = [@ EXCEPT !.step = "counted",
                                          !.version = NextVersion(op[o].env)]]
  /\ UNCHANGED <<op, status, result, stale, order, release, cloud, torn, faults>>

\* The row is created; that the operation then cannot be marked SUCCEEDED is a later Fail.
CreateRelease(o) ==
  /\ run[o].step = "counted"
  /\ release' = [release EXCEPT ![o] = [env |-> op[o].env, image |-> op[o].image,
                                        version |-> run[o].version, status |-> "ACTIVE"]]
  /\ run' = [run EXCEPT ![o] = NoRun]
  /\ UNCHANGED <<op, status, result, stale, order, cloud, torn, faults>>

Succeed(o) ==
  /\ status[o] = "RUNNING"
  /\ release[o] # None
  /\ Settle(o, "SUCCEEDED")
  /\ UNCHANGED <<op, result, stale, order, run, release, cloud, torn, faults>>

Next ==
  \/ \E e \in Environment : BuildEcrImage(e) \/ ApplyDeployment({e})
  \/ ApplyDeployment(Environment)
  \/ \E o \in Op :
       \/ PushEcrImage(o) \/ RollbackRelease(o)
       \/ \E e \in Environment : PlanDeployment(o, e) \/ PromoteRelease(o, e)
       \/ Approve(o) \/ Fail(o) \/ RunImage(o) \/ Expire(o) \/ BeginApply(o)
       \/ \E text \in Text : RunPlan(o, text) \/ FreshPlan(o, text)
       \/ TerraformApply(o) \/ ApplyBreaks(o) \/ Supersede(o) \/ CountReleases(o)
       \/ CreateRelease(o) \/ Succeed(o)

Spec == Init /\ [][Next]_vars
-----------------------------------------------------------------------------
OpRecord  == [type : OperationType \cup {None}, env : Environment \cup {None},
              image : Op \cup {None}, source : Op \cup {None}, approved : BOOLEAN]
RunRecord == [step : Step, text : Text \cup {None}, serial : Nat, version : 0..MaxOps]
Row       == [env : Environment, image : Op, version : Op, status : {"ACTIVE", "SUPERSEDED"}]

\* What the instances give the constants: null is no value of any kind.
AwsAssumption ==
  /\ MaxOps \in Nat /\ MaxFaults \in Nat
  /\ None \notin Nat /\ None \notin Environment /\ None \notin Text
  /\ None \notin OperationType /\ None \notin Row
  /\ \A text \in Text : {text.add, text.change, text.destroy} \subseteq Nat

\* The variables keep their types, and what an operation names was created before it.
TypeOK ==
  /\ op \in [Op -> OpRecord]
  /\ \A o \in Op : op[o].source # None => op[o].source < o
  /\ status \in [Op -> {"NONE", "PENDING_APPROVAL", "QUEUED", "RUNNING", "SUCCEEDED", "FAILED"}]
  /\ result \in [Op -> Text \cup {None}]
  /\ order \in Seq(Op) /\ stale \subseteq Op
  /\ run \in [Op -> RunRecord]
  /\ release \in [Op -> Row \cup {None}]
  /\ cloud \in [Environment -> [serial : Nat, image : Op \cup {None}]]
  /\ torn \subseteq Environment
  /\ faults \in 0..MaxFaults

-----------------------------------------------------------------------------
(* The inductive invariant behind the properties below.                    *)

\* An operation that follows another takes environment and image from it, and it succeeded.
Follows(o, type) ==
  LET p == op[o].source
  IN p \in Op /\ Done(p, type) /\ op[o].env = op[p].env /\ op[o].image = op[p].image

OpSound(o) ==
  /\ status[o] = "NONE" <=> op[o] = NoOp
  /\ status[o] = "NONE" => \A p \in Op : p > o => status[p] = "NONE"
  /\ release[o] # None =>
       op[o].type = "APPLY" /\ status[o] \notin {"NONE", "PENDING_APPROVAL", "QUEUED"}
  /\ status[o] # "NONE" => op[o].env \in Environment /\ op[o].image \in Op
  /\ op[o].type = "BUILD" => op[o].image = o
  /\ op[o].type = "PUSH" => Follows(o, "BUILD")
  /\ op[o].type = "PLAN" => Follows(o, "PUSH")
  /\ op[o].type = "APPLY" => Follows(o, "PLAN")
  /\ Done(o, "PLAN") => result[o] \in Text

\* The source plan of an apply was one that may be applied when the worker began, and the plan
\* it holds has the same counts.
Reviewed(o) ==
  LET plan == op[o].source
  IN /\ ApplyEligible(result[plan])
     /\ RiskLevel(result[plan], op[plan].env) \notin {"HIGH", "BLOCKED"}
     /\ run[o].step # "checked" => Counts(run[o].text) = Counts(result[plan])

RunSound(o) ==
  run[o].step # "none" =>
    /\ op[o].type = "APPLY" /\ op[o].approved
    /\ status[o] = "RUNNING" /\ release[o] = None
    /\ Reviewed(o)
    /\ run[o].step = "counted" => run[o].version > 0

\* What is deployed was applied with approval.
CloudSound(e) ==
  cloud[e].image # None =>
    \E a \in Op : /\ op[a].type = "APPLY" /\ op[a].approved /\ op[a].env = e
                  /\ op[a].image = cloud[e].image

Rows(e) == {r \in Op : release[r] # None /\ release[r].env = e}

\* One record at a time, in an environment where none overlapped or was cut short: the rows
\* are numbered from 1, the last one is active until it is superseded, and who counted them
\* holds the next number.
HistorySound(e) ==
  e \notin torn =>
    /\ \A o, p \in Recording(e) : o = p
    /\ {release[r].version : r \in Rows(e)} = 1..Cardinality(Rows(e))
    /\ \A o \in Recording(e) :
         /\ op[o].image = cloud[e].image
         /\ run[o].step # "applied" => Superseded(e) = {}
         /\ run[o].step = "counted" => run[o].version = Cardinality(Rows(e)) + 1
    /\ Recording(e) = {} => (Rows(e) = {} <=> cloud[e].image = None)
    /\ Recording(e) = {} /\ Rows(e) # {} =>
         \E r \in Rows(e) : Superseded(e) = {r} /\ release[r].image = cloud[e].image

ReleaseInv ==
  /\ TypeOK
  /\ \A o \in Op : OpSound(o) /\ RunSound(o)
  /\ \A p \in stale \cup {order[i] : i \in DOMAIN order} : Done(p, "PLAN")
  /\ \A e \in Environment : CloudSound(e) /\ HistorySound(e)

-----------------------------------------------------------------------------
\* What is deployed in an environment was built and pushed for that environment, with success,
\* and planned for it by a plan that an approved apply named: no environment ever runs the
\* image of another, whichever plan happened to be the latest.
DeployedWasPushed ==
  \A e \in Environment : cloud[e].image # None =>
    \E u, p, a \in Op :
      /\ Done(cloud[e].image, "BUILD") /\ op[cloud[e].image].env = e
      /\ Done(u, "PUSH") /\ op[u].env = e /\ op[u].image = cloud[e].image
      /\ Done(p, "PLAN") /\ op[p].env = e /\ op[p].source = u
      /\ op[a].type = "APPLY" /\ op[a].approved /\ op[a].source = p

\* A plan that is applied only adds, at most as much as the limits allow, and never to
\* production: no change gets past the risk level of the reviewed plan and the comparison
\* with the fresh one. (As counted: what the counts miss is NothingDestroyed.)
AppliedPlansBounded ==
  \A o \in Op : run[o].step \notin {"none", "checked"} =>
    /\ Counts(run[o].text).change = 0 /\ Counts(run[o].text).destroy = 0
    /\ Counts(run[o].text).add <= MaxPlanAddCount
    /\ op[o].env \notin Production

\* Where no two records overlapped and none was cut short, the releases of an environment are
\* its history: versions 1 to n, one of them active, with the image that is deployed.
SequentialRecordsAgree ==
  \A e \in Environment \ torn : Recording(e) = {} =>
    LET rows == {r \in Op : release[r] # None /\ release[r].env = e}
    IN /\ {release[r].version : r \in rows} = 1..Cardinality(rows)
       /\ rows = {} <=> cloud[e].image = None
       /\ rows # {} => {release[r].image : r \in Superseded(e)} = {cloud[e].image}
       /\ Cardinality(Superseded(e)) <= 1

\* Claim: a released promotion or rollback is one the worker can run.
ReleasedIsRunnable ==
  \A o \in Op : status[o] = "QUEUED" /\ op[o].type \in {"PROMOTE", "ROLLBACK"} => GateOpens(o)

\* Claim: an apply whose plan destroys something is blocked.
NothingDestroyed ==
  \A o \in Op : run[o].step \notin {"none", "checked", "planned"} => run[o].text.destroy = 0
=============================================================================
