# AutoOps 2.0: a TLA+ model of its control plane

AutoOps is a DevOps control plane: an Express API and a BullMQ worker, both in TypeScript, share a
Postgres database (through Prisma) and a Redis instance. Its promise is *controlled* operations: somebody asks
for an action on a provider (restart a container, scale a Kubernetes deployment, apply a Terraform
plan), policy decides whether a second person must approve it, and only then a worker carries it out,
with an audit trail, an incident when it fails, and no second execution. This directory models that
promise and the places where two processes, a crash or a lost lock could break it.

## 1. Inventory

| Part | Source | State it keeps | Operations | What is hard |
|---|---|---|---|---|
| Controlled operations, API | `apps/api/src/modules/operations` | `operations`, `audit_logs`, job in Redis | create, approve, reject | a handler reads, decides and writes in separate steps; the job is added after the commit |
| Authorization and local policy | same directory | none (reads memberships) | roles, approval table, confirmation words | written a second time in the worker |
| OPA | `modules/policy`, `infra/opa/policies` | none | evaluate, normalize, enforce or shadow | unavailable or malformed answers |
| Operations worker | `apps/worker/src/queues/operations.queue.ts`, `runtime/operation-incidents.ts` | `operations.status`, `incidents` | claim, execute, record, raise an incident | at-least-once delivery, crashes between steps |
| Deployments | `modules/deployments`, worker `deployments.queue.ts`, `executors` | `deployments`, `deployment_events`, job | trigger, claim, simulate, record | one active deployment per environment by check-then-insert; event writes that fail |
| BullMQ queues | library; options in `operation.queue.ts`, `deployment.queue.ts` | jobs, locks | add, take, retry, stall, age out | a job id is reused; a lock is lost while the holder lives |
| Signals, Docker observation | `modules/signals`, `integrations/docker` | `resource_signals` | ingest, resolve, reconcile a scan | scans overlap; resolution without a time guard; writes nobody awaits |
| Kubernetes and Jenkins observation | `integrations/kubernetes`, `integrations/jenkins` | `resource_signals` | ingest behind an answer | a fingerprint stands for an identity |
| Incidents | `modules/incidents` | `incidents`, `incident_signals`, `incident_events` | acknowledge, resolve, archive, correlate | check-then-create by correlation key, escalation by read-modify-write |
| Remediation | `incidents/remediation-rules.service.ts`, `incident-timeline.service.ts`, the incident page | none of its own (operations, notes) | list, prepare | the target is computed twice |
| Provider actions | the mutating routes of the integrations, `executeOperation` | the provider's, `operations.result` | scale, restart, build, apply, run | a request is taken and its answer lost; a build is polled for |
| AWS releases | `integrations/aws`, worker, `packages/utils` (guardrails, plan summary) | `aws_releases`, Terraform's state | build, push, plan, apply, promote, roll back | one ACTIVE release by two statements; plans that grow stale; a text that is parsed |
| The AWS page and its reports | `aws-deployment-client.tsx`, `integrations/aws` (the GETs, and the checks of the POSTs) | what the page shows; none behind it | load, refresh, report, offer, request | ten reports each computed on its own; what a button was offered for is checked again later, by other code |
| Authentication | `modules/auth`, `web/src/lib/api.ts`, `auth-session.ts` | `refresh_tokens`, a tab's storage and store | login, refresh, logout, request | rotation by read, issue, revoke; late answers |
| Worker lifecycle | `apps/worker/src/server.ts`, `runtime/worker-heartbeat.ts`, `_getWorkerRuntime` of `ops.service.ts` | `worker_heartbeats` | start, beat, drain, stop, report | a beat in flight while the stop is written |
| Reports of the operations pages | `modules/ops` | none | report, list, summarize | evidence derived from a row that late decisions overwrite; lists cut before they are filtered |
| Provider status | connectors and reports of `modules/integrations`, `modules/providers`, `modules/ops` | none | ask, translate, withhold | ten connectors, eleven reports, each with a vocabulary of its own |
| Projects, environments | `modules/projects`, `modules/environments`, the page of a project | the tables of those names; the page's own list | create, update, archive, list | checks before writes by id; a list edited by answers |
| Resource graph | `modules/resources` | `resource_nodes`, `resource_edges` | register a row, register an inventory | sequences of upserts that stop or meet anywhere |
| Web pages | `apps/web/src/app/(dashboard)`, `lib/api.ts` | what each section shows | load, poll, refresh, act, choose | overlapping loads that share GETs; late answers |
| Scripts, manifests, shared packages | the rest | none | build, deploy, log | none of its own |

The parts meet in three places. The **database rows**: API and worker both write `status`, by a
conditional update in one place (the claim) and by id alone in all others. The **job**: the API adds it
after its transaction, the worker takes it, and its id is the id of the row, so a second add while a job
is kept is ignored. The **signals**: handlers emit them, correlation turns them into incidents.

What makes each part correct, in the order in which the plan takes it:

1. an operation that needs approval runs only after a second, authorized person approved it, once
   per approval; its outcome is final, and what is reported of it happened;
2. a provider takes an operation no more often than it was released, on a target the routes admit, and what is recorded as done was taken;
3. a deployment is executed once, its environment is freed again, its log explains its status;
4. an incident's evidence, counter and timeline agree, an operation has one incident, and severity stays
   accounted for; a signal a scan raised is not resolved by an older scan; a remediation acts on what was shown;
5. what is deployed on AWS was built, pushed, planned and bounded; the releases of a target are its history; what the AWS page
   offers is accepted unless something changed, and what is then applied is no older than what was shown;
6. storage and store of a tab name one account; a worker shown as active is one, and a shutdown ends;
7. reports of one provider do not contradict each other, call connected only what answered and keep it from who may not know;
   lists of operations leave out none they should show;
8. a registration in the graph that runs alone leaves it right; no page falls back behind what it showed, or behind
   its own action, and what is shown is what is chosen.

## 2. Plan

| Step | Modules | Abstract specification | State |
|---|---|---|---|
| 1 | `OperationPolicy`, `BullQueue`, `Operations`, `OperationsProofs` | `OperationGovernance` | modelled, checked, proved |
| 2 | `Deployments`, `DeploymentsProofs` | a deployment's life as an environment sees it | modelled, checked, proved; the abstract specification was not written |
| 3 | `Incidents`, `IncidentsProofs`; `Signals`, `SignalsProofs`; `ProviderSignals` | the condition a signal stands for, as the latest undisturbed scan saw it (a property of `Signals`) | modelled and checked; `Incidents` and `Signals` proved |
| 4 | `AwsGuardrails`, `AwsReleases`, `AwsReadiness`, `AwsReleasesProofs` | the sequence of releases of an environment (a property) | modelled, checked, proved |
| 5 | `Sessions`; `WorkerLife`, `WorkerLifeProofs` | the report as a function of the ages of a worker's heartbeats | modelled, checked, proved |
| 6 | `OperationEvidence`, `OperationEvidenceProofs`, `EvidenceReport`, `ProviderReports`, `ProviderActions`, `Remediation` | | modelled and checked; all but `EvidenceReport` proved |
| 7 | `Catalog`, `ResourceGraph`, `ProjectPage`; `ConsolePages`, `ConsoleChoices` | the list of a page as `listEnvironments` would give it (a property) | modelled and checked; `ConsoleChoices` proved |
| 8 | `Components`, `ComponentsProofs`: nine components composed, and what the runs check of each as a theorem of the composition | | modelled, checked, proved |
| 9 | proofs about `EvidenceReport`, `ProjectPage`, `ResourceGraph` and `ConsolePages` | | not written: section 5 says why |

Composition: `Operations` extends `OperationPolicy` (what is decided) and `BullQueue` (what happens to
a job); `OperationEvidence` extends `Operations` with what is reported of its rows; `Deployments` extends `BullQueue`;
`ProviderActions` extends `OperationPolicy`, since the worker asks it a second time; `AwsReleases` extends `AwsGuardrails`;
`ResourceGraph` and `ProjectPage` extend `Catalog`, the first with what follows a write, the second with the page that asks for it;
`Operations` instantiates `OperationGovernance` under a refinement mapping; the `...Proofs` modules extend their module and `TLAPS`.
The components meet through small interfaces, which each module states as assumptions about its inputs: `ProviderActions` and `EvidenceReport`
take decisions as `Operations` does, read from a row that waits and written later by its id alone; `AwsReleases` takes them in one step (section 6); `Incidents` meets the others only in the operation id a failed
operation hands it (`Report`), `Remediation` in the operation it asks for. What one of them does inside is no step of another,
so several of them are explored in one run, side by side: `Components` composes nine (`AllSpec`) and is proved about, and `MCConsole`, `MCDecisions`, `MCRecords` and `MCProgress` compose others for TLC.

## 3. Modules

### `OperationPolicy`: the decisions

Constant-level operators only. A request is a record of what the decisions look at: its type, provider,
whether the environment is production, the replica count, whether the target is listed, and the typed
confirmation. `LocalApproval` and `Confirmed` are `operation-policy.service.ts`; `RegoAllow` and
`RegoApproval` the Rego document; `OpaDecision` the client's reading of the three kinds of answer OPA can give
(decided, malformed, unreachable) and `EnforcedDecision` what shadow or enforce mode makes of it; `WorkerAccepts` the gates
`executeOperation` applies again before it calls a provider.

### `BullQueue`: one job

BullMQ is not part of the repository. Its jobs are modelled from how the code uses them: attempts and
backoff, an id chosen by the caller, retention, the default stalled check. Each operator maps a job to the
job it becomes.

### `Operations`: the pipeline

Postgres runs at READ COMMITTED and a Prisma call outside `$transaction` commits by itself. So **one call or
transaction is one action**, and what a handler read earlier stays in its process state: `BeginApprove` reads
and decides, `CommitApprove` writes by id alone, and anything may happen between them. The state
follows the tables (`status`, `requestedBy`, `approvedBy`, ...), plus `audit` (audit rows per operation),
`signals`, `incidents`, `job`, the handlers `req`, the worker slots `worker`, and the history variable
`runs`, which counts entries into `executeOperation`.

| Code | Actions |
|---|---|
| `createQueuedOperation` | `BeginCreate`, `CommitCreate`, `Respond` (`EnqueueFails`, `RequestLost`) |
| `approveOperation`, `rejectOperation` | `BeginApprove`/`BeginReject`, `CommitApprove`/`CommitReject`, `Respond` |
| `processOperation` | `StartJob`, `Claim`, `ClaimFails`, `Execute`, `RecordSuccess`, `RecordFailure`, `RaiseIncident` and their failures |
| BullMQ | `CompleteJob`, `FailJob`, `BackoffEnds`, `RetentionEnds`, `LockExpires`, `StalledCheck` |
| process death | `RequestLost`, `WorkerCrash` |

Faults are of five kinds: the API dies or its transaction is refused (`api`), Redis refuses an add (`redis`),
a database call of the worker fails (`db`), a worker dies (`worker`), a live worker loses its job lock
(`lock`). Each instance names the kinds it allows in `FaultKind` and bounds their number by `MaxFaults`.

### `OperationGovernance`: the promise

Five variables (`requester`, `approver`, `gated`, `approvals`, `runs`) and three steps: submit, approve (by somebody who
may, is not the requester and is recorded as the approver), run (one authorization each). `Operations` maps `approvals` to the count of
`APPROVED` audit rows and everything else to the column of the same meaning.

### `Deployments`

The same method: `BeginTrigger` checks for an active deployment, `CommitTrigger` inserts, `Enqueue`,
`LogEnqueued` and the catch block `MarkFailed` follow one by one. On the worker side every event the handler
appends is a step of its own, because each can fail by itself and the code treats the failures differently:
inside the `try` they turn a success into a failure (`TryFails`, also for a progress report Redis refuses), outside it they leave the handler
(`HandlerThrows`). `events` is the set of event types in a deployment's log. The phases of the simulation are one
step. The signal and the resource-graph node that follow a trigger are best-effort writes nothing reads back, and are
left out.

### `Incidents`

A correlation request walks the active signals one by one; for each it reads the open incident of the signal's key (`FindOpen`),
reads whether the signal is linked (`ReadLink`) and commits one transaction: a link (`CommitLink`) with a severity computed from
the first read, or a new incident (`CommitCreate`). A unique index may refuse either, and the exception ends the request
(`CorrelationAborts`). Which signals are active is not modelled: a batch is any signal of severity WARNING or above after any other. The life cycle
handlers read and check (`Begin...`) and then write by id (`Commit...`). `Report` is the worker's insert for a failed operation.
`timeline` keeps the two kinds of event the properties look at, `opening` is a history variable: the severity of the insert.

| Code | Actions |
|---|---|
| `correlateSignalsForOrg`, `correlateSignal` | `FindOpen`, `ReadLink`, `CommitLink`, `CommitCreate`, `CorrelationAborts` |
| `acknowledgeIncident`, `resolveIncident`, `archiveIncident` | `BeginAcknowledge`, `CommitAcknowledge`, and so on |
| `createIncidentForFailedOperation` | `Report` |
| process death, refused calls | `RequestLost` |

One might expect two stronger properties; the code has neither, and the model shows both histories. *One open incident per condition* fails
when two correlations both find none. *Severity never sinks* fails when two links read WARNING and the CRITICAL one
commits before the ERROR one. What holds instead is `SeverityFloor` and `SeverityExplained`.

### `OperationEvidence`

What `ops.service.ts` reports of an operation is derived from one read of its row, so each part of the report is an operator of
the state and no action: `ReportedApproval` (`_approvalStatus`), the stages of the life cycle with who and when, whether a retry and
whether recovery is offered. `EvidenceTruthful` compares the report with `audit` and `runs`: it may not claim a decision or a run that was not.
What it does get wrong when a late decision overwrote the row is listed below.

### `EvidenceReport`

The lists drawn from the operations: `Activity` cuts what the database filtered; `Evidence` reads a window of rows (`GovernanceRecords`), filters them by what is computed from a row and then cuts; the latest lists,
the summary with its breakdowns and times, the export and the recent window follow. Rows change as in `Operations`: two decisions
may read a row while it waits (`BeginDecision`), and the later one is written over whatever became of it (`CommitApprove`, `CommitReject`), so a row may run, or end, with a rejection that stays on it. `AddsUp` therefore wants the two
counts of rejections, by status and by what `_approvalStatus` says, to agree only where no operation of the list was decided twice; otherwise the first is at most the second. The detail of an operation is two reads at once (`ReadRow`, `ReadIncident`), in either order.

### `ProviderReports`

A connector is a table from what it meets (no configuration, a refusal, an error, silence) to the status it returns or throws; a report asks several at once (`Begin`), each answers of some condition it had
meanwhile, and the report translates, withholds or fails (`Answer`). One provider at a time is in trouble.

### `ProviderActions`

From the route of an integration (`RequestOperation`: which namespaces, replicas, jobs and words each route admits) through the decisions and the claim to the call, before which the worker
asks the policy again. Decisions are late here too (`BeginDecision`, `CommitApprove`, `CommitReject`): an approval that read the row while it waited may release again what already ran, failed or was rejected, and several slots (`run`) may then be
at work on one operation. So what a provider may be asked is bounded not by one but by `Released`: one request that needed no approval, or the approvals written. Deliveries are not modelled: any free slot may claim any queued row, at any time. A provider takes the request and answers (`CallAnswered`), takes it and the answer is lost (`AnswerLost`), or refuses it;
Jenkins takes it into a queue (`BuildAccepted`, `JenkinsMoves`) and is polled (`PollEnds`). `WorkerDies` leaves the row RUNNING, which no delivery claims.

### `Signals`: Docker

A scan looks (`LookAt`), sends its signals one by one (`Send`, `Upsert`), and then resolves by fingerprint, by legacy title and by the family of a container, and
reconciles each scope with the time the scan began as the cutoff. Every database call is an action; a write takes its time stamp when it is called, and may land after
those of a later scan. The provider's own signals are written and cleared by calls nobody awaits: `pending` holds them, `Land` empties it in any order,
and one that is refused ends the process (`server.ts:48`), which is `Crash`.
`alone` is history: nothing else wrote, and the containers did not change, while the scan ran. `AloneScanTruthful` is the promise of the whole module: such a scan
leaves exactly the signals of what it saw, whatever overlapping scans left before it. `OwnEvidenceStands` is what holds of a scan that is not alone. One might expect more: that no scan resolves a
condition its own list shows. The attempt to prove that failed, and TLC then found the history: another scan, which read the container's old labels, writes late and puts the row back
under the old scope (`signal.service.ts:81-117` takes the scope of the last writer); the first scan's reconciliation of that scope (`docker.service.ts:558-582`, `signal.service.ts:370-400`)
does not find the row among those it observed there, and resolves it. The next scan makes it good.

### `ProviderSignals`: Kubernetes and Jenkins

A request reads the provider and answers; the signals of what it read are ingested behind its back one by one (`Observe`, `Ingest`), and any may fail (`IngestFails`).
Rows are kept by `Fingerprint`, which is what the code hashes: neither provider is reconciled.

### `Remediation`

Signals of containers are observed and linked, and a page that is loaded shows the container the rule picks (`Load`); preparing it computes the plan again from what is
linked by then (`Plan`), asks for the operation (`Create`) and writes the note (`Note`), each of which may fail by itself. `calm` remembers that nothing was observed or
linked in between.

### `AwsGuardrails` and `AwsReleases`

`AwsGuardrails` holds the pure part: `Counts` is what the two regular expressions make of the text, `BlockedReasons` and `Warnings` the guardrails, `RiskLevel` and `ApplyEligible` the verdict.
`AwsReleases` is the chain of operations: each API action creates an operation from an earlier one that succeeded, and an apply then goes through the worker's steps:
`BeginApply` (the gate), `FreshPlan` (made and compared with the approved counts), `TerraformApply` or `ApplyBreaks`, `Supersede`, `CountReleases`, `CreateRelease`, `Succeed`.
Terraform's state has a serial: an apply of a plan of an older one is refused, and a plan without changes (`ChangesNothing`) leaves it. `torn` records the environments where two records overlapped or one was cut short.

### `AwsReadiness`

What the AWS page shows and offers, and what the API then says. A report is an operator of who asks and what is configured (`setting`, constant while the API runs) and of what the API finds when it is computed
(`world`: how AWS answers, the images, the plans with their age and verdict, the latest guardrail evaluation). A request is decided by other operators, with checks of their own (`Accepts`).

| Code | Definitions |
|---|---|
| `getStatus`, `getReadiness`, `getPermissions`, `getRemoteStateReadiness`, `getWorkspaceReadiness`, `getTerraformPlanReadiness`, `getGuardrailReadiness`, `getTerraformApplyReadiness`, `getEcrReadiness` | `AwsStatus`, `Readiness`, `Permissions`, `RemoteStateReadiness`, `WorkspaceReadiness`, `PlanReadiness`, `GuardrailReadiness`, `ApplyReadiness`, `EcrReadiness`; `Serve` adds who may read which |
| `buildEcrImage`, `pushEcrImage`, `planDeployment`, `applyDeployment` | `Accepts`, `After` |
| `load` of the page | `Refresh`, `StatusBlocked`, `StatusFails`, `StatusAnswered`, `Show`, `WorkspaceAnswered` |
| the buttons | `requestEcrBuild`, `requestEcrPush`, `requestTerraformPlan`, `requestTerraformApply`, `Accepted`, `Refused` |
| what happens behind the page | `ReachChanges`, `Imaged`, `Evaluated`, `PlanEnds`, `Ages` |

A load keeps in `seen` everything there was since it asked; `Show` lets each report be of any of these, or be lost. Loads may overlap, since an accepted request starts one whatever else is under way. `calm` is history: nothing changed since
the reports that are shown were made. One request at a time is followed on its way; its outcome is not, that is the subject of `AwsReleases`. What the page offers without having asked is excluded by name (`Sure`): to build and push whatever
the registry's status is, to push although that is switched off, to apply to members who may not. The section of releases is left out, because it is never shown (see *AWS* below).

### `Sessions`

The refresh tokens of the API and one tab: `storage` (the pair of tokens), `user` (the account the page shows) and the requests under way. A 401 leads to a refresh (`CheckRefresh`,
`IssueRefreshed`, `Replace`), and a refresh that is refused to `GiveUp`. `ColumnTakes` is the one fact about Postgres the module needs: a UUID column takes a UUID.
Signing in is modelled of a tab that is signed out.

### `WorkerLife`

A worker's phases from boot to exit, its job, its row in `worker_heartbeats` and the heartbeats in flight. Time is counted in beats and kept as *ages*: a heartbeat carries the age
of the moment it was taken, `Tick` ages everything and sends the next one. A heartbeat lands late, out of order or never. `ShownActive` and `Posture` are the report
of the operations hub. `quiet` (beats since the worker was last up) and `trouble` (beats since one of its heartbeats was lost or overtaken) are history.

### `Catalog`, `ResourceGraph` and `ProjectPage`

`Catalog` has the rows of projects and environments and the requests that check them (`CreateProject`, `UpdateEnvironment`, ...) and then write by id (`WriteProject`,
`WriteEnvironment`, `WriteArchive`), where the unique index, which knows archived rows too, has the last word. `ResourceGraph` adds the registration between a write and its
answer: `todo` is the sequence of upserts a request still has to make (`ProjectSteps`, `EnvironmentSteps`, `JenkinsSteps`, ...), `Register` makes one, `RegistrationFails` gives the rest up.
`whole` and `alone` are history: what a registration that lacked nothing and overlapped nothing leaves is compared with the rows and with what the provider showed.
`ProjectPage` adds the page: what it loads (two answers), what it asks for, how each answer edits its list, and the form whose subject the closure of a request remembers.

### `ConsolePages` and `ConsoleChoices`

`ConsolePages` gives each page as a record: the steps of its load, what a failure does to a section (`stops`, `keeps`, `empties`), whether sections are shown at once, which status ends or shortens a
load, whether it polls, retries and acts. A GET that is asked for again joins the one under way (`Asked`, `getWithDedupe`), so overlapping loads share answers; `Deliver` hands one answer to every load
that waits for it, in order. What the API has is counted by its changes, and an answer is the count it was given at. `owes` is history: the latest own action the page loaded after by GETs of its own.
`ConsoleChoices` has the five kinds of pages on which something is chosen, by what they do about a late answer, and the form that triggers a deployment.

### `Components`, and `MCConsole`, `MCDecisions`, `MCRecords` and `MCProgress`

Several components in one run, side by side: `subject` is chosen at the start, and a behaviour is one of that component while the rest keep their initial state. They share no variable,
so nothing is lost by it; a property of a component is stated under `subject = ...`, since the others rest in states it is checked in anyway. `Components` extends `Deployments` and instantiates `AwsReleases` (`A`), `AwsReadiness` (`W`), `Sessions` (`S`),
`ProviderActions` (`P`), `ProviderSignals` (`K`), `Remediation` (`R`), `ProviderReports` (`T`) and `ConsoleChoices` (`C`); `MCComponents` gives it the values TLC needs, and `ComponentsAssumption` is all the proofs ask of them.

## 4. What is checked

The `MC*` modules name the model values and the requests callers make; every `.cfg` is an instance.
Deadlock is checked only where a state without a next step would be wrong (`SignalsScans`): elsewhere a handler runs once and every queue may drain, so the system really stops.

| Run | Shows |
|---|---|
| `OperationsDecisions` | two explorations. An operation, gated or not, its creation and two decisions in flight, two slots, up to two faults of any kind: `SeparationOfDuties`, `RunsAuthorized`, `ExclusiveRun`, `EvidenceTruthful`, `SettledStaysSettled`, the refinement `GovernanceSpec`, and the inductive invariant `EvidenceInv`, of which `IInv` is a part. Three operations and every list drawn from them: `EvidenceTells` |
| `Console` | four explorations. Two requests of six kinds that may share an idempotency key, OPA enforced, every answer: `OneOperationPerKey` through the check-then-insert race, `HighRiskRunsApproved`, `OpaFailsClosed`. A project, an environment, a deployment and their registrations; an inventory and its: `GraphRegistrationTruthful`. Sixteen pages: `PagesNeverGoBack`, `PagesShowOwnAction` |
| `IncidentsSafety` | two explorations. Two requests that correlate or drive the life cycle, a worker's report, two incidents: `EvidenceAgrees`, `OneIncidentPerOperation`, `SeverityFloor`. A project's page: `ProjectListTruthful` |
| `SignalsScans` | two scans of a container that recovers, fails in two ways, shows one condition under two scopes and disappears, with late, lost and half-done writes: `AloneScanTruthful`, `ReconcileSparesNewer`, `OwnEvidenceStands`, `LossyScanResolvesNothing`. Status checks of an engine that is unreachable or refuses: `AloneCheckTruthful` |
| `Components` | nine components side by side. Deployments under up to four faults: `ExecutedOnce`, `OneStory`. Six AWS operations and a fault: `DeployedWasPushed`, `AppliedPlansBounded`, `SequentialRecordsAgree`. The AWS page, two loads at once and one change behind it, for an owner, a member, an organization that disables inventories and a sparser configuration: `OffersTruthful`, that is, what is offered is accepted if nothing changed, the plan applied is the one shown or a later one of its environment, and no section denies what the plan section affirms. A tab: `TabCoherent`. Provider actions: `ActionsTruthful`. Two pages of an incident: `PreparedAsShown`. Two reports around one change of one provider, for four viewers: `ReportsTruthful`. Choices: `SelectionsTruthful`. Kubernetes and Jenkins observation, for its types. `TypesOK` holds the type invariants and the inductive invariants `DeploymentInv`, `ReleaseInv`, `OffersInv`, `ActionsInv` and `PrepInv` |
| `Progress` | under fairness, three components: `ShutdownEnds`, `QueuedEventuallySettles`, `FailureRaisesIncident`, `EnvironmentFreed` (with the log of a deployment at rest); and `ReportAccurate`: `ReportTruthful`, nothing is shown active that is not, and `UpIsShown`, nothing is left out that is |

Every one of these properties is known to be sensitive to the code: `PROJECT.json` names, for each, a plausible
faulty version of one definition (they stand beside the definition, marked "Faulty") under which TLC finds it violated.

### Disagreements between the code and what it or its documents say

| Run | The claim | What the code does |
|---|---|---|
| `OperationsRejected` | rejected operations do not execute (`docs/SECURITY_CHECKLIST.md:99`) | an approval that read `PENDING_APPROVAL` before a rejection committed overwrites it and enqueues |
| `DeploymentsTwoActive` | "An active deployment already exists for this environment" (`deployment.service.ts:84`) | two triggers pass the check together |
| `BuildsCollide` | "For events, we want uniqueness per logical occurrence" (`signal.service.ts:384`) | build *n* of two Jenkins jobs that end alike have one fingerprint |
| `AwsPromotion` | a non-production promotion needs no approval and a rollback rolls back (`docs/AWS_ROLLBACK_AND_RELEASE_PROMOTION.md:35`) | the worker asks for an approval and for an input neither of them writes |
| `AwsDestroys` | an apply is blocked when any destroy action appears (`docs/AWS_APPROVAL_GATED_ECS_APPLY.md`) | a summary that begins with imports is counted as a plan without changes |
| `SessionsNotPersistent` | refresh tokens are for session persistence (`apps/web/src/middleware.ts:19`) | a hash is written into a UUID column, so that every refresh fails |

Others were met while modelling and have no run of their own; most are behaviours of the model as it stands.

- *Operations.* A crash between the FAILED update and the incident loses the incident that `docs/CONTROLLED_OPERATIONS_OVERVIEW.md:22` promises. In shadow mode a malformed OPA answer is
  admitted, though `docs/OPA_POLICY_AS_CODE.md:57` lists it as denied. A late rejection rewrites an "immutable record" (line 17 of that overview). Of an operation that is rejected late
  the page reports REJECTED while it runs, and its stage Running as finished. After a late approval over a rejection the
  summary of the governance evidence counts one rejection by approval status (`ops.service.ts:1636`) and none by status (1607); of AWS apply, promote and rollback it reports that no confirmation was required.
- *Kubernetes.* `/deployments/:ns/:name/restart` demands the word RESTART and the policy the word ROLLOUT: the route can never create an operation. Of the
  manifests, no `KUBERNETES_MANIFEST_APPLY` ever runs, since the worker has no case for it.
- *Jenkins.* A poll that fails after the trigger was taken records FAILED; a poll that times out records a success it calls unverified.
- *Incidents.* "Archived incidents cannot be resolved" (`incident.service.ts:278`, test at `incident.service.test.ts:556`) looks at a status nothing writes.
- *Remediation.* The target is computed again when the plan is prepared, and a second preparation replays the first operation even if that FAILED or was REJECTED. The evidence
  is cut at eight items before the target is looked for, so with seven signals or more the restart is offered and always refused. The plan for a Kubernetes
  rollout can never be prepared: nothing writes the name it wants. Preparation also skips the check of the container that the Docker route makes.
- *Signals.* Pods of one name in two namespaces share a fingerprint.
- *Reports of providers.* The summary of the integrations shows an AWS, Docker or Jenkins that fails in an unforeseen way as not configured, while the registry shows it as unreachable; a `DOCKER_HOST` that does not parse
  is thrown, and fails the summary, the registry and the Docker page as a whole. Neither the summary nor the registry looks at `AWS_INTEGRATION_ENABLED`, which the cloud page does, and the registry lists GitHub as not implemented
  whatever its page shows. The detail of an operation reads row and incident separately, and may show an incident beside a row read before it failed.
- *AWS.* The page disables plan, apply, promotion and rollback while the latest guardrail evaluation is BLOCKED, but only those make a newer one: a blocked plan locks the page for good, whereas
  `docs/ROUTE_REFERENCE.md:145` blocks apply, promotion and rollback alone. A request to apply carries no plan, so one newer than the page showed may be applied.
  The page asks `/v1/integrations/aws/release-readiness`, which `docs/ROUTE_REFERENCE.md` lists, but the router knows only `/releases/readiness` (`aws.routes.ts`): the answer is always a failure, and the page never offers a
  promotion or a rollback. Readiness to apply asks for a plan younger than 24 hours, the apply for one not older: at exactly 24 hours the page refuses what the API takes.

### Bounds, and why they are enough

Two worker slots are what it takes for a job to be delivered twice at once; three requests are a creation
and two decisions that race; two operations are needed only where rows compare (keys; in `Console`). A fault is an action,
so two faults cover a crash followed by a lost lock, a failed update followed by a crash, and so on; with four, a
deployment can lose all three attempts and one write. `MaxAttempts` and `MaxStalls` are the values the code gives the queues (2 and 3 attempts)
and BullMQ's default (1). Requests and slots are interchangeable, and the safety runs use that
symmetry; the liveness runs use none.

`WorkerLife` needs no bound on time, since ages stop at the offline threshold; a latency of four beats is more than the stale threshold of three, so a heartbeat may land when it is already stale. `AwsReleases` has six operations: build, push, plan and
apply of an image, and two more that overlap, follow or undo them; two environments, one of them production. `Sessions` has three pairs of tokens, one more than a tab can be between.
In `SignalsScans` a behaviour has scans of lists, or status checks one after the other before any list (`ChecksApart`): the two kinds
of request write different rows. Nothing is archived there (`NoneArchived`), since no scan tells an archived row from a resolved one. `Remediation` keeps five items of evidence for two containers instead of eight,
so that the cut matters. `ProviderActions` has two operations of any of thirteen requests, two slots and two decisions begun: what is between two operations is the number of Jenkins' next build, and two decisions
are what it takes for one of them to be late; `EvidenceReport` has two decisions as well. The worker report of the code reads
the newest twenty rows; the model has fewer workers than that.

`IncidentsSafety` has three signals of one key with three severities, so that two links in flight can be ordered either way and a third event tells
the difference, and one signal of an operation a worker also reports: together they reach both unique indexes. Two incidents are what a missing
check could make of one.

Of the AWS page `Components` has two loads, one change, two beginnings (an image that was pushed; a plan just made) and two sets of reports that come: what a plan is offered by, and what an image or an apply is. Two loads are what it takes for the older answers to be
shown last, one change for the reports of one load to disagree. What they show is proved for any number of each.

In `Components` two reports are what it takes to contradict each other, and one change lets an answer be older than its neighbour's. Choices are three, so that a late answer may be for neither the last nor the one before. In
`OperationsDecisions`, `EvidenceReport` has windows of two rows, lists of one and three operations,
so that a row may be missing for either reason.

In `Console` a page sees one change, two loads under way and one trouble (a failed request or a shift of the provider): two loads are what it takes to join a GET, and one change tells an older answer from a
younger. A third load would only join the second's GETs or an earlier one's. `ProjectPage` has two environments and three requests, two of them
under way at once (in `IncidentsSafety`); `ResourceGraph` one row of each kind and two requests, with slugs that may change in between, and a namespace with a workload for the inventories.

### Fairness

`WF` on the steps of an accepted handler (Node runs it to its end), on the taking of a waiting job (a worker
with a free slot blocks on Redis for it), on the steps of a slot, and on BullMQ's timers (backoff and stalled check).
No fairness is given to requests, to faults or to the ageing out of jobs. The liveness properties are stated under
the faults the code handles: lost locks, and for deployments adds and progress reports that Redis refuses. They fail, as the code stands, with a crash of a worker
after its claim (the row stays `RUNNING`, every redelivery skips it), or, for operations, with a refused add (the row
stays `QUEUED` and nothing adds it again); the hazards in `PROJECT.json` say so at their lines.

In `WorkerLife`: a call to the database is answered or times out (`STOPPING` and `STOPPED` are awaited with no other end), a job ends, and a drained worker closes or fails to. No fairness is given to boots, signals or
time. `Progress` composes the fairness conditions of its three components: what they ask for is enabled only in the component that moves.

`TabCoherent` needs a remark: it holds because no rotation succeeds. The faulty version of `ColumnTakes` that is kept beside it shows that a late answer of a refresh would sign the tab in again.

## 5. What is proved

`OperationsProofs` holds machine-checked proofs for **every** set of operations, users, requests, targets and slots, every
assignment of roles and every bound on faults, attempts and stalls. They use only the assumptions named in the modules: `PolicyAssumption`,
`QueueAssumption` and `OperationsAssumption` (null is not an id, roles are roles, bounds are numbers).

| Theorem | Statement |
|---|---|
| `TypeCorrect` | `Spec => []TypeOK` |
| `Invariance` | `Spec => []IInv` |
| `DutiesSeparated` | `Spec => []SeparationOfDuties` |
| `RunsPaidFor` | `Spec => []RunsAuthorized` |
| `NeverEnqueuedEarly` | `Spec => []EnqueuedOnlyWhenReleased` |
| `KeyNamesOne` | `Spec => []OneOperationPerKey` |
| `Refinement` | `Spec => GovernanceSpec` |

`RunsAuthorized` is about the state, `Refinement` about steps: each step of the pipeline is one of the abstract specification or a stutter.

None of the safety properties is inductive: from a state where a decision in flight belongs to the requester
himself, one step breaks `SeparationOfDuties`. `IInv` says what keeps them true:

- `RequestsSound`: what a handler remembers of its stale read is still true of what no step ever changes. The status
  may have moved on, but the requester, the gate and the decider's role have not: this is why a late approval, although it overwrites
  a status it did not read, is still an approval by a second authorized person.
- `BudgetSound`: `runs + (1 if QUEUED) <= authorizations`. `QUEUED` holds back the authorization the claim will
  spend; every way back to `QUEUED` is an audited approval.
- `ApprovalsSound`, `RowsSound`: columns are consistent, and rows that do not exist are empty.
- `WorkersSound`, `LocksSound`, `EnqueuedOnlyWhenReleased`: a slot works on an existing row, only an active
  job is locked, and a job exists only for a released operation.

The proof is by one lemma per action that writes rows (`CreateRows`, `ApproveRows`, `RejectRows`, `ClaimRows`,
`OutcomeRows`), each of which also yields `Grows` (rows, requesters and gates stay, approvals only grow); every other part
of the invariant is carried over by `Grows` and the frame lemma `Frames`. `TypeOK` by itself is not inductive either: that a signal
names an operation needs `RequestsSound`, that an incident does needs `WorkersSound`.

`IncidentsProofs` does the same for `Incidents`, from `IncidentsAssumption` alone:

| Theorem | Statement |
|---|---|
| `IncidentTypes` | `Spec => []TypeOK` |
| `IncidentInvariance` | `Spec => []IInv` |
| `EvidenceNeverDisagrees` | `Spec => []EvidenceAgrees` |
| `OperationHasOneIncident` | `Spec => []OneIncidentPerOperation` |
| `SeverityStaysAccounted` | `Spec => [](SeverityFloor /\ SeverityExplained)` |

`SeverityFloor` is not inductive: a link in flight may carry any severity. `ReadSound` is the strengthening: a severity a handler once read is not
below the opening one and is still explained by the timeline, because rows only grow (`Grows`: key and opening severity stay, timelines gain). The
counter agrees with the evidence because a link adds a signal that is not linked, and sets gain one element (`FS_AddElement`).

`WorkerLifeProofs` proves the report truthful for every set of workers, every pair of thresholds and every latency, from `WorkerAssumption`:

| Theorem | Statement |
|---|---|
| `InvariantHolds` | `Spec => []IInv` |
| `TypeCorrect` | `Spec => []TypeOK` |
| `ReportIsTruthful` | `Spec => []ReportTruthful` |
| `UpIsAlwaysShown` | `Spec => []UpIsShown` |
| `ReportIsAccurate` | `Spec => []ReportAccurate`, both at once |
| `StoppedIsIdle` | `Spec => []StoppedMeansIdle` |

What is written is no safer than what is under way, so each part of `IInv` speaks of both (`Sent`). `Vouching`: no RUNNING heartbeat is younger than the worker's silence; since an age is that of the moment
a heartbeat was taken, landing late cannot break it. `StopsDrained`: a STOPPED heartbeat exists only after the drain. `MadeGood`: unless one was lost or is late, each beat finds the one before written.

`OperationEvidenceProofs` goes on from `OperationsProofs`, under the same assumptions:

| Theorem | Statement |
|---|---|
| `EvidenceInvariance` | `Spec => []EvidenceInv` |
| `RunsExclusively` | `Spec => []ExclusiveRun` |
| `OutcomeIsFinal` | `Spec => SettledStaysSettled` |
| `EvidenceIsTruthful` | `Spec => []EvidenceTruthful` |
| `HighRiskApproved` | `Spec => []HighRiskRunsApproved` |
| `FailsClosed` | `Spec => []OpaFailsClosed` |

`IInv` counts runs but does not say who makes them. `EvidenceInv` adds three parts. `DecisionsRecorded`: columns and audit rows tell of the same decisions, and a row without any still has the status of its creation.
`RunsRecorded`: what is RUNNING or has an outcome was run, and of an operation decided at most once the slot between claim and outcome is alone and finds RUNNING; the budget of `IInv` is
what makes a second claim impossible. `PolicyRecorded`: every row has the gate both policies gave its target, and OPA answered for it. Each of the reports is then a consequence: the page reads one row.

`DeploymentsProofs`, from `DeploymentsAssumption` and `QueueAssumption` (`JobKept`: whatever BullMQ does to a job, a job it stays):

| Theorem | Statement |
|---|---|
| `DeploymentInvariance` | `Spec => []DeploymentInv` |
| `RunsOnce` | `Spec => []ExecutedOnce` |
| `TellsOneStory` | `Spec => []OneStory` |

The idea is ownership (`Owns`): the slot that wins the claim owns the deployment until it has written an outcome. `OwnerSound` says that an owner is alone and finds the log where it left it, although the API may
overwrite the status with FAILED meanwhile; `StorySound` what a log without an owner may hold. A crash ends ownership without an outcome, and no other slot can take over, since every later delivery skips the row.

`SignalsProofs`, from `SignalsAssumption`, for any containers, looks, names and number of overlapping requests:

| Theorem | Statement |
|---|---|
| `SignalsInvariance` | `Spec => []SignalsInv` |
| `AloneIsTruthful` | `Spec => []AloneScanTruthful` |
| `CheckIsTruthful` | `Spec => []AloneCheckTruthful` |
| `NewerSignalsSpared` | `Spec => ReconcileSparesNewer` |
| `EvidenceStands` | `Spec => OwnEvidenceStands` |
| `LossResolvesNothing` | `Spec => LossyScanResolvesNothing` |

`ScanSound` is what every scan may rely on: it asked after it began, sends only what it saw, resolves nothing after a loss. `AloneSound` is what an undisturbed one has achieved so far: what it ingested stands in the scope it saw (`Told`),
what is younger than its start is its own, and each scope it has reconciled holds nothing else. The cutoff is the hinge: rows older than the start are exactly those the reconciliation may take. That resolution
by family spares the scan's own signals rests on names (`NamesApart`): Docker has one container of a name. `ChecksInv` adds what a status check has on its way.

`AwsReleasesProofs`, for any number of operations and failures, any environments and any plans Terraform may print; its theorems assume `AwsAssumption` (null is no value, bounds and counts are numbers), which is part of `ComponentsAssumption`:

| Theorem | Statement |
|---|---|
| `ReleaseInvariance` | `Spec => []ReleaseInv` |
| `OnlyPushedIsDeployed` | `Spec => []DeployedWasPushed` |
| `OnlyBoundedPlansApply` | `Spec => []AppliedPlansBounded` |
| `RecordsAreHistory` | `Spec => []SequentialRecordsAgree` |

The properties speak of the end of a chain, so `OpSound` speaks of each link: an operation that follows another took environment and image from it, and SUCCEEDED is final. `RunSound` and `Reviewed` say what a worker in the middle of an
apply holds: an approved apply whose source plan passed the guardrails, and a fresh plan of the same counts, although the source plan may have grown stale or been overtaken. `HistorySound` follows the steps of a record in an environment that is not `torn`: after
`Supersede` none is active, after `CountReleases` the number held is one more than the rows, and this is why `CreateRelease` continues the numbering.

The same module proves the offers of the AWS page, for any settings, environments, workspaces, losses and number of loads and changes, from `ReadinessAssumption`:

| Theorem | Statement |
|---|---|
| `OffersInvariance` | `W!Spec => []W!OffersInv` |
| `OffersStayTruthful` | `W!Spec => []W!OffersTruthful` |

The hinge is `Before`: whatever happens behind the page, images are only added, plans only appended, and a plan keeps environment and verdict and only grows older. So an image or a plan that some load saw is still there (`LoadsSound`, `ShownSound`), and a request made
for it finds it (`PressSound`), however late it arrives and whatever other load was shown in between. With nothing changed, what is shown is what would be reported now; that acceptance follows is then a matter of the two sets of checks: `PlanIsReady` and `ApplyIsReady`
unfold what READY said, and each check of `Accepts` is among it. Here lies the one inequality that matters: readiness asks for less than a day, the apply for at most a day. `WorkspaceSound` says that the workspace a load asks for is the first one whenever AWS answers
(`OneFirstTarget`), although two loads may have asked at different moments.

`ComponentsProofs` extends the proofs of `Deployments`, `AwsReleases` and `AwsReadiness` and adds those of five more components of `Components`: `ProviderActions` (`P`), for any operations, requests, lists, policy, number of decisions and finite set of slots; `Sessions` (`S`), for
any users and tokens; `Remediation` (`R`), for any containers, pages and bound on time; `ProviderReports` (`T`), for any viewers and any number of reports and changes; `ConsoleChoices` (`C`), for any choices. Of `ProviderSignals` (`K`) it proves the types.

| Theorem | Statement |
|---|---|
| `ActionsInvariance` | `P!Spec => []P!ActionsInv` |
| `OutcomesAreTruthful`, `NamespacesAreSpared`, `ActionsAreTruthful` | `P!Spec => []P!OutcomeTruthful`, `P!Spec => []P!OnlyAllowedNamespacesChange`, and both |
| `TabInvariance`, `TabIsCoherent` | `S!Spec => []TabInv`, `S!Spec => []S!TabCoherent` |
| `PrepInvariance`, `OnlyShownIsPrepared` | `R!Spec => []R!PrepInv`, `R!Spec => []R!PreparedAsShown` |

Its last part is about the composition, from `ComponentsAssumption` and the assumptions of the modules alone. Every behaviour of `AllSpec` is, seen from one component, a behaviour of that component (`DeploymentsPart`, `ChoicesPart` and so on: a step is
one of its steps or leaves its variables alone), so what holds of each holds of all; these are the properties of the run `Components`, word for word:

| Theorem | Statement |
|---|---|
| `TypesAreKept` | `AllSpec => []TypesOK` |
| `DeployedIsPushed` | `AllSpec => []DeployedWasPushed` |
| `PlansAreBounded` | `AllSpec => []AppliedPlansBounded` |
| `RecordsAgree` | `AllSpec => []SequentialRecordsAgree` |
| `OffersAreTruthful` | `AllSpec => []OffersTruthful` |
| `TabStaysCoherent` | `AllSpec => []TabCoherent` |
| `ActionsStayTruthful` | `AllSpec => []ActionsTruthful` |
| `ShownIsPrepared` | `AllSpec => []PreparedAsShown` |
| `ReportsAreTruthful` | `AllSpec => []ReportsTruthful` |
| `SelectionsAreTruthful` | `AllSpec => []SelectionsTruthful` |

Of `ProviderActions` the hinge is a budget (`GatesSound`): what the provider took, the slots about to ask it and the claim a queued row can still win are together no more than the releases of the operation. A late approval adds one release and one claim, a claim becomes a
slot, a slot becomes a request or nothing; a redelivery, a crash or a lost answer adds none. `GatesSound` also remembers what let the operation through, the route and the word typed, and `OutcomeSound` the worker's own gate; that no forbidden namespace changes then follows from two
tables: the route `restart` asks for a word its type refuses, and the type of `apply` is unknown to the worker. `SlotSound` and `ItemSound` have what Jenkins owes: an item a slot polls is one its operation was answered with, another operation may be answered with it only for the same
job, and a started item is one of the builds of that job. The slots are a finite set (an assumption of `ComponentsAssumption`), since they are counted.
In `Remediation`, `Apart` (no two observations at one time) makes the container recommended the only one, so a page that is `fresh` shows what the second computation finds. `TabCoherent` needs no more than the types,
and holds because no refresh is ever completed (`Replace`).

`ReportsInv` says what a finished report is: the reply its kind gives to one condition per provider it asks, each of them a condition that provider had while the report was under way (`had`). That two reports which saw one and the same condition
of a provider agree on it, that connected means answered, that a failure stays with its provider and nothing is told to who may not know is then a matter of tables: `StatusTable`, `ToldKnown`, `OffersKnown` and `WithheldKnown` are those of the
connectors and reports, `SeenAlike` joins two of them. `ChoiceShown` is inductive as it stands: `overtaken` remembers that an answer for an earlier choice was taken last, and the guarded pages take none.

The proofs found three errors of earlier versions: `OwnEvidenceStands` was stated too strongly (see `Signals` above), and that an invariant is inductive needed facts no run had asked about (an operation that waits for approval has no release; the
rows of an environment are fewer than the operations).

In three operators (`ApprovalStatus`, `Observed`, `Answer`) two guards of a `CASE` held at once, of which TLA+ may choose either although the code takes the first; they are written in the code's order now.

Only model-checked remain: the claims the code breaks (`OneActivePerEnvironment` and the other five of section 4); `EvidenceTells`, `GraphRegistrationTruthful`, `ProjectListTruthful`, `PagesShowOwnAction` and `PagesNeverGoBack`. These five are about
sequences the modules fold, filter, reverse and sort (the window of a list, the upserts of a registration, the edits of a page's list, the answers that wait for a load): each needs a lemma by induction over the length of a sequence, which the installed
provers cannot take from the library, since its induction theorems have an operator for a parameter. And all liveness (`QueuedEventuallySettles`, `FailureRaisesIncident`, `EnvironmentFreed`, `ShutdownEnds`), since fairness and `ENABLED` are out of
the prover's reach.

## 6. What is not modelled, and why

- Membership roles are constants: only registration and the seed write them.
- What a provider call does is "it answers" or "it throws".
- The content of audit metadata, sanitization, formatting, logging, metrics and mapping to responses: no decision reads them.
- Tenants: every query is scoped by the organization id the caller's token carries, and the model is of one organization.
- Of incidents: notes, the life cycle's own events, lists and recommendations; the role check is a precondition.
- Passwords, signing and the registration of a tenant: a credential is accepted or refused.
- What a command prints, except the parts of a Terraform plan the parsers look for.
- Of the AWS page: promotion and rollback, which it never offers; lists of EC2, ECS and alarms, which decide nothing.
- What is rendered of an inventory or a report, search, forms and dialogs; that a page catches up in the end (its timers and the answers it needs are fair only if the network is; the model has the steps, and no run
  asks). Of the graph, operation nodes, readiness and `archiveStaleResources`, which nothing calls; of projects, the list of them.
- The demonstration queue, scripts, manifests, types and logging.

- Details that no property tells apart: the decision on an AWS operation is one step in `AwsReleases` (what is deployed does not rest on who decided, or how often: late decisions are in `Operations` and `ProviderActions`); of a list of Jenkins builds
  (`jenkins.service.ts:239-257`) `ProviderSignals` ingests the last build of a job; the reads of a remediation plan (`incident.service.ts:409-524`) are one step of `Remediation`, and the evidence of a prepared operation is one note.

## 7. Running it

    tlc -workers 2 -config OperationsDecisions.cfg MCDecisions
    tlc -workers 2 -config Console.cfg MCConsole
    tlc -workers 2 -config IncidentsSafety.cfg MCRecords
    tlc -workers 2 -config SignalsScans.cfg MCSignals
    tlc -workers 2 -config Components.cfg MCComponents
    tlc -workers 2 -config Progress.cfg MCProgress
    tlapm OperationsProofs.tla
    tlapm OperationEvidenceProofs.tla
    tlapm DeploymentsProofs.tla
    tlapm IncidentsProofs.tla
    tlapm SignalsProofs.tla
    tlapm AwsReleasesProofs.tla
    tlapm ComponentsProofs.tla
    tlapm WorkerLifeProofs.tla

and, for the disagreements, `OperationsRejected` (`MCOperations`), `DeploymentsTwoActive` (`MCDeployments`), `BuildsCollide` (`MCProviderSignals`), `AwsPromotion` and `AwsDestroys` (`MCAwsReleases`), and
`SessionsNotPersistent` (`Sessions`), where TLC prints the history.
