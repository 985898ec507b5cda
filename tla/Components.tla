----------------------------- MODULE Components -----------------------------
(***************************************************************************)
(* Deployments, AwsReleases, AwsReadiness, Sessions, ProviderActions,      *)
(* ProviderSignals, Remediation, ProviderReports and ConsoleChoices, side  *)
(* by side: a behaviour is one of the component chosen at the start, while *)
(* the others rest in their initial states. The components share nothing,  *)
(* so that nothing is lost by it.                                          *)
(***************************************************************************)
EXTENDS Deployments, FiniteSets

CONSTANTS
  \* AwsReleases
  Production, Listed, Environment, Text, AwsOps, AwsFaults,
  \* AwsReadiness
  Place, Sample, PageSetting, FirstWorld, PageLoad, Lost, PageMoves,
  \* Sessions
  User, TabRequest, MaxTokens,
  \* ProviderActions
  ProductionPushNeedsApproval, ScaleApprovalThreshold, EnforcementMode, ActOp, Ask,
  AllowedNamespaces, MaxReplicas, ApiJobs, WorkerJobs, MaxDecisions,
  \* ProviderSignals
  Pod, Node, Job, SignalRequest, MaxBuild, MaxMoves,
  \* Remediation
  Container, Page, MaxEvidence, MaxTime,
  \* ProviderReports
  Setting, MaxReports, MaxChanges,
  \* ConsoleChoices
  Choice

VARIABLES
  subject,  \* the component that moves
  awsOp, awsStatus, awsResult, awsStale, awsOrder, awsRun, awsRelease, awsCloud, awsTorn,
  awsFaults,
  offSetting, offWorld, offMoves, offLoads, offLoading, offShown, offWorkspace, offCalm,
  offPress, offApplying,
  sesToken, sesExpired, sesStorage, sesUser, sesReq,
  actAsk, actStatus, actApprovals, actDeciding, actBegun, actRun, actResult, actTaken,
  actQueue, actBuilt,
  obsPods, obsReady, obsBuilds, obsReach, obsBatch, obsRow, obsMoves,
  remNow, remSeenAt, remLinked, remLogged, remPage, remFresh, remReq, remOps, remNotes,
  rptSetting, rptCondition, rptReport, rptChanges,
  selKind, selChosen, selFlight, selShown, selLoading, selError, selPicked, selPosted,
  selCreated, selOvertaken

awsVars == <<awsOp, awsStatus, awsResult, awsStale, awsOrder, awsRun, awsRelease, awsCloud,
             awsTorn, awsFaults>>
offVars == <<offSetting, offWorld, offMoves, offLoads, offLoading, offShown, offWorkspace,
             offCalm, offPress, offApplying>>
sesVars == <<sesToken, sesExpired, sesStorage, sesUser, sesReq>>
actVars == <<actAsk, actStatus, actApprovals, actDeciding, actBegun, actRun, actResult, actTaken,
             actQueue, actBuilt>>
obsVars == <<obsPods, obsReady, obsBuilds, obsReach, obsBatch, obsRow, obsMoves>>
remVars == <<remNow, remSeenAt, remLinked, remLogged, remPage, remFresh, remReq, remOps, remNotes>>
rptVars == <<rptSetting, rptCondition, rptReport, rptChanges>>
selVars == <<selKind, selChosen, selFlight, selShown, selLoading, selError, selPicked,
             selPosted, selCreated, selOvertaken>>
allVars == <<subject, vars, awsVars, offVars, sesVars, actVars, obsVars, remVars, rptVars,
             selVars>>
-----------------------------------------------------------------------------
A == INSTANCE AwsReleases WITH
       MaxOps <- AwsOps, MaxFaults <- AwsFaults,
       op <- awsOp, status <- awsStatus, result <- awsResult, stale <- awsStale,
       order <- awsOrder, run <- awsRun, release <- awsRelease, cloud <- awsCloud,
       torn <- awsTorn, faults <- awsFaults

W == INSTANCE AwsReadiness WITH
       Setting <- PageSetting, Load <- PageLoad, MaxMoves <- PageMoves,
       setting <- offSetting, world <- offWorld, moves <- offMoves, loads <- offLoads,
       loading <- offLoading, shown <- offShown, workspace <- offWorkspace, calm <- offCalm,
       press <- offPress, applying <- offApplying

S == INSTANCE Sessions WITH
       Request <- TabRequest,
       token <- sesToken, expired <- sesExpired, storage <- sesStorage, user <- sesUser,
       req <- sesReq

P == INSTANCE ProviderActions WITH
       Op <- ActOp,
       ask <- actAsk, status <- actStatus, approvals <- actApprovals, deciding <- actDeciding,
       begun <- actBegun, run <- actRun, result <- actResult, taken <- actTaken,
       queue <- actQueue, built <- actBuilt

K == INSTANCE ProviderSignals WITH
       Request <- SignalRequest,
       pods <- obsPods, ready <- obsReady, builds <- obsBuilds, reach <- obsReach,
       batch <- obsBatch, row <- obsRow, moves <- obsMoves

R == INSTANCE Remediation WITH
       Request <- Page,
       now <- remNow, seenAt <- remSeenAt, linked <- remLinked, logged <- remLogged,
       page <- remPage, fresh <- remFresh, req <- remReq, ops <- remOps, notes <- remNotes

T == INSTANCE ProviderReports WITH
       setting <- rptSetting, condition <- rptCondition, report <- rptReport,
       changes <- rptChanges

C == INSTANCE ConsoleChoices WITH
       kind <- selKind, chosen <- selChosen, flight <- selFlight, shown <- selShown,
       loading <- selLoading, error <- selError, picked <- selPicked, posted <- selPosted,
       created <- selCreated, overtaken <- selOvertaken

\* There are finitely many slots; null is none of the things that are named.
ASSUME ComponentsAssumption ==
  /\ A!AwsAssumption
  /\ W!ReadinessAssumption
  /\ S!SessionsAssumption
  /\ IsFiniteSet(Worker)
  /\ MaxTime \in Nat /\ MaxBuild \in Nat
  /\ None \notin Choice

AllInit ==
  /\ subject \in {"deployments", "aws", "offers", "sessions", "actions", "observations",
                  "remediation", "reports", "choices"}
  /\ Init /\ A!Init /\ W!Init /\ S!Init /\ P!Init /\ K!Init /\ R!Init /\ T!Init /\ C!Init
  /\ subject # "offers" =>
       /\ offSetting = (CHOOSE s \in PageSetting : TRUE)
       /\ offWorld = (CHOOSE w \in FirstWorld : TRUE)
  /\ subject # "reports" =>
       /\ rptSetting = (CHOOSE s \in Setting : TRUE)
       /\ rptCondition = [p \in T!Provider |-> "good"]
  /\ subject # "choices" => selKind = C!ListFilter

AllNext ==
  /\ UNCHANGED subject
  /\ IF subject = "deployments"  THEN Next   ELSE UNCHANGED vars
  /\ IF subject = "aws"          THEN A!Next ELSE UNCHANGED awsVars
  /\ IF subject = "offers"       THEN W!Next ELSE UNCHANGED offVars
  /\ IF subject = "sessions"     THEN S!Next ELSE UNCHANGED sesVars
  /\ IF subject = "actions"      THEN P!Next ELSE UNCHANGED actVars
  /\ IF subject = "observations" THEN K!Next ELSE UNCHANGED obsVars
  /\ IF subject = "remediation"  THEN R!Next ELSE UNCHANGED remVars
  /\ IF subject = "reports"      THEN T!Next ELSE UNCHANGED rptVars
  /\ IF subject = "choices"      THEN C!Next ELSE UNCHANGED selVars

AllSpec == AllInit /\ [][AllNext]_allVars
-----------------------------------------------------------------------------
\* Variables keep their types: an AWS operation names only what was created before it, what a
\* refresh presents exists, a fingerprint has one row; the slot that won the claim of a
\* deployment owns its row, its job and its log until it wrote the outcome; reports of the AWS
\* page are of something there was since they were asked for
\* (aws.service.ts, auth.service.ts:149-224, deployments.queue.ts, signal.service.ts:62-133,
\* incident.service.ts:458-525).
TypesOK ==
  /\ subject = "deployments"  => DeploymentInv
  /\ subject = "aws"          => A!ReleaseInv
  /\ subject = "offers"       => W!OffersInv
  /\ subject = "sessions"     => S!TypeOK
  /\ subject = "actions"      => P!ActionsInv
  /\ subject = "observations" => K!TypeOK
  /\ subject = "remediation"  => R!PrepInv

\* What is deployed in an environment was built, pushed and planned for that environment, and
\* applied with approval (aws.service.ts:1127-1245).
DeployedWasPushed == subject = "aws" => A!DeployedWasPushed

\* A plan that is applied only adds, within the limits, and never in production
\* (aws-guardrails.ts:116-250, operations.queue.ts:792-1147).
AppliedPlansBounded == subject = "aws" => A!AppliedPlansBounded

\* Without overlapping or interrupted records, the releases of an environment are its history
\* (operations.queue.ts:726-790).
SequentialRecordsAgree == subject = "aws" => A!SequentialRecordsAgree

\* What the AWS page offers is accepted where nothing changed since its reports were made, an
\* apply is of no older plan than was shown, and no section denies the plan section's READY
\* (aws.service.ts:91-1245, aws-deployment-client.tsx:72-807).
OffersTruthful == subject = "offers" => W!OffersTruthful

\* Storage and store of a tab name one account, whatever late answer arrives
\* (auth-session.ts:32-128).
TabCoherent == subject = "sessions" => S!TabCoherent

\* No crash, lost answer, redelivery or second slot makes a provider take an operation more
\* often than it was released, what is reported as done was taken, a verified build is the
\* operation's, and no route changes a Kubernetes namespace that is not allowed, although two
\* of them do not look (operations.queue.ts:97-159, 1381-1442, operation.service.ts:240-284).
ActionsTruthful == subject = "actions" => P!ActionsTruthful

\* A prepared restart is of a container of the incident, and of the one the page showed
\* when nothing happened in between (incident.service.ts:458-525).
PreparedAsShown == subject = "remediation" => R!PreparedAsShown

\* Reports of a provider agree, call connected what answered, contain its failures and keep it
\* from who may not know (ops.service.ts:328-829, provider-registry.service.ts:33-276).
ReportsTruthful == subject = "reports" => T!ReportsTruthful

\* What is shown is what is chosen, unless a late answer was the last; and a deployment is of
\* an environment of the project it is filed under (deployments-client.tsx:146-233,
\* deployment.service.ts:209-232).
SelectionsTruthful == subject = "choices" => C!ChoiceShown
=============================================================================
