------------------------- MODULE OperationEvidence -------------------------
(***************************************************************************)
(* What the operations pages and the Governance Center report of an        *)
(* operation (ops.service.ts). A report is derived from one read of the    *)
(* row, so it is a function of the state; what could be wrong with it is   *)
(* that it claims more of the past than the row still proves. Titles,      *)
(* labels, durations, filters and the summaries counted from a page of     *)
(* reports are left out.                                                   *)
(***************************************************************************)
EXTENDS Operations

-----------------------------------------------------------------------------
(* The report                                                              *)

Terminal(o) == status[o] \in {"SUCCEEDED", "FAILED", "REJECTED"}
Started(o)  == status[o] \notin {"QUEUED", "PENDING_APPROVAL"}

\* Faulty: the approval is looked at first.
ReportedApprovalFirst(o) ==
  IF approvedBy[o] # None THEN "APPROVED"
  ELSE IF rejectedBy[o] # None \/ status[o] = "REJECTED" THEN "REJECTED"
  ELSE IF status[o] = "PENDING_APPROVAL" THEN "PENDING"
  ELSE "NOT_REQUIRED"

\* _approvalStatus: any rejection outweighs any approval.
ReportedApproval(o) ==
  IF rejectedBy[o] # None \/ status[o] = "REJECTED" THEN "REJECTED"
  ELSE IF approvedBy[o] # None THEN "APPROVED"
  ELSE IF status[o] = "PENDING_APPROVAL" THEN "PENDING"
  ELSE "NOT_REQUIRED"

\* The policy block: approvalRequired is what the row's policy says.
GovernanceBlock(o) ==
  [ approvalRequired |-> needsApproval[o],
    approvalStatus   |-> ReportedApproval(o),
    approvedBy       |-> approvedBy[o],
    rejectedBy       |-> rejectedBy[o] ]

\* Which of the two texts the second stage of the timeline is written for.
ApprovalStage(o) ==
  \/ needsApproval[o]
  \/ status[o] \in {"PENDING_APPROVAL", "REJECTED"}
  \/ approvedBy[o] # None
  \/ rejectedBy[o] # None

\* _lifecycle: the stages after "Requested", which is always completed.
Lifecycle(o) ==
  [ approval |-> CASE status[o] = "REJECTED"         -> "failed"
                   [] status[o] = "PENDING_APPROVAL" -> "active"
                   [] OTHER                          -> "completed",
    queued   |-> IF status[o] \in {"PENDING_APPROVAL", "REJECTED"}
                 THEN "pending" ELSE "completed",
    running  |-> CASE status[o] = "RUNNING" -> "active"
                   [] Terminal(o)           -> "completed"
                   [] OTHER                 -> "pending",
    final    |-> CASE status[o] \in {"FAILED", "REJECTED"} -> "failed"
                   [] status[o] = "SUCCEEDED"              -> "completed"
                   [] OTHER                                -> "pending" ]

\* _retryInfo: the operations that can be asked for again from their page,
\* with the token their dialog asks for. Their targets are always recorded.
RecoveryToken ==
  [ JENKINS_BUILD_TRIGGER         |-> "BUILD",
    DOCKER_CONTAINER_START        |-> "START",
    DOCKER_CONTAINER_STOP         |-> "STOP",
    DOCKER_CONTAINER_RESTART      |-> "RESTART",
    KUBERNETES_DEPLOYMENT_SCALE   |-> "SCALE",
    KUBERNETES_DEPLOYMENT_RESTART |-> "ROLLOUT" ]

\* _permissionHints: which buttons user u sees.
MayRecover(u, o) ==
  /\ Terminal(o)
  /\ RoleOf[u] \in TRIGGER_ROLES
  /\ target[o].type \in DOMAIN RecoveryToken

Buttons(u, o) ==
  (IF MayDecide(u, o)  THEN {"approve", "reject"} ELSE {}) \cup
  (IF MayRecover(u, o) THEN {"recover"} ELSE {})

Report(o) == [ governance |-> GovernanceBlock(o), lifecycle |-> Lifecycle(o),
               incident   |-> o \in incidents, startedAt |-> Started(o) ]

-----------------------------------------------------------------------------
(* What the report claims                                                  *)

\* The approval column is what the audit log has: "did not require approval"
\* was never decided on, "waiting" is gated and not on its way to a worker,
\* "approved" was never rejected and names a second person who may approve,
\* "rejected" was rejected.
ApprovalClaim(o) ==
  LET governance == Report(o).governance IN
  CASE governance.approvalStatus = "NOT_REQUIRED" ->
         ~governance.approvalRequired /\ Decisions(o) = 0
    [] governance.approvalStatus = "PENDING" ->
         /\ governance.approvalRequired
         /\ Decisions(o) = 0
         /\ job[o].state = "absent"
         /\ runs[o] = 0
    [] governance.approvalStatus = "APPROVED" ->
         audit[o].approved > 0 /\ audit[o].rejected = 0 /\ Authorized(o)
    [] governance.approvalStatus = "REJECTED" -> audit[o].rejected > 0

\* The timeline says what happened: "approval was granted" and "eligible for
\* worker execution" only of what was approved or never needed it; and, for an
\* operation decided at most once, "has not started" of what no worker entered,
\* "in progress" of what one entered, "rejected and will not execute" of what
\* none entered, "finished" of what one entered and left.
LifecycleClaim(o) ==
  LET stage == Report(o).lifecycle IN
  /\ stage.queued = "completed" => needsApproval[o] = (audit[o].approved > 0)
  /\ stage.approval = "completed" => ApprovalStage(o) = (audit[o].approved > 0)
  /\ Decisions(o) <= 1 =>
       /\ stage.running = "pending"   => runs[o] = 0
       /\ stage.approval = "failed"   => runs[o] = 0
       /\ stage.running = "active"    => runs[o] = 1
       /\ stage.running = "completed" /\ stage.approval # "failed" =>
            /\ runs[o] = 1
            /\ \A w \in Worker : Busy(w) => worker[w].op # o

\* "Retry" is offered only of what no worker is at work on, and its token is
\* the one the policy will demand.
RecoveryClaim(o) ==
  \A u \in User : "recover" \in Buttons(u, o) =>
    /\ RecoveryToken[target[o].type] = ConfirmationLabel[target[o].type]
    /\ Decisions(o) <= 1 => \A w \in Worker : Busy(w) => worker[w].op # o

\* No operation page and no row of the Governance Center tells of a decision or
\* an execution that did not happen, or of none where there was one, in any
\* interleaving of decisions, redeliveries and crashes (ops.service.ts:1951-2027,
\* 2164-2387 against operation.service.ts:247-340 and operations.queue.ts:97-159).
EvidenceTruthful ==
  \A o \in Op : Exists(o) => ApprovalClaim(o) /\ LifecycleClaim(o) /\ RecoveryClaim(o)

-----------------------------------------------------------------------------
(* The inductive invariant the proofs rest on, next to IInv                *)

\* Columns and audit rows tell of the same decisions, only a gated row is
\* decided, and it waits exactly as long as it is not.
DecisionsRecorded(o) ==
  /\ (approvedBy[o] = None) = (audit[o].approved = 0)
  /\ (rejectedBy[o] = None) = (audit[o].rejected = 0)
  /\ status[o] = "REJECTED" => rejectedBy[o] # None
  /\ ~Exists(o) \/ ~needsApproval[o] => Decisions(o) = 0
  /\ Exists(o) /\ needsApproval[o] =>
       (status[o] = "PENDING_APPROVAL") = (Decisions(o) = 0)

\* What is running or has an outcome was run; and, as long as the row was decided
\* at most once, whoever is at work on it is alone and finds it RUNNING.
RunsRecorded(o) ==
  /\ status[o] \in {"RUNNING"} \cup Settled => runs[o] > 0
  /\ \A w \in Worker : Busy(w) /\ worker[w].op = o =>
       /\ runs[o] > 0
       /\ Decisions(o) <= 1 =>
            /\ status[o] = "RUNNING"
            /\ \A v \in Worker : Busy(v) /\ worker[v].op = o => v = w

\* The gate of a row is what both policies made of its target when it was asked
\* for, and what was denied has none; so has a request on its way there.
PolicyApplied(t, gated, answer) ==
  /\ gated = ApprovalRequired(t, answer)
  /\ EnforcedDecision(t, answer).allow

PolicyRecorded ==
  /\ \A o \in Op : Exists(o) => PolicyApplied(target[o], needsApproval[o], opaAnswer[o])
  /\ \A o \in Op : ~Exists(o) => opaAnswer[o] = None
  /\ \A r \in Request : req[r].pc = "creating" =>
       PolicyApplied(req[r].target, req[r].gated, req[r].opa)

EvidenceInv ==
  /\ IInv
  /\ \A o \in Op : DecisionsRecorded(o)
  /\ \A o \in Op : RunsRecorded(o)
  /\ PolicyRecorded
=============================================================================
