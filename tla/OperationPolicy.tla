-------------------------- MODULE OperationPolicy --------------------------
(***************************************************************************)
(* The decisions taken about one controlled operation, none of which reads *)
(* or writes shared state:                                                 *)
(*   - the local pilot policy of the API (operation-policy.service.ts),    *)
(*   - the Rego policy OPA serves and the enforcement mode the API applies *)
(*     to OPA's answer (operation.rego, operation-policy.middleware.ts),   *)
(*   - the roles that may trigger and decide                               *)
(*     (operation-authorization.service.ts),                               *)
(*   - the approval gates the worker applies again before it touches a     *)
(*     provider (operations.queue.ts).                                     *)
(*                                                                         *)
(* A request is abstracted to what these decisions look at: the operation  *)
(* type, its provider, whether the environment slug is production, the     *)
(* replica count, whether the target is listed (an allowlisted Jenkins     *)
(* job, a namespace that is not protected) and the confirmation token.     *)
(***************************************************************************)
EXTENDS Naturals

CONSTANTS
  ProductionPushNeedsApproval, \* AWS_ECR_PRODUCTION_PUSH_REQUIRES_APPROVAL
  ScaleApprovalThreshold,      \* POLICY_KUBERNETES_SCALE_APPROVAL_THRESHOLD
  EnforcementMode              \* OPA_ENFORCEMENT_MODE

ASSUME PolicyAssumption ==
  /\ ProductionPushNeedsApproval \in BOOLEAN
  /\ ScaleApprovalThreshold \in Nat
  /\ EnforcementMode \in {"shadow", "enforce"}

-----------------------------------------------------------------------------
(* Roles                                                                   *)

TRIGGER_ROLES  == {"OWNER", "ADMIN", "MEMBER"}
APPROVAL_ROLES == {"OWNER", "ADMIN"}
Role           == TRIGGER_ROLES \cup {"VIEWER", "NONE"}

-----------------------------------------------------------------------------
(* The local policy: which operations need a second person, and the word   *)
(* the requester must type.                                                *)

AlwaysApproved ==
  { "DOCKER_CONTAINER_STOP", "DOCKER_CONTAINER_RESTART", "TERRAFORM_APPLY",
    "AWS_TERRAFORM_ECS_APPLY", "AWS_ECS_RELEASE_ROLLBACK", "ANSIBLE_RUN" }

ConfirmationLabel ==
  [ JENKINS_BUILD_TRIGGER         |-> "BUILD",
    DOCKER_CONTAINER_START        |-> "START",
    DOCKER_CONTAINER_STOP         |-> "STOP",
    DOCKER_CONTAINER_RESTART      |-> "RESTART",
    KUBERNETES_DEPLOYMENT_RESTART |-> "ROLLOUT",
    KUBERNETES_DEPLOYMENT_SCALE   |-> "SCALE",
    TERRAFORM_VALIDATE            |-> "VALIDATE",
    TERRAFORM_PLAN                |-> "PLAN",
    TERRAFORM_APPLY               |-> "APPLY",
    AWS_ECR_IMAGE_BUILD           |-> "BUILD",
    AWS_ECR_IMAGE_PUSH            |-> "PUSH",
    AWS_TERRAFORM_ECS_PLAN        |-> "PLAN",
    AWS_TERRAFORM_ECS_APPLY       |-> "APPLY",
    AWS_ECS_RELEASE_PROMOTE       |-> "PROMOTE",
    AWS_ECS_RELEASE_ROLLBACK      |-> "ROLLBACK",
    ANSIBLE_SYNTAX_CHECK          |-> "SYNTAX",
    ANSIBLE_CHECK                 |-> "CHECK",
    ANSIBLE_RUN                   |-> "RUN" ]

KnownType == DOMAIN ConfirmationLabel
Tokens    == { ConfirmationLabel[type] : type \in KnownType }

\* What a caller asks for. KUBERNETES_MANIFEST_APPLY stands for the types
\* the policy table does not know.
OperationRequest ==
  [ type       : KnownType \cup {"KUBERNETES_MANIFEST_APPLY"},
    provider   : {"JENKINS", "DOCKER", "KUBERNETES", "INFRASTRUCTURE", "AWS"},
    production : BOOLEAN,
    replicas   : Nat,
    listed     : BOOLEAN,
    token      : Tokens ]

LocalApproval(t) ==
  \/ t.type \notin KnownType
  \/ t.type \in AlwaysApproved
  \/ t.type = "KUBERNETES_DEPLOYMENT_SCALE" /\ t.replicas > 2
  \/ t.type = "AWS_ECR_IMAGE_PUSH" /\ t.production /\ ProductionPushNeedsApproval
  \/ t.type = "AWS_ECS_RELEASE_PROMOTE" /\ t.production

\* An unknown type has no label, and then any token confirms it.
Confirmed(t) == t.type \in KnownType => t.token = ConfirmationLabel[t.type]

-----------------------------------------------------------------------------
(* OPA. An answer is "decided" (the Rego document), "malformed" (a 200     *)
(* response whose result is missing, which normalizeDecision turns into a  *)
(* plain deny) or "unreachable" (no answer, a timeout or a non-2xx status, *)
(* which the middleware turns into the fail-closed decision).              *)

OpaAnswer == {"decided", "malformed", "unreachable"}

\* Faulty: protected namespaces are not looked at.
RegoAllowProtected(t) ==
  /\ t.provider \in {"JENKINS", "KUBERNETES", "DOCKER"}
  /\ t.provider = "JENKINS" => t.listed

RegoAllow(t) ==
  /\ t.provider \in {"JENKINS", "KUBERNETES", "DOCKER"}
  /\ t.provider \in {"JENKINS", "KUBERNETES"} => t.listed

RegoApproval(t) ==
  \/ /\ t.type = "KUBERNETES_DEPLOYMENT_SCALE"
     /\ t.replicas > ScaleApprovalThreshold
  \/ t.type \in {"DOCKER_CONTAINER_STOP", "DOCKER_CONTAINER_RESTART"}

\* Faulty: a missing result counts as an allow.
OpaDecisionLenient(t, answer) ==
  [ allow            |-> answer # "unreachable" /\ RegoAllow(t),
    approvalRequired |-> answer = "decided" /\ RegoApproval(t),
    failClosed       |-> answer = "unreachable" ]

\* opaClient.evaluateOperation and its catch: what the API reads from OPA.
OpaDecision(t, answer) ==
  [ allow            |-> answer = "decided" /\ RegoAllow(t),
    approvalRequired |-> answer = "decided" /\ RegoApproval(t),
    failClosed       |-> answer = "unreachable" ]

\* The decision the API acts on: shadow mode observes every decision and
\* enforces none but the fail-closed one.
EnforcedDecision(t, answer) ==
  LET decision == OpaDecision(t, answer)
  IN IF decision.failClosed \/ EnforcementMode = "enforce"
     THEN decision
     ELSE [ allow |-> TRUE, approvalRequired |-> FALSE, failClosed |-> FALSE ]

\* Faulty: both engines must ask for the approval.
ApprovalRequiredByBoth(t, answer) ==
  LocalApproval(t) /\ EnforcedDecision(t, answer).approvalRequired

\* policy.approvalRequired || opaDecision.approvalRequired
ApprovalRequired(t, answer) ==
  LocalApproval(t) \/ EnforcedDecision(t, answer).approvalRequired

-----------------------------------------------------------------------------
(* The worker's own gates: executeOperation throws before any provider     *)
(* call when one of these holds.                                           *)

WorkerDemandsApproval(t) ==
  \/ t.type \in { "TERRAFORM_APPLY", "ANSIBLE_RUN", "AWS_TERRAFORM_ECS_APPLY",
                  "AWS_ECS_RELEASE_PROMOTE", "AWS_ECS_RELEASE_ROLLBACK" }
  \/ t.type = "AWS_ECR_IMAGE_PUSH" /\ t.production

WorkerAccepts(t, approved) ==
  /\ t.type \in KnownType                     \* 'Unsupported operation type'
  /\ WorkerDemandsApproval(t) => approved
=============================================================================
