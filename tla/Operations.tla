----------------------------- MODULE Operations -----------------------------
(***************************************************************************)
(* Controlled operations end to end: the API handlers that create, approve *)
(* and reject an operation (operation.service.ts), the BullMQ job that     *)
(* carries it (operation.queue.ts) and the worker that claims and runs it  *)
(* (operations.queue.ts, operation-incidents.ts).                          *)
(*                                                                         *)
(* Postgres runs at READ COMMITTED and every Prisma call outside a         *)
(* $transaction commits on its own, so one database call or transaction is *)
(* one action; a handler that reads, decides and writes is several, and    *)
(* what it read is kept in its process state.                              *)
(***************************************************************************)
EXTENDS OperationPolicy, BullQueue

CONSTANTS
  Op,          \* operation ids
  User,        \* members of the organization
  RoleOf,      \* their live org_memberships role
  Key,         \* idempotency keys callers send
  Target,      \* the operations callers ask for
  Request,     \* HTTP requests, each a handler that runs once
  Worker,      \* worker slots: processes times DEPLOYMENTS_CONCURRENCY
  OpaReach,    \* the answers OPA may give
  FaultKind,   \* the faults of this instance
  MaxFaults    \* bound: faults per behaviour

ASSUME OperationsAssumption ==
  /\ None \notin Op \cup User \cup Key \cup Target \cup Worker
  /\ None \notin OpaAnswer
  /\ RoleOf \in [User -> Role]
  /\ Target \subseteq OperationRequest
  /\ OpaReach \subseteq OpaAnswer
  /\ FaultKind \subseteq {"api", "redis", "db", "worker", "lock"}
  /\ MaxFaults \in Nat

VARIABLES
  (* operations table *)
  status,        \* status, "NONE" while the row does not exist
  target,        \* what the row asks the worker to do
  requestedBy,   \* requestedByUserId
  needsApproval, \* input.policy.approvalRequired
  opaAnswer,     \* metadata.opa.decision of the row's audit entry
  idemKey,       \* idempotencyKey
  approvedBy,    \* approvedByUserId, set together with approvedAt
  rejectedBy,    \* rejectedByUserId, set together with rejectedAt
  (* other tables *)
  audit,         \* audit_logs rows per operation and decision
  denials,       \* audit_logs rows of policy denials
  signals,       \* resource_signals the handlers emitted
  incidents,     \* operations with an incident row (operationId is unique)
  (* Redis *)
  job,           \* the BullMQ job operation-<id>
  (* processes *)
  req,           \* API requests
  worker,        \* worker slots
  (* bookkeeping of the model *)
  runs,          \* times a worker entered executeOperation
  faults         \* faults so far

rowVars == <<status, target, requestedBy, needsApproval, opaAnswer, idemKey,
             approvedBy, rejectedBy>>
logVars == <<audit, denials, signals>>
vars    == <<rowVars, logVars, incidents, job, req, worker, runs, faults>>

-----------------------------------------------------------------------------
OperationStatus == {"PENDING_APPROVAL", "QUEUED", "RUNNING",
                    "SUCCEEDED", "FAILED", "REJECTED"}
Settled         == {"SUCCEEDED", "FAILED"}
SignalType      == {"OPERATION_CREATED", "APPROVAL_APPROVED", "APPROVAL_REJECTED"}
RequestPc       == {"idle", "creating", "approving", "rejecting", "committed", "done"}
WorkerPc        == {"idle", "claiming", "running", "returned", "threw",
                    "reporting", "ack", "nack"}

Exists(o)    == status[o] # "NONE"
Decisions(o) == audit[o].approved + audit[o].rejected

IdleRequest == [pc |-> "idle", kind |-> None, user |-> None, op |-> None,
                target |-> None, key |-> None, gated |-> FALSE, opa |-> None]
IdleWorker  == [pc |-> "idle", op |-> None, approved |-> FALSE]

\* A fault of kind f strikes; every other step leaves faults alone.
Fault(f) == /\ f \in FaultKind
            /\ faults < MaxFaults
            /\ faults' = faults + 1

Init ==
  /\ status        = [o \in Op |-> "NONE"]
  /\ target        = [o \in Op |-> None]
  /\ requestedBy   = [o \in Op |-> None]
  /\ needsApproval = [o \in Op |-> FALSE]
  /\ opaAnswer     = [o \in Op |-> None]
  /\ idemKey       = [o \in Op |-> None]
  /\ approvedBy    = [o \in Op |-> None]
  /\ rejectedBy    = [o \in Op |-> None]
  /\ audit         = [o \in Op |-> [approved |-> 0, rejected |-> 0]]
  /\ denials       = {}
  /\ signals       = {}
  /\ incidents     = {}
  /\ job           = [o \in Op |-> NoJob]
  /\ req           = [r \in Request |-> IdleRequest]
  /\ worker        = [w \in Worker |-> IdleWorker]
  /\ runs          = [o \in Op |-> 0]
  /\ faults        = 0

-----------------------------------------------------------------------------
(* API: createQueuedOperation                                              *)

\* Role check, confirmation, idempotency lookup, local policy and OPA: no
\* shared state is written, except the audit row of a policy denial. The key
\* lookup decides now, the insert comes later.
BeginCreate(r, u, t, k) ==
  /\ req[r].pc = "idle"
  /\ RoleOf[u] \in TRIGGER_ROLES
  /\ IF k # None /\ \E o \in Op : idemKey[o] = k
     THEN /\ req' = [req EXCEPT ![r].pc = "done"]     \* returns the existing row
          /\ UNCHANGED denials
     ELSE /\ Confirmed(t)
          /\ \E answer \in OpaReach :
               IF EnforcedDecision(t, answer).allow
               THEN /\ req' = [req EXCEPT ![r] =
                         [pc |-> "creating", kind |-> "create", user |-> u,
                          op |-> None, target |-> t, key |-> k,
                          gated |-> ApprovalRequired(t, answer), opa |-> answer]]
                    /\ UNCHANGED denials
               ELSE /\ req' = [req EXCEPT ![r].pc = "done"]
                    /\ denials' = denials \cup {<<u, t>>}
  /\ UNCHANGED <<rowVars, audit, signals, incidents, job, worker, runs, faults>>

\* Faulty: no unique index.
KeyTakenNever(k) == FALSE

\* operations has a unique index on (organizationId, idempotencyKey).
KeyTaken(k) == k # None /\ \E o \in Op : idemKey[o] = k

\* The transaction: the row and its audit entry, or a unique violation.
CommitCreate(r) ==
  LET q == req[r] IN
  /\ q.pc = "creating"
  /\ IF KeyTaken(q.key)
     THEN /\ req' = [req EXCEPT ![r].pc = "done"]
          /\ UNCHANGED rowVars
     ELSE \E o \in Op :
          /\ ~Exists(o)
          /\ status'        = [status EXCEPT ![o] =
                                 IF q.gated THEN "PENDING_APPROVAL" ELSE "QUEUED"]
          /\ target'        = [target EXCEPT ![o] = q.target]
          /\ requestedBy'   = [requestedBy EXCEPT ![o] = q.user]
          /\ needsApproval' = [needsApproval EXCEPT ![o] = q.gated]
          /\ opaAnswer'     = [opaAnswer EXCEPT ![o] = q.opa]
          /\ idemKey'       = [idemKey EXCEPT ![o] = q.key]
          /\ req'           = [req EXCEPT ![r].pc = "committed", ![r].op = o]
          /\ UNCHANGED <<approvedBy, rejectedBy>>
  /\ UNCHANGED <<logVars, incidents, job, worker, runs, faults>>

-----------------------------------------------------------------------------
(* API: approveOperation and rejectOperation                               *)

\* Faulty: a requester may decide; any member may decide.
MayDecideOwn(u, o)    == status[o] = "PENDING_APPROVAL" /\ RoleOf[u] \in APPROVAL_ROLES
MayDecideMember(u, o) == status[o] = "PENDING_APPROVAL" /\ requestedBy[o] # u

\* canApproveWithRole and canRejectWithRole check the same three things, on
\* the row as it was read.
MayDecide(u, o) ==
  /\ status[o] = "PENDING_APPROVAL"
  /\ RoleOf[u] \in APPROVAL_ROLES
  /\ requestedBy[o] # u

BeginDecision(r, u, o, pc) ==
  /\ req[r].pc = "idle"
  /\ MayDecide(u, o)
  /\ req' = [req EXCEPT ![r].pc = pc, ![r].user = u, ![r].op = o]
  /\ UNCHANGED <<rowVars, logVars, incidents, job, worker, runs, faults>>

BeginApprove(r, u, o) == BeginDecision(r, u, o, "approving")
BeginReject(r, u, o)  == BeginDecision(r, u, o, "rejecting")

\* tx.operation.update({ where: { id } }): whatever the status is by now.
CommitApprove(r) ==
  LET q == req[r] IN
  /\ q.pc = "approving"
  /\ status'     = [status EXCEPT ![q.op] = "QUEUED"]
  /\ approvedBy' = [approvedBy EXCEPT ![q.op] = q.user]
  /\ audit'      = [audit EXCEPT ![q.op].approved = @ + 1]
  /\ req'        = [req EXCEPT ![r].pc = "committed", ![r].kind = "approve"]
  /\ UNCHANGED <<target, requestedBy, needsApproval, opaAnswer, idemKey, rejectedBy,
                 denials, signals, incidents, job, worker, runs, faults>>

CommitReject(r) ==
  LET q == req[r] IN
  /\ q.pc = "rejecting"
  /\ status'     = [status EXCEPT ![q.op] = "REJECTED"]
  /\ rejectedBy' = [rejectedBy EXCEPT ![q.op] = q.user]
  /\ audit'      = [audit EXCEPT ![q.op].rejected = @ + 1]
  /\ req'        = [req EXCEPT ![r].pc = "committed", ![r].kind = "reject"]
  /\ UNCHANGED <<target, requestedBy, needsApproval, opaAnswer, idemKey, approvedBy,
                 denials, signals, incidents, job, worker, runs, faults>>

-----------------------------------------------------------------------------
(* API: what follows the commit in all three handlers                      *)

SignalOf(kind) == CASE kind = "create"  -> "OPERATION_CREATED"
                    [] kind = "approve" -> "APPROVAL_APPROVED"
                    [] kind = "reject"  -> "APPROVAL_REJECTED"

\* Faulty: an approval does not enqueue.
EnqueuesUngated(q)  == q.kind = "create" /\ ~q.gated

\* if (!approvalRequired) after a create, always after an approval.
Enqueues(q) == q.kind = "approve" \/ (q.kind = "create" /\ ~q.gated)

EmitSignal(q) == signals' = signals \cup {<<q.op, SignalOf(q.kind)>>}

Respond(r) ==
  LET q == req[r] IN
  /\ q.pc = "committed"
  /\ EmitSignal(q)
  /\ job' = IF Enqueues(q) THEN [job EXCEPT ![q.op] = Added(@)] ELSE job
  /\ req' = [req EXCEPT ![r].pc = "done"]
  /\ UNCHANGED <<rowVars, audit, denials, incidents, worker, runs, faults>>

\* Redis refuses the add: the handler throws, the row stays QUEUED.
EnqueueFails(r) ==
  LET q == req[r] IN
  /\ q.pc = "committed"
  /\ Enqueues(q)
  /\ Fault("redis")
  /\ EmitSignal(q)
  /\ req' = [req EXCEPT ![r].pc = "done"]
  /\ UNCHANGED <<rowVars, audit, denials, incidents, job, worker, runs>>

\* The API process dies, or Postgres refuses the transaction: whatever the
\* handler had not committed yet never happens.
RequestLost(r) ==
  /\ req[r].pc \in {"creating", "approving", "rejecting", "committed"}
  /\ Fault("api")
  /\ req' = [req EXCEPT ![r].pc = "done"]
  /\ UNCHANGED <<rowVars, logVars, incidents, job, worker, runs>>

-----------------------------------------------------------------------------
(* Worker: processOperation                                                *)

Goto(w, pc) == worker' = [worker EXCEPT ![w].pc = pc]

\* The slot takes a waiting job and reads the row. Anything but QUEUED
\* returns at once, which completes the job.
StartJob(w, o) ==
  /\ worker[w].pc = "idle"
  /\ job[o].state = "waiting"
  /\ job' = [job EXCEPT ![o] = Taken(@, w)]
  /\ \/ /\ worker' = [worker EXCEPT ![w] =
               [pc |-> IF status[o] = "QUEUED" THEN "claiming" ELSE "ack",
                op |-> o, approved |-> approvedBy[o] # None]]
        /\ UNCHANGED faults
     \/ /\ worker' = [worker EXCEPT ![w] = [pc |-> "nack", op |-> o, approved |-> FALSE]]
        /\ Fault("db")                                          \* the read fails
  /\ UNCHANGED <<rowVars, logVars, incidents, req, runs>>

\* Faulty: update by id alone; a running operation may be claimed again.
ClaimWinsAlways(o)  == TRUE
ClaimWinsRunning(o) == status[o] \in {"QUEUED", "RUNNING"}

\* updateMany({ where: { id, status: QUEUED } }): the compare-and-set that
\* elects one runner; the loser returns.
ClaimWins(o) == status[o] = "QUEUED"

Claim(w) ==
  LET o == worker[w].op IN
  /\ worker[w].pc = "claiming"
  /\ IF ClaimWins(o)
     THEN /\ status' = [status EXCEPT ![o] = "RUNNING"]
          /\ runs'   = [runs EXCEPT ![o] = @ + 1]
          /\ Goto(w, "running")
     ELSE /\ Goto(w, "ack")
          /\ UNCHANGED <<status, runs>>
  /\ UNCHANGED <<target, requestedBy, needsApproval, opaAnswer, idemKey, approvedBy,
                 rejectedBy, logVars, incidents, job, req, faults>>

\* Before the try: the error leaves the handler.
ClaimFails(w) ==
  /\ worker[w].pc = "claiming"
  /\ Fault("db")
  /\ Goto(w, "nack")
  /\ UNCHANGED <<rowVars, logVars, incidents, job, req, runs>>

\* executeOperation, on the row read before the claim: it throws at its own
\* gate, or calls the provider, which answers or fails.
Execute(w) ==
  /\ worker[w].pc = "running"
  /\ \/ /\ WorkerAccepts(target[worker[w].op], worker[w].approved)
        /\ Goto(w, "returned")
     \/ Goto(w, "threw")
  /\ UNCHANGED <<rowVars, logVars, incidents, job, req, runs, faults>>

\* update({ where: { id } }) to SUCCEEDED, whatever the status is by now.
RecordSuccess(w) ==
  /\ worker[w].pc = "returned"
  /\ status' = [status EXCEPT ![worker[w].op] = "SUCCEEDED"]
  /\ Goto(w, "ack")
  /\ UNCHANGED <<target, requestedBy, needsApproval, opaAnswer, idemKey, approvedBy,
                 rejectedBy, logVars, incidents, job, req, runs, faults>>

\* The success update is inside the try: if Postgres refuses it, the catch
\* block records a failure of an operation that succeeded.
SuccessUpdateFails(w) ==
  /\ worker[w].pc = "returned"
  /\ Fault("db")
  /\ Goto(w, "threw")
  /\ UNCHANGED <<rowVars, logVars, incidents, job, req, runs>>

\* Faulty: the incident is forgotten.
RecordFailureOnly(w) ==
  /\ worker[w].pc = "threw"
  /\ status' = [status EXCEPT ![worker[w].op] = "FAILED"]
  /\ Goto(w, "nack")
  /\ UNCHANGED <<target, requestedBy, needsApproval, opaAnswer, idemKey, approvedBy,
                 rejectedBy, logVars, incidents, job, req, runs, faults>>

RecordFailure(w) ==
  /\ worker[w].pc = "threw"
  /\ status' = [status EXCEPT ![worker[w].op] = "FAILED"]
  /\ Goto(w, "reporting")
  /\ UNCHANGED <<target, requestedBy, needsApproval, opaAnswer, idemKey, approvedBy,
                 rejectedBy, logVars, incidents, job, req, runs, faults>>

FailureUpdateFails(w) ==
  /\ worker[w].pc = "threw"
  /\ Fault("db")
  /\ Goto(w, "nack")
  /\ UNCHANGED <<rowVars, logVars, incidents, job, req, runs>>

\* createIncidentForFailedOperation: at most one incident per operation.
RaiseIncident(w) ==
  /\ worker[w].pc = "reporting"
  /\ incidents' = incidents \cup {worker[w].op}
  /\ Goto(w, "nack")
  /\ UNCHANGED <<rowVars, logVars, job, req, runs, faults>>

\* Its error is caught and logged.
RaiseIncidentFails(w) ==
  /\ worker[w].pc = "reporting"
  /\ Fault("db")
  /\ Goto(w, "nack")
  /\ UNCHANGED <<rowVars, logVars, incidents, job, req, runs>>

-----------------------------------------------------------------------------
(* BullMQ: what becomes of the job                                         *)

\* Only the slot that still holds the job's lock moves the job.
Holds(w) == job[worker[w].op].lock = w

CompleteJob(w) ==
  /\ worker[w].pc = "ack"
  /\ job' = IF Holds(w) THEN [job EXCEPT ![worker[w].op] = Completed(@)] ELSE job
  /\ worker' = [worker EXCEPT ![w] = IdleWorker]
  /\ UNCHANGED <<rowVars, logVars, incidents, req, runs, faults>>

\* The handler rethrew: retried with a backoff until the attempts are spent.
FailJob(w) ==
  /\ worker[w].pc = "nack"
  /\ job' = IF Holds(w) THEN [job EXCEPT ![worker[w].op] = Thrown(@)] ELSE job
  /\ worker' = [worker EXCEPT ![w] = IdleWorker]
  /\ UNCHANGED <<rowVars, logVars, incidents, req, runs, faults>>

BackoffEnds(o) ==
  /\ job[o].state = "delayed"
  /\ job' = [job EXCEPT ![o] = Due(@)]
  /\ UNCHANGED <<rowVars, logVars, incidents, req, worker, runs, faults>>

\* A kept job ages out (removeOnComplete, removeOnFail); its id is free again.
RetentionEnds(o) ==
  /\ job[o].state \in {"completed", "failed"}
  /\ job' = [job EXCEPT ![o] = NoJob]
  /\ UNCHANGED <<rowVars, logVars, incidents, req, worker, runs, faults>>

\* The worker process dies; the lock it held will expire.
WorkerCrash(w) ==
  /\ worker[w].pc # "idle"
  /\ Fault("worker")
  /\ worker' = [worker EXCEPT ![w] = IdleWorker]
  /\ job' = IF Holds(w) THEN [job EXCEPT ![worker[w].op] = Unlocked(@)] ELSE job
  /\ UNCHANGED <<rowVars, logVars, incidents, req, runs>>

\* A live worker fails to renew its lock in time (a blocked event loop).
LockExpires(o) ==
  /\ job[o].state = "active"
  /\ job[o].lock # None
  /\ Fault("lock")
  /\ job' = [job EXCEPT ![o] = Unlocked(@)]
  /\ UNCHANGED <<rowVars, logVars, incidents, req, worker, runs>>

\* The stalled check redelivers an active job nobody holds, or gives it up.
StalledCheck(o) ==
  /\ job[o].state = "active"
  /\ job[o].lock = None
  /\ job' = [job EXCEPT ![o] = Stalled(@)]
  /\ UNCHANGED <<rowVars, logVars, incidents, req, worker, runs, faults>>

-----------------------------------------------------------------------------
ApiStep(r) ==
  \/ \E u \in User, t \in Target, k \in Key \cup {None} : BeginCreate(r, u, t, k)
  \/ CommitCreate(r)
  \/ \E u \in User, o \in Op : BeginApprove(r, u, o)
  \/ \E u \in User, o \in Op : BeginReject(r, u, o)
  \/ CommitApprove(r)
  \/ CommitReject(r)
  \/ Respond(r)
  \/ EnqueueFails(r)
  \/ RequestLost(r)

WorkerStep(w) ==
  \/ \E o \in Op : StartJob(w, o)
  \/ Claim(w)
  \/ ClaimFails(w)
  \/ Execute(w)
  \/ RecordSuccess(w)
  \/ SuccessUpdateFails(w)
  \/ RecordFailure(w)
  \/ FailureUpdateFails(w)
  \/ RaiseIncident(w)
  \/ RaiseIncidentFails(w)
  \/ CompleteJob(w)
  \/ FailJob(w)
  \/ WorkerCrash(w)

QueueStep(o) ==
  \/ BackoffEnds(o)
  \/ RetentionEnds(o)
  \/ LockExpires(o)
  \/ StalledCheck(o)

Next ==
  \/ \E r \in Request : ApiStep(r)
  \/ \E w \in Worker : WorkerStep(w)
  \/ \E o \in Op : QueueStep(o)

Spec == Init /\ [][Next]_vars

\* Handlers that were accepted run to their end, workers and BullMQ's timers
\* keep going; nobody has to send a request, and no fault has to happen.
Fairness ==
  /\ \A r \in Request : WF_vars(CommitCreate(r) \/ CommitApprove(r)
                                \/ CommitReject(r) \/ Respond(r))
  /\ \A o \in Op : WF_vars(\E w \in Worker : StartJob(w, o))
  /\ \A w \in Worker : WF_vars(Claim(w) \/ Execute(w) \/ RecordSuccess(w)
                               \/ RecordFailure(w) \/ RaiseIncident(w)
                               \/ CompleteJob(w) \/ FailJob(w))
  /\ \A o \in Op : WF_vars(BackoffEnds(o) \/ StalledCheck(o))

FairSpec == Spec /\ Fairness

-----------------------------------------------------------------------------
(* Invariants                                                              *)

JobType     == [state : JobState, attempts : Nat, stalls : Nat,
                lock : Worker \cup {None}]
RequestType == [pc : RequestPc, kind : {"create", "approve", "reject", None},
                user : User \cup {None}, op : Op \cup {None},
                target : Target \cup {None}, key : Key \cup {None},
                gated : BOOLEAN, opa : OpaAnswer \cup {None}]
SlotType    == [pc : WorkerPc, op : Op \cup {None}, approved : BOOLEAN]

TypeOK ==
  /\ status \in [Op -> OperationStatus \cup {"NONE"}]
  /\ target \in [Op -> Target \cup {None}]
  /\ requestedBy \in [Op -> User \cup {None}]
  /\ needsApproval \in [Op -> BOOLEAN]
  /\ opaAnswer \in [Op -> OpaAnswer \cup {None}]
  /\ idemKey \in [Op -> Key \cup {None}]
  /\ approvedBy \in [Op -> User \cup {None}]
  /\ rejectedBy \in [Op -> User \cup {None}]
  /\ audit \in [Op -> [approved : Nat, rejected : Nat]]
  /\ denials \subseteq User \X Target
  /\ signals \subseteq Op \X SignalType
  /\ incidents \subseteq Op
  /\ job \in [Op -> JobType]
  /\ req \in [Request -> RequestType]
  /\ worker \in [Worker -> SlotType]
  /\ runs \in [Op -> Nat]
  /\ faults \in 0..MaxFaults

\* An operation that needs approval is never past the approval gate without an
\* approver who holds an approval role and is not its requester, in whatever
\* order approvals, rejections, retries and crashes interleave
\* (operation.service.ts:247-264 against operations.queue.ts:105-124).
Authorized(o) ==
  /\ approvedBy[o] # None
  /\ RoleOf[approvedBy[o]] \in APPROVAL_ROLES
  /\ approvedBy[o] # requestedBy[o]

SeparationOfDuties ==
  \A o \in Op : needsApproval[o] /\ (runs[o] > 0 \/ status[o] \in {"QUEUED", "RUNNING"})
                  => Authorized(o)

\* Every run has an authorization of its own: an operation that needs no
\* approval is executed at most once, one that does at most once per audited
\* approval, although jobs are delivered at least once and retried
\* (operations.queue.ts:97-129).
RunBudget(o) == IF needsApproval[o] THEN audit[o].approved ELSE 1

RunsAuthorized == \A o \in Op : runs[o] <= RunBudget(o)

\* Two requests with one idempotency key never leave two operations, although
\* the lookup and the insert are separate (operation.service.ts:86-96, 160-171).
OneOperationPerKey ==
  \A o, p \in Op : idemKey[o] # None /\ idemKey[o] = idemKey[p] => o = p

\* An operation that needs approval has no job in Redis before its approval is
\* committed (docs/SECURITY_CHECKLIST.md:98, "approval-required operations are
\* not enqueued until approved").
EnqueuedOnlyWhenReleased ==
  \A o \in Op : job[o].state # "absent" =>
     /\ Exists(o)
     /\ needsApproval[o] => audit[o].approved > 0

\* What the architecture document lists as approval-required (docs/
\* ARCHITECTURE_OVERVIEW.md:99-108) runs only when a second person approved it,
\* whatever OPA answered and in either enforcement mode.
HighRisk(t) ==
  \/ t.type \in {"DOCKER_CONTAINER_STOP", "DOCKER_CONTAINER_RESTART",
                 "TERRAFORM_APPLY", "ANSIBLE_RUN"}
  \/ t.type = "KUBERNETES_DEPLOYMENT_SCALE" /\ t.replicas > 2
  \/ t.type \notin KnownType

HighRiskRunsApproved ==
  \A o \in Op : runs[o] > 0 /\ HighRisk(target[o]) => Authorized(o)

\* "If OPA is unavailable, times out, returns non-2xx, or returns malformed data, the
\* API normalizes the result to a fail-closed deny" (docs/OPA_POLICY_AS_CODE.md:57): no
\* row comes of a request OPA did not answer, in shadow mode either; and, enforced,
\* only what OPA decided on and lets through does: no job off the allowlist, no
\* protected namespace, no provider it has no rule for.
OpaFailsClosed ==
  \A o \in Op : Exists(o) =>
    /\ opaAnswer[o] # "unreachable"
    /\ EnforcementMode = "enforce" =>
         /\ opaAnswer[o] = "decided"
         /\ target[o].provider \in {"JENKINS", "KUBERNETES", "DOCKER"}
         /\ target[o].provider \in {"JENKINS", "KUBERNETES"} => target[o].listed

\* While a slot is at work on an operation, nobody but a deciding user moves the
\* row: it is RUNNING, and that slot is the only one inside executeOperation, as
\* long as the operation was decided at most once (operations.queue.ts:115-129).
Busy(w) == worker[w].pc \in {"running", "returned", "threw"}

ExclusiveRun ==
  \A w \in Worker : Busy(w) /\ Decisions(worker[w].op) <= 1 =>
     /\ status[worker[w].op] = "RUNNING"
     /\ \A v \in Worker : Busy(v) /\ worker[v].op = worker[w].op => v = w

-----------------------------------------------------------------------------
(* The inductive invariant the proofs rest on                              *)

\* A row that does not exist is empty; one that does has a requester who held
\* a triggering role, and only a gated one waits for approval.
RowsSound ==
  \A o \in Op :
    /\ ~Exists(o) => /\ requestedBy[o] = None
                     /\ ~needsApproval[o]
                     /\ approvedBy[o] = None
                     /\ runs[o] = 0
                     /\ audit[o].approved = 0
    /\ Exists(o) => requestedBy[o] # None
    /\ status[o] = "PENDING_APPROVAL" => needsApproval[o]

\* Whoever is recorded as the approver could approve, and what is released or
\* was run has one.
ApprovalsSound ==
  \A o \in Op :
    /\ approvedBy[o] # None => Authorized(o)
    /\ needsApproval[o] /\ (runs[o] > 0 \/ status[o] \in {"QUEUED", "RUNNING"})
         => approvedBy[o] # None

\* A run still to come is paid for: QUEUED holds one authorization back.
BudgetSound ==
  \A o \in Op : runs[o] + (IF status[o] = "QUEUED" THEN 1 ELSE 0) <= RunBudget(o)

\* What a handler remembers of its stale read is still true of the columns no
\* step changes: a decision in flight is by an authorized second person on a
\* gated row, and a handler about to enqueue enqueues something released.
RequestSound(r) ==
  LET q == req[r] IN
  /\ q.pc = "creating" => /\ q.kind = "create"
                          /\ q.user \in User
                          /\ RoleOf[q.user] \in TRIGGER_ROLES
                          /\ q.target \in Target
                          /\ q.opa \in OpaAnswer
  /\ q.pc \in {"approving", "rejecting"} =>
       /\ q.op \in Op
       /\ q.user \in User
       /\ RoleOf[q.user] \in APPROVAL_ROLES
       /\ Exists(q.op)
       /\ needsApproval[q.op]
       /\ requestedBy[q.op] # q.user
  /\ q.pc = "committed" =>
       /\ q.op \in Op
       /\ q.kind \in {"create", "approve", "reject"}
       /\ Exists(q.op)
       /\ Enqueues(q) /\ needsApproval[q.op] => audit[q.op].approved > 0

RequestsSound == \A r \in Request : RequestSound(r)

\* A slot that is not idle works on an operation that exists.
WorkersSound ==
  \A w \in Worker : worker[w].pc # "idle" => worker[w].op \in Op /\ Exists(worker[w].op)

\* Only an active job is locked.
LocksSound == \A o \in Op : job[o].lock # None => job[o].state = "active"

IInv ==
  /\ TypeOK
  /\ RowsSound
  /\ ApprovalsSound
  /\ BudgetSound
  /\ RequestsSound
  /\ WorkersSound
  /\ LocksSound
  /\ EnqueuedOnlyWhenReleased
  /\ OneOperationPerKey

-----------------------------------------------------------------------------
(* Action properties                                                       *)

\* SUCCEEDED and FAILED are final for an operation decided at most once: no
\* redelivered job, late worker or retry rewrites the outcome
\* (operations.queue.ts:97-103, 133-152).
SettledStaysSettled ==
  [][\A o \in Op : status[o] \in Settled /\ Decisions(o)' <= 1
                      => status'[o] = status[o]]_vars

\* The governance promise, for every interleaving and fault of the model.
Governance ==
  INSTANCE OperationGovernance WITH
    requester  <- requestedBy,
    approver   <- approvedBy,
    gated      <- needsApproval,
    approvals  <- [o \in Op |-> audit[o].approved],
    Submitters <- {u \in User : RoleOf[u] \in TRIGGER_ROLES},
    Approvers  <- {u \in User : RoleOf[u] \in APPROVAL_ROLES}

GovernanceSpec == Governance!Spec

-----------------------------------------------------------------------------
(* Liveness                                                                *)

\* A queued operation is run and settled, unless it is decided again
\* meanwhile: no job is left behind by the add, the claim, the retry or a
\* redelivery after a lost lock (operation.service.ts:220-226, 299-304).
QueuedEventuallySettles ==
  \A o \in Op : (status[o] = "QUEUED" /\ Decisions(o) <= 1)
                   ~> (status[o] \in Settled \/ Decisions(o) > 1)

\* A failed operation gets its incident (operations.queue.ts:153-157).
FailureRaisesIncident ==
  \A o \in Op : status[o] = "FAILED" ~> (o \in incidents \/ Decisions(o) > 1)

-----------------------------------------------------------------------------
(* What documents say of the system and the code does not keep             *)

\* "Verify rejected operations do not execute" (docs/SECURITY_CHECKLIST.md:99).
RejectedNeverExecutes ==
  [][\A o \in Op : rejectedBy[o] # None => runs'[o] = runs[o]]_vars

=============================================================================
