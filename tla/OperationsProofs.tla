-------------------------- MODULE OperationsProofs --------------------------
(***************************************************************************)
(* Proofs about Operations, for every set of operations, users, requests   *)
(* and worker slots, and every bound on faults, attempts and stalls.       *)
(***************************************************************************)
EXTENDS Operations, TLAPS

-----------------------------------------------------------------------------
(* Type correctness                                                        *)

\* The local policy's and OPA's approval demands are Boolean for every request
\* and every answer (operation.service.ts:112-127).
LEMMA GatedIsBoolean ==
  \A t, answer : ApprovalRequired(t, answer) \in BOOLEAN
BY DEF ApprovalRequired, LocalApproval, EnforcedDecision, OpaDecision, RegoApproval

\* The empty database and the idle processes are well typed.
LEMMA InitType == Init => TypeOK
<1> SUFFICES ASSUME Init PROVE TypeOK
  OBVIOUS
<1>1. 0 \in 0..MaxFaults
  BY OperationsAssumption
<1> QED
  BY <1>1 DEF Init, TypeOK, NoJob, IdleRequest, IdleWorker, JobState,
     RequestPc, WorkerPc, OperationStatus, JobType, RequestType, SlotType

\* Moving a handler to another point of its code keeps the handlers well typed.
LEMMA RequestMoves ==
  ASSUME req \in [Request -> RequestType], NEW r \in Request, NEW pc \in RequestPc
  PROVE  /\ [req EXCEPT ![r].pc = pc] \in [Request -> RequestType]
         /\ \A o \in Op :
              [req EXCEPT ![r].pc = pc, ![r].op = o] \in [Request -> RequestType]
         /\ \A o \in Op, u \in User :
              [req EXCEPT ![r].pc = pc, ![r].user = u, ![r].op = o]
                \in [Request -> RequestType]
         /\ \A kind \in {"create", "approve", "reject"} :
              [req EXCEPT ![r].pc = pc, ![r].kind = kind] \in [Request -> RequestType]
<1>1. [req EXCEPT ![r].pc = pc] \in [Request -> RequestType]
  BY DEF RequestType
<1>2. ASSUME NEW o \in Op
      PROVE  [req EXCEPT ![r].pc = pc, ![r].op = o] \in [Request -> RequestType]
  BY DEF RequestType
<1>3. ASSUME NEW o \in Op, NEW u \in User
      PROVE  [req EXCEPT ![r].pc = pc, ![r].user = u, ![r].op = o]
               \in [Request -> RequestType]
  <2>1. [[[req[r] EXCEPT !.pc = pc] EXCEPT !.user = u] EXCEPT !.op = o] \in RequestType
    BY DEF RequestType
  <2> QED
    BY <2>1
<1>4. ASSUME NEW kind \in {"create", "approve", "reject"}
      PROVE  [req EXCEPT ![r].pc = pc, ![r].kind = kind] \in [Request -> RequestType]
  BY DEF RequestType
<1> QED
  BY <1>1, <1>2, <1>3, <1>4

\* One more audited decision keeps the audit log well typed.
LEMMA AuditGrows ==
  ASSUME audit \in [Op -> [approved : Nat, rejected : Nat]], NEW o \in Op
  PROVE  /\ [audit EXCEPT ![o].approved = @ + 1]
               \in [Op -> [approved : Nat, rejected : Nat]]
         /\ [audit EXCEPT ![o].rejected = @ + 1]
               \in [Op -> [approved : Nat, rejected : Nat]]
<1>1. [audit EXCEPT ![o].approved = @ + 1] \in [Op -> [approved : Nat, rejected : Nat]]
  OBVIOUS
<1>2. [audit EXCEPT ![o].rejected = @ + 1] \in [Op -> [approved : Nat, rejected : Nat]]
  OBVIOUS
<1> QED
  BY <1>1, <1>2

\* What BullMQ does to a job keeps it well typed.
LEMMA JobMoves ==
  ASSUME NEW j \in JobType
  PROVE  /\ NoJob \in JobType
         /\ Added(j) \in JobType
         /\ \A w \in Worker : Taken(j, w) \in JobType
         /\ Completed(j) \in JobType
         /\ Thrown(j) \in JobType
         /\ Unlocked(j) \in JobType
         /\ Stalled(j) \in JobType
         /\ Due(j) \in JobType
<1>1. NoJob \in JobType /\ Added(j) \in JobType
  BY DEF NoJob, Added, JobType, JobState
<1>2. /\ \A w \in Worker : Taken(j, w) \in JobType
      /\ Completed(j) \in JobType /\ Unlocked(j) \in JobType /\ Due(j) \in JobType
  BY DEF Taken, Completed, Unlocked, Due, JobType, JobState
<1>3. j.attempts + 1 \in Nat /\ j.stalls + 1 \in Nat
  BY DEF JobType
<1>4. \A n \in Nat, s \in JobState :
        [j EXCEPT !.attempts = n, !.state = s, !.lock = None] \in JobType
  BY DEF JobType
<1>5. \A n \in Nat, s \in JobState : [j EXCEPT !.stalls = n, !.state = s] \in JobType
  BY DEF JobType
<1>6. Thrown(j) \in JobType
  BY <1>3, <1>4 DEF Thrown, JobState
<1>7. Stalled(j) \in JobType
  BY <1>3, <1>5 DEF Stalled, JobState
<1> QED
  BY <1>1, <1>2, <1>6, <1>7

\* A step of an API handler keeps every variable in its type.
LEMMA ApiStepType ==
  ASSUME TypeOK, RequestsSound, NEW r \in Request, ApiStep(r) PROVE TypeOK'
<1>a. req \in [Request -> RequestType]
  BY DEF TypeOK
<1>b. {"done", "creating", "approving", "rejecting", "committed"} \subseteq RequestPc
  BY DEF RequestPc
<1>c. /\ req[r].kind \in {"create", "approve", "reject", None}
      /\ req[r].user \in User \cup {None}
      /\ req[r].op \in Op \cup {None}
      /\ req[r].target \in Target \cup {None}
      /\ req[r].key \in Key \cup {None}
      /\ req[r].gated \in BOOLEAN
      /\ req[r].opa \in OpaAnswer \cup {None}
  BY <1>a DEF RequestType
<1>d. req[r].pc = "committed" => /\ req[r].op \in Op
                                 /\ req[r].kind \in {"create", "approve", "reject"}
  BY DEF RequestsSound, RequestSound
<1>f. req[r].pc \in {"approving", "rejecting"} => req[r].op \in Op
  BY DEF RequestsSound, RequestSound
<1>e. req[r].pc = "committed" => <<req[r].op, SignalOf(req[r].kind)>> \in Op \X SignalType
  BY <1>d DEF SignalOf, SignalType
<1>1. ASSUME NEW u \in User, NEW t \in Target, NEW k \in Key \cup {None},
             BeginCreate(r, u, t, k)
      PROVE  TypeOK'
  <2>1. denials' \subseteq User \X Target
    BY <1>1 DEF BeginCreate, TypeOK
  <2>2. CASE req' = [req EXCEPT ![r].pc = "done"]
    <3>1. req' \in [Request -> RequestType]
      BY <2>2, <1>a, <1>b, RequestMoves
    <3> QED
      BY <1>1, <2>1, <3>1 DEF BeginCreate, TypeOK, rowVars
  <2>3. CASE \E answer \in OpaReach :
               req' = [req EXCEPT ![r] =
                         [pc |-> "creating", kind |-> "create", user |-> u,
                          op |-> None, target |-> t, key |-> k,
                          gated |-> ApprovalRequired(t, answer), opa |-> answer]]
    <3>1. req' \in [Request -> RequestType]
      BY <2>3, <1>a, GatedIsBoolean, OperationsAssumption DEF RequestType, RequestPc
    <3> QED
      BY <1>1, <2>1, <3>1 DEF BeginCreate, TypeOK, rowVars
  <2> QED
    BY <1>1, <2>2, <2>3 DEF BeginCreate
<1>2. CASE CommitCreate(r)
  <2>1. CASE KeyTaken(req[r].key)
    <3>1. req' = [req EXCEPT ![r].pc = "done"]
      BY <1>2, <2>1 DEF CommitCreate
    <3>2. req' \in [Request -> RequestType]
      BY <3>1, <1>a, <1>b, RequestMoves
    <3> QED
      BY <1>2, <2>1, <3>2 DEF CommitCreate, TypeOK, rowVars, logVars
  <2>2. CASE ~KeyTaken(req[r].key)
    <3>1. PICK o \in Op :
            /\ status'        = [status EXCEPT ![o] =
                 IF req[r].gated THEN "PENDING_APPROVAL" ELSE "QUEUED"]
            /\ target'        = [target EXCEPT ![o] = req[r].target]
            /\ requestedBy'   = [requestedBy EXCEPT ![o] = req[r].user]
            /\ needsApproval' = [needsApproval EXCEPT ![o] = req[r].gated]
            /\ opaAnswer'     = [opaAnswer EXCEPT ![o] = req[r].opa]
            /\ idemKey'       = [idemKey EXCEPT ![o] = req[r].key]
            /\ req' = [req EXCEPT ![r].pc = "committed", ![r].op = o]
            /\ UNCHANGED <<approvedBy, rejectedBy>>
      BY <1>2, <2>2 DEF CommitCreate
    <3>2. req' \in [Request -> RequestType]
      BY <3>1, <1>a, <1>b, RequestMoves
    <3>3. /\ status' \in [Op -> OperationStatus \cup {"NONE"}]
          /\ target' \in [Op -> Target \cup {None}]
          /\ requestedBy' \in [Op -> User \cup {None}]
          /\ needsApproval' \in [Op -> BOOLEAN]
          /\ opaAnswer' \in [Op -> OpaAnswer \cup {None}]
          /\ idemKey' \in [Op -> Key \cup {None}]
      BY <3>1, <1>c DEF TypeOK, OperationStatus
    <3> QED
      BY <1>2, <3>1, <3>2, <3>3 DEF CommitCreate, TypeOK, logVars
  <2> QED
    BY <2>1, <2>2
<1>3. ASSUME NEW u \in User, NEW o \in Op,
             BeginDecision(r, u, o, "approving") \/ BeginDecision(r, u, o, "rejecting")
      PROVE  TypeOK'
  <2>1. PICK pc \in RequestPc : req' = [req EXCEPT ![r].pc = pc, ![r].user = u, ![r].op = o]
    BY <1>3, <1>b DEF BeginDecision
  <2>2. req' \in [Request -> RequestType]
    BY <2>1, <1>a, RequestMoves
  <2> QED
    BY <1>3, <2>2 DEF BeginDecision, TypeOK, rowVars, logVars
<1>4. CASE CommitApprove(r)
  <2>1. req' \in [Request -> RequestType]
    BY <1>4, <1>a, <1>b, RequestMoves DEF CommitApprove
  <2>2. /\ status' \in [Op -> OperationStatus \cup {"NONE"}]
        /\ approvedBy' \in [Op -> User \cup {None}]
    BY <1>4, <1>c DEF CommitApprove, TypeOK, OperationStatus
  <2>3. audit' \in [Op -> [approved : Nat, rejected : Nat]]
    BY <1>4, <1>f, AuditGrows DEF CommitApprove, TypeOK
  <2> QED
    BY <1>4, <2>1, <2>2, <2>3 DEF CommitApprove, TypeOK
<1>5. CASE CommitReject(r)
  <2>1. req' \in [Request -> RequestType]
    BY <1>5, <1>a, <1>b, RequestMoves DEF CommitReject
  <2>2. /\ status' \in [Op -> OperationStatus \cup {"NONE"}]
        /\ rejectedBy' \in [Op -> User \cup {None}]
    BY <1>5, <1>c DEF CommitReject, TypeOK, OperationStatus
  <2>3. audit' \in [Op -> [approved : Nat, rejected : Nat]]
    BY <1>5, <1>f, AuditGrows DEF CommitReject, TypeOK
  <2> QED
    BY <1>5, <2>1, <2>2, <2>3 DEF CommitReject, TypeOK
<1>6. CASE Respond(r)
  <2>1. req' \in [Request -> RequestType]
    BY <1>6, <1>a, <1>b, RequestMoves DEF Respond
  <2>2. signals' \subseteq Op \X SignalType
    BY <1>6, <1>e DEF Respond, EmitSignal, TypeOK
  <2>3. job' \in [Op -> JobType]
    BY <1>6, JobMoves DEF Respond, TypeOK
  <2> QED
    BY <1>6, <2>1, <2>2, <2>3 DEF Respond, TypeOK, rowVars
<1>7. CASE EnqueueFails(r)
  <2>1. req' \in [Request -> RequestType]
    BY <1>7, <1>a, <1>b, RequestMoves DEF EnqueueFails
  <2>2. signals' \subseteq Op \X SignalType
    BY <1>7, <1>e DEF EnqueueFails, EmitSignal, TypeOK
  <2>3. faults' \in 0..MaxFaults
    BY <1>7, OperationsAssumption DEF EnqueueFails, Fault, TypeOK
  <2> QED
    BY <1>7, <2>1, <2>2, <2>3 DEF EnqueueFails, TypeOK, rowVars
<1>8. CASE RequestLost(r)
  <2>1. req' \in [Request -> RequestType]
    BY <1>8, <1>a, <1>b, RequestMoves DEF RequestLost
  <2>2. faults' \in 0..MaxFaults
    BY <1>8, OperationsAssumption DEF RequestLost, Fault, TypeOK
  <2> QED
    BY <1>8, <2>1, <2>2 DEF RequestLost, TypeOK, rowVars, logVars
<1> QED
  BY <1>1, <1>2, <1>3, <1>4, <1>5, <1>6, <1>7, <1>8
  DEF ApiStep, BeginApprove, BeginReject

\* Moving a slot keeps the slots well typed.
LEMMA SlotMoves ==
  ASSUME worker \in [Worker -> SlotType], NEW w \in Worker
  PROVE  /\ \A pc \in WorkerPc : [worker EXCEPT ![w].pc = pc] \in [Worker -> SlotType]
         /\ [worker EXCEPT ![w] = IdleWorker] \in [Worker -> SlotType]
<1>1. ASSUME NEW pc \in WorkerPc
      PROVE  [worker EXCEPT ![w].pc = pc] \in [Worker -> SlotType]
  BY DEF SlotType
<1>2. IdleWorker \in SlotType
  BY DEF IdleWorker, SlotType, WorkerPc
<1> QED
  BY <1>1, <1>2

\* A step of a worker slot keeps every variable in its type.
LEMMA WorkerStepType ==
  ASSUME TypeOK, WorkersSound, NEW w \in Worker, WorkerStep(w) PROVE TypeOK'
<1>a. worker \in [Worker -> SlotType] /\ job \in [Op -> JobType]
  BY DEF TypeOK
<1>b. {"running", "ack", "returned", "threw", "nack", "reporting"} \subseteq WorkerPc
  BY DEF WorkerPc
<1>d. worker[w].pc # "idle" => worker[w].op \in Op
  BY DEF WorkersSound
<1>e. ASSUME NEW pc \in WorkerPc, Goto(w, pc)
      PROVE  worker' \in [Worker -> SlotType]
  BY <1>a, <1>e, SlotMoves DEF Goto
<1>f. ASSUME NEW f, Fault(f)
      PROVE  faults' \in 0..MaxFaults
  BY <1>f, OperationsAssumption DEF Fault, TypeOK
<1>1. ASSUME NEW o \in Op, StartJob(w, o)
      PROVE  TypeOK'
  <2>1. job' \in [Op -> JobType]
    BY <1>1, <1>a, JobMoves DEF StartJob
  <2>2. worker' \in [Worker -> SlotType]
    <3>1. PICK slot \in SlotType : worker' = [worker EXCEPT ![w] = slot]
      BY <1>1 DEF StartJob, SlotType, WorkerPc
    <3> QED
      BY <1>a, <3>1
  <2>3. faults' \in 0..MaxFaults
    BY <1>1, <1>f DEF StartJob, TypeOK
  <2> QED
    BY <1>1, <2>1, <2>2, <2>3 DEF StartJob, TypeOK, rowVars, logVars
<1>2. CASE Claim(w)
  <2>1. worker' \in [Worker -> SlotType]
    BY <1>2, <1>b, <1>e DEF Claim
  <2>2. status' \in [Op -> OperationStatus \cup {"NONE"}]
    BY <1>2 DEF Claim, TypeOK, OperationStatus
  <2>3. runs' \in [Op -> Nat]
    BY <1>2 DEF Claim, TypeOK
  <2> QED
    BY <1>2, <2>1, <2>2, <2>3 DEF Claim, TypeOK, logVars
<1>3. CASE Execute(w)
  BY <1>3, <1>b, <1>e DEF Execute, TypeOK, rowVars, logVars
<1>4. CASE RecordSuccess(w)
  <2>1. worker' \in [Worker -> SlotType]
    BY <1>4, <1>b, <1>e DEF RecordSuccess
  <2>2. status' \in [Op -> OperationStatus \cup {"NONE"}]
    BY <1>4 DEF RecordSuccess, TypeOK, OperationStatus
  <2> QED
    BY <1>4, <2>1, <2>2 DEF RecordSuccess, TypeOK, logVars
<1>5. CASE SuccessUpdateFails(w)
  BY <1>5, <1>b, <1>e, <1>f DEF SuccessUpdateFails, TypeOK, rowVars, logVars
<1>6. CASE RecordFailure(w)
  <2>1. worker' \in [Worker -> SlotType]
    BY <1>6, <1>b, <1>e DEF RecordFailure
  <2>2. status' \in [Op -> OperationStatus \cup {"NONE"}]
    BY <1>6 DEF RecordFailure, TypeOK, OperationStatus
  <2> QED
    BY <1>6, <2>1, <2>2 DEF RecordFailure, TypeOK, logVars
<1>7. CASE FailureUpdateFails(w)
  BY <1>7, <1>b, <1>e, <1>f DEF FailureUpdateFails, TypeOK, rowVars, logVars
<1>8. CASE RaiseIncident(w)
  BY <1>8, <1>b, <1>d, <1>e DEF RaiseIncident, TypeOK, rowVars, logVars
<1>9. CASE RaiseIncidentFails(w)
  BY <1>9, <1>b, <1>e, <1>f DEF RaiseIncidentFails, TypeOK, rowVars, logVars
<1>10. CASE CompleteJob(w)
  <2>1. job' \in [Op -> JobType]
    BY <1>10, <1>a, <1>d, JobMoves DEF CompleteJob
  <2>2. worker' \in [Worker -> SlotType]
    BY <1>10, <1>a, SlotMoves DEF CompleteJob
  <2> QED
    BY <1>10, <2>1, <2>2 DEF CompleteJob, TypeOK, rowVars, logVars
<1>11. CASE FailJob(w)
  <2>1. job' \in [Op -> JobType]
    BY <1>11, <1>a, <1>d, JobMoves DEF FailJob
  <2>2. worker' \in [Worker -> SlotType]
    BY <1>11, <1>a, SlotMoves DEF FailJob
  <2> QED
    BY <1>11, <2>1, <2>2 DEF FailJob, TypeOK, rowVars, logVars
<1>12. CASE WorkerCrash(w)
  <2>1. job' \in [Op -> JobType]
    BY <1>12, <1>a, <1>d, JobMoves DEF WorkerCrash
  <2>2. worker' \in [Worker -> SlotType]
    BY <1>12, <1>a, SlotMoves DEF WorkerCrash
  <2> QED
    BY <1>12, <1>f, <2>1, <2>2 DEF WorkerCrash, TypeOK, rowVars, logVars
<1>13. CASE ClaimFails(w)
  BY <1>13, <1>b, <1>e, <1>f DEF ClaimFails, TypeOK, rowVars, logVars
<1> QED
  BY <1>1, <1>2, <1>3, <1>4, <1>5, <1>6, <1>7, <1>8, <1>9, <1>10, <1>11, <1>12, <1>13
  DEF WorkerStep

\* A step of BullMQ's timers keeps every variable in its type.
LEMMA QueueStepType ==
  ASSUME TypeOK, NEW o \in Op, QueueStep(o) PROVE TypeOK'
<1>a. job \in [Op -> JobType]
  BY DEF TypeOK
<1>1. CASE BackoffEnds(o)
  <2>1. job' \in [Op -> JobType]
    BY <1>1, <1>a, JobMoves DEF BackoffEnds
  <2> QED
    BY <1>1, <2>1 DEF BackoffEnds, TypeOK, rowVars, logVars
<1>2. CASE RetentionEnds(o)
  <2>1. job' \in [Op -> JobType]
    BY <1>2, <1>a, JobMoves DEF RetentionEnds
  <2> QED
    BY <1>2, <2>1 DEF RetentionEnds, TypeOK, rowVars, logVars
<1>3. CASE LockExpires(o)
  <2>1. job' \in [Op -> JobType]
    BY <1>3, <1>a, JobMoves DEF LockExpires
  <2>2. faults' \in 0..MaxFaults
    BY <1>3, OperationsAssumption DEF LockExpires, Fault, TypeOK
  <2> QED
    BY <1>3, <2>1, <2>2 DEF LockExpires, TypeOK, rowVars, logVars
<1>4. CASE StalledCheck(o)
  <2>1. job' \in [Op -> JobType]
    BY <1>4, <1>a, JobMoves DEF StalledCheck
  <2> QED
    BY <1>4, <2>1 DEF StalledCheck, TypeOK, rowVars, logVars
<1> QED
  BY <1>1, <1>2, <1>3, <1>4 DEF QueueStep

-----------------------------------------------------------------------------
(* Who writes what                                                         *)

\* API handlers never touch a slot or the run counter; workers and the queue
\* never touch a handler; the queue never touches a row, an audit entry or a slot.
LEMMA Frames ==
  /\ \A r \in Request : ApiStep(r) => UNCHANGED <<worker, runs>>
  /\ \A w \in Worker : WorkerStep(w) =>
       UNCHANGED <<req, requestedBy, needsApproval, idemKey, approvedBy, audit>>
  /\ \A o \in Op : QueueStep(o) =>
       UNCHANGED <<req, worker, status, requestedBy, needsApproval, idemKey,
                   approvedBy, audit, runs>>
<1>1. ASSUME NEW r \in Request, ApiStep(r)
      PROVE  UNCHANGED <<worker, runs>>
  BY <1>1 DEF ApiStep, BeginCreate, CommitCreate, BeginApprove, BeginReject,
     BeginDecision, CommitApprove, CommitReject, Respond, EnqueueFails, RequestLost
<1>2. ASSUME NEW w \in Worker, WorkerStep(w)
      PROVE  UNCHANGED <<req, requestedBy, needsApproval, idemKey, approvedBy, audit>>
  BY <1>2 DEF WorkerStep, StartJob, Claim, ClaimFails, Execute, RecordSuccess,
     SuccessUpdateFails, RecordFailure, FailureUpdateFails, RaiseIncident,
     RaiseIncidentFails, CompleteJob, FailJob, WorkerCrash, rowVars, logVars
<1>3. ASSUME NEW o \in Op, QueueStep(o)
      PROVE  UNCHANGED <<req, worker, status, requestedBy, needsApproval, idemKey,
                         approvedBy, audit, runs>>
  BY <1>3 DEF QueueStep, BackoffEnds, RetentionEnds, LockExpires, StalledCheck,
     rowVars, logVars
<1> QED
  BY <1>1, <1>2, <1>3

-----------------------------------------------------------------------------
(* The inductive invariant: rows                                           *)

\* What a step never takes back: a row stays, its requester and its gate stay,
\* and its audited approvals only grow.
Grows ==
  \A o \in Op : Exists(o) =>
    /\ Exists(o)'
    /\ requestedBy'[o] = requestedBy[o]
    /\ needsApproval'[o] = needsApproval[o]
    /\ audit'[o].approved >= audit[o].approved

RowInv == RowsSound /\ ApprovalsSound /\ BudgetSound /\ OneOperationPerKey

\* The row part holds in the empty database.
LEMMA InitRows == Init => RowInv
BY DEF Init, RowInv, RowsSound, ApprovalsSound, BudgetSound, OneOperationPerKey,
   Exists, RunBudget

\* A step that writes none of the columns the row part reads keeps it.
LEMMA RowsFrame ==
  ASSUME TypeOK, RowInv,
         UNCHANGED <<status, requestedBy, needsApproval, idemKey, approvedBy,
                     audit, runs>>
  PROVE  RowInv' /\ Grows
<1>1. RowsSound' /\ Grows
  BY DEF RowInv, RowsSound, Grows, Exists, TypeOK
<1>2. ApprovalsSound'
  BY DEF RowInv, ApprovalsSound, Authorized
<1>3. BudgetSound'
  BY DEF RowInv, BudgetSound, RunBudget
<1>4. OneOperationPerKey'
  BY DEF RowInv, OneOperationPerKey
<1> QED
  BY <1>1, <1>2, <1>3, <1>4 DEF RowInv

\* The insert keeps the row part: the new row is unrun, it waits if it is gated,
\* and nobody else has its key.
LEMMA CreateRows ==
  ASSUME TypeOK, RowInv, RequestsSound, NEW r \in Request, CommitCreate(r)
  PROVE  RowInv' /\ Grows
<1>1. CASE KeyTaken(req[r].key)
  BY <1>1, RowsFrame DEF CommitCreate, rowVars, logVars
<1>2. CASE ~KeyTaken(req[r].key)
  <2> DEFINE q == req[r]
  <2>1. PICK o \in Op :
          /\ ~Exists(o)
          /\ status'        = [status EXCEPT ![o] =
               IF q.gated THEN "PENDING_APPROVAL" ELSE "QUEUED"]
          /\ requestedBy'   = [requestedBy EXCEPT ![o] = q.user]
          /\ needsApproval' = [needsApproval EXCEPT ![o] = q.gated]
          /\ idemKey'       = [idemKey EXCEPT ![o] = q.key]
          /\ approvedBy' = approvedBy
    BY <1>2 DEF CommitCreate
  <2>2. audit' = audit /\ runs' = runs
    BY DEF CommitCreate, logVars
  <2>3. q.user \in User /\ q.user # None /\ q.gated \in BOOLEAN
    BY OperationsAssumption DEF RequestsSound, RequestSound, CommitCreate, TypeOK, RequestType
  <2>4. /\ approvedBy[o] = None
        /\ runs[o] = 0
        /\ audit[o].approved = 0
    BY <2>1 DEF RowInv, RowsSound
  <2> HIDE DEF q
  <2>5. /\ status'[o] = IF q.gated THEN "PENDING_APPROVAL" ELSE "QUEUED"
        /\ requestedBy'[o] = q.user
        /\ needsApproval'[o] = q.gated
        /\ idemKey'[o] = q.key
    BY <2>1 DEF TypeOK
  <2>6. ASSUME NEW p \in Op, p # o
        PROVE  /\ status'[p] = status[p]
               /\ requestedBy'[p] = requestedBy[p]
               /\ needsApproval'[p] = needsApproval[p]
               /\ idemKey'[p] = idemKey[p]
    BY <2>1, <2>6 DEF TypeOK
  <2>7. RowsSound'
    BY <2>1, <2>2, <2>3, <2>4, <2>5, <2>6 DEF RowInv, RowsSound, Exists
  <2>8. ApprovalsSound'
    BY <2>1, <2>2, <2>3, <2>4, <2>5, <2>6 DEF RowInv, ApprovalsSound, Authorized
  <2>9. BudgetSound'
    BY <2>1, <2>2, <2>3, <2>4, <2>5, <2>6 DEF RowInv, BudgetSound, RunBudget
  <2>10. OneOperationPerKey'
    BY <1>2, <2>1, <2>5, <2>6 DEF RowInv, OneOperationPerKey, KeyTaken, q
  <2>11. Grows
    BY <2>1, <2>2, <2>6 DEF Grows, Exists, TypeOK
  <2> QED
    BY <2>7, <2>8, <2>9, <2>10, <2>11 DEF RowInv
<1> QED
  BY <1>1, <1>2

\* An approval keeps the row part: its user is a second person with an approval
\* role, and it pays for the run it releases.
LEMMA ApproveRows ==
  ASSUME TypeOK, RowInv, RequestsSound, NEW r \in Request, CommitApprove(r)
  PROVE  RowInv' /\ Grows
<1> DEFINE o == req[r].op
           u == req[r].user
<1>1. /\ o \in Op
      /\ u \in User /\ u # None
      /\ RoleOf[u] \in APPROVAL_ROLES
      /\ Exists(o)
      /\ needsApproval[o]
      /\ requestedBy[o] # u
  BY OperationsAssumption DEF RequestsSound, RequestSound, CommitApprove
<1>2. /\ status' = [status EXCEPT ![o] = "QUEUED"]
      /\ approvedBy' = [approvedBy EXCEPT ![o] = u]
      /\ audit' = [audit EXCEPT ![o].approved = @ + 1]
      /\ UNCHANGED <<requestedBy, needsApproval, idemKey, runs>>
  BY DEF CommitApprove
<1> HIDE DEF o, u
<1>3. /\ status'[o] = "QUEUED"
      /\ approvedBy'[o] = u
      /\ audit'[o].approved = audit[o].approved + 1
      /\ audit[o].approved \in Nat
  BY <1>1, <1>2 DEF TypeOK
<1>4. ASSUME NEW p \in Op, p # o
      PROVE  /\ status'[p] = status[p]
             /\ approvedBy'[p] = approvedBy[p]
             /\ audit'[p] = audit[p]
  BY <1>2, <1>4 DEF TypeOK
<1>5. RowsSound'
  BY <1>1, <1>2, <1>3, <1>4 DEF RowInv, RowsSound, Exists
<1>6. ApprovalsSound'
  BY <1>1, <1>2, <1>3, <1>4 DEF RowInv, ApprovalsSound, Authorized
<1>7. BudgetSound'
  <2>1. runs[o] <= audit[o].approved /\ runs[o] \in Nat
    BY <1>1 DEF RowInv, BudgetSound, RunBudget, TypeOK
  <2>2. runs'[o] + 1 <= audit'[o].approved
    BY <2>1, <1>2, <1>3
  <2> QED
    BY <2>2, <1>1, <1>2, <1>3, <1>4 DEF RowInv, BudgetSound, RunBudget
<1>8. OneOperationPerKey'
  BY <1>2 DEF RowInv, OneOperationPerKey
<1>9. Grows
  BY <1>1, <1>2, <1>3, <1>4 DEF Grows, Exists, TypeOK
<1> QED
  BY <1>5, <1>6, <1>7, <1>8, <1>9 DEF RowInv

\* A rejection keeps the row part, whatever the row has become since it was read.
LEMMA RejectRows ==
  ASSUME TypeOK, RowInv, RequestsSound, NEW r \in Request, CommitReject(r)
  PROVE  RowInv' /\ Grows
<1> DEFINE o == req[r].op
<1>1. o \in Op /\ Exists(o)
  BY DEF RequestsSound, RequestSound, CommitReject
<1>2. /\ status' = [status EXCEPT ![o] = "REJECTED"]
      /\ audit' = [audit EXCEPT ![o].rejected = @ + 1]
      /\ UNCHANGED <<requestedBy, needsApproval, idemKey, approvedBy, runs>>
  BY DEF CommitReject
<1> HIDE DEF o
<1>3. status'[o] = "REJECTED" /\ \A p \in Op : p # o => status'[p] = status[p]
  BY <1>1, <1>2 DEF TypeOK
<1>4. \A p \in Op : audit'[p].approved = audit[p].approved
  BY <1>1, <1>2 DEF TypeOK
<1>5. RowsSound'
  BY <1>1, <1>2, <1>3, <1>4 DEF RowInv, RowsSound, Exists
<1>6. ApprovalsSound'
  BY <1>1, <1>2, <1>3 DEF RowInv, ApprovalsSound, Authorized
<1>7. BudgetSound'
  BY <1>1, <1>2, <1>3, <1>4 DEF RowInv, BudgetSound, RunBudget, TypeOK
<1>8. OneOperationPerKey'
  BY <1>2 DEF RowInv, OneOperationPerKey
<1>9. Grows
  BY <1>1, <1>2, <1>3, <1>4 DEF Grows, Exists, TypeOK
<1> QED
  BY <1>5, <1>6, <1>7, <1>8, <1>9 DEF RowInv

\* Winning the claim spends the authorization QUEUED held back.
LEMMA ClaimRows ==
  ASSUME TypeOK, RowInv, WorkersSound, NEW w \in Worker, Claim(w)
  PROVE  RowInv' /\ Grows
<1> DEFINE o == worker[w].op
<1>1. o \in Op /\ Exists(o)
  BY DEF WorkersSound, Claim
<1>2. UNCHANGED <<requestedBy, needsApproval, idemKey, approvedBy, audit>>
  BY DEF Claim, logVars
<1>3. CASE ~ClaimWins(o)
  BY <1>2, <1>3, RowsFrame DEF Claim
<1>4. CASE ClaimWins(o)
  <2>1. /\ status' = [status EXCEPT ![o] = "RUNNING"]
        /\ runs' = [runs EXCEPT ![o] = @ + 1]
    BY <1>4 DEF Claim
  <2>2. status[o] = "QUEUED"
    BY <1>4 DEF ClaimWins
  <2> HIDE DEF o
  <2>3. /\ status'[o] = "RUNNING"
        /\ runs'[o] = runs[o] + 1
        /\ runs[o] \in Nat
    BY <1>1, <2>1 DEF TypeOK
  <2>4. ASSUME NEW p \in Op, p # o
        PROVE  status'[p] = status[p] /\ runs'[p] = runs[p]
    BY <2>1, <2>4 DEF TypeOK
  <2>5. RowsSound'
    BY <1>1, <1>2, <2>3, <2>4 DEF RowInv, RowsSound, Exists
  <2>6. ApprovalsSound'
    BY <1>1, <1>2, <2>2, <2>3, <2>4 DEF RowInv, ApprovalsSound, Authorized
  <2>7. BudgetSound'
    <3>1. runs[o] + 1 <= RunBudget(o)
      BY <1>1, <2>2 DEF RowInv, BudgetSound
    <3> QED
      BY <1>1, <1>2, <2>3, <2>4, <3>1 DEF RowInv, BudgetSound, RunBudget
  <2>8. OneOperationPerKey'
    BY <1>2 DEF RowInv, OneOperationPerKey
  <2>9. Grows
    BY <1>1, <1>2, <2>3, <2>4 DEF Grows, Exists, TypeOK
  <2> QED
    BY <2>5, <2>6, <2>7, <2>8, <2>9 DEF RowInv
<1> QED
  BY <1>3, <1>4

\* Recording an outcome keeps the row part.
LEMMA OutcomeRows ==
  ASSUME TypeOK, RowInv, WorkersSound, NEW w \in Worker,
         RecordSuccess(w) \/ RecordFailure(w)
  PROVE  RowInv' /\ Grows
<1> DEFINE o == worker[w].op
<1>1. o \in Op /\ Exists(o)
  BY DEF WorkersSound, RecordSuccess, RecordFailure
<1>2. PICK outcome \in Settled : status' = [status EXCEPT ![o] = outcome]
  BY DEF RecordSuccess, RecordFailure, Settled
<1>3. UNCHANGED <<requestedBy, needsApproval, idemKey, approvedBy, audit, runs>>
  BY DEF RecordSuccess, RecordFailure, logVars
<1> HIDE DEF o
<1>4. status'[o] \in Settled /\ \A p \in Op : p # o => status'[p] = status[p]
  BY <1>1, <1>2 DEF TypeOK
<1>5. RowsSound'
  BY <1>1, <1>3, <1>4 DEF RowInv, RowsSound, Exists, Settled
<1>6. ApprovalsSound'
  BY <1>1, <1>3, <1>4 DEF RowInv, ApprovalsSound, Authorized, Settled
<1>7. BudgetSound'
  BY <1>1, <1>3, <1>4 DEF RowInv, BudgetSound, RunBudget, Settled, TypeOK
<1>8. OneOperationPerKey'
  BY <1>3 DEF RowInv, OneOperationPerKey
<1>9. Grows
  BY <1>1, <1>3, <1>4 DEF Grows, Exists, Settled, TypeOK
<1> QED
  BY <1>5, <1>6, <1>7, <1>8, <1>9 DEF RowInv

\* Every step keeps the row part of the invariant and takes nothing back.
LEMMA NextRows ==
  ASSUME TypeOK, RowInv, RequestsSound, WorkersSound, [Next]_vars
  PROVE  RowInv' /\ Grows
<1>1. CASE UNCHANGED vars
  BY <1>1, RowsFrame DEF vars, rowVars, logVars
<1>2. ASSUME NEW r \in Request, ApiStep(r)
      PROVE  RowInv' /\ Grows
  <2>1. CASE CommitCreate(r)
    BY <2>1, CreateRows
  <2>2. CASE CommitApprove(r)
    BY <2>2, ApproveRows
  <2>3. CASE CommitReject(r)
    BY <2>3, RejectRows
  <2>4. CASE ~CommitCreate(r) /\ ~CommitApprove(r) /\ ~CommitReject(r)
    <3>1. UNCHANGED <<rowVars, audit, runs>>
      BY <1>2, <2>4 DEF ApiStep, BeginCreate, BeginApprove, BeginReject,
         BeginDecision, Respond, EnqueueFails, RequestLost, logVars
    <3> QED
      BY <3>1, RowsFrame DEF rowVars
  <2> QED
    BY <2>1, <2>2, <2>3, <2>4
<1>3. ASSUME NEW w \in Worker, WorkerStep(w)
      PROVE  RowInv' /\ Grows
  <2>1. CASE Claim(w)
    BY <2>1, ClaimRows
  <2>2. CASE RecordSuccess(w) \/ RecordFailure(w)
    BY <2>2, OutcomeRows
  <2>3. CASE ~Claim(w) /\ ~RecordSuccess(w) /\ ~RecordFailure(w)
    <3>1. UNCHANGED <<rowVars, audit, runs>>
      BY <1>3, <2>3 DEF WorkerStep, StartJob, ClaimFails, Execute, SuccessUpdateFails,
         FailureUpdateFails, RaiseIncident, RaiseIncidentFails, CompleteJob,
         FailJob, WorkerCrash, logVars
    <3> QED
      BY <3>1, RowsFrame DEF rowVars
  <2> QED
    BY <2>1, <2>2, <2>3
<1>4. ASSUME NEW o \in Op, QueueStep(o)
      PROVE  RowInv' /\ Grows
  BY <1>4, Frames, RowsFrame
<1> QED
  BY <1>1, <1>2, <1>3, <1>4 DEF Next

-----------------------------------------------------------------------------
(* The inductive invariant: handlers, slots and jobs                       *)

\* No handler has begun.
LEMMA InitRequests == Init => RequestsSound
BY DEF Init, RequestsSound, RequestSound, IdleRequest

\* A handler that does not move stays sound: nothing it remembers is taken back.
LEMMA RequestKept ==
  ASSUME TypeOK, TypeOK', Grows, NEW r \in Request, RequestSound(r), req'[r] = req[r]
  PROVE  RequestSound(r)'
<1> DEFINE q == req[r]
<1>1. \A o \in Op : /\ audit[o].approved \in Nat
                    /\ audit'[o].approved \in Nat
  BY DEF TypeOK
<1>2. q.pc \in {"approving", "rejecting", "committed"} /\ Exists(q.op) /\ q.op \in Op =>
        /\ Exists(q.op)'
        /\ requestedBy'[q.op] = requestedBy[q.op]
        /\ needsApproval'[q.op] = needsApproval[q.op]
        /\ audit[q.op].approved > 0 => audit'[q.op].approved > 0
  BY <1>1 DEF Grows, Exists
<1> QED
  BY <1>2 DEF RequestSound, Enqueues, Exists

\* The step a handler takes leaves it sound.
LEMMA RequestMovesSound ==
  ASSUME TypeOK, TypeOK', RowInv, RequestsSound, Grows,
         NEW r \in Request, ApiStep(r)
  PROVE  RequestSound(r)'
<1>a. req \in [Request -> RequestType]
  BY DEF TypeOK
<1>b. RequestSound(r)
  BY DEF RequestsSound
<1>1. ASSUME req'[r].pc = "done"
      PROVE  RequestSound(r)'
  BY <1>1 DEF RequestSound
<1>2. ASSUME NEW u \in User, NEW t \in Target, NEW k \in Key \cup {None},
             BeginCreate(r, u, t, k)
      PROVE  RequestSound(r)'
  <2>1. \/ req' = [req EXCEPT ![r].pc = "done"]
        \/ \E answer \in OpaReach :
             req' = [req EXCEPT ![r] =
                       [pc |-> "creating", kind |-> "create", user |-> u,
                        op |-> None, target |-> t, key |-> k,
                        gated |-> ApprovalRequired(t, answer), opa |-> answer]]
    BY <1>2 DEF BeginCreate
  <2>2. CASE req' = [req EXCEPT ![r].pc = "done"]
    BY <2>2, <1>a, <1>1 DEF RequestType
  <2>3. ASSUME NEW answer \in OpaReach,
               req' = [req EXCEPT ![r] =
                         [pc |-> "creating", kind |-> "create", user |-> u,
                          op |-> None, target |-> t, key |-> k,
                          gated |-> ApprovalRequired(t, answer), opa |-> answer]]
        PROVE  RequestSound(r)'
    <3>1. req'[r] = [pc |-> "creating", kind |-> "create", user |-> u,
                     op |-> None, target |-> t, key |-> k,
                     gated |-> ApprovalRequired(t, answer), opa |-> answer]
      BY <2>3, <1>a
    <3>2. RoleOf[u] \in TRIGGER_ROLES /\ answer \in OpaAnswer
      BY <1>2, OperationsAssumption DEF BeginCreate
    <3> QED
      BY <3>1, <3>2 DEF RequestSound
  <2> QED
    BY <2>1, <2>2, <2>3
<1>3. CASE CommitCreate(r)
  <2>1. CASE KeyTaken(req[r].key)
    BY <1>3, <2>1, <1>a, <1>1 DEF CommitCreate, RequestType
  <2>2. CASE ~KeyTaken(req[r].key)
    <3>1. PICK o \in Op :
            /\ status' = [status EXCEPT ![o] =
                 IF req[r].gated THEN "PENDING_APPROVAL" ELSE "QUEUED"]
            /\ needsApproval' = [needsApproval EXCEPT ![o] = req[r].gated]
            /\ req' = [req EXCEPT ![r].pc = "committed", ![r].op = o]
      BY <1>3, <2>2 DEF CommitCreate
    <3>2. /\ req'[r].pc = "committed"
          /\ req'[r].op = o
          /\ req'[r].kind = "create"
          /\ req'[r].gated = req[r].gated
      <4>1. req[r].kind = "create"
        BY <1>3, <1>b DEF CommitCreate, RequestSound
      <4> QED
        BY <3>1, <4>1, <1>a DEF RequestType
    <3>3. Exists(o)' /\ needsApproval'[o] = req[r].gated
      BY <3>1 DEF TypeOK, Exists
    <3> QED
      BY <3>2, <3>3 DEF RequestSound, Enqueues, Exists
  <2> QED
    BY <2>1, <2>2
<1>4. ASSUME NEW u \in User, NEW o \in Op, NEW pc \in {"approving", "rejecting"},
             BeginDecision(r, u, o, pc)
      PROVE  RequestSound(r)'
  <2>1. /\ req'[r].pc = pc
        /\ req'[r].user = u
        /\ req'[r].op = o
    BY <1>4, <1>a DEF BeginDecision, RequestType
  <2>2. /\ status[o] = "PENDING_APPROVAL"
        /\ RoleOf[u] \in APPROVAL_ROLES
        /\ requestedBy[o] # u
        /\ needsApproval[o]
    BY <1>4 DEF BeginDecision, MayDecide, RowInv, RowsSound
  <2>3. UNCHANGED <<status, requestedBy, needsApproval>>
    BY <1>4 DEF BeginDecision, rowVars
  <2> QED
    BY <2>1, <2>2, <2>3 DEF RequestSound, Exists
<1>5. CASE CommitApprove(r)
  <2>1. /\ req'[r].pc = "committed"
        /\ req'[r].op = req[r].op
        /\ req'[r].kind = "approve"
    BY <1>5, <1>a DEF CommitApprove, RequestType
  <2>2. req[r].op \in Op /\ status'[req[r].op] # "NONE"
    BY <1>5, <1>b DEF CommitApprove, RequestSound, Grows, Exists
  <2>3. audit'[req[r].op].approved > 0
    BY <1>5, <2>2 DEF CommitApprove, TypeOK
  <2> QED
    BY <2>1, <2>2, <2>3 DEF RequestSound, Exists
<1>6. CASE CommitReject(r)
  <2>1. /\ req'[r].pc = "committed"
        /\ req'[r].op = req[r].op
        /\ req'[r].kind = "reject"
    BY <1>6, <1>a DEF CommitReject, RequestType
  <2>2. req[r].op \in Op /\ status'[req[r].op] # "NONE"
    BY <1>6, <1>b DEF CommitReject, RequestSound, Grows, Exists
  <2> QED
    BY <2>1, <2>2 DEF RequestSound, Exists, Enqueues
<1>7. CASE Respond(r) \/ EnqueueFails(r) \/ RequestLost(r)
  BY <1>7, <1>a, <1>1 DEF Respond, EnqueueFails, RequestLost, RequestType
<1> QED
  BY <1>2, <1>3, <1>4, <1>5, <1>6, <1>7 DEF ApiStep, BeginApprove, BeginReject

\* A handler's step moves no other handler.
LEMMA OthersKept ==
  ASSUME TypeOK, NEW r \in Request, ApiStep(r), NEW s \in Request, s # r
  PROVE  req'[s] = req[s]
<1>1. \E x : req' = [req EXCEPT ![r] = x]
  BY DEF ApiStep, BeginCreate, CommitCreate, BeginApprove, BeginReject,
     BeginDecision, CommitApprove, CommitReject, Respond, EnqueueFails, RequestLost
<1> QED
  BY <1>1 DEF TypeOK

\* Every step keeps every handler sound.
LEMMA NextRequests ==
  ASSUME TypeOK, TypeOK', RowInv, RequestsSound, Grows, [Next]_vars
  PROVE  RequestsSound'
<1>1. ASSUME NEW r \in Request, ApiStep(r)
      PROVE  RequestsSound'
  <2>1. ASSUME NEW s \in Request
        PROVE  RequestSound(s)'
    <3>1. CASE s = r
      BY <3>1, <1>1, RequestMovesSound
    <3>2. CASE s # r
      BY <3>2, <1>1, OthersKept, RequestKept DEF RequestsSound
    <3> QED
      BY <3>1, <3>2
  <2> QED
    BY <2>1 DEF RequestsSound
<1>2. CASE req' = req
  BY <1>2, RequestKept DEF RequestsSound
<1> QED
  BY <1>1, <1>2, Frames DEF Next, vars

\* Idle slots and absent jobs are sound.
LEMMA InitSlots == Init => WorkersSound /\ LocksSound /\ EnqueuedOnlyWhenReleased
BY DEF Init, WorkersSound, LocksSound, EnqueuedOnlyWhenReleased, IdleWorker, NoJob

\* A slot only ever works on an operation that exists: it takes it from a job,
\* and only an existing operation has one.
LEMMA NextWorkers ==
  ASSUME TypeOK, WorkersSound, EnqueuedOnlyWhenReleased, Grows, [Next]_vars
  PROVE  WorkersSound'
<1>1. ASSUME NEW w \in Worker, worker'[w].pc # "idle"
      PROVE  \/ worker'[w].op = worker[w].op /\ worker[w].pc # "idle"
             \/ worker'[w].op \in Op /\ Exists(worker'[w].op)
  <2>1. CASE worker'[w] = worker[w]
    BY <1>1, <2>1
  <2>2. ASSUME NEW v \in Worker, WorkerStep(v), worker'[w] # worker[w]
        PROVE  \/ worker'[w].op = worker[w].op /\ worker[w].pc # "idle"
               \/ worker'[w].op \in Op /\ Exists(worker'[w].op)
    <3>1. ASSUME NEW o \in Op, StartJob(v, o)
          PROVE  worker'[w].op \in Op /\ Exists(worker'[w].op)
      <4>1. worker'[w].op = o
        BY <2>2, <3>1 DEF StartJob, TypeOK
      <4>2. Exists(o)
        BY <3>1 DEF StartJob, EnqueuedOnlyWhenReleased
      <4> QED
        BY <4>1, <4>2
    <3>2. ASSUME NEW pc, Goto(v, pc), worker[v].pc # "idle"
          PROVE  worker'[w].op = worker[w].op /\ worker[w].pc # "idle"
      BY <2>2, <3>2 DEF Goto, TypeOK, SlotType
    <3>3. CASE CompleteJob(v) \/ FailJob(v) \/ WorkerCrash(v)
      BY <1>1, <2>2, <3>3 DEF CompleteJob, FailJob, WorkerCrash, IdleWorker, TypeOK
    <3>4. CASE Claim(v) \/ ClaimFails(v)
      BY <3>4, <3>2 DEF Claim, ClaimFails
    <3>5. CASE Execute(v)
      BY <3>5, <3>2 DEF Execute
    <3>6. CASE RecordSuccess(v) \/ SuccessUpdateFails(v) \/ RecordFailure(v)
      BY <3>6, <3>2 DEF RecordSuccess, SuccessUpdateFails, RecordFailure
    <3>7. CASE FailureUpdateFails(v) \/ RaiseIncident(v) \/ RaiseIncidentFails(v)
      BY <3>7, <3>2 DEF FailureUpdateFails, RaiseIncident, RaiseIncidentFails
    <3> QED
      BY <2>2, <3>1, <3>3, <3>4, <3>5, <3>6, <3>7 DEF WorkerStep
  <2> QED
    BY <2>1, <2>2, Frames DEF Next, vars
<1>2. ASSUME NEW w \in Worker, worker'[w].pc # "idle"
      PROVE  worker'[w].op \in Op /\ Exists(worker'[w].op)
  BY <1>1, <1>2 DEF WorkersSound
<1> QED
  BY <1>2 DEF WorkersSound, Grows, Exists

\* A job appears only when a handler that committed a release adds it, and every
\* lock belongs to an active job.
LEMMA NextJobs ==
  ASSUME TypeOK, LocksSound, [Next]_vars
  PROVE  /\ LocksSound'
         /\ \A o \in Op : job'[o].state # "absent" =>
              \/ job[o].state # "absent"
              \/ \E r \in Request : /\ req[r].pc = "committed"
                                    /\ Enqueues(req[r])
                                    /\ req[r].op = o
<1> DEFINE Kept(o) ==
      /\ job'[o].lock # None => job'[o].state = "active"
      /\ job'[o].state # "absent" =>
           \/ job[o].state # "absent"
           \/ \E r \in Request : /\ req[r].pc = "committed"
                                 /\ Enqueues(req[r])
                                 /\ req[r].op = o
<1>a. job \in [Op -> JobType]
  BY DEF TypeOK
<1> SUFFICES ASSUME NEW o \in Op PROVE Kept(o)
  BY DEF LocksSound
<1>b. job[o].lock # None => job[o].state = "active"
  BY DEF LocksSound
<1>1. CASE job' = job
  BY <1>1, <1>b
<1>2. ASSUME NEW r \in Request, Respond(r), Enqueues(req[r]), 
             job' = [job EXCEPT ![req[r].op] = Added(@)]
      PROVE  Kept(o)
  BY <1>2, <1>a, <1>b DEF Respond, Added, NoJob, JobType
<1>3. ASSUME NEW w \in Worker, NEW p \in Op, StartJob(w, p)
      PROVE  Kept(o)
  BY <1>3, <1>a, <1>b DEF StartJob, Taken, JobType
<1>4. ASSUME NEW w \in Worker, CompleteJob(w), Holds(w)
      PROVE  Kept(o)
  <2>1. worker[w].op = o => job[o].state = "active"
    BY <1>4, <1>b, OperationsAssumption DEF Holds
  <2> QED
    BY <1>4, <1>a, <1>b, <2>1 DEF CompleteJob, Completed, JobType
<1>5. ASSUME NEW w \in Worker, FailJob(w), Holds(w)
      PROVE  Kept(o)
  <2>1. worker[w].op = o => job[o].state = "active"
    BY <1>5, <1>b, OperationsAssumption DEF Holds
  <2> QED
    BY <1>5, <1>a, <1>b, <2>1 DEF FailJob, Thrown, JobType
<1>6. ASSUME NEW w \in Worker, WorkerCrash(w), Holds(w)
      PROVE  Kept(o)
  BY <1>6, <1>a, <1>b DEF WorkerCrash, Unlocked, JobType
<1>7. ASSUME NEW p \in Op, QueueStep(p)
      PROVE  Kept(o)
  <2>1. CASE BackoffEnds(p)
    BY <2>1, <1>a, <1>b DEF BackoffEnds, Due, JobType
  <2>2. CASE RetentionEnds(p)
    BY <2>2, <1>a, <1>b DEF RetentionEnds, NoJob
  <2>3. CASE LockExpires(p)
    BY <2>3, <1>a, <1>b DEF LockExpires, Unlocked, JobType
  <2>4. CASE StalledCheck(p)
    BY <2>4, <1>a, <1>b DEF StalledCheck, Stalled, JobType
  <2> QED
    BY <1>7, <2>1, <2>2, <2>3, <2>4 DEF QueueStep
<1> HIDE DEF Kept
<1>8. ASSUME NEW r \in Request, ApiStep(r)
      PROVE  Kept(o)
  <2>1. CASE Respond(r)
    BY <2>1, <1>1, <1>2 DEF Respond
  <2>2. CASE ~Respond(r)
    BY <2>2, <1>8, <1>1 DEF ApiStep, BeginCreate, CommitCreate, BeginApprove,
       BeginReject, BeginDecision, CommitApprove, CommitReject, EnqueueFails,
       RequestLost
  <2> QED
    BY <2>1, <2>2
<1>9. ASSUME NEW w \in Worker, WorkerStep(w)
      PROVE  Kept(o)
  <2>1. CASE CompleteJob(w) \/ FailJob(w) \/ WorkerCrash(w)
    <3>1. CASE Holds(w)
      BY <2>1, <3>1, <1>4, <1>5, <1>6
    <3>2. CASE ~Holds(w)
      BY <2>1, <3>2, <1>1 DEF CompleteJob, FailJob, WorkerCrash
    <3> QED
      BY <3>1, <3>2
  <2>2. ASSUME NEW p \in Op, StartJob(w, p)
        PROVE  Kept(o)
    BY <2>2, <1>3
  <2>3. CASE \/ Claim(w) \/ ClaimFails(w) \/ Execute(w) \/ RecordSuccess(w)
             \/ SuccessUpdateFails(w) \/ RecordFailure(w) \/ FailureUpdateFails(w)
             \/ RaiseIncident(w) \/ RaiseIncidentFails(w)
    BY <2>3, <1>1 DEF Claim, ClaimFails, Execute, RecordSuccess, SuccessUpdateFails,
       RecordFailure, FailureUpdateFails, RaiseIncident, RaiseIncidentFails
  <2> QED
    BY <1>9, <2>1, <2>2, <2>3 DEF WorkerStep
<1> QED
  BY <1>1, <1>7, <1>8, <1>9 DEF Next, vars

\* A job in Redis stays one of a released operation.
LEMMA NextEnqueued ==
  ASSUME TypeOK, TypeOK', RequestsSound, LocksSound, EnqueuedOnlyWhenReleased,
         Grows, [Next]_vars
  PROVE  EnqueuedOnlyWhenReleased'
<1> SUFFICES ASSUME NEW o \in Op, job'[o].state # "absent"
             PROVE  Exists(o)' /\ (needsApproval'[o] => audit'[o].approved > 0)
  BY DEF EnqueuedOnlyWhenReleased
<1>1. Exists(o) /\ (needsApproval[o] => audit[o].approved > 0)
  BY NextJobs DEF RequestsSound, RequestSound, EnqueuedOnlyWhenReleased
<1>2. audit[o].approved \in Nat /\ audit'[o].approved \in Nat
  BY DEF TypeOK
<1> QED
  BY <1>1, <1>2 DEF Grows

-----------------------------------------------------------------------------
(* The theorems                                                            *)

\* The initial states satisfy IInv.
LEMMA InitIInv == Init => IInv
BY InitType, InitRows, InitRequests, InitSlots DEF IInv, RowInv

\* Every step keeps IInv.
LEMMA NextIInv == IInv /\ [Next]_vars => IInv'
<1> SUFFICES ASSUME IInv, [Next]_vars PROVE IInv'
  OBVIOUS
<1>1. TypeOK /\ RowInv /\ RequestsSound /\ WorkersSound /\ LocksSound
        /\ EnqueuedOnlyWhenReleased
  BY DEF IInv, RowInv
<1>2. TypeOK'
  <2>1. CASE UNCHANGED vars
    BY <1>1, <2>1 DEF TypeOK, vars, rowVars, logVars
  <2> QED
    BY <1>1, <2>1, ApiStepType, WorkerStepType, QueueStepType DEF Next
<1>3. RowInv' /\ Grows
  BY <1>1, NextRows
<1>4. RequestsSound'
  BY <1>1, <1>2, <1>3, NextRequests
<1>5. WorkersSound'
  BY <1>1, <1>3, NextWorkers
<1>6. LocksSound'
  BY <1>1, NextJobs
<1>7. EnqueuedOnlyWhenReleased'
  BY <1>1, <1>2, <1>3, NextEnqueued
<1> QED
  BY <1>2, <1>3, <1>4, <1>5, <1>6, <1>7 DEF IInv, RowInv

\* The inductive invariant holds in every reachable state.
THEOREM Invariance == Spec => []IInv
BY InitIInv, NextIInv, PTL DEF Spec

\* Every variable keeps its type, whatever the interleaving and the faults.
THEOREM TypeCorrect == Spec => []TypeOK
<1>1. IInv => TypeOK
  BY DEF IInv
<1> QED
  BY <1>1, Invariance, PTL

\* Separation of duties: a gated operation that is released, running or was ever
\* run has an approver with an approval role who is not its requester
\* (operation.service.ts:247-264).
THEOREM DutiesSeparated == Spec => []SeparationOfDuties
<1>1. IInv => SeparationOfDuties
  BY DEF IInv, ApprovalsSound, SeparationOfDuties
<1> QED
  BY <1>1, Invariance, PTL

\* No run without an authorization of its own (operations.queue.ts:97-129).
THEOREM RunsPaidFor == Spec => []RunsAuthorized
<1>1. IInv => RunsAuthorized
  <2> SUFFICES ASSUME IInv, NEW o \in Op PROVE runs[o] <= RunBudget(o)
    BY DEF RunsAuthorized
  <2>1. runs[o] + (IF status[o] = "QUEUED" THEN 1 ELSE 0) <= RunBudget(o)
    BY DEF IInv, BudgetSound
  <2>2. runs[o] \in Nat /\ RunBudget(o) \in Nat
    BY DEF IInv, TypeOK, RunBudget
  <2> QED
    BY <2>1, <2>2
<1> QED
  BY <1>1, Invariance, PTL

\* No job in Redis for a gated operation nobody approved
\* (operation.service.ts:220-226, 299-304).
THEOREM NeverEnqueuedEarly == Spec => []EnqueuedOnlyWhenReleased
<1>1. IInv => EnqueuedOnlyWhenReleased
  BY DEF IInv
<1> QED
  BY <1>1, Invariance, PTL

\* The idempotency key names one operation although the lookup and the insert are
\* separate steps (operation.service.ts:86-96, 160-171).
THEOREM KeyNamesOne == Spec => []OneOperationPerKey
<1>1. IInv => OneOperationPerKey
  BY DEF IInv
<1> QED
  BY <1>1, Invariance, PTL

-----------------------------------------------------------------------------
(* The pipeline implements the governance specification                    *)

\* Steps that write none of the columns the mapping reads are stutters.
LEMMA GovernanceStutter ==
  ASSUME UNCHANGED <<requestedBy, approvedBy, needsApproval, runs>>,
         \A o \in Op : audit'[o].approved = audit[o].approved
  PROVE  UNCHANGED Governance!govVars
BY DEF Governance!govVars

\* The insert submits the operation.
LEMMA CreateSubmits ==
  ASSUME IInv, NEW r \in Request, CommitCreate(r)
  PROVE  [Governance!Next]_(Governance!govVars)
<1>a. /\ req[r].user \in {u \in User : RoleOf[u] \in TRIGGER_ROLES}
      /\ req[r].gated \in BOOLEAN
  BY DEF IInv, RequestsSound, RequestSound, CommitCreate, TypeOK, RequestType
<1>b. audit' = audit /\ runs' = runs /\ approvedBy' = approvedBy
  BY DEF CommitCreate, rowVars, logVars
<1>1. CASE KeyTaken(req[r].key)
  BY <1>1, <1>b, GovernanceStutter DEF CommitCreate, rowVars
<1>2. CASE ~KeyTaken(req[r].key)
  <2>1. PICK o \in Op : /\ ~Exists(o)
                        /\ requestedBy' = [requestedBy EXCEPT ![o] = req[r].user]
                        /\ needsApproval' = [needsApproval EXCEPT ![o] = req[r].gated]
    BY <1>2 DEF CommitCreate
  <2>2. requestedBy[o] = None
    BY <2>1 DEF IInv, RowsSound
  <2>3. Governance!Submit(o, req[r].user, req[r].gated)
    BY <1>a, <1>b, <2>1, <2>2 DEF Governance!Submit
  <2> QED
    BY <1>a, <2>3 DEF Governance!Next
<1> QED
  BY <1>1, <1>2

\* A committed approval grants one authorization, even when the row it read has
\* moved on since.
LEMMA ApproveGrants ==
  ASSUME IInv, NEW r \in Request, CommitApprove(r)
  PROVE  [Governance!Next]_(Governance!govVars)
<1>1. PICK o \in Op, u \in User : req[r].op = o /\ req[r].user = u
  BY DEF IInv, RequestsSound, RequestSound, CommitApprove
<1>2. /\ u \in {v \in User : RoleOf[v] \in APPROVAL_ROLES}
      /\ requestedBy[o] # None
      /\ needsApproval[o]
      /\ u # requestedBy[o]
  BY <1>1 DEF IInv, RequestsSound, RequestSound, RowsSound, CommitApprove
<1>3. /\ audit' = [audit EXCEPT ![o].approved = @ + 1]
      /\ approvedBy' = [approvedBy EXCEPT ![o] = u]
      /\ UNCHANGED <<requestedBy, needsApproval, runs>>
  BY <1>1 DEF CommitApprove
<1>4. [p \in Op |-> audit'[p].approved]
        = [[p \in Op |-> audit[p].approved] EXCEPT ![o] = @ + 1]
  BY <1>3 DEF IInv, TypeOK
<1>5. Governance!Approve(o, u)
  BY <1>2, <1>3, <1>4 DEF Governance!Approve
<1> QED
  BY <1>5 DEF Governance!Next

\* Winning the claim is a run, and there is an authorization left for it.
LEMMA ClaimRuns ==
  ASSUME IInv, NEW w \in Worker, Claim(w)
  PROVE  [Governance!Next]_(Governance!govVars)
<1> DEFINE o == worker[w].op
<1>a. UNCHANGED <<requestedBy, approvedBy, needsApproval, audit>>
  BY DEF Claim, logVars
<1>1. CASE ~ClaimWins(o)
  BY <1>1, <1>a, GovernanceStutter DEF Claim
<1>2. CASE ClaimWins(o)
  <2>1. /\ o \in Op
        /\ Exists(o)
        /\ status[o] = "QUEUED"
    BY <1>2 DEF IInv, WorkersSound, Claim, ClaimWins
  <2>2. runs' = [runs EXCEPT ![o] = @ + 1]
    BY <1>2 DEF Claim
  <2> HIDE DEF o
  <2>3. requestedBy[o] # None
    BY <2>1 DEF IInv, RowsSound
  <2>4. runs[o] < RunBudget(o)
    <3>1. runs[o] + 1 <= RunBudget(o)
      BY <2>1 DEF IInv, BudgetSound
    <3>2. runs[o] \in Nat /\ RunBudget(o) \in Nat
      BY <2>1 DEF IInv, TypeOK, RunBudget
    <3> QED
      BY <3>1, <3>2
  <2>5. Governance!Budget(o) = RunBudget(o)
    BY <2>1 DEF Governance!Budget, RunBudget
  <2>6. Governance!Run(o)
    BY <1>a, <2>2, <2>3, <2>4, <2>5 DEF Governance!Run
  <2> QED
    BY <2>1, <2>6 DEF Governance!Next
<1> QED
  BY <1>1, <1>2

\* Every step of the pipeline is a step of the governance specification or a
\* stutter of it.
LEMMA StepRefines ==
  ASSUME IInv, [Next]_vars
  PROVE  [Governance!Next]_(Governance!govVars)
<1>1. CASE UNCHANGED vars
  BY <1>1, GovernanceStutter DEF vars, rowVars, logVars
<1>2. ASSUME NEW r \in Request, ApiStep(r)
      PROVE  [Governance!Next]_(Governance!govVars)
  <2>1. CASE CommitCreate(r)
    BY <2>1, CreateSubmits
  <2>2. CASE CommitApprove(r)
    BY <2>2, ApproveGrants
  <2>3. CASE CommitReject(r)
    <3>1. \A o \in Op : audit'[o].approved = audit[o].approved
      BY <2>3 DEF CommitReject, IInv, TypeOK
    <3> QED
      BY <2>3, <3>1, GovernanceStutter DEF CommitReject
  <2>4. CASE ~CommitCreate(r) /\ ~CommitApprove(r) /\ ~CommitReject(r)
    <3>1. UNCHANGED <<rowVars, audit, runs>>
      BY <1>2, <2>4 DEF ApiStep, BeginCreate, BeginApprove, BeginReject,
         BeginDecision, Respond, EnqueueFails, RequestLost, logVars
    <3> QED
      BY <3>1, GovernanceStutter DEF rowVars
  <2> QED
    BY <2>1, <2>2, <2>3, <2>4
<1>3. ASSUME NEW w \in Worker, WorkerStep(w)
      PROVE  [Governance!Next]_(Governance!govVars)
  <2>1. CASE Claim(w)
    BY <2>1, ClaimRuns
  <2>2. CASE ~Claim(w)
    <3>1. UNCHANGED runs
      BY <1>3, <2>2 DEF WorkerStep, StartJob, ClaimFails, Execute, RecordSuccess,
         SuccessUpdateFails, RecordFailure, FailureUpdateFails, RaiseIncident,
         RaiseIncidentFails, CompleteJob, FailJob, WorkerCrash
    <3> QED
      BY <1>3, <3>1, Frames, GovernanceStutter
  <2> QED
    BY <2>1, <2>2
<1>4. ASSUME NEW o \in Op, QueueStep(o)
      PROVE  [Governance!Next]_(Governance!govVars)
  BY <1>4, Frames, GovernanceStutter
<1> QED
  BY <1>1, <1>2, <1>3, <1>4 DEF Next

\* The pipeline implements the governance specification: whatever races, crashes
\* and redeliveries do, an auditor sees only submissions, approvals by a second
\* person with an approval role, and runs paid for one by one.
THEOREM Refinement == Spec => GovernanceSpec
<1>1. Init => Governance!Init
  BY DEF Init, Governance!Init
<1> QED
  BY <1>1, StepRefines, Invariance, PTL DEF Spec, GovernanceSpec, Governance!Spec
=============================================================================
