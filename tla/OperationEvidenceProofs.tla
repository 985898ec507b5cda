----------------------- MODULE OperationEvidenceProofs -----------------------
(***************************************************************************)
(* Proofs about the runs of an operation and about what is reported of     *)
(* them, for every value of the constants: a run decided on once is alone  *)
(* and final, the policies were applied, and no report claims what was     *)
(* not. EvidenceInv is what keeps these true; it needs IInv.               *)
(***************************************************************************)
EXTENDS OperationEvidence, OperationsProofs

DecisionsPart == \A o \in Op : DecisionsRecorded(o)
RunsPart      == \A o \in Op : RunsRecorded(o)

-----------------------------------------------------------------------------
(* What the steps do                                                       *)

\* The audit log counts, so Decisions are numbers.
LEMMA DecisionsCount ==
  ASSUME TypeOK, NEW o \in Op
  PROVE  /\ audit[o].approved \in Nat
         /\ audit[o].rejected \in Nat
         /\ Decisions(o) \in Nat
BY DEF TypeOK, Decisions

\* No slot gets to work on a row by a step that claims nothing.
Quiet == \A v \in Worker : Busy(v)' => Busy(v) /\ worker'[v].op = worker[v].op

\* A step of a slot wins a claim, records an outcome, or is quiet.
LEMMA WorkerEffects ==
  ASSUME IInv, NEW w \in Worker, WorkerStep(w)
  PROVE  \/ Claim(w) /\ ClaimWins(worker[w].op)
         \/ RecordSuccess(w) \/ RecordFailure(w)
         \/ UNCHANGED <<status, runs>> /\ Quiet
<1>a. worker \in [Worker -> SlotType]
  BY DEF IInv, TypeOK
<1>1. ASSUME NEW o \in Op, StartJob(w, o)
      PROVE  UNCHANGED <<status, runs>> /\ Quiet
  BY <1>1, <1>a DEF StartJob, Quiet, Busy, rowVars
<1>2. CASE Claim(w) /\ ~ClaimWins(worker[w].op)
  BY <1>2, <1>a DEF Claim, Goto, Quiet, Busy, SlotType
<1>3. CASE Execute(w)
  BY <1>3, <1>a DEF Execute, Goto, Quiet, Busy, SlotType, rowVars
<1>4. CASE ClaimFails(w) \/ SuccessUpdateFails(w) \/ FailureUpdateFails(w)
  BY <1>4, <1>a DEF ClaimFails, SuccessUpdateFails, FailureUpdateFails, Goto, Quiet, Busy, SlotType,
     rowVars
<1>5. CASE RaiseIncident(w) \/ RaiseIncidentFails(w)
  BY <1>5, <1>a DEF RaiseIncident, RaiseIncidentFails, Goto, Quiet, Busy, SlotType, rowVars
<1>6. CASE CompleteJob(w) \/ FailJob(w) \/ WorkerCrash(w)
  BY <1>6, <1>a DEF CompleteJob, FailJob, WorkerCrash, IdleWorker, Quiet, Busy, rowVars
<1> QED
  BY <1>1, <1>2, <1>3, <1>4, <1>5, <1>6 DEF WorkerStep

\* No row but a new one is written by a step that decides nothing.
LEMMA ApiEffects ==
  ASSUME IInv, NEW r \in Request, ApiStep(r)
  PROVE  \/ CommitCreate(r) /\ ~KeyTaken(req[r].key)
         \/ CommitApprove(r) \/ CommitReject(r)
         \/ UNCHANGED <<rowVars, audit>>
BY DEF ApiStep, BeginCreate, CommitCreate, BeginApprove, BeginReject, BeginDecision,
   Respond, EnqueueFails, RequestLost, logVars

\* The slots and the queue decide nothing and leave the rest of a row alone.
LEMMA OtherEffects ==
  /\ \A r \in Request : ApiStep(r) => UNCHANGED <<worker, runs>>
  /\ \A w \in Worker : WorkerStep(w) =>
       UNCHANGED <<audit, approvedBy, rejectedBy, needsApproval, target, opaAnswer, req>>
  /\ \A o \in Op : QueueStep(o) => UNCHANGED <<rowVars, audit, runs, worker, req>>
<1>1. ASSUME NEW w \in Worker, WorkerStep(w)
      PROVE  UNCHANGED <<audit, approvedBy, rejectedBy, needsApproval, target, opaAnswer, req>>
  BY <1>1 DEF WorkerStep, StartJob, Claim, ClaimFails, Execute, RecordSuccess,
     SuccessUpdateFails, RecordFailure, FailureUpdateFails, RaiseIncident,
     RaiseIncidentFails, CompleteJob, FailJob, WorkerCrash, rowVars, logVars
<1>2. ASSUME NEW o \in Op, QueueStep(o)
      PROVE  UNCHANGED <<rowVars, audit, runs, worker, req>>
  BY <1>2 DEF QueueStep, BackoffEnds, RetentionEnds, LockExpires, StalledCheck, logVars
<1> QED
  BY <1>1, <1>2, Frames

\* A decision in flight is on a row that exists and is gated.
LEMMA DecisionOfRow ==
  ASSUME IInv, NEW r \in Request, CommitApprove(r) \/ CommitReject(r)
  PROVE  \E o \in Op : /\ req[r].op = o /\ Exists(o) /\ needsApproval[o]
                       /\ req[r].user # None
<1>1. /\ req[r].op \in Op /\ Exists(req[r].op) /\ needsApproval[req[r].op]
      /\ req[r].user \in User
  BY DEF IInv, RequestsSound, RequestSound, CommitApprove, CommitReject
<1> QED
  BY <1>1, OperationsAssumption

\* It counts, and leaves all other rows, all runs and all slots alone.
LEMMA DecisionEffects ==
  ASSUME TypeOK, NEW r \in Request, CommitApprove(r) \/ CommitReject(r),
         NEW o \in Op, req[r].op = o
  PROVE  /\ status' = [status EXCEPT ![o] = IF CommitApprove(r) THEN "QUEUED" ELSE "REJECTED"]
         /\ Decisions(o)' = Decisions(o) + 1
         /\ \A p \in Op \ {o} : audit'[p] = audit[p]
         /\ UNCHANGED <<needsApproval, target, opaAnswer, runs, worker>>
<1>1. ~(CommitApprove(r) /\ CommitReject(r))
  BY DEF CommitApprove, CommitReject
<1>2. /\ status' = [status EXCEPT ![o] = IF CommitApprove(r) THEN "QUEUED" ELSE "REJECTED"]
      /\ UNCHANGED <<needsApproval, target, opaAnswer, runs, worker>>
  BY <1>1 DEF CommitApprove, CommitReject
<1>a. audit \in [Op -> [approved : Nat, rejected : Nat]]
  BY DEF TypeOK
<1>3. \/ audit' = [audit EXCEPT ![o].approved = @ + 1]
      \/ audit' = [audit EXCEPT ![o].rejected = @ + 1]
  BY DEF CommitApprove, CommitReject
<1>4. \/ audit'[o].approved = audit[o].approved + 1 /\ audit'[o].rejected = audit[o].rejected
      \/ audit'[o].approved = audit[o].approved /\ audit'[o].rejected = audit[o].rejected + 1
  BY <1>a, <1>3
<1>5. audit[o].approved \in Nat /\ audit[o].rejected \in Nat
  BY <1>a
<1>6. Decisions(o)' = Decisions(o) + 1
  BY <1>4, <1>5 DEF Decisions
<1>7. \A p \in Op \ {o} : audit'[p] = audit[p]
  BY <1>a, <1>3
<1> QED
  BY <1>2, <1>6, <1>7

-----------------------------------------------------------------------------
(* The inductive invariant                                                 *)

\* The empty database tells of nothing.
LEMMA InitEvidence == Init => DecisionsPart /\ RunsPart /\ PolicyRecorded
BY DEF Init, DecisionsPart, RunsPart, PolicyRecorded, DecisionsRecorded, RunsRecorded,
   Exists, Decisions, Settled, Busy, IdleWorker, IdleRequest

\* A step that decides nothing keeps what is recorded of decisions, if it moves no row
\* into or out of PENDING_APPROVAL or to REJECTED.
LEMMA DecisionsFrame ==
  ASSUME NEW o \in Op, DecisionsRecorded(o), audit'[o] = audit[o],
         UNCHANGED <<approvedBy, rejectedBy>>, needsApproval'[o] = needsApproval[o],
         Exists(o)' = Exists(o),
         (status'[o] = "PENDING_APPROVAL") = (status[o] = "PENDING_APPROVAL"),
         status'[o] = "REJECTED" => status[o] = "REJECTED"
  PROVE  DecisionsRecorded(o)'
<1>1. Decisions(o)' = Decisions(o)
  BY DEF Decisions
<1> QED
  BY <1>1 DEF DecisionsRecorded

\* Every step keeps columns and audit rows in accord.
LEMMA NextDecisions ==
  ASSUME IInv, DecisionsPart, RunsPart, [Next]_vars
  PROVE  DecisionsPart'
<1> SUFFICES ASSUME NEW o \in Op PROVE DecisionsRecorded(o)'
  BY DEF DecisionsPart
<1>a. TypeOK /\ DecisionsRecorded(o)
  BY DEF IInv, DecisionsPart
<1>b. status \in [Op -> OperationStatus \cup {"NONE"}] /\ needsApproval \in [Op -> BOOLEAN]
  BY <1>a DEF TypeOK
<1>1. CASE UNCHANGED <<rowVars, audit>>
  BY <1>1, <1>a, DecisionsFrame DEF rowVars, Exists
<1>2. ASSUME NEW r \in Request, CommitCreate(r), ~KeyTaken(req[r].key)
      PROVE  DecisionsRecorded(o)'
  <2>1. PICK p \in Op :
          /\ ~Exists(p)
          /\ status' = [status EXCEPT ![p] = IF req[r].gated THEN "PENDING_APPROVAL" ELSE "QUEUED"]
          /\ needsApproval' = [needsApproval EXCEPT ![p] = req[r].gated]
          /\ UNCHANGED <<approvedBy, rejectedBy>>
    BY <1>2 DEF CommitCreate
  <2>2. audit' = audit
    BY <1>2 DEF CommitCreate, logVars
  <2>3. Decisions(o)' = Decisions(o)
    BY <2>2 DEF Decisions
  <2>4. CASE o = p
    <3>1. Decisions(o) = 0
      BY <1>a, <2>1, <2>4 DEF DecisionsRecorded
    <3>2. req[r].gated \in BOOLEAN
      BY <1>a DEF TypeOK, RequestType
    <3>3. /\ status'[o] = IF req[r].gated THEN "PENDING_APPROVAL" ELSE "QUEUED"
          /\ needsApproval'[o] = req[r].gated
      BY <1>b, <2>1, <2>4
    <3>4. /\ (approvedBy'[o] = None) = (audit'[o].approved = 0)
          /\ (rejectedBy'[o] = None) = (audit'[o].rejected = 0)
      BY <1>a, <2>1, <2>2 DEF DecisionsRecorded
    <3> QED
      BY <2>3, <3>1, <3>2, <3>3, <3>4 DEF DecisionsRecorded, Exists
  <2>5. CASE o # p
    <3>1. status'[o] = status[o] /\ needsApproval'[o] = needsApproval[o]
      BY <1>b, <2>1, <2>5
    <3> QED
      BY <1>a, <2>1, <2>2, <3>1, DecisionsFrame DEF Exists
  <2> QED
    BY <2>4, <2>5
<1>3. ASSUME NEW r \in Request, CommitApprove(r) \/ CommitReject(r)
      PROVE  DecisionsRecorded(o)'
  <2>1. PICK p \in Op : /\ req[r].op = p /\ Exists(p) /\ needsApproval[p]
                        /\ req[r].user # None
    BY <1>3, DecisionOfRow
  <2>2. /\ status' = [status EXCEPT ![p] = IF CommitApprove(r) THEN "QUEUED" ELSE "REJECTED"]
        /\ Decisions(p)' = Decisions(p) + 1
        /\ \A q \in Op \ {p} : audit'[q] = audit[q]
        /\ needsApproval' = needsApproval
    BY <1>a, <1>3, <2>1, DecisionEffects
  <2>3. CASE o # p
    <3>1. /\ status'[o] = status[o] /\ audit'[o] = audit[o]
          /\ approvedBy'[o] = approvedBy[o] /\ rejectedBy'[o] = rejectedBy[o]
      BY <1>a, <1>3, <2>1, <2>2, <2>3 DEF CommitApprove, CommitReject, TypeOK
    <3>2. Decisions(o)' = Decisions(o)
      BY <3>1 DEF Decisions
    <3> QED
      BY <1>a, <2>2, <3>1, <3>2 DEF DecisionsRecorded, Exists
  <2>4. CASE o = p /\ CommitApprove(r)
    <3>1. /\ approvedBy'[o] = req[r].user
          /\ rejectedBy' = rejectedBy
          /\ audit'[o].approved = audit[o].approved + 1
          /\ audit'[o].rejected = audit[o].rejected
      BY <1>a, <2>1, <2>4 DEF CommitApprove, TypeOK
    <3>2. status'[o] = "QUEUED"
      BY <1>b, <2>2, <2>4
    <3> QED
      BY <1>a, <2>1, <2>2, <2>4, <3>1, <3>2, DecisionsCount DEF DecisionsRecorded, Exists
  <2>5. CASE o = p /\ CommitReject(r)
    <3>1. /\ rejectedBy'[o] = req[r].user
          /\ approvedBy' = approvedBy
          /\ audit'[o].rejected = audit[o].rejected + 1
          /\ audit'[o].approved = audit[o].approved
      BY <1>a, <2>1, <2>5 DEF CommitReject, TypeOK
    <3>2. status'[o] = "REJECTED"
      BY <1>b, <2>2, <2>5 DEF CommitApprove, CommitReject
    <3> QED
      BY <1>a, <2>1, <2>2, <2>5, <3>1, <3>2, DecisionsCount DEF DecisionsRecorded, Exists
  <2> QED
    BY <1>3, <2>3, <2>4, <2>5
<1>4. ASSUME NEW w \in Worker, WorkerStep(w)
      PROVE  DecisionsRecorded(o)'
  <2>1. UNCHANGED <<audit, approvedBy, rejectedBy, needsApproval>>
    BY <1>4, OtherEffects
  <2>2. CASE UNCHANGED status
    BY <1>a, <2>1, <2>2, DecisionsFrame DEF Exists
  <2>3. CASE \/ Claim(w) /\ ClaimWins(worker[w].op)
             \/ RecordSuccess(w) \/ RecordFailure(w)
    <3>1. PICK p \in Op, s \in {"RUNNING", "SUCCEEDED", "FAILED"} :
            /\ Exists(p) /\ status[p] # "PENDING_APPROVAL"
            /\ status' = [status EXCEPT ![p] = s]
      <4>1. /\ worker[w].op \in Op /\ Exists(worker[w].op)
        BY <2>3 DEF IInv, WorkersSound, Claim, RecordSuccess, RecordFailure
      <4>2. status[worker[w].op] # "PENDING_APPROVAL"
        <5>1. CASE Claim(w) /\ ClaimWins(worker[w].op)
          BY <5>1 DEF ClaimWins
        <5>2. CASE RecordSuccess(w) \/ RecordFailure(w)
          <6>1. runs[worker[w].op] > 0
            BY <4>1, <5>2 DEF RecordSuccess, RecordFailure, RunsPart, RunsRecorded, Busy
          <6>2. ASSUME status[worker[w].op] = "PENDING_APPROVAL" PROVE FALSE
            <7>1. needsApproval[worker[w].op]
              BY <4>1, <6>2 DEF IInv, RowsSound
            <7>2. Decisions(worker[w].op) = 0
              BY <4>1, <6>2, <7>1 DEF DecisionsPart, DecisionsRecorded
            <7>3. audit[worker[w].op].approved = 0
              BY <1>a, <4>1, <7>2, DecisionsCount DEF Decisions
            <7>4. runs[worker[w].op] <= 0
              BY <1>a, <4>1, <6>2, <7>1, <7>3 DEF IInv, BudgetSound, RunBudget, TypeOK
            <7> QED
              BY <1>a, <4>1, <6>1, <7>4 DEF TypeOK
          <6> QED
            BY <6>2
        <5> QED
          BY <2>3, <5>1, <5>2
      <4> QED
        BY <2>3, <4>1, <4>2 DEF Claim, RecordSuccess, RecordFailure
    <3>2. /\ Exists(o)' = Exists(o)
          /\ (status'[o] = "PENDING_APPROVAL") = (status[o] = "PENDING_APPROVAL")
          /\ status'[o] = "REJECTED" => status[o] = "REJECTED"
      BY <1>b, <3>1 DEF Exists
    <3> QED
      BY <1>a, <2>1, <3>2, DecisionsFrame
  <2> QED
    BY <1>4, <2>2, <2>3, WorkerEffects
<1>5. ASSUME NEW p \in Op, QueueStep(p)
      PROVE  DecisionsRecorded(o)'
  BY <1>1, <1>5, OtherEffects
<1> QED
  BY <1>1, <1>2, <1>3, <1>4, <1>5, ApiEffects DEF Next, vars, logVars

\* A step that touches neither the row's status nor its runs, and sets no slot to
\* work on it, keeps what is recorded of its runs.
LEMMA RunsFrame ==
  ASSUME NEW o \in Op, RunsRecorded(o), status'[o] = status[o], runs'[o] = runs[o],
         Decisions(o)' = Decisions(o),
         \A v \in Worker : Busy(v)' /\ worker'[v].op = o => Busy(v) /\ worker[v].op = o
  PROVE  RunsRecorded(o)'
BY DEF RunsRecorded

\* Every step keeps what is recorded of the runs: the claim elects one slot, and
\* nobody is at work on a row that is inserted, waits or is queued the first time.
LEMMA NextRuns ==
  ASSUME IInv, DecisionsPart, RunsPart, [Next]_vars
  PROVE  RunsPart'
<1> SUFFICES ASSUME NEW o \in Op PROVE RunsRecorded(o)'
  BY DEF RunsPart
<1>a. /\ TypeOK
      /\ RunsRecorded(o)
      /\ DecisionsRecorded(o)
      /\ status \in [Op -> OperationStatus \cup {"NONE"}]
      /\ runs \in [Op -> Nat]
      /\ worker \in [Worker -> SlotType]
      /\ Decisions(o) \in Nat
  BY DecisionsCount DEF IInv, DecisionsPart, RunsPart, TypeOK
<1>1. CASE UNCHANGED <<status, runs, audit>> /\ Quiet
  <2>1. Decisions(o)' = Decisions(o)
    BY <1>1 DEF Decisions
  <2> QED
    BY <1>1, <1>a, <2>1, RunsFrame DEF Quiet
<1>2. ASSUME NEW r \in Request, CommitCreate(r), ~KeyTaken(req[r].key)
      PROVE  RunsRecorded(o)'
  <2>1. PICK p \in Op :
          /\ ~Exists(p)
          /\ status' = [status EXCEPT ![p] = IF req[r].gated THEN "PENDING_APPROVAL" ELSE "QUEUED"]
    BY <1>2 DEF CommitCreate
  <2>2. UNCHANGED <<audit, worker, runs>>
    BY <1>2 DEF CommitCreate, logVars
  <2>3. Decisions(o)' = Decisions(o)
    BY <2>2 DEF Decisions
  <2>4. CASE o = p
    <3>1. status'[o] \notin {"RUNNING"} \cup Settled
      BY <1>a, <2>1, <2>4 DEF Settled
    <3>2. \A w \in Worker : Busy(w) => worker[w].op # o
      BY <2>1, <2>4 DEF IInv, WorkersSound, Busy
    <3> QED
      BY <2>2, <3>1, <3>2 DEF RunsRecorded, Busy
  <2>5. CASE o # p
    BY <1>a, <2>1, <2>2, <2>3, <2>5, RunsFrame DEF Busy
  <2> QED
    BY <2>4, <2>5
<1>3. ASSUME NEW r \in Request, CommitApprove(r) \/ CommitReject(r)
      PROVE  RunsRecorded(o)'
  <2>1. PICK p \in Op : /\ req[r].op = p /\ Exists(p) /\ needsApproval[p]
                        /\ req[r].user # None
    BY <1>3, DecisionOfRow
  <2>2. /\ status' = [status EXCEPT ![p] = IF CommitApprove(r) THEN "QUEUED" ELSE "REJECTED"]
        /\ Decisions(p)' = Decisions(p) + 1
        /\ \A q \in Op \ {p} : audit'[q] = audit[q]
        /\ UNCHANGED <<runs, worker>>
    BY <1>a, <1>3, <2>1, DecisionEffects
  <2>3. CASE o # p
    <3>1. Decisions(o)' = Decisions(o)
      BY <2>2, <2>3 DEF Decisions
    <3> QED
      BY <1>a, <2>2, <2>3, <3>1, RunsFrame DEF Busy
  <2>4. CASE o = p
    <3>1. status'[o] \notin {"RUNNING"} \cup Settled
      BY <1>a, <2>2, <2>4 DEF Settled
    <3>2. ASSUME NEW w \in Worker, Busy(w), worker[w].op = o
          PROVE  runs[o] > 0 /\ ~(Decisions(o)' <= 1)
      <4>1. runs[o] > 0 /\ (Decisions(o) <= 1 => status[o] = "RUNNING")
        BY <1>a, <3>2 DEF RunsRecorded
      <4>2. Decisions(o) = 0 => status[o] = "PENDING_APPROVAL"
        BY <1>a, <2>1, <2>4 DEF DecisionsRecorded
      <4> QED
        BY <1>a, <2>2, <2>4, <4>1, <4>2
    <3> QED
      BY <2>2, <3>1, <3>2 DEF RunsRecorded, Busy
  <2> QED
    BY <2>3, <2>4
<1>4. ASSUME NEW w \in Worker, WorkerStep(w)
      PROVE  RunsRecorded(o)'
  <2>1. audit' = audit
    BY <1>4, OtherEffects
  <2>2. Decisions(o)' = Decisions(o)
    BY <2>1 DEF Decisions
  <2>3. CASE Claim(w) /\ ClaimWins(worker[w].op)
    <3>1. PICK p \in Op : /\ worker[w].op = p
                          /\ status[p] = "QUEUED"
                          /\ status' = [status EXCEPT ![p] = "RUNNING"]
                          /\ runs' = [runs EXCEPT ![p] = @ + 1]
                          /\ worker' = [worker EXCEPT ![w].pc = "running"]
      BY <2>3 DEF Claim, ClaimWins, Goto, IInv, WorkersSound
    <3>2. /\ worker'[w].op = p
          /\ \A v \in Worker \ {w} : worker'[v] = worker[v]
      BY <1>a, <3>1 DEF SlotType
    <3>3. CASE o # p
      BY <1>a, <2>2, <3>1, <3>2, <3>3, RunsFrame DEF Busy
    <3>4. CASE o = p
      <4>1. status'[o] = "RUNNING" /\ runs'[o] > 0
        BY <1>a, <3>1, <3>4
      <4>2. Decisions(o) <= 1 => \A v \in Worker : Busy(v) => worker[v].op # o
        BY <1>a, <3>1, <3>4 DEF RunsRecorded
      <4>3. Decisions(o)' <= 1 =>
              \A v \in Worker : Busy(v)' /\ worker'[v].op = o => v = w
        BY <2>2, <3>2, <4>2 DEF Busy
      <4> QED
        BY <4>1, <4>3 DEF RunsRecorded
    <3> QED
      BY <3>3, <3>4
  <2>4. CASE RecordSuccess(w) \/ RecordFailure(w)
    <3>1. PICK p \in Op, pc \in {"ack", "reporting"}, s \in Settled :
                          /\ worker[w].op = p /\ Busy(w)
                          /\ status' = [status EXCEPT ![p] = s]
                          /\ worker' = [worker EXCEPT ![w].pc = pc]
      BY <2>4 DEF RecordSuccess, RecordFailure, Goto, IInv, WorkersSound, Busy, Settled
    <3>2. runs' = runs
      BY <2>4 DEF RecordSuccess, RecordFailure
    <3>3. /\ ~Busy(w)'
          /\ \A v \in Worker \ {w} : worker'[v] = worker[v]
      BY <1>a, <3>1 DEF SlotType, Busy
    <3>4. CASE o # p
      BY <1>a, <2>2, <3>1, <3>2, <3>3, <3>4, RunsFrame DEF Busy
    <3>5. CASE o = p
      <4>1. runs'[o] > 0
        BY <1>a, <3>1, <3>2, <3>5 DEF RunsRecorded
      <4>2. Decisions(o) <= 1 =>
              \A v \in Worker : Busy(v) /\ worker[v].op = o => v = w
        BY <1>a, <3>1, <3>5 DEF RunsRecorded
      <4>3. Decisions(o)' <= 1 => \A v \in Worker : Busy(v)' => worker'[v].op # o
        BY <2>2, <3>3, <4>2 DEF Busy
      <4> QED
        BY <4>1, <4>3 DEF RunsRecorded
    <3> QED
      BY <3>4, <3>5
  <2> QED
    BY <1>1, <1>4, <2>1, <2>3, <2>4, WorkerEffects DEF IInv
<1>5. ASSUME UNCHANGED worker
      PROVE  Quiet
  BY <1>5 DEF Quiet, Busy
<1>6. ASSUME NEW p \in Op, QueueStep(p)
      PROVE  RunsRecorded(o)'
  BY <1>1, <1>5, <1>6, OtherEffects DEF rowVars
<1>7. ASSUME NEW r \in Request, ApiStep(r)
      PROVE  RunsRecorded(o)'
  BY <1>1, <1>2, <1>3, <1>5, <1>7, ApiEffects, OtherEffects DEF rowVars
<1>8. CASE UNCHANGED vars
  BY <1>1, <1>5, <1>8 DEF vars, rowVars, logVars
<1> QED
  BY <1>4, <1>6, <1>7, <1>8 DEF Next

\* A step that inserts no row and admits no request leaves the policies applied.
LEMMA PolicyFrame ==
  ASSUME PolicyRecorded, UNCHANGED <<target, needsApproval, opaAnswer>>,
         \A o \in Op : Exists(o)' = Exists(o),
         \A r \in Request : req'[r].pc = "creating" => req'[r] = req[r]
  PROVE  PolicyRecorded'
BY DEF PolicyRecorded

\* Only the insert makes a row exist.
LEMMA ExistsFrame ==
  ASSUME IInv, [Next]_vars, NEW o \in Op,
         \A r \in Request : ~(CommitCreate(r) /\ ~KeyTaken(req[r].key))
  PROVE  Exists(o)' = Exists(o)
<1>a. TypeOK /\ status \in [Op -> OperationStatus \cup {"NONE"}]
  BY DEF IInv, TypeOK
<1>1. CASE UNCHANGED status
  BY <1>1 DEF Exists
<1>2. ASSUME NEW r \in Request, CommitApprove(r) \/ CommitReject(r)
      PROVE  Exists(o)' = Exists(o)
  <2>1. PICK p \in Op : req[r].op = p /\ Exists(p)
    BY <1>2, DecisionOfRow
  <2>2. status' = [status EXCEPT ![p] = IF CommitApprove(r) THEN "QUEUED" ELSE "REJECTED"]
    BY <1>a, <1>2, <2>1, DecisionEffects
  <2> QED
    BY <1>a, <2>1, <2>2 DEF Exists
<1>3. ASSUME NEW w \in Worker, WorkerStep(w), status' # status
      PROVE  Exists(o)' = Exists(o)
  <2>1. PICK p \in Op, s \in {"RUNNING", "SUCCEEDED", "FAILED"} :
          Exists(p) /\ status' = [status EXCEPT ![p] = s]
    BY <1>3, WorkerEffects DEF Claim, RecordSuccess, RecordFailure, IInv, WorkersSound
  <2> QED
    BY <1>a, <2>1 DEF Exists
<1> QED
  BY <1>1, <1>2, <1>3, ApiEffects, OtherEffects DEF Next, vars, rowVars

\* Every step leaves every row with the gate its target was given: only a request
\* both policies allowed is inserted, and no step changes what was decided of it.
LEMMA NextPolicy ==
  ASSUME IInv, PolicyRecorded, [Next]_vars
  PROVE  PolicyRecorded'
<1>a. /\ TypeOK
      /\ req \in [Request -> RequestType]
      /\ status \in [Op -> OperationStatus \cup {"NONE"}]
      /\ target \in [Op -> Target \cup {None}]
      /\ needsApproval \in [Op -> BOOLEAN]
      /\ opaAnswer \in [Op -> OpaAnswer \cup {None}]
  BY DEF IInv, TypeOK
<1>1. ASSUME NEW r \in Request, CommitCreate(r), ~KeyTaken(req[r].key)
      PROVE  PolicyRecorded'
  <2>1. PICK p \in Op :
          /\ ~Exists(p)
          /\ status' = [status EXCEPT ![p] = IF req[r].gated THEN "PENDING_APPROVAL" ELSE "QUEUED"]
          /\ target' = [target EXCEPT ![p] = req[r].target]
          /\ needsApproval' = [needsApproval EXCEPT ![p] = req[r].gated]
          /\ opaAnswer' = [opaAnswer EXCEPT ![p] = req[r].opa]
          /\ req' = [req EXCEPT ![r].pc = "committed", ![r].op = p]
    BY <1>1 DEF CommitCreate
  <2>2. PolicyApplied(req[r].target, req[r].gated, req[r].opa)
    BY <1>1 DEF CommitCreate, PolicyRecorded
  <2>3. /\ target'[p] = req[r].target
        /\ needsApproval'[p] = req[r].gated
        /\ opaAnswer'[p] = req[r].opa
        /\ Exists(p)'
    BY <1>a, <2>1 DEF Exists
  <2>4. ASSUME NEW o \in Op \ {p}
        PROVE  /\ target'[o] = target[o] /\ needsApproval'[o] = needsApproval[o]
               /\ opaAnswer'[o] = opaAnswer[o] /\ Exists(o)' = Exists(o)
    BY <1>a, <2>1 DEF Exists
  <2>5. \A q \in Request : req'[q].pc = "creating" => req'[q] = req[q]
    BY <1>a, <2>1 DEF RequestType
  <2> QED
    BY <2>2, <2>3, <2>4, <2>5 DEF PolicyRecorded
<1>2. CASE \A r \in Request : ~(CommitCreate(r) /\ ~KeyTaken(req[r].key))
  <2>1. \A o \in Op : Exists(o)' = Exists(o)
    BY <1>2, ExistsFrame
  <2>2. ASSUME NEW r \in Request, ApiStep(r)
        PROVE  UNCHANGED <<target, needsApproval, opaAnswer>>
    BY <2>2, <1>2, ApiEffects DEF rowVars, CommitApprove, CommitReject
  <2>3. UNCHANGED <<target, needsApproval, opaAnswer>>
    BY <2>2, OtherEffects DEF Next, vars, rowVars
  <2>4. ASSUME NEW r \in Request, NEW u \in User, NEW t \in Target,
               NEW k \in Key \cup {None}, BeginCreate(r, u, t, k)
        PROVE  PolicyRecorded'
    <3>1. CASE req' = [req EXCEPT ![r].pc = "done"]
      <4>1. \A q \in Request : req'[q].pc = "creating" => req'[q] = req[q]
        BY <1>a, <3>1 DEF RequestType
      <4> QED
        BY <2>1, <2>3, <4>1, PolicyFrame
    <3>2. CASE \E answer \in OpaReach :
                 /\ EnforcedDecision(t, answer).allow
                 /\ req' = [req EXCEPT ![r] =
                       [pc |-> "creating", kind |-> "create", user |-> u,
                        op |-> None, target |-> t, key |-> k,
                        gated |-> ApprovalRequired(t, answer), opa |-> answer]]
      <4>1. PICK answer \in OpaReach :
                 /\ EnforcedDecision(t, answer).allow
                 /\ req' = [req EXCEPT ![r] =
                       [pc |-> "creating", kind |-> "create", user |-> u,
                        op |-> None, target |-> t, key |-> k,
                        gated |-> ApprovalRequired(t, answer), opa |-> answer]]
        BY <3>2
      <4>2. PolicyApplied(t, ApprovalRequired(t, answer), answer)
        BY <4>1 DEF PolicyApplied
      <4>3. PolicyApplied(req'[r].target, req'[r].gated, req'[r].opa)
        BY <1>a, <4>1, <4>2
      <4>4. \A q \in Request \ {r} : req'[q] = req[q]
        BY <1>a, <4>1
      <4> QED
        BY <2>1, <2>3, <4>3, <4>4 DEF PolicyRecorded
    <3> QED
      BY <2>4, <3>1, <3>2 DEF BeginCreate
  <2>5. ASSUME NEW r \in Request, ApiStep(r),
               ~(\E u \in User, t \in Target, k \in Key \cup {None} : BeginCreate(r, u, t, k))
        PROVE  \A q \in Request : req'[q].pc = "creating" => req'[q] = req[q]
    <3>1. CASE CommitCreate(r)
      BY <1>2, <1>a, <3>1 DEF CommitCreate, RequestType
    <3>2. CASE CommitApprove(r) \/ CommitReject(r)
      BY <1>a, <3>2 DEF CommitApprove, CommitReject, RequestType
    <3>3. CASE Respond(r) \/ EnqueueFails(r) \/ RequestLost(r)
      BY <1>a, <3>3 DEF Respond, EnqueueFails, RequestLost, RequestType
    <3>4. ASSUME NEW u \in User, NEW o \in Op, BeginApprove(r, u, o) \/ BeginReject(r, u, o)
          PROVE  \A q \in Request : req'[q].pc = "creating" => req'[q] = req[q]
      BY <1>a, <3>4 DEF BeginApprove, BeginReject, BeginDecision, RequestType
    <3> QED
      BY <2>5, <3>1, <3>2, <3>3, <3>4 DEF ApiStep
  <2>6. CASE \E r \in Request : ApiStep(r)
    BY <2>1, <2>3, <2>4, <2>5, <2>6, PolicyFrame
  <2>7. CASE ~(\E r \in Request : ApiStep(r))
    <3>1. req' = req
      BY <2>7, OtherEffects DEF Next, vars
    <3> QED
      BY <2>1, <2>3, <3>1, PolicyFrame
  <2> QED
    BY <2>6, <2>7
<1> QED
  BY <1>1, <1>2

\* The inductive invariant holds in every reachable state.
THEOREM EvidenceInvariance == Spec => []EvidenceInv
<1>1. Init => EvidenceInv
  BY InitIInv, InitEvidence DEF EvidenceInv, DecisionsPart, RunsPart
<1>2. EvidenceInv /\ [Next]_vars => EvidenceInv'
  <2> SUFFICES ASSUME EvidenceInv, [Next]_vars PROVE EvidenceInv'
    OBVIOUS
  <2>1. IInv /\ DecisionsPart /\ RunsPart /\ PolicyRecorded
    BY DEF EvidenceInv, DecisionsPart, RunsPart
  <2>2. IInv' /\ DecisionsPart' /\ RunsPart' /\ PolicyRecorded'
    BY <2>1, NextIInv, NextDecisions, NextRuns, NextPolicy
  <2> QED
    BY <2>2 DEF EvidenceInv, DecisionsPart, RunsPart
<1> QED
  BY <1>1, <1>2, PTL DEF Spec

-----------------------------------------------------------------------------
(* What is true of a row                                                   *)

\* An operation decided at most once has at most one run, and none while it waits,
\* is queued or is rejected.
LEMMA RunsCounted ==
  ASSUME EvidenceInv, NEW o \in Op, Exists(o), Decisions(o) <= 1
  PROVE  /\ runs[o] \in {0, 1}
         /\ status[o] \in {"PENDING_APPROVAL", "QUEUED", "REJECTED"} => runs[o] = 0
         /\ status[o] \in {"RUNNING"} \cup Settled => runs[o] = 1
<1>1. TypeOK /\ DecisionsRecorded(o) /\ RunsRecorded(o)
  BY DEF EvidenceInv, IInv
<1>2. /\ audit[o].approved \in Nat /\ audit[o].rejected \in Nat /\ runs[o] \in Nat
      /\ audit[o].approved + audit[o].rejected <= 1
  BY <1>1, DecisionsCount DEF TypeOK, Decisions
<1>3. runs[o] + (IF status[o] = "QUEUED" THEN 1 ELSE 0) <= RunBudget(o)
  BY DEF EvidenceInv, IInv, BudgetSound
<1>4. RunBudget(o) \in {0, 1}
  BY <1>2 DEF RunBudget
<1>5. CASE status[o] \in {"PENDING_APPROVAL", "REJECTED"}
  <2>1. needsApproval[o]
    BY <1>1, <1>2, <1>5 DEF EvidenceInv, IInv, RowsSound, DecisionsRecorded, Decisions
  <2>2. audit[o].approved = 0
    BY <1>1, <1>2, <1>5, <2>1 DEF DecisionsRecorded, Decisions
  <2> QED
    BY <1>2, <1>3, <1>5, <2>1, <2>2 DEF RunBudget, Settled
<1>6. CASE status[o] \notin {"PENDING_APPROVAL", "REJECTED"}
  BY <1>1, <1>2, <1>3, <1>4, <1>6 DEF RunsRecorded
<1> QED
  BY <1>5, <1>6

\* What was released, or has an outcome, is gated exactly if it was approved.
LEMMA ReleaseApproved ==
  ASSUME EvidenceInv, NEW o \in Op, Exists(o),
         status[o] \notin {"PENDING_APPROVAL", "REJECTED"}
  PROVE  /\ needsApproval[o] = (audit[o].approved > 0)
         /\ rejectedBy[o] # None => needsApproval[o]
<1>1. TypeOK /\ DecisionsRecorded(o) /\ RunsRecorded(o)
  BY DEF EvidenceInv, IInv
<1>2. audit[o].approved \in Nat /\ audit[o].rejected \in Nat /\ needsApproval[o] \in BOOLEAN
  BY <1>1, DecisionsCount DEF TypeOK
<1>3. status[o] \in {"QUEUED", "RUNNING"} \cup Settled
  BY <1>1 DEF TypeOK, OperationStatus, Exists, Settled
<1>4. needsApproval[o] => approvedBy[o] # None
  BY <1>1, <1>3 DEF EvidenceInv, IInv, ApprovalsSound, RunsRecorded
<1>5. needsApproval[o] => audit[o].approved > 0
  BY <1>1, <1>2, <1>4 DEF DecisionsRecorded
<1>6. ~needsApproval[o] => audit[o].approved = 0 /\ audit[o].rejected = 0
  BY <1>1, <1>2 DEF DecisionsRecorded, Decisions
<1> QED
  BY <1>1, <1>2, <1>5, <1>6 DEF DecisionsRecorded

\* As long as an operation is decided at most once, whoever is at work on it finds it
\* RUNNING, and is alone.
LEMMA WorkerAlone ==
  ASSUME EvidenceInv, NEW w \in Worker, Busy(w)
  PROVE  /\ worker[w].op \in Op
         /\ Decisions(worker[w].op) <= 1 =>
              /\ status[worker[w].op] = "RUNNING"
              /\ \A v \in Worker : Busy(v) /\ worker[v].op = worker[w].op => v = w
<1>1. worker[w].op \in Op
  BY DEF EvidenceInv, IInv, WorkersSound, Busy
<1> QED
  BY <1>1 DEF EvidenceInv, RunsRecorded

\* The approval column of a report is what the audit log has.
LEMMA ApprovalClaimed ==
  ASSUME EvidenceInv, NEW o \in Op, Exists(o)
  PROVE  ApprovalClaim(o)
<1>1. TypeOK /\ DecisionsRecorded(o)
  BY DEF EvidenceInv, IInv
<1>2. /\ audit[o].approved \in Nat /\ audit[o].rejected \in Nat
      /\ needsApproval[o] \in BOOLEAN
  BY <1>1, DecisionsCount DEF TypeOK
<1>3. CASE ReportedApproval(o) = "REJECTED"
  <2>1. rejectedBy[o] # None
    BY <1>1, <1>3 DEF ReportedApproval, DecisionsRecorded
  <2> QED
    BY <1>1, <1>2, <1>3, <2>1
    DEF ApprovalClaim, Report, GovernanceBlock, DecisionsRecorded
<1>4. CASE ReportedApproval(o) = "APPROVED"
  <2>1. approvedBy[o] # None /\ rejectedBy[o] = None
    BY <1>4 DEF ReportedApproval
  <2>2. Authorized(o)
    BY <2>1 DEF EvidenceInv, IInv, ApprovalsSound
  <2>3. audit[o].approved > 0 /\ audit[o].rejected = 0
    BY <1>1, <1>2, <2>1 DEF DecisionsRecorded
  <2> QED
    BY <1>4, <2>2, <2>3 DEF ApprovalClaim, Report, GovernanceBlock
<1>5. CASE ReportedApproval(o) = "PENDING"
  <2>1. status[o] = "PENDING_APPROVAL"
    BY <1>5 DEF ReportedApproval
  <2>2. needsApproval[o]
    BY <2>1 DEF EvidenceInv, IInv, RowsSound
  <2>3. Decisions(o) = 0
    BY <1>1, <2>1, <2>2 DEF DecisionsRecorded
  <2>4. audit[o].approved = 0
    BY <1>2, <2>3 DEF Decisions
  <2>5. job[o].state = "absent"
    BY <2>2, <2>4 DEF EvidenceInv, IInv, EnqueuedOnlyWhenReleased
  <2>6. runs[o] = 0
    BY <2>1, <2>3, RunsCounted
  <2> QED
    BY <1>5, <2>2, <2>3, <2>5, <2>6 DEF ApprovalClaim, Report, GovernanceBlock
<1>6. CASE ReportedApproval(o) = "NOT_REQUIRED"
  <2>1. /\ approvedBy[o] = None /\ rejectedBy[o] = None
        /\ status[o] # "PENDING_APPROVAL"
    BY <1>6 DEF ReportedApproval
  <2>2. Decisions(o) = 0
    BY <1>1, <1>2, <2>1 DEF DecisionsRecorded, Decisions
  <2>3. ~needsApproval[o]
    BY <1>1, <2>1, <2>2 DEF DecisionsRecorded
  <2> QED
    BY <1>6, <2>2, <2>3 DEF ApprovalClaim, Report, GovernanceBlock
<1> QED
  BY <1>3, <1>4, <1>5, <1>6 DEF ReportedApproval

\* Its timeline tells what happened.
LEMMA LifecycleClaimed ==
  ASSUME EvidenceInv, NEW o \in Op, Exists(o)
  PROVE  LifecycleClaim(o)
<1>1. TypeOK /\ DecisionsRecorded(o)
  BY DEF EvidenceInv, IInv
<1>2. /\ audit[o].approved \in Nat /\ needsApproval[o] \in BOOLEAN
      /\ status[o] \in OperationStatus
  BY <1>1, DecisionsCount DEF TypeOK, Exists
<1>3. ASSUME Lifecycle(o).queued = "completed" \/ Lifecycle(o).approval = "completed"
      PROVE  /\ needsApproval[o] = (audit[o].approved > 0)
             /\ ApprovalStage(o) = (audit[o].approved > 0)
  <2>1. status[o] \notin {"PENDING_APPROVAL", "REJECTED"}
    BY <1>3 DEF Lifecycle
  <2>2. /\ needsApproval[o] = (audit[o].approved > 0)
        /\ rejectedBy[o] # None => needsApproval[o]
    BY <2>1, ReleaseApproved
  <2>3. approvedBy[o] # None => audit[o].approved > 0
    BY <1>1, <1>2 DEF DecisionsRecorded
  <2>4. CASE needsApproval[o]
    BY <2>2, <2>4 DEF ApprovalStage
  <2>5. CASE ~needsApproval[o]
    <3>1. audit[o].approved = 0 /\ audit[o].rejected = 0
      BY <1>1, <1>2, <2>5, DecisionsCount DEF DecisionsRecorded, Decisions, TypeOK
    <3>2. approvedBy[o] = None /\ rejectedBy[o] = None
      BY <1>1, <3>1 DEF DecisionsRecorded
    <3>3. ~ApprovalStage(o) /\ ~(audit[o].approved > 0)
      BY <2>1, <2>5, <3>1, <3>2 DEF ApprovalStage
    <3>4. ApprovalStage(o) \in BOOLEAN
      BY DEF ApprovalStage
    <3> QED
      BY <2>2, <3>3, <3>4
  <2> QED
    BY <2>4, <2>5
<1>4. ASSUME Decisions(o) <= 1
      PROVE  /\ Lifecycle(o).running = "pending" => runs[o] = 0
             /\ Lifecycle(o).approval = "failed" => runs[o] = 0
             /\ Lifecycle(o).running = "active"  => runs[o] = 1
             /\ Lifecycle(o).running = "completed" /\ Lifecycle(o).approval # "failed" =>
                  /\ runs[o] = 1
                  /\ \A w \in Worker : Busy(w) => worker[w].op # o
  <2>1. /\ status[o] \in {"PENDING_APPROVAL", "QUEUED", "REJECTED"} => runs[o] = 0
        /\ status[o] \in {"RUNNING"} \cup Settled => runs[o] = 1
    BY <1>4, RunsCounted
  <2>2. \A w \in Worker : Busy(w) /\ worker[w].op = o => status[o] = "RUNNING"
    BY <1>4, WorkerAlone
  <2> QED
    BY <1>2, <2>1, <2>2 DEF Lifecycle, Terminal, Settled, OperationStatus
<1> QED
  BY <1>3, <1>4 DEF LifecycleClaim, Report

\* Its "Retry" is offered only of what nobody is at work on, with the right token.
LEMMA RecoveryClaimed ==
  ASSUME EvidenceInv, NEW o \in Op
  PROVE  RecoveryClaim(o)
<1> SUFFICES ASSUME NEW u \in User, "recover" \in Buttons(u, o)
             PROVE  /\ RecoveryToken[target[o].type] = ConfirmationLabel[target[o].type]
                    /\ Decisions(o) <= 1 =>
                         \A w \in Worker : Busy(w) => worker[w].op # o
  BY DEF RecoveryClaim
<1>1. Terminal(o) /\ target[o].type \in DOMAIN RecoveryToken
  BY DEF Buttons, MayRecover
<1>2. \A type \in DOMAIN RecoveryToken : RecoveryToken[type] = ConfirmationLabel[type]
  BY DEF RecoveryToken, ConfirmationLabel
<1>3. Decisions(o) <= 1 => \A w \in Worker : Busy(w) => worker[w].op # o
  BY <1>1, WorkerAlone DEF Terminal
<1> QED
  BY <1>1, <1>2, <1>3

-----------------------------------------------------------------------------
(* The theorems                                                            *)

\* At most one slot is inside executeOperation for an operation decided at most
\* once, and the row says RUNNING (operations.queue.ts:115-129).
THEOREM RunsExclusively == Spec => []ExclusiveRun
<1>1. EvidenceInv => ExclusiveRun
  BY WorkerAlone DEF ExclusiveRun
<1> QED
  BY <1>1, EvidenceInvariance, PTL

\* No operation page claims a decision or an execution that did not happen
\* (ops.service.ts:1951-2027, 2164-2387).
THEOREM EvidenceIsTruthful == Spec => []EvidenceTruthful
<1>1. EvidenceInv => EvidenceTruthful
  BY ApprovalClaimed, LifecycleClaimed, RecoveryClaimed DEF EvidenceTruthful
<1> QED
  BY <1>1, EvidenceInvariance, PTL

\* What the architecture document calls high-risk runs only with the approval of an
\* authorized second person, whatever OPA answered (operation.service.ts:112-127).
THEOREM HighRiskApproved == Spec => []HighRiskRunsApproved
<1>1. EvidenceInv => HighRiskRunsApproved
  <2> SUFFICES ASSUME EvidenceInv, NEW o \in Op, runs[o] > 0, HighRisk(target[o])
               PROVE  Authorized(o)
    BY DEF HighRiskRunsApproved
  <2>1. Exists(o)
    BY DEF EvidenceInv, IInv, RowsSound
  <2>2. LocalApproval(target[o])
    BY DEF HighRisk, LocalApproval, AlwaysApproved
  <2>3. needsApproval[o]
    BY <2>1, <2>2 DEF EvidenceInv, PolicyRecorded, PolicyApplied, ApprovalRequired
  <2> QED
    BY <2>3 DEF EvidenceInv, IInv, ApprovalsSound
<1> QED
  BY <1>1, EvidenceInvariance, PTL

\* No row of a request OPA did not answer, nor, enforced, of one it did not allow
\* (opa.client.ts:20-61, docs/OPA_POLICY_AS_CODE.md:57).
THEOREM FailsClosed == Spec => []OpaFailsClosed
<1>1. EvidenceInv => OpaFailsClosed
  <2> SUFFICES ASSUME EvidenceInv, NEW o \in Op, Exists(o)
               PROVE  /\ opaAnswer[o] # "unreachable"
                      /\ EnforcementMode = "enforce" =>
                           /\ opaAnswer[o] = "decided"
                           /\ RegoAllow(target[o])
    BY DEF OpaFailsClosed, RegoAllow
  <2>1. EnforcedDecision(target[o], opaAnswer[o]).allow
    BY DEF EvidenceInv, PolicyRecorded, PolicyApplied
  <2>2. CASE opaAnswer[o] = "unreachable"
    BY <2>1, <2>2 DEF EnforcedDecision, OpaDecision
  <2>3. CASE EnforcementMode = "enforce"
    BY <2>1, <2>3 DEF EnforcedDecision, OpaDecision
  <2> QED
    BY <2>2, <2>3
<1> QED
  BY <1>1, EvidenceInvariance, PTL

\* No step rewrites the outcome of an operation decided at most once: neither a late
\* worker nor a redelivered job nor a retry (operations.queue.ts:97-103, 133-152).
THEOREM OutcomeIsFinal == Spec => SettledStaysSettled
<1> DEFINE Kept == \A o \in Op : status[o] \in Settled /\ Decisions(o)' <= 1
                                   => status'[o] = status[o]
<1>1. ASSUME EvidenceInv, [Next]_vars PROVE Kept
  <2> SUFFICES ASSUME NEW o \in Op, status[o] \in Settled, Decisions(o)' <= 1,
                      status'[o] # status[o]
               PROVE  FALSE
    OBVIOUS
  <2>a. /\ IInv /\ TypeOK /\ DecisionsRecorded(o) /\ RunsRecorded(o)
        /\ status \in [Op -> OperationStatus \cup {"NONE"}]
        /\ Decisions(o) \in Nat
    BY <1>1, DecisionsCount DEF EvidenceInv, IInv, TypeOK
  <2>1. ASSUME NEW r \in Request, ApiStep(r)
        PROVE  FALSE
    <3>1. CASE CommitCreate(r) /\ ~KeyTaken(req[r].key)
      <4>1. PICK p \in Op : ~Exists(p) /\ \E s : status' = [status EXCEPT ![p] = s]
        BY <3>1 DEF CommitCreate
      <4> QED
        BY <2>a, <4>1 DEF Exists, Settled
    <3>2. CASE CommitApprove(r) \/ CommitReject(r)
      <4>1. PICK p \in Op : req[r].op = p /\ Exists(p) /\ needsApproval[p]
        BY <2>a, <3>2, DecisionOfRow
      <4>2. /\ status' = [status EXCEPT ![p] = IF CommitApprove(r) THEN "QUEUED" ELSE "REJECTED"]
            /\ Decisions(p)' = Decisions(p) + 1
        BY <2>a, <3>2, <4>1, DecisionEffects
      <4>3. o = p
        BY <2>a, <4>2
      <4>4. Decisions(o) = 0
        BY <2>a, <4>2, <4>3
      <4> QED
        BY <2>a, <4>1, <4>3, <4>4 DEF DecisionsRecorded, Settled
    <3> QED
      BY <2>1, <2>a, <3>1, <3>2, ApiEffects DEF rowVars
  <2>2. ASSUME NEW w \in Worker, WorkerStep(w)
        PROVE  FALSE
    <3>1. Decisions(o)' = Decisions(o)
      BY <2>2, OtherEffects DEF Decisions
    <3>2. CASE Claim(w) /\ ClaimWins(worker[w].op)
      BY <2>a, <3>2 DEF Claim, ClaimWins, Settled
    <3>3. CASE RecordSuccess(w) \/ RecordFailure(w)
      <4>1. Busy(w) /\ worker[w].op = o
        BY <2>a, <3>3 DEF RecordSuccess, RecordFailure, Busy
      <4> QED
        BY <2>a, <3>1, <4>1 DEF RunsRecorded, Settled
    <3> QED
      BY <2>2, <2>a, <3>2, <3>3, WorkerEffects
  <2>3. ASSUME NEW p \in Op, QueueStep(p)
        PROVE  FALSE
    BY <2>3, OtherEffects DEF rowVars
  <2> QED
    BY <1>1, <2>1, <2>2, <2>3 DEF Next, vars, rowVars
<1>2. Spec => [][Kept]_vars
  BY <1>1, EvidenceInvariance, PTL DEF Spec
<1> QED
  BY <1>2 DEF SettledStaysSettled
=============================================================================
