---------------------------- MODULE Deployments ----------------------------
(***************************************************************************)
(* Deployments end to end: triggerDeployment of the API                    *)
(* (deployment.service.ts), the BullMQ job deployment-<id>                 *)
(* (deployment.queue.ts), and the worker that claims the deployment, runs  *)
(* the simulation and records the outcome (deployments.queue.ts,           *)
(* simulation.executor.ts).                                                *)
(*                                                                         *)
(* One database call or transaction is one action. The event log of a      *)
(* deployment is the set of event types it holds: the worker and the API   *)
(* both append to it, and every append is a call that can fail by itself.  *)
(***************************************************************************)
EXTENDS BullQueue

CONSTANTS
  Dep,       \* deployment ids
  Env,       \* environments, none of them archived
  Request,   \* trigger requests, each a handler that runs once
  Worker,    \* worker slots: processes times DEPLOYMENTS_CONCURRENCY
  FaultKind, \* the faults of this instance
  MaxFaults  \* bound: faults per behaviour

ASSUME DeploymentsAssumption ==
  /\ None \notin Dep \cup Env \cup Worker
  /\ FaultKind \subseteq {"api", "redis", "db", "worker", "lock"}
  /\ MaxFaults \in Nat

VARIABLES
  status, \* deployments.status, "NONE" while the row does not exist
  envOf,  \* environmentId
  events, \* deployment_events
  job,    \* the BullMQ job deployment-<id>
  req,    \* API requests
  worker, \* worker slots
  runs,   \* times the simulation was started
  faults  \* faults so far

vars == <<status, envOf, events, job, req, worker, runs, faults>>

-----------------------------------------------------------------------------
Active           == {"QUEUED", "RUNNING"}
Settled          == {"SUCCEEDED", "FAILED"}
DeploymentStatus == Active \cup Settled
EventType        == {"queued", "enqueued", "enqueue_failed", "skipped", "started",
                     "simulated", "succeeded", "failed"}
RequestPc        == {"idle", "checked", "created", "added", "failing", "done"}
WorkerPc         == {"idle", "claiming", "skipping", "claimed", "running", "ran",
                     "succeeded", "threw", "failed", "ack", "nack"}

IdleRequest == [pc |-> "idle", env |-> None, dep |-> None]
IdleWorker  == [pc |-> "idle", dep |-> None]

Exists(d) == status[d] # "NONE"

Fault(f) == /\ f \in FaultKind
            /\ faults < MaxFaults
            /\ faults' = faults + 1

Log(d, type) == events' = [events EXCEPT ![d] = @ \cup {type}]

Init ==
  /\ status = [d \in Dep |-> "NONE"]
  /\ envOf  = [d \in Dep |-> None]
  /\ events = [d \in Dep |-> {}]
  /\ job    = [d \in Dep |-> NoJob]
  /\ req    = [r \in Request |-> IdleRequest]
  /\ worker = [w \in Worker |-> IdleWorker]
  /\ runs   = [d \in Dep |-> 0]
  /\ faults = 0

-----------------------------------------------------------------------------
(* API: triggerDeployment                                                  *)

MoveRequest(r, pc) == req' = [req EXCEPT ![r].pc = pc]

EnvironmentBusy(e) == \E d \in Dep : envOf[d] = e /\ status[d] \in Active

\* The check for an active deployment; a busy environment answers 409.
BeginTrigger(r, e) ==
  /\ req[r].pc = "idle"
  /\ req' = [req EXCEPT ![r].pc  = IF EnvironmentBusy(e) THEN "done" ELSE "checked",
                        ![r].env = e]
  /\ UNCHANGED <<status, envOf, events, job, worker, runs, faults>>

\* The transaction: the row and its queued event. The check is not repeated.
CommitTrigger(r) ==
  /\ req[r].pc = "checked"
  /\ \E d \in Dep :
       /\ ~Exists(d)
       /\ status' = [status EXCEPT ![d] = "QUEUED"]
       /\ envOf'  = [envOf EXCEPT ![d] = req[r].env]
       /\ Log(d, "queued")
       /\ req'    = [req EXCEPT ![r].pc = "created", ![r].dep = d]
  /\ UNCHANGED <<job, worker, runs, faults>>

Enqueue(r) ==
  /\ req[r].pc = "created"
  /\ job' = [job EXCEPT ![req[r].dep] = Added(@)]
  /\ MoveRequest(r, "added")
  /\ UNCHANGED <<status, envOf, events, worker, runs, faults>>

\* Redis answers the add with an error.
EnqueueFails(r) ==
  /\ req[r].pc = "created"
  /\ Fault("redis")
  /\ MoveRequest(r, "failing")
  /\ UNCHANGED <<status, envOf, events, job, worker, runs>>

LogEnqueued(r) ==
  /\ req[r].pc = "added"
  /\ Log(req[r].dep, "enqueued")
  /\ MoveRequest(r, "done")
  /\ UNCHANGED <<status, envOf, job, worker, runs, faults>>

\* The event stands in the same try as the add: if Postgres refuses it, the
\* handler takes the job for not enqueued.
LogEnqueuedFails(r) ==
  /\ req[r].pc = "added"
  /\ Fault("db")
  /\ MoveRequest(r, "failing")
  /\ UNCHANGED <<status, envOf, events, job, worker, runs>>

\* Faulty: only the event is written.
MarkFailedEventOnly(r) ==
  /\ req[r].pc = "failing"
  /\ Log(req[r].dep, "enqueue_failed")
  /\ MoveRequest(r, "done")
  /\ UNCHANGED <<status, envOf, job, worker, runs, faults>>

\* The catch block: FAILED by id alone, whatever the status is by now.
MarkFailed(r) ==
  /\ req[r].pc = "failing"
  /\ status' = [status EXCEPT ![req[r].dep] = "FAILED"]
  /\ Log(req[r].dep, "enqueue_failed")
  /\ MoveRequest(r, "done")
  /\ UNCHANGED <<envOf, job, worker, runs, faults>>

\* The API process dies, or Postgres refuses the handler's next transaction.
RequestLost(r) ==
  /\ req[r].pc \in {"checked", "created", "added", "failing"}
  /\ Fault("api")
  /\ MoveRequest(r, "done")
  /\ UNCHANGED <<status, envOf, events, job, worker, runs>>

-----------------------------------------------------------------------------
(* Worker: processDeployment                                               *)

Goto(w, pc) == worker' = [worker EXCEPT ![w].pc = pc]

\* The slot takes a waiting job and reads the row; only a QUEUED one is eligible.
StartJob(w, d) ==
  /\ worker[w].pc = "idle"
  /\ job[d].state = "waiting"
  /\ job' = [job EXCEPT ![d] = Taken(@, w)]
  /\ worker' = [worker EXCEPT ![w] =
       [pc |-> IF status[d] = "QUEUED" THEN "claiming" ELSE "skipping", dep |-> d]]
  /\ UNCHANGED <<status, envOf, events, req, runs, faults>>

\* Faulty: a claim that only looks at the id; one that takes running rows over.
ClaimWinsAlways(d)  == TRUE
ClaimWinsRunning(d) == status[d] \in {"QUEUED", "RUNNING"}

\* updateMany({ where: { id, status: QUEUED } })
ClaimWins(d) == status[d] = "QUEUED"

Claim(w) ==
  LET d == worker[w].dep IN
  /\ worker[w].pc = "claiming"
  /\ IF ClaimWins(d)
     THEN status' = [status EXCEPT ![d] = "RUNNING"] /\ Goto(w, "claimed")
     ELSE Goto(w, "skipping") /\ UNCHANGED status
  /\ UNCHANGED <<envOf, events, job, req, runs, faults>>

\* Every way not to run the deployment leaves a skipped event and completes the
\* job.
Skip(w) ==
  /\ worker[w].pc = "skipping"
  /\ Log(worker[w].dep, "skipped")
  /\ Goto(w, "ack")
  /\ UNCHANGED <<status, envOf, job, req, runs, faults>>

\* Faulty: the worker goes on without a word.
LogStartedSilently(w) ==
  /\ worker[w].pc = "claimed"
  /\ runs' = [runs EXCEPT ![worker[w].dep] = @ + 1]
  /\ Goto(w, "running")
  /\ UNCHANGED <<status, envOf, events, job, req, faults>>

LogStarted(w) ==
  /\ worker[w].pc = "claimed"
  /\ Log(worker[w].dep, "started")
  /\ runs' = [runs EXCEPT ![worker[w].dep] = @ + 1]
  /\ Goto(w, "running")
  /\ UNCHANGED <<status, envOf, job, req, faults>>

\* The simulation: its progress updates and events, up to the completed one.
Simulate(w) ==
  /\ worker[w].pc = "running"
  /\ Log(worker[w].dep, "simulated")
  /\ Goto(w, "ran")
  /\ UNCHANGED <<status, envOf, job, req, runs, faults>>

RecordSuccess(w) ==
  /\ worker[w].pc = "ran"
  /\ status' = [status EXCEPT ![worker[w].dep] = "SUCCEEDED"]
  /\ Goto(w, "succeeded")
  /\ UNCHANGED <<envOf, events, job, req, runs, faults>>

LogSucceeded(w) ==
  /\ worker[w].pc = "succeeded"
  /\ Log(worker[w].dep, "succeeded")
  /\ Goto(w, "ack")
  /\ UNCHANGED <<status, envOf, job, req, runs, faults>>

\* Simulation, success update and success event stand in one try: a database
\* call that fails in any of them, or progress of the simulation that Redis
\* refuses, leads to the catch block.
TryFails(w) ==
  /\ \/ worker[w].pc \in {"running", "ran", "succeeded"} /\ Fault("db")
     \/ worker[w].pc = "running" /\ Fault("redis")
  /\ Goto(w, "threw")
  /\ UNCHANGED <<status, envOf, events, job, req, runs>>

RecordFailure(w) ==
  /\ worker[w].pc = "threw"
  /\ status' = [status EXCEPT ![worker[w].dep] = "FAILED"]
  /\ Goto(w, "failed")
  /\ UNCHANGED <<envOf, events, job, req, runs, faults>>

LogFailed(w) ==
  /\ worker[w].pc = "failed"
  /\ Log(worker[w].dep, "failed")
  /\ Goto(w, "nack")
  /\ UNCHANGED <<status, envOf, job, req, runs, faults>>

\* Outside the try: the error leaves the handler, and the row stays as it is.
HandlerThrows(w) ==
  /\ worker[w].pc \in {"claiming", "skipping", "claimed", "threw", "failed"}
  /\ Fault("db")
  /\ Goto(w, "nack")
  /\ UNCHANGED <<status, envOf, events, job, req, runs>>

-----------------------------------------------------------------------------
(* BullMQ: what becomes of the job                                         *)

JobOf(w) == job[worker[w].dep]
Holds(w) == JobOf(w).lock = w

LeaveJob(w, left) ==
  /\ job' = IF Holds(w) THEN [job EXCEPT ![worker[w].dep] = left] ELSE job
  /\ worker' = [worker EXCEPT ![w] = IdleWorker]
  /\ UNCHANGED <<status, envOf, events, req, runs>>

CompleteJob(w) ==
  worker[w].pc = "ack" /\ LeaveJob(w, Completed(JobOf(w))) /\ UNCHANGED faults
FailJob(w) ==
  worker[w].pc = "nack" /\ LeaveJob(w, Thrown(JobOf(w))) /\ UNCHANGED faults
WorkerCrash(w) ==
  worker[w].pc # "idle" /\ LeaveJob(w, Unlocked(JobOf(w))) /\ Fault("worker")

BackoffEnds(d) ==
  /\ job[d].state = "delayed"
  /\ job' = [job EXCEPT ![d] = Due(@)]
  /\ UNCHANGED <<status, envOf, events, req, worker, runs, faults>>

RetentionEnds(d) ==
  /\ job[d].state \in {"completed", "failed"}
  /\ job' = [job EXCEPT ![d] = NoJob]
  /\ UNCHANGED <<status, envOf, events, req, worker, runs, faults>>

LockExpires(d) ==
  /\ job[d].state = "active"
  /\ job[d].lock # None
  /\ Fault("lock")
  /\ job' = [job EXCEPT ![d] = Unlocked(@)]
  /\ UNCHANGED <<status, envOf, events, req, worker, runs>>

StalledCheck(d) ==
  /\ job[d].state = "active"
  /\ job[d].lock = None
  /\ job' = [job EXCEPT ![d] = Stalled(@)]
  /\ UNCHANGED <<status, envOf, events, req, worker, runs, faults>>

-----------------------------------------------------------------------------
ApiStep(r) ==
  \/ \E e \in Env : BeginTrigger(r, e)
  \/ CommitTrigger(r)
  \/ Enqueue(r)
  \/ EnqueueFails(r)
  \/ LogEnqueued(r)
  \/ LogEnqueuedFails(r)
  \/ MarkFailed(r)
  \/ RequestLost(r)

WorkerStep(w) ==
  \/ \E d \in Dep : StartJob(w, d)
  \/ Claim(w)
  \/ Skip(w)
  \/ LogStarted(w)
  \/ Simulate(w)
  \/ RecordSuccess(w)
  \/ LogSucceeded(w)
  \/ TryFails(w)
  \/ RecordFailure(w)
  \/ LogFailed(w)
  \/ HandlerThrows(w)
  \/ CompleteJob(w)
  \/ FailJob(w)
  \/ WorkerCrash(w)

QueueStep(d) ==
  \/ BackoffEnds(d)
  \/ RetentionEnds(d)
  \/ LockExpires(d)
  \/ StalledCheck(d)

Next ==
  \/ \E r \in Request : ApiStep(r)
  \/ \E w \in Worker : WorkerStep(w)
  \/ \E d \in Dep : QueueStep(d)

Spec == Init /\ [][Next]_vars

\* A handler that was accepted runs to its end, workers and BullMQ's timers keep
\* going; no request has to come and no fault has to happen.
Fairness ==
  /\ \A r \in Request : WF_vars(CommitTrigger(r) \/ Enqueue(r) \/ LogEnqueued(r)
                                \/ MarkFailed(r))
  /\ \A d \in Dep : WF_vars(\E w \in Worker : StartJob(w, d))
  /\ \A w \in Worker : WF_vars(Claim(w) \/ Skip(w) \/ LogStarted(w) \/ Simulate(w)
                               \/ RecordSuccess(w) \/ LogSucceeded(w)
                               \/ RecordFailure(w) \/ LogFailed(w)
                               \/ CompleteJob(w) \/ FailJob(w))
  /\ \A d \in Dep : WF_vars(BackoffEnds(d) \/ StalledCheck(d))

FairSpec == Spec /\ Fairness

-----------------------------------------------------------------------------
(* Invariants                                                              *)

TypeOK ==
  /\ status \in [Dep -> DeploymentStatus \cup {"NONE"}]
  /\ envOf \in [Dep -> Env \cup {None}]
  /\ events \in [Dep -> SUBSET EventType]
  /\ job \in [Dep -> [state : JobState, attempts : Nat, stalls : Nat,
                      lock : Worker \cup {None}]]
  /\ req \in [Request -> [pc : RequestPc, env : Env \cup {None}, dep : Dep \cup {None}]]
  /\ worker \in [Worker -> [pc : WorkerPc, dep : Dep \cup {None}]]
  /\ runs \in [Dep -> Nat]
  /\ faults \in 0..MaxFaults

\* A deployment is executed at most once, although its job has three attempts and
\* a stalled job is delivered to a second slot while the first still works
\* (deployments.queue.ts:66-148).
ExecutedOnce == \A d \in Dep : runs[d] <= 1

\* The event log never tells two stories: no deployment is logged both succeeded
\* and failed by the worker, and what succeeded was started and simulated
\* (deployments.queue.ts:152-217).
OneStory ==
  \A d \in Dep :
    /\ {"succeeded", "failed"} \subseteq events[d] => FALSE
    /\ "succeeded" \in events[d] => {"queued", "started", "simulated"} \subseteq events[d]
    /\ "failed" \in events[d] => "started" \in events[d] /\ status[d] = "FAILED"

\* Once nobody works on a deployment and nothing is queued for it, it is settled
\* and its log tells how: executed to the end, failed on the way, or never enqueued.
\* Stated for the failures the code handles, an add or a progress report Redis refuses
\* and a lost job lock
\* (deployment.service.ts:113-154, deployments.queue.ts:66-148).
AtRest(d) ==
  /\ Exists(d)
  /\ job[d].state \notin {"waiting", "active", "delayed"}
  /\ \A w \in Worker : worker[w].dep # d
  /\ \A r \in Request : req[r].dep = d => req[r].pc = "done"

OutcomeExplained ==
  \A d \in Dep : AtRest(d) =>
    \/ /\ status[d] = "SUCCEEDED"
       /\ events[d] \ {"skipped"} = {"queued", "enqueued", "started", "simulated",
                                     "succeeded"}
    \/ /\ status[d] = "FAILED"
       /\ \/ events[d] = {"queued", "enqueue_failed"}
          \/ events[d] \ {"skipped"} = {"queued", "enqueued", "started", "failed"}

-----------------------------------------------------------------------------
(* The inductive invariant the proofs rest on                              *)

\* A slot between the claim and the end of its log owns the deployment.
Working    == {"claimed", "running", "ran", "succeeded", "threw", "failed"}
Owns(w, d) == worker[w].pc \in Working /\ worker[w].dep = d

\* An owner is alone, and finds the log where it left it: the outcome is still to be
\* written, whatever the API made of the status meanwhile.
OwnerSound(w, d) ==
  /\ status[d] \notin {"NONE", "QUEUED"}
  /\ {"succeeded", "failed"} \cap events[d] = {}
  /\ worker[w].pc = "claimed" => runs[d] = 0
  /\ worker[w].pc # "claimed" => "started" \in events[d]
  /\ worker[w].pc \in {"ran", "succeeded"} => "simulated" \in events[d]
  /\ worker[w].pc = "failed" => status[d] = "FAILED"
  /\ \A v \in Worker : Owns(v, d) => v = w

\* What was never claimed has no run and no line by a worker.
StorySound(d) ==
  /\ runs[d] <= 1
  /\ Exists(d) => "queued" \in events[d]
  /\ status[d] \in {"NONE", "QUEUED"} =>
       runs[d] = 0 /\ {"started", "simulated", "succeeded", "failed"} \cap events[d] = {}
  /\ "succeeded" \in events[d] =>
       {"started", "simulated"} \subseteq events[d] /\ "failed" \notin events[d]
  /\ "failed" \in events[d] => "started" \in events[d] /\ status[d] = "FAILED"
  /\ \A w \in Worker : Owns(w, d) => OwnerSound(w, d)

\* A handler past its insert, and a slot with a job, have a deployment.
ProcessesSound ==
  /\ \A r \in Request : req[r].pc \in {"created", "added", "failing"} =>
       req[r].dep \in Dep /\ Exists(req[r].dep)
  /\ \A w \in Worker : worker[w].pc # "idle" => worker[w].dep \in Dep

DeploymentInv ==
  /\ TypeOK
  /\ ProcessesSound
  /\ \A d \in Dep : StorySound(d)

-----------------------------------------------------------------------------
(* Liveness                                                                *)

\* Every deployment leaves its environment free in the end, with every log told to
\* its end, when Redis refuses the add or a progress report and when job locks are lost
\* (deployment.service.ts:113-154, deployments.queue.ts:66-148).
EnvironmentFreed ==
  \A e \in Env : EnvironmentBusy(e) ~> (~EnvironmentBusy(e) /\ OutcomeExplained)

-----------------------------------------------------------------------------
(* What the code says of itself and does not keep                          *)

\* "An active deployment already exists for this environment"
\* (deployment.service.ts:84): the conflict the check is there to refuse.
OneActivePerEnvironment ==
  \A d, e \in Dep : /\ status[d] \in Active
                    /\ status[e] \in Active
                    /\ envOf[d] = envOf[e]
                    => d = e
=============================================================================
