-------------------------- MODULE DeploymentsProofs --------------------------
(***************************************************************************)
(* Proofs about Deployments, for every set of deployments, environments,   *)
(* requests and worker slots, and every bound on faults and attempts: a    *)
(* deployment is executed at most once and its log never tells two         *)
(* stories. DeploymentInv is what keeps both true: the slot that won the   *)
(* claim owns the deployment until it has written the outcome.             *)
(***************************************************************************)
EXTENDS Deployments, TLAPS

JobType     == [state : JobState, attempts : Nat, stalls : Nat, lock : Worker \cup {None}]
RequestType == [pc : RequestPc, env : Env \cup {None}, dep : Dep \cup {None}]
SlotType    == [pc : WorkerPc, dep : Dep \cup {None}]

-----------------------------------------------------------------------------
(* Type correctness                                                        *)

\* The empty database and the idle processes satisfy the invariant.
LEMMA InitDeployment == Init => DeploymentInv
<1> SUFFICES ASSUME Init PROVE DeploymentInv
  OBVIOUS
<1>1. 0 \in 0..MaxFaults
  BY DeploymentsAssumption
<1>2. TypeOK
  BY <1>1 DEF Init, TypeOK, NoJob, IdleRequest, IdleWorker, JobState, RequestPc, WorkerPc
<1>3. ProcessesSound
  BY DEF Init, ProcessesSound, IdleRequest, IdleWorker
<1>4. ASSUME NEW d \in Dep PROVE StorySound(d)
  BY DEF Init, StorySound, Exists, Owns, Working, IdleWorker
<1> QED
  BY <1>2, <1>3, <1>4 DEF DeploymentInv

\* Moving a slot or a handler to another point of its code keeps its type, and so does
\* a line more in a log.
LEMMA Moves ==
  ASSUME TypeOK
  PROVE  /\ \A w \in Worker, pc \in WorkerPc : Goto(w, pc) => worker' \in [Worker -> SlotType]
         /\ \A r \in Request, pc \in RequestPc :
              MoveRequest(r, pc) => req' \in [Request -> RequestType]
         /\ \A type \in EventType : \A d :
              Log(d, type) => events' \in [Dep -> SUBSET EventType]
         /\ \A f : Fault(f) => faults' \in 0..MaxFaults
<1>1. ASSUME NEW w \in Worker, NEW pc \in WorkerPc, Goto(w, pc)
      PROVE  worker' \in [Worker -> SlotType]
  BY <1>1 DEF TypeOK, Goto, SlotType
<1>2. ASSUME NEW r \in Request, NEW pc \in RequestPc, MoveRequest(r, pc)
      PROVE  req' \in [Request -> RequestType]
  BY <1>2 DEF TypeOK, MoveRequest, RequestType
<1>3. ASSUME NEW d, NEW type \in EventType, Log(d, type)
      PROVE  events' \in [Dep -> SUBSET EventType]
  BY <1>3 DEF TypeOK, Log
<1>4. ASSUME NEW f, Fault(f)
      PROVE  faults' \in 0..MaxFaults
  BY <1>4, DeploymentsAssumption DEF Fault, TypeOK
<1> QED
  BY <1>1, <1>2, <1>3, <1>4

\* What BullMQ does to a job keeps it well typed.
LEMMA JobKept ==
  ASSUME NEW j \in JobType
  PROVE  /\ NoJob \in JobType /\ Added(j) \in JobType
         /\ \A w \in Worker : Taken(j, w) \in JobType
         /\ Completed(j) \in JobType /\ Unlocked(j) \in JobType /\ Due(j) \in JobType
         /\ Thrown(j) \in JobType /\ Stalled(j) \in JobType
<1>1. NoJob \in JobType /\ Added(j) \in JobType
  BY DEF NoJob, Added, JobType, JobState
<1>2. /\ \A w \in Worker : Taken(j, w) \in JobType
      /\ Completed(j) \in JobType /\ Unlocked(j) \in JobType /\ Due(j) \in JobType
  BY DEF Taken, Completed, Unlocked, Due, JobType, JobState
<1>3. j.attempts + 1 \in Nat /\ j.stalls + 1 \in Nat
  BY DEF JobType
<1>4. \A n \in Nat, s \in JobState :
        [j EXCEPT !.attempts = n, !.state = s, !.lock = None] \in JobType
  BY DEF JobType
<1>5. \A n \in Nat, s \in JobState : [j EXCEPT !.stalls = n, !.state = s] \in JobType
  BY DEF JobType
<1>6. Thrown(j) \in JobType
  BY <1>3, <1>4 DEF Thrown, JobState
<1>7. Stalled(j) \in JobType
  BY <1>3, <1>5 DEF Stalled, JobState
<1> QED
  BY <1>1, <1>2, <1>6, <1>7

\* What happens to the job of a deployment keeps the queue well typed.
LEMMA JobMoves ==
  ASSUME TypeOK, NEW d \in Dep, NEW j,
         \/ j \in {NoJob, Added(job[d]), Completed(job[d]), Thrown(job[d]),
                   Unlocked(job[d]), Stalled(job[d]), Due(job[d])}
         \/ \E w \in Worker : j = Taken(job[d], w)
  PROVE  [job EXCEPT ![d] = j] \in [Dep -> JobType]
<1>1. job \in [Dep -> JobType] /\ job[d] \in JobType
  BY DEF TypeOK, JobType
<1>2. j \in JobType
  BY <1>1, JobKept
<1> QED
  BY <1>1, <1>2

\* Every step of a handler keeps every variable in its type.
LEMMA ApiType ==
  ASSUME TypeOK, ProcessesSound, NEW r \in Request, ApiStep(r) PROVE TypeOK'
<1>a. {"checked", "created", "added", "failing", "done"} \subseteq RequestPc
  BY DEF RequestPc
<1>b. {"queued", "enqueued", "enqueue_failed"} \subseteq EventType
  BY DEF EventType
<1>c. req[r].pc = "created" => req[r].dep \in Dep
  BY DEF ProcessesSound
<1>1. ASSUME NEW e \in Env, BeginTrigger(r, e) PROVE TypeOK'
  <2>1. PICK pc \in RequestPc : req' = [req EXCEPT ![r].pc = pc, ![r].env = e]
    BY <1>1, <1>a DEF BeginTrigger
  <2>2. req' \in [Request -> RequestType]
    BY <2>1 DEF TypeOK, RequestType
  <2> QED
    BY <1>1, <2>2 DEF BeginTrigger, TypeOK, RequestType
<1>2. CASE CommitTrigger(r)
  <2>1. PICK d \in Dep :
          /\ status' = [status EXCEPT ![d] = "QUEUED"]
          /\ envOf'  = [envOf EXCEPT ![d] = req[r].env]
          /\ Log(d, "queued")
          /\ req'    = [req EXCEPT ![r].pc = "created", ![r].dep = d]
    BY <1>2 DEF CommitTrigger
  <2>2. req' \in [Request -> RequestType]
    BY <2>1, <1>a DEF TypeOK, RequestType
  <2>3. /\ status' \in [Dep -> DeploymentStatus \cup {"NONE"}]
        /\ envOf' \in [Dep -> Env \cup {None}]
    BY <2>1 DEF TypeOK, DeploymentStatus, Active
  <2>4. events' \in [Dep -> SUBSET EventType]
    BY <2>1, <1>b, Moves
  <2> QED
    BY <1>2, <2>2, <2>3, <2>4 DEF CommitTrigger, TypeOK, RequestType
<1>3. CASE Enqueue(r)
  <2>1. job' \in [Dep -> JobType]
    BY <1>3, <1>c, JobMoves DEF Enqueue
  <2>2. req' \in [Request -> RequestType]
    BY <1>3, <1>a, Moves DEF Enqueue
  <2> QED
    BY <1>3, <2>1, <2>2 DEF Enqueue, TypeOK, RequestType, JobType
<1>4. CASE EnqueueFails(r) \/ LogEnqueuedFails(r) \/ RequestLost(r)
  <2>1. req' \in [Request -> RequestType] /\ faults' \in 0..MaxFaults
    BY <1>4, <1>a, Moves DEF EnqueueFails, LogEnqueuedFails, RequestLost
  <2> QED
    BY <1>4, <2>1 DEF EnqueueFails, LogEnqueuedFails, RequestLost, TypeOK, RequestType
<1>5. CASE LogEnqueued(r)
  <2>1. req' \in [Request -> RequestType] /\ events' \in [Dep -> SUBSET EventType]
    BY <1>5, <1>a, <1>b, Moves DEF LogEnqueued
  <2> QED
    BY <1>5, <2>1 DEF LogEnqueued, TypeOK, RequestType
<1>6. CASE MarkFailed(r)
  <2>1. req' \in [Request -> RequestType] /\ events' \in [Dep -> SUBSET EventType]
    BY <1>6, <1>a, <1>b, Moves DEF MarkFailed
  <2>2. status' \in [Dep -> DeploymentStatus \cup {"NONE"}]
    BY <1>6 DEF MarkFailed, TypeOK, DeploymentStatus, Settled
  <2> QED
    BY <1>6, <2>1, <2>2 DEF MarkFailed, TypeOK, RequestType
<1> QED
  BY <1>1, <1>2, <1>3, <1>4, <1>5, <1>6 DEF ApiStep

\* Every step of a slot keeps every variable in its type.
LEMMA WorkerType ==
  ASSUME TypeOK, ProcessesSound, NEW w \in Worker, WorkerStep(w) PROVE TypeOK'
<1>a. WorkerPc = {"idle", "claiming", "skipping", "claimed", "running", "ran",
                  "succeeded", "threw", "failed", "ack", "nack"}
  BY DEF WorkerPc
<1>b. {"skipped", "started", "simulated", "succeeded", "failed"} \subseteq EventType
  BY DEF EventType
<1>c. worker[w].pc # "idle" => worker[w].dep \in Dep
  BY DEF ProcessesSound
<1>1. ASSUME NEW d \in Dep, StartJob(w, d) PROVE TypeOK'
  <2>1. job' \in [Dep -> JobType]
    BY <1>1, JobMoves DEF StartJob
  <2>2. worker' \in [Worker -> SlotType]
    BY <1>1, <1>a DEF StartJob, TypeOK, SlotType
  <2> QED
    BY <1>1, <2>1, <2>2 DEF StartJob, TypeOK, JobType, SlotType
<1>2. CASE Claim(w)
  <2>1. worker' \in [Worker -> SlotType]
    BY <1>2, <1>a, Moves DEF Claim
  <2>2. status' \in [Dep -> DeploymentStatus \cup {"NONE"}]
    BY <1>2 DEF Claim, TypeOK, DeploymentStatus, Active
  <2> QED
    BY <1>2, <2>1, <2>2 DEF Claim, TypeOK, SlotType
<1>3. CASE Skip(w) \/ Simulate(w) \/ LogSucceeded(w) \/ LogFailed(w)
  <2>1. worker' \in [Worker -> SlotType] /\ events' \in [Dep -> SUBSET EventType]
    BY <1>3, <1>a, <1>b, Moves DEF Skip, Simulate, LogSucceeded, LogFailed
  <2> QED
    BY <1>3, <2>1 DEF Skip, Simulate, LogSucceeded, LogFailed, TypeOK, SlotType
<1>4. CASE LogStarted(w)
  <2>1. worker' \in [Worker -> SlotType] /\ events' \in [Dep -> SUBSET EventType]
    BY <1>4, <1>a, <1>b, Moves DEF LogStarted
  <2>2. runs' \in [Dep -> Nat]
    BY <1>4, <1>c DEF LogStarted, TypeOK
  <2> QED
    BY <1>4, <2>1, <2>2 DEF LogStarted, TypeOK, SlotType
<1>5. CASE RecordSuccess(w) \/ RecordFailure(w)
  <2>1. worker' \in [Worker -> SlotType]
    BY <1>5, <1>a, Moves DEF RecordSuccess, RecordFailure
  <2>2. status' \in [Dep -> DeploymentStatus \cup {"NONE"}]
    BY <1>5 DEF RecordSuccess, RecordFailure, TypeOK, DeploymentStatus, Settled
  <2> QED
    BY <1>5, <2>1, <2>2 DEF RecordSuccess, RecordFailure, TypeOK, SlotType
<1>6. CASE TryFails(w) \/ HandlerThrows(w)
  <2>1. worker' \in [Worker -> SlotType] /\ faults' \in 0..MaxFaults
    BY <1>6, <1>a, Moves DEF TryFails, HandlerThrows
  <2> QED
    BY <1>6, <2>1 DEF TryFails, HandlerThrows, TypeOK, SlotType
<1>7. CASE CompleteJob(w) \/ FailJob(w) \/ WorkerCrash(w)
  <2>1. job' \in [Dep -> JobType]
    <3>1. CASE Holds(w)
      BY <1>7, <1>c, <3>1, JobMoves DEF CompleteJob, FailJob, WorkerCrash, LeaveJob, JobOf
    <3>2. CASE ~Holds(w)
      BY <1>7, <3>2 DEF CompleteJob, FailJob, WorkerCrash, LeaveJob, TypeOK, JobType
    <3> QED
      BY <3>1, <3>2
  <2>2. worker' \in [Worker -> SlotType]
    BY <1>7, <1>a DEF CompleteJob, FailJob, WorkerCrash, LeaveJob, IdleWorker, TypeOK, SlotType
  <2>3. faults' \in 0..MaxFaults
    BY <1>7, Moves DEF CompleteJob, FailJob, WorkerCrash, TypeOK
  <2>4. UNCHANGED <<status, envOf, events, req, runs>>
    BY <1>7 DEF CompleteJob, FailJob, WorkerCrash, LeaveJob
  <2> QED
    BY <2>1, <2>2, <2>3, <2>4 DEF TypeOK, JobType, SlotType
<1> QED
  BY <1>1, <1>2, <1>3, <1>4, <1>5, <1>6, <1>7 DEF WorkerStep

\* Every step of the queue keeps every variable in its type.
LEMMA QueueType ==
  ASSUME TypeOK, NEW d \in Dep, QueueStep(d) PROVE TypeOK'
<1>1. job' \in [Dep -> JobType]
  BY JobMoves DEF QueueStep, BackoffEnds, RetentionEnds, LockExpires, StalledCheck
<1>2. faults' \in 0..MaxFaults
  BY Moves DEF QueueStep, BackoffEnds, RetentionEnds, LockExpires, StalledCheck, TypeOK
<1>3. UNCHANGED <<status, envOf, events, req, worker, runs>>
  BY DEF QueueStep, BackoffEnds, RetentionEnds, LockExpires, StalledCheck
<1> QED
  BY <1>1, <1>2, <1>3 DEF TypeOK, JobType

-----------------------------------------------------------------------------
(* The story of a deployment                                               *)

\* It goes on as it was after a step that neither moves its status nor counts a run,
\* logs what is not the worker's to log, and makes no slot its owner.
LEMMA StoryFrame ==
  ASSUME NEW d \in Dep, StorySound(d), status'[d] = status[d], runs'[d] = runs[d],
         NEW lines \in SUBSET {"queued", "enqueued", "skipped"},
         events'[d] = events[d] \cup lines,
         \A w \in Worker : Owns(w, d)' => worker'[w] = worker[w]
  PROVE  StorySound(d)'
<1>1. /\ runs'[d] <= 1
      /\ Exists(d)' => "queued" \in events'[d]
      /\ status'[d] \in {"NONE", "QUEUED"} =>
           /\ runs'[d] = 0
           /\ {"started", "simulated", "succeeded", "failed"} \cap events'[d] = {}
      /\ "succeeded" \in events'[d] =>
           {"started", "simulated"} \subseteq events'[d] /\ "failed" \notin events'[d]
      /\ "failed" \in events'[d] => "started" \in events'[d] /\ status'[d] = "FAILED"
  BY DEF StorySound, Exists
<1>2. \A w \in Worker : Owns(w, d)' => Owns(w, d)
  BY DEF Owns
<1>3. ASSUME NEW w \in Worker, Owns(w, d)'
      PROVE  OwnerSound(w, d)'
  <2>1. OwnerSound(w, d) /\ worker'[w] = worker[w]
    BY <1>2, <1>3 DEF StorySound
  <2>2. \A v \in Worker : Owns(v, d)' => v = w
    BY <1>2, <2>1 DEF OwnerSound
  <2> QED
    BY <2>1, <2>2 DEF OwnerSound
<1> QED
  BY <1>1, <1>3 DEF StorySound

\* The owner moves on alone: nobody else owns the deployment before or after.
LEMMA OwnerMoves ==
  ASSUME TypeOK, NEW w \in Worker, NEW pc, Goto(w, pc), NEW d \in Dep, StorySound(d),
         Owns(w, d)
  PROVE  /\ OwnerSound(w, d)
         /\ worker'[w].pc = pc /\ worker'[w].dep = d
         /\ \A v \in Worker : Owns(v, d)' => v = w
<1>1. OwnerSound(w, d)
  BY DEF StorySound
<1>2. worker'[w].pc = pc /\ worker'[w].dep = d /\ \A v \in Worker \ {w} : worker'[v] = worker[v]
  BY DEF TypeOK, Goto, Owns
<1>3. \A v \in Worker : Owns(v, d)' => v = w
  BY <1>1, <1>2 DEF OwnerSound, Owns
<1> QED
  BY <1>1, <1>2, <1>3

\* The steps of an owner.
OwnerStep(w) ==
  \/ LogStarted(w) \/ Simulate(w) \/ RecordSuccess(w) \/ LogSucceeded(w)
  \/ TryFails(w) \/ RecordFailure(w) \/ LogFailed(w)

\* An owner continues the story of its deployment where it left it.
LEMMA OwnerTells ==
  ASSUME TypeOK, NEW w \in Worker, OwnerStep(w), NEW d \in Dep, StorySound(d),
         worker[w].dep = d
  PROVE  StorySound(d)'
<1>a. /\ status \in [Dep -> DeploymentStatus \cup {"NONE"}]
      /\ events \in [Dep -> SUBSET EventType]
      /\ runs \in [Dep -> Nat]
  BY DEF TypeOK
<1>b. Owns(w, d)
  BY DEF OwnerStep, LogStarted, Simulate, RecordSuccess, LogSucceeded, TryFails,
     RecordFailure, LogFailed, Owns, Working
<1>1. CASE LogStarted(w)
  <2>1. /\ OwnerSound(w, d) /\ worker[w].pc = "claimed" /\ worker'[w].pc = "running"
        /\ \A v \in Worker : Owns(v, d)' => v = w
    BY <1>1, <1>b, OwnerMoves DEF LogStarted
  <2>2. events'[d] = events[d] \cup {"started"} /\ runs'[d] = 1 /\ status'[d] = status[d]
    BY <1>1, <1>a, <2>1 DEF LogStarted, Log, OwnerSound
  <2> QED
    BY <2>1, <2>2 DEF StorySound, OwnerSound, Exists
<1>2. CASE Simulate(w)
  <2>1. /\ OwnerSound(w, d) /\ worker[w].pc = "running" /\ worker'[w].pc = "ran"
        /\ \A v \in Worker : Owns(v, d)' => v = w
    BY <1>2, <1>b, OwnerMoves DEF Simulate
  <2>2. /\ events'[d] = events[d] \cup {"simulated"}
        /\ runs'[d] = runs[d] /\ status'[d] = status[d]
    BY <1>2, <1>a DEF Simulate, Log
  <2> QED
    BY <2>1, <2>2 DEF StorySound, OwnerSound, Exists
<1>3. CASE RecordSuccess(w)
  <2>1. /\ OwnerSound(w, d) /\ worker[w].pc = "ran" /\ worker'[w].pc = "succeeded"
        /\ \A v \in Worker : Owns(v, d)' => v = w
    BY <1>3, <1>b, OwnerMoves DEF RecordSuccess
  <2>2. events'[d] = events[d] /\ runs'[d] = runs[d] /\ status'[d] = "SUCCEEDED"
    BY <1>3, <1>a DEF RecordSuccess
  <2> QED
    BY <2>1, <2>2 DEF StorySound, OwnerSound, Exists
<1>4. CASE LogSucceeded(w)
  <2>1. /\ OwnerSound(w, d) /\ worker[w].pc = "succeeded" /\ worker'[w].pc = "ack"
        /\ \A v \in Worker : Owns(v, d)' => v = w
    BY <1>4, <1>b, OwnerMoves DEF LogSucceeded
  <2>2. /\ events'[d] = events[d] \cup {"succeeded"}
        /\ runs'[d] = runs[d] /\ status'[d] = status[d]
    BY <1>4, <1>a DEF LogSucceeded, Log
  <2>3. \A v \in Worker : ~Owns(v, d)'
    BY <2>1 DEF Owns, Working
  <2> QED
    BY <2>1, <2>2, <2>3 DEF StorySound, OwnerSound, Exists
<1>5. CASE TryFails(w)
  <2>1. /\ OwnerSound(w, d) /\ worker[w].pc # "claimed" /\ worker'[w].pc = "threw"
        /\ \A v \in Worker : Owns(v, d)' => v = w
    BY <1>5, <1>b, OwnerMoves DEF TryFails
  <2>2. events'[d] = events[d] /\ runs'[d] = runs[d] /\ status'[d] = status[d]
    BY <1>5 DEF TryFails
  <2> QED
    BY <2>1, <2>2 DEF StorySound, OwnerSound, Exists
<1>6. CASE RecordFailure(w)
  <2>1. /\ OwnerSound(w, d) /\ worker[w].pc = "threw" /\ worker'[w].pc = "failed"
        /\ \A v \in Worker : Owns(v, d)' => v = w
    BY <1>6, <1>b, OwnerMoves DEF RecordFailure
  <2>2. events'[d] = events[d] /\ runs'[d] = runs[d] /\ status'[d] = "FAILED"
    BY <1>6, <1>a DEF RecordFailure
  <2> QED
    BY <2>1, <2>2 DEF StorySound, OwnerSound, Exists
<1>7. CASE LogFailed(w)
  <2>1. /\ OwnerSound(w, d) /\ worker[w].pc = "failed" /\ worker'[w].pc = "nack"
        /\ \A v \in Worker : Owns(v, d)' => v = w
    BY <1>7, <1>b, OwnerMoves DEF LogFailed
  <2>2. /\ events'[d] = events[d] \cup {"failed"}
        /\ runs'[d] = runs[d] /\ status'[d] = status[d]
    BY <1>7, <1>a DEF LogFailed, Log
  <2>3. \A v \in Worker : ~Owns(v, d)'
    BY <2>1 DEF Owns, Working
  <2> QED
    BY <2>1, <2>2, <2>3 DEF StorySound, OwnerSound, Exists
<1> QED
  BY <1>1, <1>2, <1>3, <1>4, <1>5, <1>6, <1>7 DEF OwnerStep

\* The claim of a QUEUED deployment, which nobody owns and nobody ever ran, makes its
\* winner the owner.
LEMMA ClaimOwns ==
  ASSUME TypeOK, NEW w \in Worker, Claim(w), NEW d \in Dep, StorySound(d),
         worker[w].dep = d, ClaimWins(d)
  PROVE  StorySound(d)'
<1>1. /\ status[d] = "QUEUED" /\ status'[d] = "RUNNING"
      /\ events'[d] = events[d] /\ runs'[d] = runs[d]
  BY DEF Claim, ClaimWins, TypeOK
<1>2. worker'[w].pc = "claimed" /\ \A v \in Worker \ {w} : worker'[v] = worker[v]
  BY DEF Claim, Goto, TypeOK
<1>3. \A v \in Worker : ~Owns(v, d)
  BY <1>1 DEF StorySound, OwnerSound
<1>4. \A v \in Worker : Owns(v, d)' => v = w
  BY <1>2, <1>3 DEF Owns
<1> QED
  BY <1>1, <1>2, <1>4 DEF StorySound, OwnerSound, Exists

\* The insert begins a story, and the catch block of the API, whose FAILED may come
\* when a worker is already at it, does not spoil one.
LEMMA ApiTells ==
  ASSUME TypeOK, ProcessesSound, NEW r \in Request, ApiStep(r), NEW d \in Dep, StorySound(d)
  PROVE  StorySound(d)'
<1>a. /\ status \in [Dep -> DeploymentStatus \cup {"NONE"}]
      /\ events \in [Dep -> SUBSET EventType]
  BY DEF TypeOK
<1>1. worker' = worker /\ runs' = runs
  BY DEF ApiStep, BeginTrigger, CommitTrigger, Enqueue, EnqueueFails, LogEnqueued,
     LogEnqueuedFails, MarkFailed, RequestLost
<1>2. ASSUME NEW p \in Dep, ~Exists(p), status' = [status EXCEPT ![p] = "QUEUED"],
             Log(p, "queued")
      PROVE  StorySound(d)'
  <2>1. CASE d = p
    <3>1. /\ status[d] = "NONE" /\ status'[d] = "QUEUED"
          /\ events'[d] = events[d] \cup {"queued"}
      BY <1>a, <1>2, <2>1 DEF Exists, Log
    <3>2. \A w \in Worker : ~Owns(w, d)
      BY <3>1 DEF StorySound, OwnerSound
    <3> QED
      BY <1>1, <3>1, <3>2 DEF StorySound, Exists, Owns
  <2>2. CASE d # p
    <3>1. status'[d] = status[d] /\ events'[d] = events[d] \cup {}
      BY <1>a, <1>2, <2>2 DEF Log
    <3> QED
      BY <1>1, <3>1, StoryFrame
  <2> QED
    BY <2>1, <2>2
<1>3. CASE LogEnqueued(r)
  <2>1. status'[d] = status[d]
    BY <1>3 DEF LogEnqueued
  <2>2. CASE req[r].dep = d
    <3>1. events'[d] = events[d] \cup {"enqueued"}
      BY <1>a, <1>3, <2>2 DEF LogEnqueued, Log
    <3> QED
      BY <1>1, <2>1, <3>1, StoryFrame
  <2>3. CASE req[r].dep # d
    <3>1. events'[d] = events[d] \cup {}
      BY <1>a, <1>3, <2>3 DEF LogEnqueued, Log
    <3> QED
      BY <1>1, <2>1, <3>1, StoryFrame
  <2> QED
    BY <2>2, <2>3
<1>4. CASE MarkFailed(r)
  <2>1. CASE req[r].dep = d
    <3>1. Exists(d)
      BY <1>4, <2>1 DEF ProcessesSound, MarkFailed
    <3>2. /\ status'[d] = "FAILED"
          /\ events'[d] = events[d] \cup {"enqueue_failed"}
      BY <1>a, <1>4, <2>1 DEF MarkFailed, Log
    <3>3. \A w \in Worker : Owns(w, d)' = Owns(w, d)
      BY <1>1 DEF Owns
    <3>4. ASSUME NEW w \in Worker, Owns(w, d) PROVE OwnerSound(w, d)'
      <4>1. OwnerSound(w, d)
        BY <3>4 DEF StorySound
      <4> QED
        BY <1>1, <3>2, <3>3, <4>1 DEF OwnerSound
    <3> QED
      BY <1>1, <3>1, <3>2, <3>3, <3>4 DEF StorySound, Exists
  <2>2. CASE req[r].dep # d
    <3>1. status'[d] = status[d] /\ events'[d] = events[d] \cup {}
      BY <1>a, <1>4, <2>2 DEF MarkFailed, Log
    <3> QED
      BY <1>1, <3>1, StoryFrame
  <2> QED
    BY <2>1, <2>2
<1>5. ASSUME UNCHANGED <<status, events>> PROVE StorySound(d)'
  <2>1. events'[d] = events[d] \cup {}
    BY <1>5
  <2> QED
    BY <1>1, <1>5, <2>1, StoryFrame
<1> QED
  BY <1>2, <1>3, <1>4, <1>5 DEF ApiStep, BeginTrigger, CommitTrigger, Enqueue, EnqueueFails,
     LogEnqueuedFails, RequestLost

\* Every step of a slot keeps every story.
LEMMA WorkerTells ==
  ASSUME TypeOK, ProcessesSound, NEW w \in Worker, WorkerStep(w), NEW d \in Dep, StorySound(d)
  PROVE  StorySound(d)'
<1>a. /\ status \in [Dep -> DeploymentStatus \cup {"NONE"}]
      /\ events \in [Dep -> SUBSET EventType]
      /\ runs \in [Dep -> Nat]
      /\ worker \in [Worker -> SlotType]
  BY DEF TypeOK, SlotType
<1>1. CASE worker[w].dep = d /\ OwnerStep(w)
  BY <1>1, OwnerTells
<1>2. CASE worker[w].dep = d /\ Claim(w) /\ ClaimWins(d)
  BY <1>2, ClaimOwns
<1>3. CASE worker[w].dep # d /\ (OwnerStep(w) \/ Claim(w))
  <2>1. \A v \in Worker : Owns(v, d)' => worker'[v] = worker[v]
    <3>1. PICK pc : Goto(w, pc)
      BY <1>3 DEF OwnerStep, LogStarted, Simulate, RecordSuccess, LogSucceeded, TryFails,
         RecordFailure, LogFailed, Claim
    <3> QED
      BY <1>a, <1>3, <3>1 DEF Goto, Owns, SlotType
  <2>2. status'[d] = status[d]
    BY <1>a, <1>3 DEF OwnerStep, LogStarted, Simulate, RecordSuccess, LogSucceeded,
       TryFails, RecordFailure, LogFailed, Claim
  <2>3. runs'[d] = runs[d]
    BY <1>a, <1>3 DEF OwnerStep, LogStarted, Simulate, RecordSuccess, LogSucceeded,
       TryFails, RecordFailure, LogFailed, Claim
  <2>4. events'[d] = events[d] \cup {}
    BY <1>a, <1>3 DEF OwnerStep, LogStarted, Simulate, RecordSuccess, LogSucceeded,
       TryFails, RecordFailure, LogFailed, Claim, Log
  <2> QED
    BY <2>1, <2>2, <2>3, <2>4, StoryFrame
<1>4. CASE \/ Claim(w) /\ ~ClaimWins(worker[w].dep)
           \/ Skip(w) \/ HandlerThrows(w)
           \/ CompleteJob(w) \/ FailJob(w) \/ WorkerCrash(w)
           \/ \E p \in Dep : StartJob(w, p)
  <2>1. status' = status /\ runs' = runs
    BY <1>4 DEF Claim, Skip, HandlerThrows, CompleteJob, FailJob, WorkerCrash, LeaveJob,
       StartJob
  <2>2. worker'[w].pc \notin Working /\ \A v \in Worker \ {w} : worker'[v] = worker[v]
    BY <1>4, <1>a DEF Claim, Skip, HandlerThrows, CompleteJob, FailJob, WorkerCrash, LeaveJob,
       StartJob, Goto, IdleWorker, Working, SlotType
  <2>3. \A v \in Worker : Owns(v, d)' => worker'[v] = worker[v]
    BY <2>2 DEF Owns
  <2>4. events'[d] = events[d] \cup {} \/ events'[d] = events[d] \cup {"skipped"}
    BY <1>4, <1>a DEF Claim, Skip, HandlerThrows, CompleteJob, FailJob, WorkerCrash, LeaveJob,
       StartJob, Log
  <2> QED
    BY <2>1, <2>3, <2>4, StoryFrame
<1> QED
  BY <1>1, <1>2, <1>3, <1>4 DEF WorkerStep, OwnerStep

\* A deployment that exists goes on existing.
LEMMA Kept ==
  ASSUME TypeOK, ProcessesSound, [Next]_vars, NEW d \in Dep, Exists(d), StorySound(d)
  PROVE  Exists(d)'
<1>a. status \in [Dep -> DeploymentStatus \cup {"NONE"}]
  BY DEF TypeOK
<1>1. ASSUME NEW r \in Request, ApiStep(r) PROVE Exists(d)'
  BY <1>1, <1>a DEF ApiStep, BeginTrigger, CommitTrigger, Enqueue, EnqueueFails, LogEnqueued,
     LogEnqueuedFails, MarkFailed, RequestLost, Exists
<1>2. ASSUME NEW w \in Worker, WorkerStep(w) PROVE Exists(d)'
  BY <1>2, <1>a DEF WorkerStep, StartJob, Claim, Skip, LogStarted, Simulate, RecordSuccess,
     LogSucceeded, TryFails, RecordFailure, LogFailed, HandlerThrows, CompleteJob, FailJob,
     WorkerCrash, LeaveJob, Exists
<1>3. ASSUME NEW p \in Dep, QueueStep(p) PROVE Exists(d)'
  BY <1>3 DEF QueueStep, BackoffEnds, RetentionEnds, LockExpires, StalledCheck, Exists
<1> QED
  BY <1>1, <1>2, <1>3 DEF Next, vars, Exists

\* Handlers and slots stay with deployments that exist.
LEMMA NextProcesses ==
  ASSUME DeploymentInv, [Next]_vars
  PROVE  ProcessesSound'
<1>a. /\ TypeOK /\ ProcessesSound
      /\ req \in [Request -> RequestType] /\ worker \in [Worker -> SlotType]
      /\ status \in [Dep -> DeploymentStatus \cup {"NONE"}]
  BY DEF DeploymentInv, TypeOK, RequestType, SlotType
<1>b. \A d \in Dep : status[d] # "NONE" => status'[d] # "NONE"
  BY <1>a, Kept DEF DeploymentInv, Exists
<1>1. ASSUME NEW r \in Request, req'[r].pc \in {"created", "added", "failing"}
      PROVE  req'[r].dep \in Dep /\ status'[req'[r].dep] # "NONE"
  <2>1. CASE req'[r] = req[r]
    BY <1>1, <1>a, <1>b, <2>1 DEF ProcessesSound, Exists
  <2>2. ASSUME NEW q \in Request, ApiStep(q), req'[r] # req[r]
        PROVE  req'[r].dep \in Dep /\ status'[req'[r].dep] # "NONE"
    <3>1. CASE CommitTrigger(q)
      BY <1>a, <2>2, <3>1 DEF CommitTrigger, Exists, RequestType
    <3>2. CASE Enqueue(q) \/ EnqueueFails(q) \/ LogEnqueuedFails(q)
      <4>1. q = r /\ req'[r].dep = req[r].dep /\ req[r].pc \in {"created", "added"}
        BY <1>a, <2>2, <3>2
        DEF Enqueue, EnqueueFails, LogEnqueuedFails, MoveRequest, RequestType
      <4> QED
        BY <1>a, <1>b, <4>1 DEF ProcessesSound, Exists
    <3>3. CASE LogEnqueued(q) \/ MarkFailed(q) \/ RequestLost(q)
      BY <1>1, <1>a, <2>2, <3>3 DEF LogEnqueued, MarkFailed, RequestLost, MoveRequest, RequestType
    <3>4. ASSUME NEW e \in Env, BeginTrigger(q, e)
          PROVE  FALSE
      BY <1>1, <1>a, <2>2, <3>4 DEF BeginTrigger, RequestType
    <3> QED
      BY <2>2, <3>1, <3>2, <3>3, <3>4 DEF ApiStep
  <2>3. ASSUME NEW w \in Worker, WorkerStep(w) PROVE req' = req
    BY <2>3 DEF WorkerStep, StartJob, Claim, Skip, LogStarted, Simulate, RecordSuccess,
       LogSucceeded, TryFails, RecordFailure, LogFailed, HandlerThrows, CompleteJob, FailJob,
       WorkerCrash, LeaveJob
  <2>4. ASSUME NEW p \in Dep, QueueStep(p) PROVE req' = req
    BY <2>4 DEF QueueStep, BackoffEnds, RetentionEnds, LockExpires, StalledCheck
  <2> QED
    BY <2>1, <2>2, <2>3, <2>4 DEF Next, vars
<1>2. ASSUME NEW w \in Worker, worker'[w].pc # "idle"
      PROVE  worker'[w].dep \in Dep
  <2>1. CASE worker'[w] = worker[w]
    BY <1>2, <1>a, <2>1 DEF ProcessesSound
  <2>2. ASSUME NEW v \in Worker, WorkerStep(v), worker'[w] # worker[w]
        PROVE  worker'[w].dep \in Dep
    <3>1. ASSUME NEW p \in Dep, StartJob(v, p) PROVE worker'[w].dep \in Dep
      BY <1>a, <2>2, <3>1 DEF StartJob
    <3>2. CASE CompleteJob(v) \/ FailJob(v) \/ WorkerCrash(v)
      BY <1>2, <1>a, <2>2, <3>2 DEF CompleteJob, FailJob, WorkerCrash, LeaveJob, IdleWorker
    <3>3. ASSUME NEW pc, Goto(v, pc), worker[v].pc # "idle"
          PROVE  worker'[w].dep \in Dep
      BY <1>a, <2>2, <3>3 DEF Goto, SlotType, ProcessesSound
    <3>4. CASE Claim(v) \/ Skip(v) \/ HandlerThrows(v)
      BY <3>3, <3>4 DEF Claim, Skip, HandlerThrows
    <3>5. CASE OwnerStep(v)
      BY <3>3, <3>5 DEF OwnerStep, LogStarted, Simulate, RecordSuccess, LogSucceeded, TryFails,
         RecordFailure, LogFailed
    <3> QED
      BY <2>2, <3>1, <3>2, <3>4, <3>5 DEF WorkerStep, OwnerStep
  <2>3. ASSUME NEW r \in Request, ApiStep(r) PROVE worker' = worker
    BY <2>3 DEF ApiStep, BeginTrigger, CommitTrigger, Enqueue, EnqueueFails, LogEnqueued,
       LogEnqueuedFails, MarkFailed, RequestLost
  <2>4. ASSUME NEW p \in Dep, QueueStep(p) PROVE worker' = worker
    BY <2>4 DEF QueueStep, BackoffEnds, RetentionEnds, LockExpires, StalledCheck
  <2> QED
    BY <2>1, <2>2, <2>3, <2>4 DEF Next, vars
<1> QED
  BY <1>1, <1>2 DEF ProcessesSound, Exists

-----------------------------------------------------------------------------
(* The theorems                                                            *)

\* Every step keeps the invariant.
LEMMA NextDeployment == DeploymentInv /\ [Next]_vars => DeploymentInv'
<1> SUFFICES ASSUME DeploymentInv, [Next]_vars PROVE DeploymentInv'
  OBVIOUS
<1>1. TypeOK /\ ProcessesSound
  BY DEF DeploymentInv
<1>2. TypeOK'
  <2>1. CASE UNCHANGED vars
    BY <1>1, <2>1 DEF TypeOK, vars
  <2> QED
    BY <1>1, <2>1, ApiType, WorkerType, QueueType DEF Next
<1>3. ASSUME NEW d \in Dep PROVE StorySound(d)'
  <2>1. StorySound(d)
    BY DEF DeploymentInv
  <2>2. ASSUME UNCHANGED <<status, events, worker, runs>> PROVE StorySound(d)'
    <3>1. events'[d] = events[d] \cup {}
      BY <2>2
    <3> QED
      BY <2>1, <2>2, <3>1, StoryFrame
  <2>3. ASSUME NEW p \in Dep, QueueStep(p) PROVE UNCHANGED <<status, events, worker, runs>>
    BY <2>3 DEF QueueStep, BackoffEnds, RetentionEnds, LockExpires, StalledCheck
  <2> QED
    BY <1>1, <2>1, <2>2, <2>3, ApiTells, WorkerTells DEF Next, vars
<1> QED
  BY <1>2, <1>3, NextProcesses DEF DeploymentInv

\* The inductive invariant holds in every reachable state.
THEOREM DeploymentInvariance == Spec => []DeploymentInv
BY InitDeployment, NextDeployment, PTL DEF Spec

\* A deployment is executed at most once, although its job is retried, redelivered
\* when stalled and fails at every call (deployments.queue.ts:66-148).
THEOREM RunsOnce == Spec => []ExecutedOnce
<1>1. DeploymentInv => ExecutedOnce
  BY DEF DeploymentInv, StorySound, ExecutedOnce
<1> QED
  BY <1>1, DeploymentInvariance, PTL

\* The event log of a deployment never tells two stories
\* (deployments.queue.ts:152-217).
THEOREM TellsOneStory == Spec => []OneStory
<1>1. DeploymentInv => OneStory
  <2> SUFFICES ASSUME DeploymentInv, NEW d \in Dep
               PROVE  /\ {"succeeded", "failed"} \subseteq events[d] => FALSE
                      /\ "succeeded" \in events[d] =>
                           {"queued", "started", "simulated"} \subseteq events[d]
                      /\ "failed" \in events[d] =>
                           "started" \in events[d] /\ status[d] = "FAILED"
    BY DEF OneStory
  <2>1. StorySound(d)
    BY DEF DeploymentInv
  <2> QED
    BY <2>1 DEF StorySound, Exists
<1> QED
  BY <1>1, DeploymentInvariance, PTL
=============================================================================
