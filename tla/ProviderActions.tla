-------------------------- MODULE ProviderActions --------------------------
(***************************************************************************)
(* What an operation does to its provider: the route of the API that       *)
(* checks the target before it asks for the operation (kubernetes.service, *)
(* jenkins.service, docker.service, infrastructure.service), and what      *)
(* executeOperation calls once a worker claimed it (operations.queue.ts).  *)
(*                                                                         *)
(* The decisions in between are Operations, and go here as they go there:  *)
(* a handler reads a row that waits and writes it later by its id alone,   *)
(* so that an operation may be released again after it ran. Deliveries of  *)
(* its job are left out: any queued row may be claimed by any free slot.   *)
(* A provider takes a request or refuses it, and its answer may be lost to *)
(* a timeout after it took it; a Jenkins build is asked for, then polled.  *)
(***************************************************************************)
EXTENDS OperationPolicy, FiniteSets, Sequences

CONSTANTS
  None,
  Op,                \* operation ids
  Ask,               \* the requests callers send
  AllowedNamespaces, \* KUBERNETES_ALLOWED_NAMESPACES
  MaxReplicas,       \* KUBERNETES_MAX_REPLICAS
  ApiJobs,           \* JENKINS_ALLOWED_JOBS of the API process
  WorkerJobs,        \* JENKINS_ALLOWED_JOBS of the worker process
  Worker,            \* the slots of the worker
  MaxDecisions       \* bound on the decisions that are begun

VARIABLES
  ask,       \* what the operation is for, None while it does not exist
  status,    \* operations.status
  approvals, \* approvals that were written; approvedAt is set by the first
  deciding,  \* handlers that read the row while it waited, and have not written
  begun,     \* decisions that were begun
  run,       \* what each slot is doing in executeOperation
  result,    \* operations.result: what the worker says it saw, and the build it names
  taken,     \* times the provider took the operation's request
  queue,     \* Jenkins: the items of its queue, and the build each became
  built      \* Jenkins: the builds of each job that started

vars == <<ask, status, approvals, deciding, begun, run, result, taken, queue, built>>

-----------------------------------------------------------------------------
(* Routes                                                                  *)

RouteType ==
  [ scale     |-> "KUBERNETES_DEPLOYMENT_SCALE",
    rollout   |-> "KUBERNETES_DEPLOYMENT_RESTART",
    restart   |-> "KUBERNETES_DEPLOYMENT_RESTART",
    apply     |-> "KUBERNETES_MANIFEST_APPLY",
    build     |-> "JENKINS_BUILD_TRIGGER",
    container |-> "DOCKER_CONTAINER_RESTART",
    terraform |-> "TERRAFORM_APPLY",
    playbook  |-> "ANSIBLE_RUN" ]

\* The word each route demands before it asks for the operation.
RouteToken ==
  [ scale |-> "SCALE", rollout |-> "ROLLOUT", restart |-> "RESTART", apply |-> "APPLY",
    build |-> "BUILD", container |-> "RESTART", terraform |-> "APPLY", playbook |-> "RUN" ]

Route      == DOMAIN RouteType
Kubernetes == {"scale", "rollout", "restart", "apply"}
Protected  == {"kube-system", "kube-public", "kube-node-lease", "local-path-storage"}

\* _assertMutationNamespaceAllowed
MutationNamespaceAllowed(namespace) ==
  namespace \notin Protected /\ namespace \in AllowedNamespaces

\* Only these two routes look at the namespace: restart and apply do not.
RouteAdmits(a) ==
  /\ a.token = RouteToken[a.route]
  /\ a.route \in {"scale", "rollout"} => MutationNamespaceAllowed(a.target)
  /\ a.route = "scale" => a.replicas <= MaxReplicas
  /\ a.route = "build" => a.target \in ApiJobs

\* What createQueuedOperation is asked for.
Asked(a) == [type |-> RouteType[a.route], provider |-> "KUBERNETES", production |-> FALSE,
             replicas |-> a.replicas, listed |-> TRUE, token |-> a.token]

-----------------------------------------------------------------------------
Jobs == ApiJobs \cup WorkerJobs

\* What is seen of a request: a fate without a build has the number 0.
Fate(state) == [state |-> state, build |-> 0]

Idle == [op |-> None, step |-> "idle", item |-> 0, seen |-> Fate("none")]

Init ==
  /\ ask       = [o \in Op |-> None]
  /\ status    = [o \in Op |-> "NONE"]
  /\ approvals = [o \in Op |-> 0]
  /\ deciding  = [o \in Op |-> 0]
  /\ begun     = 0
  /\ run       = [s \in Worker |-> Idle]
  /\ result    = [o \in Op |-> Fate("none")]
  /\ taken     = [o \in Op |-> 0]
  /\ queue     = <<>>
  /\ built     = [j \in Jobs |-> 0]

provider  == <<taken, queue, built>>
decisions == <<approvals, deciding, begun>>

\* A route and createQueuedOperation behind it.
RequestOperation(o, a) ==
  /\ status[o] = "NONE"
  /\ RouteAdmits(a)
  /\ Confirmed(Asked(a))
  /\ ask'    = [ask EXCEPT ![o] = a]
  /\ status' = [status EXCEPT ![o] =
                  IF LocalApproval(Asked(a)) THEN "PENDING_APPROVAL" ELSE "QUEUED"]
  /\ UNCHANGED <<decisions, run, result, provider>>

\* A decision reads the row that waits, and is allowed.
BeginDecision(o) ==
  /\ status[o] = "PENDING_APPROVAL"
  /\ begun < MaxDecisions
  /\ begun'    = begun + 1
  /\ deciding' = [deciding EXCEPT ![o] = @ + 1]
  /\ UNCHANGED <<ask, status, approvals, run, result, provider>>

\* Its write names the row by its id alone, whatever became of it.
Decide(o, outcome) ==
  /\ deciding[o] > 0
  /\ deciding' = [deciding EXCEPT ![o] = @ - 1]
  /\ status'   = [status EXCEPT ![o] = outcome]
  /\ UNCHANGED <<ask, begun, run, result, provider>>

CommitApprove(o) ==
  /\ Decide(o, "QUEUED")
  /\ approvals' = [approvals EXCEPT ![o] = @ + 1]

CommitReject(o) == Decide(o, "REJECTED") /\ UNCHANGED approvals

-----------------------------------------------------------------------------
(* The worker                                                              *)

\* Faulty: the job is run again when it is delivered again.
ClaimWinsAgain(o) == status[o] \in {"QUEUED", "RUNNING", "FAILED"}

\* A job is delivered again after a crash or a failure; the claim is for a
\* QUEUED row.
ClaimWins(o) == status[o] = "QUEUED"

Claim(s, o) ==
  /\ run[s] = Idle
  /\ ClaimWins(o)
  /\ status' = [status EXCEPT ![o] = "RUNNING"]
  /\ run'    = [run EXCEPT ![s] = [Idle EXCEPT !.op = o, !.step = "calling"]]
  /\ UNCHANGED <<ask, decisions, result, provider>>

\* The worker's gates: the type it knows, the approval and, for a build, its
\* own list of jobs.
WorkerAdmits(o) ==
  /\ WorkerAccepts(Asked(ask[o]), approvals[o] > 0)
  /\ ask[o].route = "build" => ask[o].target \in WorkerJobs

MoveOn(s, step, item, seen) ==
  run' = [run EXCEPT ![s].step = step, ![s].item = item, ![s].seen = seen]

Fails(s) == MoveOn(s, "failing", 0, Fate("none"))

\* Jenkins opens a queue item, or answers with a waiting one of the same job.
Enqueue(o, i) ==
  \/ /\ i = Len(queue) + 1
     /\ queue' = Append(queue, [job |-> ask[o].target, of |-> {o}, state |-> "waiting",
                                build |-> 0])
  \/ /\ i \in DOMAIN queue
     /\ queue[i].state = "waiting" /\ queue[i].job = ask[o].target
     /\ queue' = [queue EXCEPT ![i].of = @ \cup {o}]

\* A request that passed the gates, and what taking it does at the provider.
Take(s, i) ==
  LET o == run[s].op IN
  /\ run[s].step = "calling"
  /\ WorkerAdmits(o)
  /\ taken' = [taken EXCEPT ![o] = @ + 1]
  /\ IF ask[o].route = "build" THEN Enqueue(o, i) ELSE i = 0 /\ UNCHANGED queue
  /\ UNCHANGED <<ask, status, decisions, result, built>>

\* patch, start, stop, restart, or the tool's exit code 0.
CallAnswered(s) == Take(s, 0) /\ MoveOn(s, "recording", 0, Fate("completed"))

\* Jenkins accepts: with the location of the queue item, or without.
BuildAccepted(s) ==
  \E i \in 1..(Len(queue) + 1) :
    /\ Take(s, i)
    /\ \/ MoveOn(s, "polling", i, Fate("none"))
       \/ MoveOn(s, "recording", 0, Fate("unverified"))

\* A timeout, or a tool killed half way: the provider took the request.
AnswerLost(s) == \E i \in 0..(Len(queue) + 1) : Take(s, i) /\ Fails(s)

\* A gate that refuses, a provider that is not configured or not reached, or
\* an HTTP status that is not ok.
CallRefused(s) ==
  /\ run[s].step = "calling"
  /\ Fails(s)
  /\ UNCHANGED <<ask, status, decisions, result, provider>>

\* One round of the poll that ends it. A round that finds the item waiting
\* changes nothing; the time that passes may end the poll.
PollEnds(s) ==
  LET found == queue[run[s].item] IN
  /\ run[s].step = "polling"
  /\ \/ found.state = "cancelled" /\ Fails(s)
     \/ /\ found.state = "started"
        /\ MoveOn(s, "recording", 0, [state |-> "started", build |-> found.build])
     \/ MoveOn(s, "recording", 0, Fate("unverified"))       \* the poll timeout
     \/ Fails(s)                                     \* a request of the poll fails
  /\ UNCHANGED <<ask, status, decisions, result, provider>>

\* The outcome is written by id alone; an update that is refused is a failure.
RecordSuccess(s) ==
  LET o == run[s].op IN
  /\ run[s].step = "recording"
  /\ \/ /\ status' = [status EXCEPT ![o] = "SUCCEEDED"]
        /\ result' = [result EXCEPT ![o] = run[s].seen]
        /\ run'    = [run EXCEPT ![s] = Idle]
     \/ Fails(s) /\ UNCHANGED <<status, result>>
  /\ UNCHANGED <<ask, decisions, provider>>

\* A failure leaves the result of an earlier success.
RecordFailure(s) ==
  /\ run[s].step = "failing"
  /\ status' = [status EXCEPT ![run[s].op] = "FAILED"]
  /\ run'    = [run EXCEPT ![s] = Idle]
  /\ UNCHANGED <<ask, decisions, result, provider>>

\* The process dies, or cannot write the failure: the row keeps what it has.
WorkerDies(s) ==
  /\ run[s].step # "idle"
  /\ run' = [run EXCEPT ![s] = Idle]
  /\ UNCHANGED <<ask, status, decisions, result, provider>>

\* Jenkins, on its own: a waiting item becomes the next build of its job, or
\* is cancelled.
JenkinsMoves(i) ==
  LET job == queue[i].job IN
  /\ queue[i].state = "waiting"
  /\ \/ /\ built' = [built EXCEPT ![job] = @ + 1]
        /\ queue' = [queue EXCEPT ![i].state = "started", ![i].build = built[job] + 1]
     \/ /\ queue' = [queue EXCEPT ![i].state = "cancelled"]
        /\ UNCHANGED built
  /\ UNCHANGED <<ask, status, decisions, run, result, taken>>

-----------------------------------------------------------------------------
OpStep(o) ==
  \/ \E a \in Ask : RequestOperation(o, a)
  \/ BeginDecision(o)
  \/ CommitApprove(o)
  \/ CommitReject(o)
  \/ \E s \in Worker : Claim(s, o)

SlotStep(s) ==
  \/ CallAnswered(s)
  \/ BuildAccepted(s)
  \/ AnswerLost(s)
  \/ CallRefused(s)
  \/ PollEnds(s)
  \/ RecordSuccess(s)
  \/ RecordFailure(s)
  \/ WorkerDies(s)

Next ==
  \/ \E o \in Op : OpStep(o)
  \/ \E s \in Worker : SlotStep(s)
  \/ \E i \in DOMAIN queue : JenkinsMoves(i)

Spec == Init /\ [][Next]_vars

-----------------------------------------------------------------------------
Item    == [job : Jobs, of : SUBSET Op, state : {"waiting", "started", "cancelled"}, build : Nat]
Outcome == [state : {"none", "completed", "unverified", "started"}, build : Nat]
Slot    == [op : Op \cup {None}, step : {"idle", "calling", "polling", "recording", "failing"},
            item : Nat, seen : Outcome]

\* The variables keep their types.
TypeOK ==
  /\ ask \in [Op -> Ask \cup {None}]
  /\ status \in [Op -> {"NONE", "PENDING_APPROVAL", "QUEUED", "RUNNING", "SUCCEEDED", "FAILED",
                        "REJECTED"}]
  /\ approvals \in [Op -> Nat]
  /\ deciding \in [Op -> Nat]
  /\ begun \in Nat
  /\ run \in [Worker -> Slot]
  /\ result \in [Op -> Outcome]
  /\ taken \in [Op -> Nat]
  /\ queue \in Seq(Item)
  /\ built \in [Jobs -> Nat]

\* How often an operation that exists was released.
Released(o) == IF LocalApproval(Asked(ask[o])) THEN approvals[o] ELSE 1

\* A build of the operation's job that came of an item Jenkins answered it with.
BuildOf(o, build) ==
  \E i \in DOMAIN queue :
    /\ o \in queue[i].of /\ queue[i].job = ask[o].target
    /\ queue[i].state = "started" /\ queue[i].build = build
    /\ build \in 1..built[queue[i].job]

\* A provider takes an operation no more often than it was released: once by its request, or
\* once by each approval that was written, however late, and never by a redelivery, a crash, a
\* lost answer or another slot. What is reported as done was taken, and a build reported as
\* verified is one of the operation's own (operations.queue.ts:97-159, 1381-1442,
\* operation.service.ts:240-284).
OutcomeTruthful ==
  \A o \in Op : status[o] # "NONE" =>
    /\ taken[o] <= Released(o)
    /\ status[o] = "SUCCEEDED" => taken[o] > 0
    /\ result[o].state = "started" => BuildOf(o, result[o].build)

\* No Kubernetes namespace but an allowed one is ever changed, by any route,
\* although two of the four do not check it and the worker checks none: one of
\* them asks for a word the policy refuses, the other for a type the worker does
\* not know (kubernetes.service.ts:434-698, operations.queue.ts:163-283).
OnlyAllowedNamespacesChange ==
  \A o \in Op : taken[o] > 0 /\ ask[o].route \in Kubernetes =>
    /\ MutationNamespaceAllowed(ask[o].target)
    /\ ask[o].route = "scale" => ask[o].replicas <= MaxReplicas

\* What is reported of a provider is what happened there, and only what is allowed happened
\* (operations.queue.ts:97-283, 1381-1442).
ActionsTruthful == OutcomeTruthful /\ OnlyAllowedNamespacesChange

-----------------------------------------------------------------------------
(* The inductive invariant                                                 *)

\* The slots about to ask the provider, and the claim a queued row can still win.
Calling(o) == {s \in Worker : run[s].op = o /\ run[s].step = "calling"}
Ahead(o)   == IF status[o] = "QUEUED" THEN 1 ELSE 0

\* What exists was admitted by its route and confirmed, and its release pays for all that was
\* taken, is being called for or can be claimed; only what needs an approval is decided.
GatesSound(o) ==
  /\ status[o] = "NONE" => taken[o] = 0 /\ deciding[o] = 0 /\ result[o] = Fate("none")
  /\ status[o] # "NONE" =>
       /\ ask[o] \in Ask /\ RouteAdmits(ask[o]) /\ Confirmed(Asked(ask[o]))
       /\ taken[o] + Cardinality(Calling(o)) + Ahead(o) <= Released(o)
  /\ status[o] = "PENDING_APPROVAL" \/ deciding[o] > 0 => LocalApproval(Asked(ask[o]))

\* What was taken was admitted by the worker, what is done was taken, and a verified result is
\* a build of the operation.
OutcomeSound(o) ==
  /\ taken[o] > 0 => WorkerAdmits(o)
  /\ status[o] = "SUCCEEDED" => taken[o] > 0
  /\ result[o].state = "started" => BuildOf(o, result[o].build)

\* A slot works for an operation that exists, polls an item it was answered with and records
\* what was taken.
SlotSound(s) ==
  LET o == run[s].op IN
  /\ run[s].step # "idle" => o \in Op /\ status[o] # "NONE"
  /\ run[s].step = "polling" => run[s].item \in DOMAIN queue /\ o \in queue[run[s].item].of
  /\ run[s].step \in {"polling", "recording"} => taken[o] > 0
  /\ run[s].step = "recording" /\ run[s].seen.state = "started" => BuildOf(o, run[s].seen.build)

\* An item is of the job of every operation Jenkins answered with it, and what it became is a
\* build of that job.
ItemSound(i) ==
  /\ \A o \in queue[i].of : status[o] # "NONE" /\ queue[i].job = ask[o].target
  /\ queue[i].state = "started" => queue[i].build \in 1..built[queue[i].job]

ActionsInv ==
  /\ TypeOK
  /\ \A o \in Op : GatesSound(o) /\ OutcomeSound(o)
  /\ \A s \in Worker : SlotSound(s)
  /\ \A i \in DOMAIN queue : ItemSound(i)
=============================================================================
