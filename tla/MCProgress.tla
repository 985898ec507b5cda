----------------------------- MODULE MCProgress -----------------------------
(***************************************************************************)
(* Instances of WorkerLife, Operations and Deployments, side by side, for  *)
(* what must happen in the end: a behaviour is one of the component chosen *)
(* at the start. The fairness of a component asks nothing of it while it   *)
(* rests in its initial states: nothing it names is enabled there.         *)
(***************************************************************************)
EXTENDS WorkerLife

CONSTANTS w1, w2, m1, m2, m3, o1, r1, r2, d1, d2, e1

VARIABLES
  subject,  \* the component that moves
  opStatus, opTarget, opRequestedBy, opNeedsApproval, opOpaAnswer, opIdemKey, opApprovedBy,
  opRejectedBy, opAudit, opDenials, opSignals, opIncidents, opJob, opReq, opWorker, opRuns,
  opFaults,
  depStatus, depEnvOf, depEvents, depJob, depReq, depWorker, depRuns, depFaults

opVars  == <<opStatus, opTarget, opRequestedBy, opNeedsApproval, opOpaAnswer, opIdemKey,
             opApprovedBy, opRejectedBy, opAudit, opDenials, opSignals, opIncidents, opJob,
             opReq, opWorker, opRuns, opFaults>>
depVars == <<depStatus, depEnvOf, depEvents, depJob, depReq, depWorker, depRuns, depFaults>>
allVars == <<subject, vars, opVars, depVars>>
-----------------------------------------------------------------------------
Ask(type, token) ==
  [ type |-> type, provider |-> "DOCKER", production |-> FALSE, replicas |-> 0,
    listed |-> TRUE, token |-> token ]

\* One operation, gated or not, two requests that create and decide it, two slots.
O == INSTANCE Operations WITH
       MaxAttempts <- 2, MaxStalls <- 1, ProductionPushNeedsApproval <- TRUE,
       ScaleApprovalThreshold <- 2, EnforcementMode <- "shadow",
       Op <- {o1}, User <- {m1, m2, m3},
       RoleOf <- [u \in {m1, m2, m3} |->
                    CASE u = m1 -> "MEMBER" [] u = m2 -> "ADMIN" [] u = m3 -> "OWNER"],
       Key <- {}, Target <- {Ask("DOCKER_CONTAINER_START", "START"),
                             Ask("DOCKER_CONTAINER_RESTART", "RESTART")},
       Request <- {r1, r2}, Worker <- {w1, w2}, OpaReach <- {"decided"},
       FaultKind <- {"lock"}, MaxFaults <- 2,
       status <- opStatus, target <- opTarget, requestedBy <- opRequestedBy,
       needsApproval <- opNeedsApproval, opaAnswer <- opOpaAnswer, idemKey <- opIdemKey,
       approvedBy <- opApprovedBy, rejectedBy <- opRejectedBy, audit <- opAudit,
       denials <- opDenials, signals <- opSignals, incidents <- opIncidents, job <- opJob,
       req <- opReq, worker <- opWorker, runs <- opRuns, faults <- opFaults

\* Two triggers of one environment, two slots.
D == INSTANCE Deployments WITH
       MaxAttempts <- 3, MaxStalls <- 1, Dep <- {d1, d2}, Env <- {e1}, Request <- {r1, r2},
       Worker <- {w1, w2}, FaultKind <- {"redis", "lock"}, MaxFaults <- 2,
       status <- depStatus, envOf <- depEnvOf, events <- depEvents, job <- depJob,
       req <- depReq, worker <- depWorker, runs <- depRuns, faults <- depFaults

AllInit ==
  /\ subject \in {"worker", "operations", "deployments"}
  /\ Init /\ O!Init /\ D!Init

AllNext ==
  /\ UNCHANGED subject
  /\ \/ subject = "worker" /\ Next /\ UNCHANGED <<opVars, depVars>>
     \/ subject = "operations" /\ O!Next /\ UNCHANGED <<vars, depVars>>
     \/ subject = "deployments" /\ D!Next /\ UNCHANGED <<vars, opVars>>

AllSpec == AllInit /\ [][AllNext]_allVars /\ Fairness /\ O!Fairness /\ D!Fairness
-----------------------------------------------------------------------------
\* A queued operation is run and settled, unless it is decided again meanwhile
\* (operation.service.ts:220-226, 299-304).
QueuedEventuallySettles == O!QueuedEventuallySettles

\* A failed operation gets its incident (operations.queue.ts:153-157).
FailureRaisesIncident == O!FailureRaisesIncident

\* Every deployment leaves its environment free in the end, with every log told to its end,
\* when Redis refuses the add or a progress report and when job locks are lost
\* (deployment.service.ts:113-154, deployments.queue.ts:66-193).
EnvironmentFreed == D!EnvironmentFreed
=============================================================================
