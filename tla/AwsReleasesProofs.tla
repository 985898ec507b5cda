-------------------------- MODULE AwsReleasesProofs --------------------------
(***************************************************************************)
(* Proofs about AwsReleases, for every number of operations and failures,  *)
(* every set of environments and every set of plans Terraform may print.   *)
(* Operations only grow, so that what an operation followed when it was    *)
(* created holds ever after; and in an environment where no two records    *)
(* overlapped, the step of a record knows what the earlier steps did.      *)
(*                                                                         *)
(* Proofs about AwsReadiness (W), for every viewer, configuration, state   *)
(* of things and number of overlapping loads. What there is only grows: an *)
(* image or a plan that a report showed is there when the API is asked,    *)
(* and a load has seen what there is now last.                             *)
(***************************************************************************)
EXTENDS Components, Sequences, FiniteSetTheorems, TLAPS

\* The cardinality AwsReleases counts with is the one of the library.
LEMMA SameCardinality == \A set : A!Cardinality(set) = Cardinality(set)
BY DEF A!Cardinality, Cardinality

\* What a step may do to the operations that exist: approve them, and go on.
Grows ==
  \A p \in A!Op : awsStatus[p] # "NONE" =>
    /\ awsOp'[p].type = awsOp[p].type /\ awsOp'[p].env = awsOp[p].env
    /\ awsOp'[p].image = awsOp[p].image /\ awsOp'[p].source = awsOp[p].source
    /\ awsOp[p].approved => awsOp'[p].approved
    /\ awsStatus'[p] # "NONE"
    /\ awsStatus[p] = "SUCCEEDED" => awsStatus'[p] = "SUCCEEDED" /\ awsResult'[p] = awsResult[p]

\* What a step that creates nothing leaves alone.
NoneCreated == \A p \in A!Op : awsStatus[p] = "NONE" => awsStatus'[p] = "NONE"
  /\ awsOp'[p] = awsOp[p]

Statuses == {"NONE", "PENDING_APPROVAL", "QUEUED", "RUNNING", "SUCCEEDED", "FAILED"}

\* An apply that a worker has taken.
Begun(o) == awsOp[o].type = "APPLY" /\ awsStatus[o] \notin {"NONE", "PENDING_APPROVAL", "QUEUED"}

Ops     == \A o \in A!Op : A!OpSound(o)
Runs    == \A o \in A!Op : A!RunSound(o)
Plans   == \A p \in awsStale \cup {awsOrder[i] : i \in DOMAIN awsOrder} : A!Done(p, "PLAN")
Deploys == \A e \in Environment : A!CloudSound(e)
History == \A e \in Environment : A!HistorySound(e)

-----------------------------------------------------------------------------
(* The parts of the invariant                                              *)

\* The invariant is its parts, before a step and after it.
LEMMA Parts ==
  /\ A!ReleaseInv <=> A!TypeOK /\ Ops /\ Runs /\ Plans /\ Deploys /\ History
  /\ A!ReleaseInv' <=> A!TypeOK' /\ Ops' /\ Runs' /\ Plans' /\ Deploys' /\ History'
  BY DEF A!ReleaseInv, Ops, Runs, Plans, Deploys, History

\* An operation of a type exists.
LEMMA Created ==
  ASSUME A!AwsAssumption, Ops, NEW o \in A!Op, awsOp[o].type \in A!OperationType
  PROVE  awsStatus[o] # "NONE" /\ awsOp[o].env \in Environment /\ awsOp[o].image \in A!Op
  BY DEF A!AwsAssumption, Ops, A!OpSound, A!NoOp

\* What follows an operation follows it ever after.
LEMMA FollowsStays ==
  ASSUME Grows, NEW o \in A!Op, awsStatus[o] # "NONE", NEW type \in A!OperationType,
           A!Follows(o, type)
  PROVE  A!Follows(o, type)'
<1> DEFINE p == awsOp[o].source
<1>1. /\ p \in A!Op /\ A!Done(p, type) /\ awsOp[o].env = awsOp[p].env
      /\ awsOp[o].image = awsOp[p].image
  BY DEF A!Follows
<1>2. awsStatus[p] # "NONE" /\ awsStatus[p] = "SUCCEEDED"
  BY <1>1 DEF A!Done
<1>3. /\ awsOp'[p].type = awsOp[p].type /\ awsOp'[p].env = awsOp[p].env
      /\ awsOp'[p].image = awsOp[p].image /\ awsStatus'[p] = "SUCCEEDED"
  BY <1>1, <1>2 DEF Grows
<1>4. /\ awsOp'[o].source = p /\ awsOp'[o].env = awsOp[o].env /\ awsOp'[o].image = awsOp[o].image
  BY DEF Grows
<1> QED
  BY <1>1, <1>3, <1>4 DEF A!Follows, A!Done

\* The operations stay sound under a step that creates none and stores the results of plans.
LEMMA OpsKept ==
  ASSUME A!AwsAssumption, Ops, Grows, NoneCreated,
         \A p \in A!Op : awsRelease'[p] # None => Begun(p)',
         \A p \in A!Op : A!Done(p, "PLAN")' => awsResult'[p] \in Text
  PROVE  Ops'
<1> SUFFICES ASSUME NEW o \in A!Op
             PROVE  A!OpSound(o)'
  BY DEF Ops
<1>1. A!OpSound(o)
  BY DEF Ops
<1>2. CASE awsStatus[o] = "NONE"
  <2>1. awsStatus'[o] = "NONE" /\ awsOp'[o] = A!NoOp /\ awsRelease'[o] = None
    BY <1>1, <1>2 DEF A!OpSound, NoneCreated, Begun
  <2>2. \A p \in A!Op : p > o => awsStatus'[p] = "NONE"
    BY <1>1, <1>2 DEF A!OpSound, NoneCreated
  <2>3. awsOp'[o].type = None
    BY <2>1 DEF A!NoOp
  <2>4. awsOp'[o].type \notin A!OperationType
    BY <2>3 DEF A!AwsAssumption
  <2> QED
    BY <2>1, <2>2, <2>4 DEF A!OpSound, A!OperationType, A!Done
<1>3. CASE awsStatus[o] # "NONE"
  <2>1. /\ awsStatus'[o] # "NONE" /\ awsOp'[o].type = awsOp[o].type
        /\ awsOp'[o].env = awsOp[o].env /\ awsOp'[o].image = awsOp[o].image
    BY <1>3 DEF Grows
  <2>2. awsOp[o].env \in Environment /\ awsOp[o].image \in A!Op
    BY <1>1, <1>3 DEF A!OpSound
  <2>3. awsOp'[o] # A!NoOp
    BY <2>1, <2>2 DEF A!NoOp, A!AwsAssumption
  <2>4. awsOp[o].type = "PUSH" => A!Follows(o, "BUILD")'
    BY <1>1, <1>3, FollowsStays DEF A!OpSound, A!OperationType
  <2>5. awsOp[o].type = "PLAN" => A!Follows(o, "PUSH")'
    BY <1>1, <1>3, FollowsStays DEF A!OpSound, A!OperationType
  <2>6. awsOp[o].type = "APPLY" => A!Follows(o, "PLAN")'
    BY <1>1, <1>3, FollowsStays DEF A!OpSound, A!OperationType
  <2>7. awsOp[o].type = "BUILD" => awsOp[o].image = o
    BY <1>1 DEF A!OpSound
  <2>8. awsRelease'[o] # None => Begun(o)'
    OBVIOUS
  <2> QED
    BY <2>1, <2>2, <2>3, <2>4, <2>5, <2>6, <2>7, <2>8 DEF A!OpSound, Begun
<1> QED
  BY <1>2, <1>3

\* A worker in an apply stays sound under a step that leaves it and its operation alone.
LEMMA RunStays ==
  ASSUME A!AwsAssumption, Ops, Grows, NEW o \in A!Op, A!RunSound(o),
         awsRun'[o] = awsRun[o],
         awsRun[o].step # "none" => awsStatus'[o] = awsStatus[o] /\ awsRelease'[o] = awsRelease[o]
  PROVE  A!RunSound(o)'
<1> SUFFICES ASSUME awsRun[o].step # "none"
             PROVE  A!RunSound(o)'
  BY DEF A!RunSound
<1> DEFINE p == awsOp[o].source
<1>1. /\ awsOp[o].type = "APPLY" /\ awsOp[o].approved
      /\ awsStatus[o] = "RUNNING" /\ awsRelease[o] = None /\ A!Reviewed(o)
      /\ awsRun[o].step = "counted" => awsRun[o].version > 0
  BY DEF A!RunSound
<1>2. p \in A!Op /\ A!Done(p, "PLAN")
  BY <1>1 DEF Ops, A!OpSound, A!Follows
<1>3. awsOp'[p].env = awsOp[p].env /\ awsResult'[p] = awsResult[p]
  BY <1>2 DEF Grows, A!Done
<1>4. awsOp'[o].type = "APPLY" /\ awsOp'[o].approved /\ awsOp'[o].source = p
  BY <1>1 DEF Grows
<1>5. A!Reviewed(o)'
  BY <1>1, <1>3, <1>4 DEF A!Reviewed
<1> QED
  BY <1>1, <1>4, <1>5 DEF A!RunSound

\* The plans of the past stay the plans of the past.
LEMMA PlansStay ==
  ASSUME A!TypeOK, Plans, Grows, awsStale' = awsStale, awsOrder' = awsOrder
  PROVE  Plans'
<1> SUFFICES ASSUME NEW p \in awsStale \cup {awsOrder[i] : i \in DOMAIN awsOrder}
             PROVE  A!Done(p, "PLAN")'
  BY DEF Plans
<1>1. p \in A!Op
  BY DEF A!TypeOK
<1>2. A!Done(p, "PLAN")
  BY DEF Plans
<1> QED
  BY <1>1, <1>2 DEF Grows, A!Done

\* What is deployed stays approved.
LEMMA DeploysStay ==
  ASSUME A!AwsAssumption, Ops, Grows, NEW e \in Environment, A!CloudSound(e),
         awsCloud'[e].image = awsCloud[e].image
  PROVE  A!CloudSound(e)'
<1> SUFFICES ASSUME awsCloud[e].image # None
             PROVE  A!CloudSound(e)'
  BY DEF A!CloudSound
<1>1. PICK a \in A!Op : /\ awsOp[a].type = "APPLY" /\ awsOp[a].approved /\ awsOp[a].env = e
                      /\ awsOp[a].image = awsCloud[e].image
  BY DEF A!CloudSound
<1>2. awsStatus[a] # "NONE"
  BY <1>1, Created DEF A!OperationType
<1> QED
  BY <1>1, <1>2 DEF A!CloudSound, Grows

\* The history of an environment stays sound under a step that leaves its records, its rows
\* and its deployed image alone.
LEMMA HistoryStays ==
  ASSUME NEW e \in Environment, A!HistorySound(e),
         e \notin awsTorn' => /\ e \notin awsTorn
                           /\ A!Recording(e)' = A!Recording(e)
                           /\ \A o \in A!Recording(e) :
                                awsRun'[o] = awsRun[o] /\ awsOp'[o].image = awsOp[o].image,
         \A r \in A!Op : (awsRelease'[r] # None /\ awsRelease'[r].env = e)
                         <=> (awsRelease[r] # None /\ awsRelease[r].env = e),
         \A r \in A!Op : awsRelease[r] # None /\ awsRelease[r].env = e
           => awsRelease'[r] = awsRelease[r],
         awsCloud'[e].image = awsCloud[e].image
  PROVE  A!HistorySound(e)'
<1> SUFFICES ASSUME e \notin awsTorn'
             PROVE  A!HistorySound(e)'
  BY DEF A!HistorySound
<1>1. A!Rows(e)' = A!Rows(e) /\ A!Superseded(e)' = A!Superseded(e)
  BY DEF A!Rows, A!Superseded
<1>2. {awsRelease'[r].version : r \in A!Rows(e)} = {awsRelease[r].version : r \in A!Rows(e)}
  BY DEF A!Rows
<1>3. \A r \in A!Rows(e) : awsRelease'[r].image = awsRelease[r].image
  BY DEF A!Rows
<1>4. A!Recording(e)' = A!Recording(e) /\ e \notin awsTorn
  OBVIOUS
<1>5. {awsRelease'[r].version : r \in A!Rows(e)'} = 1..A!Cardinality(A!Rows(e)')
  BY <1>1, <1>2, <1>4 DEF A!HistorySound
<1>6. \A o \in A!Recording(e)' :
        /\ awsOp'[o].image = awsCloud'[e].image
        /\ awsRun'[o].step # "applied" => A!Superseded(e)' = {}
        /\ awsRun'[o].step = "counted" => awsRun'[o].version = A!Cardinality(A!Rows(e)') + 1
  BY <1>1, <1>4 DEF A!HistorySound
<1>7. A!Recording(e)' = {} /\ A!Rows(e)' # {} =>
        \E r \in A!Rows(e)' : A!Superseded(e)' = {r} /\ awsRelease'[r].image = awsCloud'[e].image
  BY <1>1, <1>3, <1>4 DEF A!HistorySound
<1>8. /\ \A o, p \in A!Recording(e)' : o = p
      /\ A!Recording(e)' = {} => (A!Rows(e)' = {} <=> awsCloud'[e].image = None)
  BY <1>1, <1>4 DEF A!HistorySound
<1> QED
  BY <1>5, <1>6, <1>7, <1>8 DEF A!HistorySound

-----------------------------------------------------------------------------
(* The API                                                                 *)

\* A new operation keeps the invariant, if what it follows is what its type calls for.
LEMMA CreateKeeps ==
  ASSUME A!AwsAssumption, A!ReleaseInv,
         NEW type \in A!OperationType, NEW env \in Environment, NEW image,
         NEW source \in A!Op \cup {None},
         type # "BUILD" => image \in A!Op,
         source # None => awsStatus[source] # "NONE",
         type \in {"PUSH", "PLAN", "APPLY"} =>
           source \in A!Op /\ env = awsOp[source].env /\ image = awsOp[source].image,
         type = "PUSH" => A!Done(source, "BUILD"),
         type = "PLAN" => A!Done(source, "PUSH"),
         type = "APPLY" => A!Done(source, "PLAN"),
         A!Create(type, env, image, source)
  PROVE  A!ReleaseInv'
<1> USE Parts
<1>1. PICK o \in A!Op :
        /\ awsStatus[o] = "NONE" /\ \A p \in 1..(o - 1) : awsStatus[p] # "NONE"
        /\ awsOp' = [awsOp EXCEPT ![o] = [type |-> type, env |-> env,
                                    image |-> IF type = "BUILD" THEN o ELSE image,
                                    source |-> source, approved |-> FALSE]]
        /\ awsStatus' = [awsStatus EXCEPT ![o] =
                        IF A!NeedsApproval(type, env) THEN "PENDING_APPROVAL" ELSE "QUEUED"]
        /\ UNCHANGED <<awsResult, awsStale, awsOrder, awsRun, awsRelease, awsCloud, awsTorn,
                       awsFaults>>
  BY DEF A!Create
<1>2. /\ awsOp'[o] = [type |-> type, env |-> env, image |-> IF type = "BUILD" THEN o ELSE image,
                   source |-> source, approved |-> FALSE]
      /\ awsStatus'[o] \in {"PENDING_APPROVAL", "QUEUED"}
      /\ \A p \in A!Op \ {o} : awsOp'[p] = awsOp[p] /\ awsStatus'[p] = awsStatus[p]
  BY <1>1 DEF A!TypeOK
<1>3. A!OpSound(o) /\ A!RunSound(o)
  BY DEF Ops, Runs
<1>4. /\ awsRun[o].step = "none" /\ awsRelease[o] = None
      /\ \A p \in A!Op : p > o => awsStatus[p] = "NONE"
  BY <1>1, <1>3 DEF A!OpSound, A!RunSound
<1>5. Grows
  BY <1>1, <1>2 DEF Grows
<1>6. A!TypeOK'
  <2>1. awsOp'[o] \in A!OpRecord
    BY <1>2 DEF A!OpRecord
  <2>2. awsOp' \in [A!Op -> A!OpRecord]
    BY <1>1, <2>1 DEF A!TypeOK
  <2>3. \A p \in A!Op : awsOp'[p].source # None => awsOp'[p].source < p
    <3>1. source # None => source < o
      <4>1. \A p \in A!Op : awsStatus[p] # "NONE" => p < o
        BY <1>1, <1>4 DEF A!Op, A!AwsAssumption
      <4> QED
        BY <4>1
    <3>2. \A p \in A!Op : awsOp[p].source # None => awsOp[p].source < p
      BY DEF A!TypeOK
    <3>3. awsOp'[o].source = source
      BY <1>2
    <3> QED
      BY <1>2, <3>1, <3>2, <3>3
  <2> QED
    BY <1>1, <1>2, <2>2, <2>3 DEF A!TypeOK
<1>7. Ops'
  <2> SUFFICES ASSUME NEW p \in A!Op
               PROVE  A!OpSound(p)'
    BY DEF Ops
  <2>1. CASE p = o
    <3>1. awsOp'[o].env \in Environment /\ awsOp'[o].image \in A!Op
      BY <1>2
    <3>2. awsOp'[o] # A!NoOp
      BY <3>1 DEF A!NoOp, A!AwsAssumption
    <3>3. ASSUME NEW t \in A!OperationType, source \in A!Op, A!Done(source, t),
                 env = awsOp[source].env, image = awsOp[source].image, type # "BUILD"
          PROVE  A!Follows(o, t)'
      <4>1. source # o
        BY <1>1, <3>3 DEF A!Done
      <4> QED
        BY <1>2, <3>3, <4>1 DEF A!Follows, A!Done
    <3>4. awsRelease'[o] = None
      BY <1>1, <1>4
    <3> QED
      BY <1>2, <2>1, <3>1, <3>2, <3>3, <3>4 DEF A!OpSound, A!OperationType, A!Done
  <2>2. CASE p # o /\ awsStatus[p] = "NONE"
    <3>1. A!OpSound(p)
      BY DEF Ops
    <3>2. p > o
      <4>1. ~(p \in 1..(o - 1))
        BY <1>1, <2>2
      <4> QED
        BY <2>2, <4>1 DEF A!Op, A!AwsAssumption
    <3>3. \A q \in A!Op : q > p => q # o /\ awsStatus[q] = "NONE"
      BY <1>4, <3>2 DEF A!Op, A!AwsAssumption
    <3>4. awsOp'[p] = A!NoOp /\ awsStatus'[p] = "NONE" /\ awsRelease'[p] = None
      BY <1>1, <1>2, <2>2, <3>1 DEF A!OpSound
    <3>5. awsOp'[p].type \notin A!OperationType
      BY <3>4 DEF A!NoOp, A!AwsAssumption
    <3>6. \A q \in A!Op : q > p => awsStatus'[q] = "NONE"
      BY <1>2, <3>3
    <3> QED
      BY <3>4, <3>5, <3>6 DEF A!OpSound, A!OperationType, A!Done
  <2>3. CASE p # o /\ awsStatus[p] # "NONE"
    <3>1. A!OpSound(p)
      BY DEF Ops
    <3>2. /\ awsOp'[p] = awsOp[p] /\ awsStatus'[p] = awsStatus[p]
          /\ awsResult'[p] = awsResult[p] /\ awsRelease'[p] = awsRelease[p]
      BY <1>1, <1>2, <2>3
    <3>3. \A t \in A!OperationType : A!Follows(p, t) => A!Follows(p, t)'
      BY <1>5, <2>3, FollowsStays
    <3> QED
      BY <2>3, <3>1, <3>2, <3>3 DEF A!OpSound, A!OperationType, A!Done
  <2> QED
    BY <2>1, <2>2, <2>3
<1>8. Runs'
  <2> SUFFICES ASSUME NEW p \in A!Op
               PROVE  A!RunSound(p)'
    BY DEF Runs
  <2>1. awsRun'[p] = awsRun[p] /\ awsRelease'[p] = awsRelease[p]
    BY <1>1
  <2>2. awsRun[p].step # "none" => awsStatus'[p] = awsStatus[p]
    BY <1>2, <1>4
  <2>3. A!RunSound(p)
    BY DEF Runs
  <2> QED
    BY <1>5, <2>1, <2>2, <2>3, RunStays
<1>9. Plans'
  BY <1>1, <1>5, PlansStay
<1>10. Deploys'
  <2> SUFFICES ASSUME NEW e \in Environment
               PROVE  A!CloudSound(e)'
    BY DEF Deploys
  <2> QED
    BY <1>1, <1>5, DeploysStay DEF Deploys
<1>11. History'
  <2> SUFFICES ASSUME NEW e \in Environment
               PROVE  A!HistorySound(e)'
    BY DEF History
  <2>1. A!HistorySound(e)
    BY DEF History
  <2>2. A!Recording(e)' = A!Recording(e)
    BY <1>1, <1>2, <1>4 DEF A!Recording
  <2>3. \A p \in A!Recording(e) : p # o /\ awsOp'[p].image = awsOp[p].image
    BY <1>2, <1>4 DEF A!Recording
  <2> QED
    BY <1>1, <2>1, <2>2, <2>3, HistoryStays
<1> QED
  BY <1>6, <1>7, <1>8, <1>9, <1>10, <1>11

\* The requests of the API keep the invariant.
LEMMA ApiKeeps ==
  ASSUME A!AwsAssumption, A!ReleaseInv, NEW o \in A!Op, NEW e \in Environment,
         NEW envs \in {Environment} \cup {{x} : x \in Environment},
         \/ A!BuildEcrImage(e) \/ A!ApplyDeployment(envs) \/ A!PushEcrImage(o)
         \/ A!RollbackRelease(o) \/ A!PlanDeployment(o, e) \/ A!PromoteRelease(o, e)
  PROVE  A!ReleaseInv'
<1> USE Parts
<1>1. CASE A!BuildEcrImage(e)
  <2>1. A!Create("BUILD", e, None, None)
    BY <1>1 DEF A!BuildEcrImage
  <2> QED
    BY <2>1, CreateKeeps DEF A!OperationType
<1>2. CASE A!ApplyDeployment(envs)
  <2>1. PICK p \in A!Op : A!Latest(p, envs) /\ A!Create("APPLY", awsOp[p].env, awsOp[p].image, p)
    BY <1>2 DEF A!ApplyDeployment
  <2>2. PICK i \in DOMAIN awsOrder : awsOrder[i] = p
    BY <2>1 DEF A!Latest
  <2>3. A!Done(p, "PLAN")
    BY <2>2 DEF Plans
  <2>4. awsStatus[p] # "NONE" /\ awsOp[p].env \in Environment /\ awsOp[p].image \in A!Op
    BY <2>3, Created DEF A!Done, A!OperationType
  <2> QED
    BY <2>1, <2>3, <2>4, CreateKeeps DEF A!OperationType
<1>3. CASE A!PushEcrImage(o)
  <2>1. A!Done(o, "BUILD") /\ A!Create("PUSH", awsOp[o].env, awsOp[o].image, o)
    BY <1>3 DEF A!PushEcrImage
  <2>2. awsStatus[o] # "NONE" /\ awsOp[o].env \in Environment /\ awsOp[o].image \in A!Op
    BY <2>1, Created DEF A!Done, A!OperationType
  <2> QED
    BY <2>1, <2>2, CreateKeeps DEF A!OperationType
<1>4. CASE A!PlanDeployment(o, e)
  <2>1. A!Done(o, "PUSH") /\ awsOp[o].env = e /\ A!Create("PLAN", e, awsOp[o].image, o)
    BY <1>4 DEF A!PlanDeployment, A!PushedFor
  <2>2. awsStatus[o] # "NONE" /\ awsOp[o].image \in A!Op
    BY <2>1, Created DEF A!Done, A!OperationType
  <2> QED
    BY <2>1, <2>2, CreateKeeps DEF A!OperationType
<1>5. CASE awsRelease[o] # None
  <2>1. awsRelease[o].env \in Environment /\ awsRelease[o].image \in A!Op
    BY <1>5 DEF A!TypeOK, A!Row
  <2>2. awsStatus[o] # "NONE"
    BY <1>5 DEF Ops, A!OpSound
  <2>3. CASE A!PromoteRelease(o, e)
    <3>1. A!Create("PROMOTE", e, awsRelease[o].image, o)
      BY <2>3 DEF A!PromoteRelease
    <3> QED
      BY <2>1, <2>2, <3>1, CreateKeeps DEF A!OperationType
  <2>4. CASE A!RollbackRelease(o)
    <3>1. A!Create("ROLLBACK", awsRelease[o].env, awsRelease[o].image, o)
      BY <2>4 DEF A!RollbackRelease
    <3> QED
      BY <2>1, <2>2, <3>1, CreateKeeps DEF A!OperationType
  <2> QED
    BY <1>1, <1>2, <1>3, <1>4, <2>3, <2>4
<1> QED
  BY <1>1, <1>2, <1>3, <1>4, <1>5 DEF A!PromoteRelease, A!RollbackRelease

-----------------------------------------------------------------------------
(* The worker and the passing of time                                      *)

\* A step that moves no record keeps what the records rely on.
LEMMA RecordsRest ==
  ASSUME A!AwsAssumption, A!TypeOK, Ops, Grows, Deploys, History,
         UNCHANGED <<awsRelease, awsCloud, awsTorn>>,
         \A p \in A!Op : awsStatus[p] = "NONE" => awsRun'[p] = awsRun[p]
           /\ awsOp'[p].env = awsOp[p].env,
         \A p \in A!Op : awsRun'[p] = awsRun[p]
                       \/ {awsRun[p].step, awsRun'[p].step} \cap {"applied", "superseded",
                                                                  "counted"} = {}
  PROVE  Deploys' /\ History'
<1>1. Deploys'
  BY DeploysStay DEF Deploys
<1>2. \A p \in A!Op : awsOp'[p].env = awsOp[p].env
  BY DEF Grows
<1>3. History'
  <2> SUFFICES ASSUME NEW e \in Environment
               PROVE  A!HistorySound(e)'
    BY DEF History
  <2>1. A!HistorySound(e)
    BY DEF History
  <2>2. A!Recording(e)' = A!Recording(e)
    BY <1>2 DEF A!Recording
  <2>3. \A p \in A!Recording(e) : awsRun'[p] = awsRun[p] /\ awsOp'[p].image = awsOp[p].image
    <3> TAKE p \in A!Recording(e)
    <3>1. p \in A!Op /\ awsOp[p].env = e /\ awsRun'[p] = awsRun[p]
      BY DEF A!Recording
    <3>2. awsStatus[p] # "NONE"
      BY <3>1 DEF Ops, A!OpSound, A!NoOp, A!AwsAssumption
    <3> QED
      BY <3>1, <3>2 DEF Grows
  <2> QED
    BY <2>1, <2>2, <2>3, HistoryStays
<1> QED
  BY <1>1, <1>3

\* An approval keeps the invariant.
LEMMA ApproveKeeps ==
  ASSUME A!AwsAssumption, A!ReleaseInv, NEW o \in A!Op, A!Approve(o)
  PROVE  A!ReleaseInv'
<1> USE Parts
<1>1. /\ awsStatus[o] = "PENDING_APPROVAL"
      /\ awsOp' = [awsOp EXCEPT ![o].approved = TRUE]
      /\ awsStatus' = [awsStatus EXCEPT ![o] = "QUEUED"]
      /\ UNCHANGED <<awsResult, awsStale, awsOrder, awsRun, awsRelease, awsCloud, awsTorn,
                     awsFaults>>
  BY DEF A!Approve
<1>2. /\ awsOp'[o] = [awsOp[o] EXCEPT !.approved = TRUE] /\ awsStatus'[o] = "QUEUED"
      /\ \A p \in A!Op \ {o} : awsOp'[p] = awsOp[p] /\ awsStatus'[p] = awsStatus[p]
  BY <1>1 DEF A!TypeOK
<1>3. awsOp[o] \in A!OpRecord
  BY DEF A!TypeOK
<1>4. /\ awsOp'[o] \in A!OpRecord /\ awsOp'[o].approved
      /\ awsOp'[o].type = awsOp[o].type /\ awsOp'[o].env = awsOp[o].env
      /\ awsOp'[o].image = awsOp[o].image /\ awsOp'[o].source = awsOp[o].source
  BY <1>2, <1>3 DEF A!OpRecord
<1>5. Grows /\ NoneCreated
  BY <1>1, <1>2, <1>4 DEF Grows, NoneCreated
<1>6. A!TypeOK'
  BY <1>1, <1>2, <1>4 DEF A!TypeOK
<1>7. Ops'
  <2>1. \A p \in A!Op : A!Done(p, "PLAN")' => awsResult'[p] \in Text
    BY <1>1, <1>2 DEF A!Done, Ops, A!OpSound
  <2>2. \A p \in A!Op : awsRelease'[p] # None => Begun(p)'
    BY <1>1, <1>2, <1>4 DEF Ops, A!OpSound, Begun
  <2> QED
    BY <1>1, <1>5, <2>1, <2>2, OpsKept
<1>8. Runs'
  <2> SUFFICES ASSUME NEW p \in A!Op
               PROVE  A!RunSound(p)'
    BY DEF Runs
  <2>1. A!RunSound(p) /\ A!RunSound(o)
    BY DEF Runs
  <2>2. awsRun[p].step # "none" => awsStatus'[p] = awsStatus[p]
    BY <1>1, <1>2, <2>1 DEF A!RunSound
  <2> QED
    BY <1>1, <1>5, <2>1, <2>2, RunStays
<1>9. Plans'
  BY <1>1, <1>5, PlansStay
<1>10. Deploys' /\ History'
  <2>1. \A p \in A!Op : awsOp'[p].env = awsOp[p].env /\ awsRun'[p] = awsRun[p]
    BY <1>1, <1>2, <1>4
  <2> QED
    BY <1>1, <1>5, <2>1, RecordsRest
<1> QED
  BY <1>6, <1>7, <1>8, <1>9, <1>10

\* An operation of an image, a plan and the passing of a day keep the invariant.
LEMMA PlanningKeeps ==
  ASSUME A!AwsAssumption, A!ReleaseInv, NEW o \in A!Op, NEW text,
         A!RunImage(o) \/ (text \in Text /\ A!RunPlan(o, text)) \/ A!Expire(o) \/ A!Succeed(o)
  PROVE  A!ReleaseInv'
<1> USE Parts
<1> DEFINE Past  == awsStale \cup {awsOrder[i] : i \in DOMAIN awsOrder}
           Later == \A p \in Past' : p \in Past
             \/ (p = o /\ (A!Done(o, "PLAN") \/ A!Done(o, "PLAN")'))
<1> HIDE DEF Past, Later
<1>0. /\ awsOp \in [A!Op -> A!OpRecord]
      /\ awsStatus \in [A!Op -> Statuses] /\ awsResult \in [A!Op -> Text \cup {None}]
      /\ awsOrder \in Seq(A!Op) /\ awsStale \subseteq A!Op /\ awsFaults \in 0..AwsFaults
      /\ A!RunSound(o)
  BY DEF A!TypeOK, Statuses, Runs
<1>1. /\ UNCHANGED <<awsOp, awsRun, awsRelease, awsCloud, awsTorn>>
      /\ awsStatus' \in [A!Op -> Statuses] /\ awsResult' \in [A!Op -> Text \cup {None}]
      /\ awsOrder' \in Seq(A!Op) /\ awsStale' \subseteq A!Op /\ awsFaults' \in 0..AwsFaults
      /\ \A p \in A!Op \ {o} : awsStatus'[p] = awsStatus[p] /\ awsResult'[p] = awsResult[p]
      /\ awsStatus'[o] = awsStatus[o]
           \/ (awsStatus'[o] = "SUCCEEDED" /\ awsStatus[o] \in {"QUEUED", "RUNNING"})
      /\ awsResult'[o] = awsResult[o]
           \/ (text \in Text /\ awsResult'[o] = text /\ awsStatus[o] = "QUEUED")
      /\ A!Done(o, "PLAN")' => A!Done(o, "PLAN") \/ (text \in Text /\ awsResult'[o] = text)
      /\ awsRun[o].step # "none" => awsStatus'[o] = awsStatus[o]
  <2>1. CASE A!RunImage(o)
    <3>1. /\ awsStatus[o] = "QUEUED" /\ awsOp[o].type \in {"BUILD", "PUSH"}
          /\ awsStatus' = [awsStatus EXCEPT ![o] = "SUCCEEDED"]
          /\ UNCHANGED <<awsOp, awsResult, awsStale, awsOrder, awsRun, awsRelease, awsCloud,
                         awsTorn, awsFaults>>
      BY <2>1 DEF A!RunImage, A!Settle
    <3>2. awsRun[o].step = "none"
      BY <1>0, <3>1 DEF A!RunSound
    <3> QED
      BY <1>0, <3>1, <3>2 DEF Statuses, A!Done
  <2>2. CASE text \in Text /\ A!RunPlan(o, text)
    <3>1. /\ awsStatus[o] = "QUEUED" /\ awsOp[o].type = "PLAN"
          /\ awsStatus' = [awsStatus EXCEPT ![o] = "SUCCEEDED"]
          /\ awsResult' = [awsResult EXCEPT ![o] = text]
          /\ awsOrder' = Append(awsOrder, o)
          /\ UNCHANGED <<awsOp, awsStale, awsRun, awsRelease, awsCloud, awsTorn, awsFaults>>
      BY <2>2 DEF A!RunPlan, A!Settle
    <3>2. awsRun[o].step = "none"
      BY <1>0, <3>1 DEF A!RunSound
    <3>3. awsOrder' \in Seq(A!Op)
      BY <1>0, <3>1
    <3> QED
      BY <1>0, <2>2, <3>1, <3>2, <3>3 DEF Statuses
  <2>3. CASE A!Expire(o)
    <3>1. /\ A!Done(o, "PLAN") /\ awsStale' = awsStale \cup {o}
          /\ awsFaults < AwsFaults /\ awsFaults' = awsFaults + 1
          /\ UNCHANGED <<awsOp, awsStatus, awsResult, awsOrder, awsRun, awsRelease, awsCloud,
                         awsTorn>>
      BY <2>3 DEF A!Expire, A!Fault
    <3>2. awsFaults' \in 0..AwsFaults
      BY <1>0, <3>1 DEF A!AwsAssumption
    <3> QED
      BY <1>0, <3>1, <3>2 DEF A!Done
  <2>4. CASE A!Succeed(o)
    <3>1. /\ awsStatus[o] = "RUNNING" /\ awsRelease[o] # None
          /\ awsStatus' = [awsStatus EXCEPT ![o] = "SUCCEEDED"]
          /\ UNCHANGED <<awsOp, awsResult, awsStale, awsOrder, awsRun, awsRelease, awsCloud,
                         awsTorn, awsFaults>>
      BY <2>4 DEF A!Succeed, A!Settle
    <3>2. awsOp[o].type = "APPLY"
      BY <3>1 DEF Ops, A!OpSound
    <3>3. awsRun[o].step = "none"
      BY <1>0, <3>1 DEF A!RunSound
    <3> QED
      BY <1>0, <3>1, <3>2, <3>3 DEF Statuses, A!Done
  <2> QED
    BY <2>1, <2>2, <2>3, <2>4
<1>9. Later
  <2>1. CASE text \in Text /\ A!RunPlan(o, text)
    <3>1. awsOrder' = Append(awsOrder, o) /\ awsStale' = awsStale /\ A!Done(o, "PLAN")'
      BY <1>0, <2>1 DEF A!RunPlan, A!Settle, A!Done
    <3>2. \A i \in DOMAIN awsOrder' : awsOrder'[i] = o
            \/ (i \in DOMAIN awsOrder /\ awsOrder'[i] = awsOrder[i])
      BY <1>0, <3>1
    <3> QED
      BY <3>1, <3>2 DEF Later, Past
  <2>2. CASE A!Expire(o)
    <3>1. awsOrder' = awsOrder /\ awsStale' = awsStale \cup {o} /\ A!Done(o, "PLAN")
      BY <2>2 DEF A!Expire
    <3> QED
      BY <3>1 DEF Later, Past
  <2>3. CASE A!RunImage(o) \/ A!Succeed(o)
    <3>1. awsOrder' = awsOrder /\ awsStale' = awsStale
      BY <2>3 DEF A!RunImage, A!Succeed
    <3>2. Past' = Past
      BY <3>1 DEF Past
    <3> QED
      BY <3>2 DEF Later
  <2> QED
    BY <2>1, <2>2, <2>3
<1>2. Grows /\ NoneCreated
  BY <1>1 DEF Grows, NoneCreated
<1>3. A!TypeOK'
  BY <1>1 DEF A!TypeOK, Statuses
<1>4. Ops'
  <2>1. \A p \in A!Op : A!Done(p, "PLAN")' => awsResult'[p] \in Text
    <3> TAKE p \in A!Op
    <3>1. A!Done(p, "PLAN") => awsResult[p] \in Text
      BY DEF Ops, A!OpSound
    <3> QED
      BY <1>1, <3>1 DEF A!Done
  <2>2. \A p \in A!Op : awsRelease'[p] # None => Begun(p)'
    BY <1>1 DEF Ops, A!OpSound, Begun
  <2> QED
    BY <1>2, <2>1, <2>2, OpsKept
<1>5. Runs'
  <2> SUFFICES ASSUME NEW p \in A!Op
               PROVE  A!RunSound(p)'
    BY DEF Runs
  <2>1. A!RunSound(p)
    BY DEF Runs
  <2>2. awsRun[p].step # "none" => awsStatus'[p] = awsStatus[p]
    BY <1>1
  <2> QED
    BY <1>1, <1>2, <2>1, <2>2, RunStays
<1>6. Plans'
  <2> SUFFICES ASSUME NEW p \in Past'
               PROVE  A!Done(p, "PLAN")'
    BY DEF Plans, Past
  <2>1. p \in Past \/ (p = o /\ (A!Done(o, "PLAN") \/ A!Done(o, "PLAN")'))
    BY <1>9 DEF Later
  <2>2. p \in A!Op
    BY <1>0, <2>1 DEF Past
  <2>3. A!Done(p, "PLAN") \/ A!Done(p, "PLAN")'
    BY <2>1 DEF Plans, Past
  <2> QED
    BY <2>2, <2>3, <1>2 DEF Grows, A!Done
<1>7. Deploys' /\ History'
  BY <1>1, <1>2, RecordsRest
<1> QED
  BY <1>3, <1>4, <1>5, <1>6, <1>7

\* The beginning of an apply and its fresh plan keep the invariant.
LEMMA BeginKeeps ==
  ASSUME A!AwsAssumption, A!ReleaseInv, NEW o \in A!Op, NEW text,
         A!BeginApply(o) \/ (text \in Text /\ A!FreshPlan(o, text))
  PROVE  A!ReleaseInv'
<1> USE Parts
<1>1. /\ UNCHANGED <<awsOp, awsResult, awsStale, awsOrder, awsRelease, awsCloud, awsTorn,
                     awsFaults>>
      /\ \/ awsStatus' = [awsStatus EXCEPT ![o] = "RUNNING"] /\ awsStatus[o] = "QUEUED"
         \/ awsStatus' = awsStatus
      /\ \A p \in A!Op \ {o} : awsRun'[p] = awsRun[p]
      /\ \E new : awsRun' = [awsRun EXCEPT ![o] = new]
  BY DEF A!BeginApply, A!FreshPlan, A!Settle, A!TypeOK
<1>0. awsStatus \in [A!Op -> Statuses] /\ awsRun \in [A!Op -> A!RunRecord]
  BY DEF A!TypeOK, Statuses
<1>2. /\ \A p \in A!Op \ {o} : awsStatus'[p] = awsStatus[p] /\ awsRun'[p] = awsRun[p]
      /\ awsStatus'[o] = awsStatus[o] \/ (awsStatus'[o] = "RUNNING" /\ awsStatus[o] = "QUEUED")
  BY <1>0, <1>1
<1>3. Grows /\ NoneCreated
  BY <1>1, <1>2 DEF Grows, NoneCreated
<1>4. A!OpSound(o) /\ A!RunSound(o)
  BY DEF Ops, Runs
<1>5. awsRun'[o] \in A!RunRecord /\ awsRun'[o].step \in {"checked", "planned"}
      /\ awsRun[o].step \in {"none", "checked"} /\ A!RunSound(o)'
  <2> DEFINE plan == awsOp[o].source
  <2>1. CASE A!BeginApply(o)
    <3>1. /\ awsStatus[o] = "QUEUED" /\ awsOp[o].type = "APPLY" /\ awsOp[o].approved
          /\ A!Eligible(plan) /\ awsStatus'[o] = "RUNNING"
          /\ awsRun'[o] = [step |-> "checked", text |-> None, serial |-> 0, version |-> 0]
      BY <2>1 DEF A!BeginApply, A!GateOpens, A!Settle, A!NoRun, A!TypeOK
    <3>2. awsRun[o].step = "none"
      BY <1>4, <3>1 DEF A!RunSound
    <3>3. awsRelease[o] = None
      <4> QED
        BY <3>1 DEF Ops, A!OpSound
    <3>4. A!Reviewed(o)'
      BY <1>1, <3>1 DEF A!Reviewed, A!Eligible
    <3> QED
      BY <1>1, <3>1, <3>2, <3>3, <3>4 DEF A!RunSound, A!RunRecord, A!Step, A!AwsAssumption
  <2>2. CASE text \in Text /\ A!FreshPlan(o, text)
    <3>1. /\ awsRun[o].step = "checked" /\ A!AcceptablePlan(o, text)
          /\ awsStatus' = awsStatus
          /\ awsRun'[o] = [step |-> "planned", text |-> text,
                        serial |-> awsCloud[awsOp[o].env].serial, version |-> 0]
      BY <2>2 DEF A!FreshPlan, A!TypeOK
    <3>2. /\ awsOp[o].type = "APPLY" /\ awsOp[o].approved /\ awsStatus[o] = "RUNNING"
          /\ awsRelease[o] = None /\ A!Reviewed(o)
      BY <1>4, <3>1 DEF A!RunSound
    <3>3. awsCloud[awsOp[o].env].serial \in Nat
      <4>1. awsOp[o].env \in Environment
        BY <3>2, Created DEF A!OperationType
      <4> QED
        BY <4>1 DEF A!TypeOK
    <3>4. A!Counts(text) = A!Counts(awsResult[plan])
      BY <3>1, <3>2 DEF A!AcceptablePlan
    <3>5. A!Reviewed(o)'
      BY <1>1, <3>1, <3>2, <3>4 DEF A!Reviewed
    <3> QED
      BY <1>1, <2>2, <3>1, <3>2, <3>3, <3>5 DEF A!RunSound, A!RunRecord, A!Step, A!AwsAssumption
  <2> QED
    BY <2>1, <2>2
<1>6. A!TypeOK'
  <2>1. awsStatus' \in [A!Op -> Statuses] /\ awsRun' \in [A!Op -> A!RunRecord]
    BY <1>0, <1>1, <1>5 DEF Statuses
  <2> QED
    BY <1>1, <2>1 DEF A!TypeOK, Statuses
<1>7. Ops'
  <2>1. \A p \in A!Op : A!Done(p, "PLAN")' => awsResult'[p] \in Text
    BY <1>1, <1>2 DEF A!Done, Ops, A!OpSound
  <2>2. \A p \in A!Op : awsRelease'[p] # None => Begun(p)'
    BY <1>1, <1>2 DEF Ops, A!OpSound, Begun
  <2> QED
    BY <1>1, <1>3, <2>1, <2>2, OpsKept
<1>8. Runs'
  <2> SUFFICES ASSUME NEW p \in A!Op, p # o
               PROVE  A!RunSound(p)'
    BY <1>5 DEF Runs
  <2>1. A!RunSound(p)
    BY DEF Runs
  <2> QED
    BY <1>1, <1>2, <1>3, <2>1, RunStays
<1>9. Plans'
  BY <1>1, <1>3, PlansStay
<1>10. Deploys' /\ History'
  <2>1. \A p \in A!Op : awsRun'[p] = awsRun[p]
          \/ {awsRun[p].step, awsRun'[p].step} \cap {"applied", "superseded", "counted"} = {}
    BY <1>2, <1>5
  <2>2. \A p \in A!Op : awsStatus[p] = "NONE" => awsRun'[p] = awsRun[p]
    <3>1. awsStatus[o] # "NONE"
      BY <1>1, <1>4, <1>5 DEF A!BeginApply, A!FreshPlan, A!RunSound
    <3> QED
      BY <1>2, <3>1
  <2> QED
    BY <1>1, <1>3, <2>1, <2>2, RecordsRest
<1> QED
  BY <1>6, <1>7, <1>8, <1>9, <1>10

-----------------------------------------------------------------------------
(* The record of a release, step by step                                   *)

\* A step of the worker of o, which may end the operation, keeps what is not about records.
LEMMA WorkKeeps ==
  ASSUME A!AwsAssumption, A!ReleaseInv, NEW o \in A!Op,
         UNCHANGED <<awsOp, awsResult, awsStale, awsOrder>>,
         \/ awsStatus' = awsStatus
         \/ awsStatus[o] \in {"QUEUED", "RUNNING"}
              /\ awsStatus' = [awsStatus EXCEPT ![o] = "FAILED"],
         \A p \in A!Op \ {o} : awsRun'[p] = awsRun[p]
           /\ (awsRelease[p] = None => awsRelease'[p] = None),
         \A p \in A!Op \ {o} : awsRelease'[p] # None => awsRelease[p] # None,
         awsRelease'[o] # None => Begun(o)',
         A!RunSound(o)'
  PROVE  /\ Grows /\ Ops' /\ Runs' /\ Plans'
         /\ awsStatus' \in [A!Op -> Statuses]
<1> USE Parts
<1>1. awsStatus \in [A!Op -> Statuses]
  BY DEF A!TypeOK, Statuses
<1>2. /\ awsStatus' \in [A!Op -> Statuses]
      /\ \A p \in A!Op \ {o} : awsStatus'[p] = awsStatus[p]
      /\ awsStatus'[o] = awsStatus[o]
           \/ (awsStatus'[o] = "FAILED" /\ awsStatus[o] \in {"QUEUED", "RUNNING"})
  BY <1>1 DEF Statuses
<1>3. Grows /\ NoneCreated
  BY <1>2 DEF Grows, NoneCreated
<1>4. Ops'
  <2>1. \A p \in A!Op : A!Done(p, "PLAN")' => awsResult'[p] \in Text
    BY <1>2 DEF A!Done, Ops, A!OpSound
  <2>2. \A p \in A!Op : awsRelease'[p] # None => Begun(p)'
    BY <1>2 DEF Ops, A!OpSound, Begun
  <2> QED
    BY <1>3, <2>1, <2>2, OpsKept
<1>5. Runs'
  <2> SUFFICES ASSUME NEW p \in A!Op, p # o
               PROVE  A!RunSound(p)'
    BY DEF Runs
  <2>1. A!RunSound(p)
    BY DEF Runs
  <2>2. awsRun[p].step # "none" => awsStatus'[p] = awsStatus[p] /\ awsRelease'[p] = awsRelease[p]
    BY <1>2, <2>1 DEF A!RunSound
  <2> QED
    BY <1>3, <2>1, <2>2, RunStays
<1>6. Plans'
  BY <1>3, PlansStay
<1> QED
  BY <1>2, <1>3, <1>4, <1>5, <1>6

\* What is known of an operation in the middle of its apply.
LEMMA InApply ==
  ASSUME A!AwsAssumption, A!ReleaseInv, NEW o \in A!Op, awsRun[o].step # "none"
  PROVE  /\ awsOp[o].env \in Environment /\ awsOp[o].image \in A!Op
         /\ awsOp[o].type = "APPLY" /\ awsOp[o].approved
         /\ awsStatus[o] = "RUNNING" /\ awsRelease[o] = None /\ A!Reviewed(o)
         /\ awsOp[o].source \in A!Op
         /\ awsRun[o] \in A!RunRecord
         /\ \A e \in Environment : o \in A!Recording(e) <=>
              e = awsOp[o].env /\ awsRun[o].step \in {"applied", "superseded", "counted"}
<1> USE Parts
<1>1. /\ awsOp[o].type = "APPLY" /\ awsOp[o].approved
      /\ awsStatus[o] = "RUNNING" /\ awsRelease[o] = None /\ A!Reviewed(o)
  BY DEF Runs, A!RunSound
<1>2. awsOp[o].env \in Environment /\ awsOp[o].image \in A!Op
  BY <1>1, Created DEF A!OperationType
<1>3. awsOp[o].source \in A!Op
  BY <1>1 DEF Ops, A!OpSound, A!Follows
<1>4. awsRun[o] \in A!RunRecord
  BY DEF A!TypeOK
<1> QED
  BY <1>1, <1>2, <1>3, <1>4 DEF A!Recording

\* The next step of an apply is sound where the plan it holds stays the same.
LEMMA ApplyGoesOn ==
  ASSUME A!AwsAssumption, A!ReleaseInv, NEW o \in A!Op, awsRun[o].step \notin {"none", "checked"},
         UNCHANGED <<awsOp, awsStatus, awsResult>>, awsRelease'[o] = None,
         awsRun'[o].text = awsRun[o].text, awsRun'[o].step = "counted" => awsRun'[o].version > 0
  PROVE  A!RunSound(o)'
<1>1. /\ awsOp[o].type = "APPLY" /\ awsOp[o].approved
      /\ awsStatus[o] = "RUNNING" /\ A!Reviewed(o)
  BY InApply
<1>2. A!Reviewed(o)'
  BY <1>1 DEF A!Reviewed
<1> QED
  BY <1>1, <1>2 DEF A!RunSound

\* The history is sound where one record stands alone.
LEMMA Alone ==
  ASSUME NEW e, NEW o \in A!Recording(e)', \A p \in A!Recording(e)' : p = o,
         {awsRelease'[r].version : r \in A!Rows(e)'} = 1..A!Cardinality(A!Rows(e)'),
         awsOp'[o].image = awsCloud'[e].image,
         awsRun'[o].step # "applied" => A!Superseded(e)' = {},
         awsRun'[o].step = "counted" => awsRun'[o].version = A!Cardinality(A!Rows(e)') + 1
  PROVE  A!HistorySound(e)'
  BY DEF A!HistorySound

\* A failure keeps the invariant: a record it cuts short is remembered.
LEMMA FailKeeps ==
  ASSUME A!AwsAssumption, A!ReleaseInv, NEW o \in A!Op, A!Fail(o)
  PROVE  A!ReleaseInv'
<1> USE Parts
<1>1. /\ awsStatus[o] \in {"QUEUED", "RUNNING"}
      /\ awsStatus' = [awsStatus EXCEPT ![o] = "FAILED"]
      /\ awsRun' = [awsRun EXCEPT ![o] = A!NoRun]
      /\ awsTorn' = awsTorn \cup {e \in Environment : o \in A!Recording(e)}
      /\ awsFaults < AwsFaults /\ awsFaults' = awsFaults + 1
      /\ UNCHANGED <<awsOp, awsResult, awsStale, awsOrder, awsRelease, awsCloud>>
  BY DEF A!Fail, A!Settle, A!Fault
<1>2. awsRun \in [A!Op -> A!RunRecord] /\ awsStatus \in [A!Op -> Statuses] /\ A!OpSound(o)
  BY DEF A!TypeOK, Statuses, Ops
<1>3. /\ awsRun'[o] = A!NoRun /\ awsRun'[o].step = "none" /\ awsStatus'[o] = "FAILED"
      /\ \A p \in A!Op \ {o} : awsRun'[p] = awsRun[p]
  BY <1>1, <1>2 DEF A!NoRun
<1>4. A!RunSound(o)' /\ (awsRelease'[o] # None => Begun(o)')
  BY <1>1, <1>2, <1>3 DEF A!RunSound, A!OpSound, Begun
<1>5. Grows /\ Ops' /\ Runs' /\ Plans' /\ awsStatus' \in [A!Op -> Statuses]
  BY <1>1, <1>3, <1>4, WorkKeeps
<1>6. A!TypeOK'
  <2>1. awsRun' \in [A!Op -> A!RunRecord]
    BY <1>1, <1>2 DEF A!NoRun, A!RunRecord, A!Step, A!AwsAssumption
  <2>2. awsFaults' \in 0..AwsFaults
    BY <1>1 DEF A!TypeOK, A!AwsAssumption
  <2> QED
    BY <1>1, <1>5, <2>1, <2>2 DEF A!TypeOK, Statuses
<1>7. Deploys'
  BY <1>1, <1>5, DeploysStay DEF Deploys
<1>8. History'
  <2> SUFFICES ASSUME NEW e \in Environment
               PROVE  A!HistorySound(e)'
    BY DEF History
  <2>1. A!HistorySound(e)
    BY DEF History
  <2>2. ASSUME e \notin awsTorn'
        PROVE  /\ e \notin awsTorn
               /\ A!Recording(e)' = A!Recording(e)
               /\ \A p \in A!Recording(e) : awsRun'[p] = awsRun[p]
                    /\ awsOp'[p].image = awsOp[p].image
    <3>1. e \notin awsTorn /\ o \notin A!Recording(e)
      BY <1>1, <2>2
    <3>2. A!Recording(e)' = A!Recording(e)
      BY <1>1, <1>3, <3>1 DEF A!Recording
    <3>3. \A p \in A!Recording(e) : p \in A!Op \ {o}
      BY <3>1 DEF A!Recording
    <3> QED
      BY <1>1, <1>3, <3>1, <3>2, <3>3
  <2> QED
    BY <1>1, <2>1, <2>2, HistoryStays
<1> QED
  BY <1>5, <1>6, <1>7, <1>8

\* Terraform applies a plan, or breaks off: an overlap or a broken apply is remembered, and
\* otherwise the image is that of the only record.
LEMMA TerraformKeeps ==
  ASSUME A!AwsAssumption, A!ReleaseInv, NEW o \in A!Op, A!TerraformApply(o) \/ A!ApplyBreaks(o)
  PROVE  A!ReleaseInv'
<1> USE Parts
<1>1. awsRun[o].step = "planned"
  BY DEF A!TerraformApply, A!ApplyBreaks
<1>0. PICK e \in Environment : e = awsOp[o].env
  BY <1>1, InApply
<1>2. /\ awsOp[o].image \in A!Op /\ awsOp[o].type = "APPLY" /\ awsOp[o].approved
      /\ awsStatus[o] = "RUNNING" /\ awsRelease[o] = None /\ awsRun[o] \in A!RunRecord
      /\ \A x \in Environment : o \notin A!Recording(x)
  BY <1>1, InApply
<1>3. PICK image \in {awsCloud[e].image, awsOp[o].image},
           n \in {awsCloud[e].serial, awsCloud[e].serial + 1} :
        awsCloud' = [awsCloud EXCEPT ![e] = [serial |-> n, image |-> image]]
        /\ (A!TerraformApply(o) => image = awsOp[o].image)
  BY <1>0 DEF A!TerraformApply, A!ApplyBreaks
<1>4. /\ UNCHANGED <<awsOp, awsResult, awsStale, awsOrder, awsRelease>>
      /\ \/ awsStatus' = awsStatus /\ awsRun' = [awsRun EXCEPT ![o].step = "applied"]
            /\ awsTorn' = awsTorn \cup {x \in {e} : A!Recording(e) # {}} /\ awsFaults' = awsFaults
            /\ A!TerraformApply(o)
         \/ awsStatus' = [awsStatus EXCEPT ![o] = "FAILED"]
              /\ awsRun' = [awsRun EXCEPT ![o] = A!NoRun]
            /\ awsTorn' = awsTorn \cup {e} /\ awsFaults < AwsFaults /\ awsFaults' = awsFaults + 1
  BY <1>0 DEF A!TerraformApply, A!ApplyBreaks, A!Settle, A!Fault
<1>5. /\ awsRun \in [A!Op -> A!RunRecord] /\ awsStatus \in [A!Op -> Statuses]
      /\ awsFaults \in 0..AwsFaults
      /\ awsCloud \in [Environment -> [serial : Nat, image : A!Op \cup {None}]]
  BY DEF A!TypeOK, Statuses
<1>6. /\ awsRun'[o] \in A!RunRecord
      /\ awsRun'[o] = A!NoRun \/ awsRun'[o] = [awsRun[o] EXCEPT !.step = "applied"]
      /\ \A p \in A!Op \ {o} : awsRun'[p] = awsRun[p]
      /\ awsRun' \in [A!Op -> A!RunRecord]
  <2>1. A!NoRun \in A!RunRecord /\ [awsRun[o] EXCEPT !.step = "applied"] \in A!RunRecord
    BY <1>2 DEF A!NoRun, A!RunRecord, A!Step, A!AwsAssumption
  <2> QED
    BY <1>4, <1>5, <2>1
<1>7. A!RunSound(o)'
  <2>1. CASE awsRun'[o] = A!NoRun
    BY <2>1 DEF A!RunSound, A!NoRun
  <2>2. CASE awsRun'[o] # A!NoRun
    <3>1. awsStatus' = awsStatus /\ awsRun'[o] = [awsRun[o] EXCEPT !.step = "applied"]
      BY <1>4, <1>5, <1>6, <2>2
    <3>2. awsRun'[o].text = awsRun[o].text /\ awsRun'[o].step = "applied"
      BY <1>2, <3>1 DEF A!RunRecord
    <3> QED
      BY <1>1, <1>2, <1>4, <3>1, <3>2, ApplyGoesOn
  <2> QED
    BY <2>1, <2>2
<1>8. Grows /\ Ops' /\ Runs' /\ Plans' /\ awsStatus' \in [A!Op -> Statuses]
  BY <1>2, <1>4, <1>6, <1>7, WorkKeeps
<1>9. /\ awsCloud'[e].image = image /\ \A x \in Environment \ {e} : awsCloud'[x] = awsCloud[x]
      /\ awsCloud' \in [Environment -> [serial : Nat, image : A!Op \cup {None}]]
  BY <1>2, <1>3, <1>5
<1>10. A!TypeOK'
  <2>1. awsFaults' \in 0..AwsFaults
    BY <1>4, <1>5 DEF A!AwsAssumption
  <2>2. awsTorn' \subseteq Environment
    BY <1>2, <1>4 DEF A!TypeOK
  <2> QED
    BY <1>4, <1>6, <1>8, <1>9, <2>1, <2>2 DEF A!TypeOK, Statuses
<1>11. Deploys'
  <2> SUFFICES ASSUME NEW x \in Environment
               PROVE  A!CloudSound(x)'
    BY DEF Deploys
  <2>1. CASE x = e /\ image = awsOp[o].image
    BY <1>0, <1>2, <1>4, <1>9, <2>1 DEF A!CloudSound
  <2>2. CASE ~(x = e /\ image = awsOp[o].image)
    <3>1. awsCloud'[x].image = awsCloud[x].image
      BY <1>3, <1>9, <2>2
    <3> QED
      BY <1>8, <3>1, DeploysStay DEF Deploys
  <2> QED
    BY <2>1, <2>2
<1>12. ASSUME NEW x \in Environment, x # e
       PROVE  A!HistorySound(x)'
  <2>1. A!HistorySound(x) /\ o \notin A!Recording(x)
    BY <1>2, <1>12 DEF History
  <2>2. A!Recording(x)' = A!Recording(x)
    BY <1>0, <1>4, <1>6, <1>12, <2>1 DEF A!Recording
  <2>3. \A p \in A!Recording(x) : awsRun'[p] = awsRun[p] /\ awsOp'[p].image = awsOp[p].image
    BY <1>4, <1>6, <2>1 DEF A!Recording
  <2>4. x \notin awsTorn' => x \notin awsTorn
    BY <1>4
  <2> QED
    BY <1>4, <1>9, <1>12, <2>1, <2>2, <2>3, <2>4, HistoryStays
<1>13. A!HistorySound(e)'
  <2> SUFFICES ASSUME e \notin awsTorn'
               PROVE  A!HistorySound(e)'
    BY DEF A!HistorySound
  <2>1. /\ e \notin awsTorn /\ A!Recording(e) = {}
        /\ awsRun' = [awsRun EXCEPT ![o].step = "applied"]
        /\ image = awsOp[o].image
    BY <1>3, <1>4
  <2>2. awsRun'[o].step = "applied"
    BY <1>2, <1>5, <2>1 DEF A!RunRecord
  <2>3. A!Recording(e)' = {o}
    BY <1>0, <1>4, <1>6, <2>1, <2>2 DEF A!Recording
  <2>4. /\ A!Rows(e)' = A!Rows(e)
        /\ {awsRelease'[r].version : r \in A!Rows(e)} = 1..A!Cardinality(A!Rows(e))
    <3>1. {awsRelease[r].version : r \in A!Rows(e)} = 1..A!Cardinality(A!Rows(e))
      BY <2>1 DEF History, A!HistorySound
    <3>2. A!Rows(e)' = A!Rows(e) /\ awsRelease' = awsRelease
      BY <1>4 DEF A!Rows
    <3> QED
      BY <3>1, <3>2
  <2> QED
    BY <1>4, <1>9, <2>1, <2>2, <2>3, <2>4 DEF A!HistorySound
<1>14. History'
  BY <1>2, <1>4, <1>12, <1>13 DEF History
<1> QED
  BY <1>8, <1>10, <1>11, <1>14

\* The active rows are superseded: the only record of its environment leaves none.
LEMMA SupersedeKeeps ==
  ASSUME A!AwsAssumption, A!ReleaseInv, NEW o \in A!Op, A!Supersede(o)
  PROVE  A!ReleaseInv'
<1> USE Parts
<1>1. /\ awsRun[o].step = "applied"
      /\ awsRelease' = [r \in A!Op |-> IF r \in A!Superseded(awsOp[o].env)
                                  THEN [awsRelease[r] EXCEPT !.status = "SUPERSEDED"]
                                  ELSE awsRelease[r]]
      /\ awsRun' = [awsRun EXCEPT ![o].step = "superseded"]
      /\ UNCHANGED <<awsOp, awsStatus, awsResult, awsStale, awsOrder, awsCloud, awsTorn, awsFaults>>
  BY DEF A!Supersede
<1>2. PICK e \in Environment : e = awsOp[o].env
  BY <1>1, InApply
<1>3. /\ awsRelease[o] = None /\ awsRun[o] \in A!RunRecord /\ o \in A!Recording(e)
      /\ \A x \in Environment \ {e} : o \notin A!Recording(x)
  BY <1>1, <1>2, InApply
<1>4. awsRun \in [A!Op -> A!RunRecord] /\ awsRelease \in [A!Op -> A!Row \cup {None}]
  BY DEF A!TypeOK
<1>5. /\ awsRun'[o] = [awsRun[o] EXCEPT !.step = "superseded"]
      /\ awsRun'[o] \in A!RunRecord /\ awsRun'[o].step = "superseded"
      /\ awsRun'[o].text = awsRun[o].text
      /\ \A p \in A!Op \ {o} : awsRun'[p] = awsRun[p]
      /\ awsRun' \in [A!Op -> A!RunRecord]
  <2>1. [awsRun[o] EXCEPT !.step = "superseded"] \in A!RunRecord
    BY <1>3 DEF A!RunRecord, A!Step
  <2> QED
    BY <1>1, <1>3, <1>4, <2>1 DEF A!RunRecord
<1>6. ASSUME NEW r \in A!Op
      PROVE  /\ awsRelease[r] = None => awsRelease'[r] = None
             /\ awsRelease[r] # None =>
                  /\ awsRelease'[r] \in A!Row /\ awsRelease'[r] # None
                  /\ awsRelease'[r].env = awsRelease[r].env
                  /\ awsRelease'[r].version = awsRelease[r].version
                  /\ awsRelease'[r].image = awsRelease[r].image
                  /\ awsRelease'[r].status = "ACTIVE" =>
                       awsRelease[r].status = "ACTIVE" /\ awsRelease[r].env # e
                  /\ awsRelease[r].env # e => awsRelease'[r] = awsRelease[r]
  <2>1. CASE r \in A!Superseded(e)
    <3>1. /\ awsRelease[r] # None /\ awsRelease[r] \in A!Row /\ awsRelease[r].env = e
          /\ awsRelease'[r] = [awsRelease[r] EXCEPT !.status = "SUPERSEDED"]
      BY <1>1, <1>2, <1>4, <2>1 DEF A!Superseded
    <3>2. awsRelease'[r] \in A!Row
      BY <3>1 DEF A!Row
    <3> QED
      BY <3>1, <3>2 DEF A!Row, A!AwsAssumption
  <2>2. CASE r \notin A!Superseded(e)
    <3>1. awsRelease'[r] = awsRelease[r]
      BY <1>1, <1>2, <2>2
    <3> QED
      BY <1>4, <2>2, <3>1 DEF A!Superseded
  <2> QED
    BY <2>1, <2>2
<1>7. A!RunSound(o)'
  BY <1>1, <1>3, <1>5, <1>6, ApplyGoesOn
<1>8. Grows /\ Ops' /\ Runs' /\ Plans' /\ awsStatus' \in [A!Op -> Statuses]
  BY <1>1, <1>3, <1>5, <1>6, <1>7, WorkKeeps
<1>9. A!TypeOK'
  <2>1. awsRelease' \in [A!Op -> A!Row \cup {None}]
    <3>1. \A r \in A!Op : awsRelease'[r] \in A!Row \cup {None}
      BY <1>6
    <3> QED
      BY <1>1, <3>1
  <2> QED
    BY <1>1, <1>5, <2>1 DEF A!TypeOK
<1>10. Deploys'
  BY <1>1, <1>8, DeploysStay DEF Deploys
<1>11. \A x \in Environment : A!Recording(x)' = A!Recording(x) /\ A!Rows(x)' = A!Rows(x)
  <2> TAKE x \in Environment
  <2>1. A!Recording(x)' = A!Recording(x)
    BY <1>1, <1>5 DEF A!Recording
  <2>2. A!Rows(x)' = A!Rows(x)
    BY <1>6 DEF A!Rows
  <2> QED
    BY <2>1, <2>2
<1>12. ASSUME NEW x \in Environment, x # e
       PROVE  A!HistorySound(x)'
  <2>1. A!HistorySound(x)
    BY DEF History
  <2>2. \A p \in A!Recording(x) : awsRun'[p] = awsRun[p] /\ awsOp'[p].image = awsOp[p].image
    BY <1>1, <1>3, <1>5, <1>12 DEF A!Recording
  <2>3. \A r \in A!Op : (awsRelease'[r] # None /\ awsRelease'[r].env = x)
                        <=> (awsRelease[r] # None /\ awsRelease[r].env = x)
    BY <1>6
  <2>4. \A r \in A!Op : awsRelease[r] # None /\ awsRelease[r].env = x
          => awsRelease'[r] = awsRelease[r]
    BY <1>6, <1>12
  <2> QED
    BY <1>1, <1>11, <1>12, <2>1, <2>2, <2>3, <2>4, HistoryStays
<1>13. A!HistorySound(e)'
  <2> SUFFICES ASSUME e \notin awsTorn'
               PROVE  A!HistorySound(e)'
    BY DEF A!HistorySound
  <2>1. e \notin awsTorn /\ A!HistorySound(e)
    BY <1>1 DEF History
  <2>2. /\ \A p, q \in A!Recording(e) : p = q
        /\ {awsRelease[r].version : r \in A!Rows(e)} = 1..A!Cardinality(A!Rows(e))
        /\ \A p \in A!Recording(e) : awsOp[p].image = awsCloud[e].image
    BY <2>1 DEF A!HistorySound
  <2>3. {awsRelease'[r].version : r \in A!Rows(e)} = {awsRelease[r].version : r \in A!Rows(e)}
    BY <1>6 DEF A!Rows
  <2>4. A!Superseded(e)' = {}
    BY <1>6 DEF A!Superseded
  <2>5. \A p \in A!Recording(e) : p = o
    BY <1>3, <2>2
  <2> QED
    <3>1. A!Recording(e)' = A!Recording(e) /\ A!Rows(e)' = A!Rows(e)
      BY <1>11
    <3>2. {awsRelease'[r].version : r \in A!Rows(e)'} = 1..A!Cardinality(A!Rows(e)')
      BY <2>2, <2>3, <3>1
    <3>3. awsOp'[o].image = awsCloud'[e].image /\ awsRun'[o].step = "superseded"
      BY <1>1, <1>3, <1>5, <2>2
    <3>4. o \in A!Recording(e)' /\ \A p \in A!Recording(e)' : p = o
      BY <1>3, <2>5, <3>1
    <3> QED
      BY <2>4, <3>2, <3>3, <3>4, Alone
<1> QED
  BY <1>8, <1>9, <1>10, <1>12, <1>13 DEF History

\* The rows of an environment are at most as many as the operations that hold one.
LEMMA CountedRows ==
  ASSUME A!AwsAssumption, NEW o \in A!Op, awsRelease[o] = None, NEW e
  PROVE  /\ IsFiniteSet(A!Rows(e))
         /\ A!Cardinality(A!Rows(e)) \in Nat /\ A!Cardinality(A!Rows(e)) + 1 \in A!Op
<1>1. IsFiniteSet(A!Op) /\ A!Cardinality(A!Op) = AwsOps /\ AwsOps \in Nat
  BY FS_Interval, SameCardinality DEF A!Op, A!AwsAssumption
<1>2. IsFiniteSet(A!Op \ {o}) /\ A!Cardinality(A!Op \ {o}) = AwsOps - 1
  BY <1>1, FS_RemoveElement, SameCardinality
<1>3. A!Rows(e) \in SUBSET (A!Op \ {o})
  BY DEF A!Rows
<1>4. IsFiniteSet(A!Rows(e)) /\ A!Cardinality(A!Rows(e)) <= AwsOps - 1
  BY <1>2, <1>3, FS_Subset, SameCardinality
<1>5. A!Cardinality(A!Rows(e)) \in Nat
  BY <1>4, FS_CardinalityType, SameCardinality
<1> QED
  BY <1>1, <1>4, <1>5 DEF A!Op

\* The rows are counted: the only record of its environment holds the next number.
LEMMA CountKeeps ==
  ASSUME A!AwsAssumption, A!ReleaseInv, NEW o \in A!Op, A!CountReleases(o)
  PROVE  A!ReleaseInv'
<1> USE Parts
<1>1. /\ awsRun[o].step = "superseded"
      /\ awsRun' = [awsRun EXCEPT ![o] = [awsRun[o] EXCEPT !.step = "counted",
                                                   !.version = A!NextVersion(awsOp[o].env)]]
      /\ UNCHANGED <<awsOp, awsStatus, awsResult, awsStale, awsOrder, awsRelease, awsCloud,
                     awsTorn, awsFaults>>
  BY DEF A!CountReleases
<1>2. PICK e \in Environment : e = awsOp[o].env
  BY <1>1, InApply
<1>3. /\ awsRelease[o] = None /\ awsRun[o] \in A!RunRecord /\ o \in A!Recording(e)
      /\ \A x \in Environment \ {e} : o \notin A!Recording(x)
  BY <1>1, <1>2, InApply
<1>4. PICK n \in A!Op : n = A!Cardinality(A!Rows(e)) + 1
  BY <1>3, CountedRows
<1>5. n \in 1..AwsOps /\ n = A!NextVersion(awsOp[o].env)
  BY <1>2, <1>4 DEF A!NextVersion, A!Rows, A!Op
<1>6. awsRun \in [A!Op -> A!RunRecord]
  BY DEF A!TypeOK
<1>7. /\ awsRun'[o] \in A!RunRecord /\ awsRun'[o].step = "counted"
      /\ awsRun'[o].text = awsRun[o].text
      /\ awsRun'[o].version = n /\ n > 0
      /\ \A p \in A!Op \ {o} : awsRun'[p] = awsRun[p]
      /\ awsRun' \in [A!Op -> A!RunRecord]
  <2>1. PICK counted : counted = [awsRun[o] EXCEPT !.step = "counted", !.version = n]
    OBVIOUS
  <2>2. /\ counted \in A!RunRecord /\ counted.step = "counted"
        /\ counted.text = awsRun[o].text /\ counted.version = n
    <3>1. counted \in A!RunRecord
      <4>1. counted = [step |-> "counted", text |-> awsRun[o].text,
                       serial |-> awsRun[o].serial, version |-> n]
        BY <1>3, <2>1 DEF A!RunRecord
      <4>2. n \in 0..AwsOps
        BY <1>5 DEF A!AwsAssumption
      <4>3. awsRun[o].text \in Text \cup {None} /\ awsRun[o].serial \in Nat
        BY <1>3 DEF A!RunRecord
      <4> QED
        BY <4>1, <4>2, <4>3 DEF A!RunRecord, A!Step
    <3>2. /\ "step" \in DOMAIN awsRun[o] /\ "version" \in DOMAIN awsRun[o]
          /\ "text" \in DOMAIN awsRun[o]
      BY <1>3 DEF A!RunRecord
    <3> QED
      BY <2>1, <3>1, <3>2
  <2>3. awsRun' = [awsRun EXCEPT ![o] = counted]
    BY <1>1, <1>5, <2>1
  <2>4. n > 0
    BY <1>5 DEF A!AwsAssumption
  <2> QED
    BY <1>6, <2>2, <2>3, <2>4
<1>8. A!RunSound(o)'
  BY <1>1, <1>3, <1>7, ApplyGoesOn
<1>9. Grows /\ Ops' /\ Runs' /\ Plans' /\ awsStatus' \in [A!Op -> Statuses]
  BY <1>1, <1>3, <1>7, <1>8, WorkKeeps
<1>10. A!TypeOK'
  BY <1>1, <1>7 DEF A!TypeOK
<1>11. Deploys'
  BY <1>1, <1>9, DeploysStay DEF Deploys
<1>12. ASSUME NEW x \in Environment
       PROVE  /\ A!Recording(x)' = A!Recording(x) /\ A!Rows(x)' = A!Rows(x)
              /\ A!Superseded(x)' = A!Superseded(x)
  BY <1>1, <1>7 DEF A!Recording, A!Rows, A!Superseded
<1>13. ASSUME NEW x \in Environment, x # e
       PROVE  A!HistorySound(x)'
  <2>1. A!HistorySound(x)
    BY DEF History
  <2>2. \A p \in A!Recording(x) : awsRun'[p] = awsRun[p] /\ awsOp'[p].image = awsOp[p].image
    BY <1>1, <1>3, <1>7, <1>13 DEF A!Recording
  <2> QED
    BY <1>1, <1>12, <2>1, <2>2, HistoryStays
<1>14. A!HistorySound(e)'
  <2> SUFFICES ASSUME e \notin awsTorn'
               PROVE  A!HistorySound(e)'
    BY DEF A!HistorySound
  <2>1. e \notin awsTorn /\ A!HistorySound(e)
    BY <1>1 DEF History
  <2>2. /\ \A p, q \in A!Recording(e) : p = q
        /\ {awsRelease[r].version : r \in A!Rows(e)} = 1..A!Cardinality(A!Rows(e))
        /\ awsOp[o].image = awsCloud[e].image /\ A!Superseded(e) = {}
    BY <1>1, <1>3, <2>1 DEF A!HistorySound
  <2>3. \A p \in A!Recording(e) : p = o
    BY <1>3, <2>2
  <2> QED
    BY <1>1, <1>3, <1>4, <1>7, <1>12, <2>2, <2>3 DEF A!HistorySound
<1> QED
  BY <1>9, <1>10, <1>11, <1>13, <1>14 DEF History

\* The row is created: the only record of its environment ends with the number it holds, and
\* with its row as the active one.
LEMMA ReleaseKeeps ==
  ASSUME A!AwsAssumption, A!ReleaseInv, NEW o \in A!Op, A!CreateRelease(o)
  PROVE  A!ReleaseInv'
<1> USE Parts
<1>1. /\ awsRun[o].step = "counted"
      /\ awsRelease' = [awsRelease EXCEPT ![o] = [env |-> awsOp[o].env, image |-> awsOp[o].image,
                                            version |-> awsRun[o].version, status |-> "ACTIVE"]]
      /\ awsRun' = [awsRun EXCEPT ![o] = A!NoRun]
      /\ UNCHANGED <<awsOp, awsStatus, awsResult, awsStale, awsOrder, awsCloud, awsTorn, awsFaults>>
  BY DEF A!CreateRelease
<1>2. PICK e \in Environment : e = awsOp[o].env
  BY <1>1, InApply
<1>3. /\ awsRelease[o] = None /\ awsRun[o] \in A!RunRecord /\ o \in A!Recording(e)
      /\ awsOp[o].image \in A!Op /\ awsOp[o].type = "APPLY" /\ awsStatus[o] = "RUNNING"
      /\ \A x \in Environment \ {e} : o \notin A!Recording(x)
  BY <1>1, <1>2, InApply
<1>4. awsRun[o].version \in A!Op
  <2>1. awsRun[o].version > 0
    BY <1>1 DEF Runs, A!RunSound
  <2> QED
    BY <1>3, <2>1 DEF A!RunRecord, A!Op, A!AwsAssumption
<1>5. awsRun \in [A!Op -> A!RunRecord] /\ awsRelease \in [A!Op -> A!Row \cup {None}]
  BY DEF A!TypeOK
<1>6. PICK row \in A!Row :
        /\ row = [env |-> e, image |-> awsOp[o].image, version |-> awsRun[o].version,
                  status |-> "ACTIVE"]
        /\ row.env = e /\ row.image = awsOp[o].image /\ row.version = awsRun[o].version
        /\ row.status = "ACTIVE"
  <2>1. [env |-> e, image |-> awsOp[o].image, version |-> awsRun[o].version, status |-> "ACTIVE"]
          \in A!Row
    BY <1>3, <1>4 DEF A!Row
  <2> QED
    BY <2>1
<1>7. /\ awsRelease' = [awsRelease EXCEPT ![o] = row] /\ row # None
      /\ awsRelease'[o] = row /\ \A p \in A!Op \ {o} : awsRelease'[p] = awsRelease[p]
      /\ awsRelease' \in [A!Op -> A!Row \cup {None}]
  <2>1. awsRelease' = [awsRelease EXCEPT ![o] = row]
    BY <1>1, <1>2, <1>6
  <2> QED
    BY <1>5, <2>1 DEF A!AwsAssumption
<1>8. /\ awsRun'[o] = A!NoRun /\ awsRun'[o].step = "none"
      /\ \A p \in A!Op \ {o} : awsRun'[p] = awsRun[p]
      /\ awsRun' \in [A!Op -> A!RunRecord]
  <2>1. A!NoRun \in A!RunRecord /\ A!NoRun.step = "none"
    BY DEF A!NoRun, A!RunRecord, A!Step, A!AwsAssumption
  <2> QED
    BY <1>1, <1>5, <2>1
<1>9. A!RunSound(o)' /\ Begun(o)'
  BY <1>1, <1>3, <1>8 DEF A!RunSound, Begun
<1>10. Grows /\ Ops' /\ Runs' /\ Plans' /\ awsStatus' \in [A!Op -> Statuses]
  BY <1>1, <1>7, <1>8, <1>9, WorkKeeps
<1>11. A!TypeOK'
  BY <1>1, <1>7, <1>8 DEF A!TypeOK
<1>12. Deploys'
  BY <1>1, <1>10, DeploysStay DEF Deploys
<1>13. ASSUME NEW x \in Environment, x # e
       PROVE  A!HistorySound(x)'
  <2>1. A!HistorySound(x)
    BY DEF History
  <2>2. A!Recording(x)' = A!Recording(x)
    BY <1>1, <1>2, <1>3, <1>8, <1>13 DEF A!Recording
  <2>3. \A p \in A!Recording(x) : awsRun'[p] = awsRun[p] /\ awsOp'[p].image = awsOp[p].image
    BY <1>1, <1>3, <1>8, <1>13 DEF A!Recording
  <2>4. \A r \in A!Op : (awsRelease'[r] # None /\ awsRelease'[r].env = x)
                        <=> (awsRelease[r] # None /\ awsRelease[r].env = x)
    BY <1>3, <1>6, <1>7, <1>13
  <2>5. \A r \in A!Op : awsRelease[r] # None /\ awsRelease[r].env = x
          => awsRelease'[r] = awsRelease[r]
    BY <1>3, <1>7
  <2> QED
    BY <1>1, <2>1, <2>2, <2>3, <2>4, <2>5, HistoryStays
<1>14. A!HistorySound(e)'
  <2> SUFFICES ASSUME e \notin awsTorn'
               PROVE  A!HistorySound(e)'
    BY DEF A!HistorySound
  <2>1. e \notin awsTorn /\ A!HistorySound(e)
    BY <1>1 DEF History
  <2> DEFINE n == A!Cardinality(A!Rows(e))
  <2>2. /\ \A p, q \in A!Recording(e) : p = q
        /\ {awsRelease[r].version : r \in A!Rows(e)} = 1..n
        /\ awsOp[o].image = awsCloud[e].image /\ A!Superseded(e) = {} /\ awsRun[o].version = n + 1
    BY <1>1, <1>3, <2>1 DEF A!HistorySound
  <2>3. A!Recording(e)' = {}
    BY <1>1, <1>3, <1>8, <2>2 DEF A!Recording
  <2>4. A!Rows(e)' = A!Rows(e) \cup {o} /\ o \notin A!Rows(e)
    BY <1>3, <1>6, <1>7 DEF A!Rows
  <2>5. A!Cardinality(A!Rows(e)') = n + 1 /\ n \in Nat
    <3>1. IsFiniteSet(A!Rows(e)) /\ n \in Nat
      BY <1>3, CountedRows
    <3> QED
      BY <2>4, <3>1, FS_AddElement, SameCardinality
  <2>6. {awsRelease'[r].version : r \in A!Rows(e)'} = 1..A!Cardinality(A!Rows(e)')
    <3>1. \A r \in A!Rows(e) : awsRelease'[r] = awsRelease[r]
      BY <1>7, <2>4 DEF A!Rows
    <3>2. {awsRelease'[r].version : r \in A!Rows(e)'}
             = {awsRelease[r].version : r \in A!Rows(e)} \cup {awsRun[o].version}
      BY <1>6, <1>7, <2>4, <3>1
    <3>3. {awsRelease[r].version : r \in A!Rows(e)} \cup {awsRun[o].version} = (1..n) \cup {n + 1}
      BY <2>2
    <3>4. (1..n) \cup {n + 1} = 1..(n + 1)
      BY <2>5
    <3> QED
      BY <2>5, <3>2, <3>3, <3>4
  <2>7. A!Superseded(e)' = {o} /\ awsRelease'[o].image = awsCloud'[e].image
    <3>1. A!Superseded(e)' = {o}
      BY <1>6, <1>7, <2>2 DEF A!Superseded
    <3> QED
      BY <1>1, <1>6, <1>7, <2>2, <3>1
  <2>8. awsCloud'[e].image # None /\ A!Rows(e)' # {}
    BY <1>1, <1>3, <2>2, <2>4 DEF A!Op, A!AwsAssumption
  <2> QED
    BY <2>3, <2>4, <2>6, <2>7, <2>8 DEF A!HistorySound
<1> QED
  BY <1>10, <1>11, <1>12, <1>13, <1>14 DEF History

-----------------------------------------------------------------------------
(* The theorems                                                            *)

\* Nothing is built, planned or deployed at first.
LEMMA InitialSound ==
  ASSUME A!AwsAssumption, A!Init
  PROVE  A!ReleaseInv
<1> USE DEF A!Init
<1>1. \A o \in A!Op : awsOp[o] = A!NoOp /\ awsStatus[o] = "NONE" /\ awsRun[o].step = "none"
        /\ awsRelease[o] = None
  BY DEF A!NoRun
<1>2. A!TypeOK
  <2>1. A!NoOp \in A!OpRecord /\ A!NoOp.source = None
    BY DEF A!NoOp, A!OpRecord
  <2>2. A!NoRun \in A!RunRecord
    BY DEF A!NoRun, A!RunRecord, A!Step, A!AwsAssumption
  <2>3. awsFaults \in 0..AwsFaults
    BY DEF A!AwsAssumption
  <2>4. awsOrder \in Seq(A!Op)
    OBVIOUS
  <2> QED
    BY <1>1, <2>1, <2>2, <2>3, <2>4 DEF A!TypeOK
<1>3. Ops
  <2> SUFFICES ASSUME NEW o \in A!Op
               PROVE  A!OpSound(o)
    BY DEF Ops
  <2>1. awsOp[o].type \notin A!OperationType
    BY <1>1 DEF A!NoOp, A!AwsAssumption
  <2> QED
    BY <1>1, <2>1 DEF A!OpSound, A!OperationType, A!Done
<1>4. Runs
  BY <1>1 DEF Runs, A!RunSound
<1>5. Plans
  BY DEF Plans
<1>6. Deploys
  BY DEF Deploys, A!CloudSound
<1>7. History
  <2> SUFFICES ASSUME NEW e \in Environment
               PROVE  A!HistorySound(e)
    BY DEF History
  <2>1. A!Recording(e) = {} /\ A!Rows(e) = {} /\ awsCloud[e].image = None
    BY <1>1 DEF A!Recording, A!Rows
  <2>2. A!Cardinality(A!Rows(e)) = 0
    BY <2>1, FS_EmptySet, SameCardinality
  <2>3. {awsRelease[r].version : r \in A!Rows(e)} = 1..A!Cardinality(A!Rows(e))
    BY <2>1, <2>2
  <2> QED
    BY <2>1, <2>3 DEF A!HistorySound
<1> QED
  BY <1>2, <1>3, <1>4, <1>5, <1>6, <1>7, Parts

\* Every step keeps the invariant.
LEMMA StepKeeps ==
  ASSUME A!AwsAssumption, A!ReleaseInv, [A!Next]_(A!vars)
  PROVE  A!ReleaseInv'
<1>1. CASE UNCHANGED A!vars
  <2>1. UNCHANGED <<awsOp, awsStatus, awsResult, awsStale, awsOrder, awsRun, awsRelease, awsCloud,
                    awsTorn, awsFaults>>
    BY <1>1 DEF A!vars
  <2>2. A!TypeOK' /\ Plans'
    BY <2>1, Parts DEF A!TypeOK, Plans, A!Done
  <2>3. Grows /\ NoneCreated
    BY <2>1 DEF Grows, NoneCreated
  <2>4. Ops'
    BY <2>1, Parts DEF Ops, A!OpSound, A!Follows, A!Done
  <2>5. Runs'
    BY <2>1, Parts DEF Runs, A!RunSound, A!Reviewed
  <2>6. Deploys' /\ History'
    BY <2>1, <2>3, Parts, RecordsRest
  <2> QED
    BY <2>2, <2>4, <2>5, <2>6, Parts
<1>2. ASSUME NEW e \in Environment, A!BuildEcrImage(e) \/ A!ApplyDeployment({e})
      PROVE  A!ReleaseInv'
  <2>1. PICK o : o \in A!Op
    BY <1>2 DEF A!BuildEcrImage, A!Create, A!ApplyDeployment
  <2> QED
    BY <1>2, <2>1, ApiKeeps
<1>3. CASE A!ApplyDeployment(Environment)
  <2>1. PICK o \in A!Op : awsOp[o].env \in Environment
    BY <1>3 DEF A!ApplyDeployment, A!Latest
  <2> QED
    BY <1>3, <2>1, ApiKeeps
<1>4. ASSUME NEW o \in A!Op,
             \/ A!PushEcrImage(o) \/ A!RollbackRelease(o)
             \/ \E e \in Environment : A!PlanDeployment(o, e) \/ A!PromoteRelease(o, e)
      PROVE  A!ReleaseInv'
  <2>1. PICK e : e \in Environment
    <3>1. CASE \E e \in Environment : A!PlanDeployment(o, e) \/ A!PromoteRelease(o, e)
      BY <3>1
    <3>2. CASE A!PushEcrImage(o)
      BY <3>2, Parts, Created DEF A!PushEcrImage, A!Done, A!OperationType
    <3>3. CASE A!RollbackRelease(o)
      BY <3>3 DEF A!RollbackRelease, A!ReleaseInv, A!TypeOK, A!Row
    <3> QED
      BY <1>4, <3>1, <3>2, <3>3
  <2> QED
    BY <1>4, <2>1, ApiKeeps
<1>5. ASSUME NEW o \in A!Op, A!RunImage(o) \/ A!Expire(o) \/ A!Succeed(o) \/ A!BeginApply(o)
      PROVE  A!ReleaseInv'
  BY <1>5, PlanningKeeps, BeginKeeps
<1>6. ASSUME NEW o \in A!Op, NEW text \in Text, A!RunPlan(o, text) \/ A!FreshPlan(o, text)
      PROVE  A!ReleaseInv'
  BY <1>6, PlanningKeeps, BeginKeeps
<1>7. ASSUME NEW o \in A!Op,
             \/ A!Approve(o) \/ A!Fail(o) \/ A!TerraformApply(o) \/ A!ApplyBreaks(o)
                  \/ A!Supersede(o)
             \/ A!CountReleases(o) \/ A!CreateRelease(o)
      PROVE  A!ReleaseInv'
  BY <1>7, ApproveKeeps, FailKeeps, TerraformKeeps, SupersedeKeeps, CountKeeps, ReleaseKeeps
<1> QED
  BY <1>1, <1>2, <1>3, <1>4, <1>5, <1>6, <1>7 DEF A!Next

\* Operations follow what succeeded before them, an apply only runs reviewed, approved plans,
\* and where no records overlapped or were cut short the rows are the history.
THEOREM ReleaseInvariance ==
  ASSUME A!AwsAssumption
  PROVE  A!Spec => []A!ReleaseInv
<1>1. A!Init => A!ReleaseInv
  BY InitialSound
<1>2. A!ReleaseInv /\ [A!Next]_(A!vars) => A!ReleaseInv'
  BY StepKeeps
<1> QED
  BY <1>1, <1>2, PTL DEF A!Spec

\* No environment ever runs an image that was not built, pushed and planned for it, and that
\* an approved apply of that plan deployed.
THEOREM OnlyPushedIsDeployed ==
  ASSUME A!AwsAssumption
  PROVE  A!Spec => []A!DeployedWasPushed
<1>1. ASSUME A!ReleaseInv
      PROVE  A!DeployedWasPushed
  <2> SUFFICES ASSUME NEW e \in Environment, awsCloud[e].image # None
               PROVE  \E u, p, a \in A!Op :
                        /\ A!Done(awsCloud[e].image, "BUILD") /\ awsOp[awsCloud[e].image].env = e
                        /\ A!Done(u, "PUSH") /\ awsOp[u].env = e
                        /\ awsOp[u].image = awsCloud[e].image
                        /\ A!Done(p, "PLAN") /\ awsOp[p].env = e /\ awsOp[p].source = u
                        /\ awsOp[a].type = "APPLY" /\ awsOp[a].approved /\ awsOp[a].source = p
    BY DEF A!DeployedWasPushed
  <2>1. PICK a \in A!Op : /\ awsOp[a].type = "APPLY" /\ awsOp[a].approved /\ awsOp[a].env = e
                        /\ awsOp[a].image = awsCloud[e].image
    BY <1>1 DEF A!ReleaseInv, A!CloudSound
  <2>2. PICK p \in A!Op : /\ p = awsOp[a].source /\ A!Done(p, "PLAN")
                        /\ awsOp[p].env = e /\ awsOp[p].image = awsCloud[e].image
    BY <1>1, <2>1 DEF A!ReleaseInv, A!OpSound, A!Follows
  <2>3. PICK u \in A!Op : /\ u = awsOp[p].source /\ A!Done(u, "PUSH")
                        /\ awsOp[u].env = e /\ awsOp[u].image = awsCloud[e].image
    BY <1>1, <2>2 DEF A!ReleaseInv, A!OpSound, A!Follows, A!Done
  <2>4. PICK b \in A!Op : /\ b = awsOp[u].source /\ A!Done(b, "BUILD")
                        /\ awsOp[b].env = e /\ awsOp[b].image = awsCloud[e].image
    BY <1>1, <2>3 DEF A!ReleaseInv, A!OpSound, A!Follows, A!Done
  <2>5. awsOp[b].image = b
    BY <1>1, <2>4 DEF A!ReleaseInv, A!OpSound, A!Done
  <2> QED
    BY <2>1, <2>2, <2>3, <2>4, <2>5
<1> QED
  BY <1>1, ReleaseInvariance, PTL

\* What the guardrails let through: a plan that neither changes nor destroys, adds little, and
\* is not of production.
LEMMA Guarded ==
  ASSUME A!AwsAssumption, NEW text \in Text, NEW env, A!ApplyEligible(text),
         A!RiskLevel(text, env) \notin {"HIGH", "BLOCKED"}
  PROVE  /\ A!Counts(text).change = 0 /\ A!Counts(text).destroy = 0
         /\ A!Counts(text).add <= A!MaxPlanAddCount
         /\ env \notin Production
<1>1. text.add \in Nat /\ text.change \in Nat /\ text.destroy \in Nat
  BY DEF A!AwsAssumption
<1>2. A!Counts(text).add \in Nat /\ A!Counts(text).change \in Nat /\ A!Counts(text).destroy \in Nat
  BY <1>1 DEF A!Counts
<1>3. A!Counts(text).destroy = 0 /\ A!BlockedReasons(text, A!Counts(text)) = {}
  BY DEF A!ApplyEligible
<1>4. A!Warnings(text, env) = {} /\ ~(A!Counts(text).change > 0)
  BY DEF A!RiskLevel
<1>5. ~(A!Counts(text).add > A!MaxPlanAddCount)
  BY <1>3 DEF A!BlockedReasons
<1>6. env \notin Production
  BY <1>4 DEF A!Warnings
<1> QED
  BY <1>2, <1>3, <1>4, <1>5, <1>6 DEF A!MaxPlanAddCount

\* A plan that is applied, by any worker at any time, only adds, within the limit, and never
\* to production.
THEOREM OnlyBoundedPlansApply ==
  ASSUME A!AwsAssumption
  PROVE  A!Spec => []A!AppliedPlansBounded
<1>1. ASSUME A!ReleaseInv
      PROVE  A!AppliedPlansBounded
  <2> SUFFICES ASSUME NEW o \in A!Op, awsRun[o].step \notin {"none", "checked"}
               PROVE  /\ A!Counts(awsRun[o].text).change = 0 /\ A!Counts(awsRun[o].text).destroy = 0
                      /\ A!Counts(awsRun[o].text).add <= A!MaxPlanAddCount
                      /\ awsOp[o].env \notin Production
    BY DEF A!AppliedPlansBounded
  <2>1. awsOp[o].type = "APPLY" /\ A!Reviewed(o)
    BY <1>1 DEF A!ReleaseInv, A!RunSound
  <2>2. PICK p \in A!Op : p = awsOp[o].source /\ A!Done(p, "PLAN") /\ awsOp[o].env = awsOp[p].env
    BY <1>1, <2>1 DEF A!ReleaseInv, A!OpSound, A!Follows
  <2>3. awsResult[p] \in Text
    BY <1>1, <2>2 DEF A!ReleaseInv, A!OpSound
  <2>4. /\ A!ApplyEligible(awsResult[p])
        /\ A!RiskLevel(awsResult[p], awsOp[p].env) \notin {"HIGH", "BLOCKED"}
        /\ A!Counts(awsRun[o].text) = A!Counts(awsResult[p])
    BY <2>1, <2>2 DEF A!Reviewed
  <2> QED
    BY <2>2, <2>3, <2>4, Guarded
<1> QED
  BY <1>1, ReleaseInvariance, PTL

\* Where no two records overlapped and none was cut short, the releases of an environment are
\* numbered from 1, and one of them is active, with the image that is deployed.
THEOREM RecordsAreHistory ==
  ASSUME A!AwsAssumption
  PROVE  A!Spec => []A!SequentialRecordsAgree
<1>1. ASSUME A!ReleaseInv
      PROVE  A!SequentialRecordsAgree
  <2> SUFFICES ASSUME NEW e \in Environment, e \notin awsTorn, A!Recording(e) = {}
               PROVE  /\ {awsRelease[r].version : r \in A!Rows(e)} = 1..A!Cardinality(A!Rows(e))
                      /\ A!Rows(e) = {} <=> awsCloud[e].image = None
                      /\ A!Rows(e) # {} =>
                           {awsRelease[r].image : r \in A!Superseded(e)} = {awsCloud[e].image}
                      /\ A!Cardinality(A!Superseded(e)) <= 1
    BY DEF A!SequentialRecordsAgree, A!Rows
  <2>1. /\ {awsRelease[r].version : r \in A!Rows(e)} = 1..A!Cardinality(A!Rows(e))
        /\ A!Rows(e) = {} <=> awsCloud[e].image = None
        /\ A!Rows(e) # {} => \E r \in A!Rows(e) : /\ A!Superseded(e) = {r}
                                              /\ awsRelease[r].image = awsCloud[e].image
    BY <1>1 DEF A!ReleaseInv, A!HistorySound
  <2>2. CASE A!Rows(e) = {}
    <3>1. A!Superseded(e) = {}
      BY <2>2 DEF A!Rows, A!Superseded
    <3>2. A!Cardinality(A!Superseded(e)) = 0
      BY <3>1, FS_EmptySet, SameCardinality
    <3> QED
      BY <2>1, <2>2, <3>2
  <2>3. CASE A!Rows(e) # {}
    <3>1. PICK r \in A!Rows(e) : A!Superseded(e) = {r} /\ awsRelease[r].image = awsCloud[e].image
      BY <2>1, <2>3
    <3>2. A!Cardinality(A!Superseded(e)) = 1
      BY <3>1, FS_Singleton, SameCardinality
    <3> QED
      BY <2>1, <2>3, <3>1, <3>2
  <2> QED
    BY <2>2, <2>3
<1> QED
  BY <1>1, ReleaseInvariance, PTL

-----------------------------------------------------------------------------
(* AwsReadiness: what there is grows                                       *)

\* A state of things comes before itself.
LEMMA BeforeItself == \A w \in W!World : W!Before(w, w)
<1> SUFFICES ASSUME NEW w \in W!World
             PROVE  W!Before(w, w)
  OBVIOUS
<1>1. w.plans \in Seq(W!Plan)
  BY DEF W!World
<1>2. ASSUME NEW p \in DOMAIN w.plans
      PROVE  w.plans[p].age <= w.plans[p].age
  <2>1. w.plans[p] \in W!Plan
    BY <1>1
  <2> QED
    BY <2>1 DEF W!Plan
<1>3. Len(w.plans) <= Len(w.plans)
  BY <1>1
<1> QED
  BY <1>2, <1>3 DEF W!Before

\* What came before what came before, came before.
LEMMA BeforeBefore ==
  \A u \in W!World, v \in W!World, w \in W!World :
    W!Before(u, v) /\ W!Before(v, w) => W!Before(u, w)
<1> SUFFICES ASSUME NEW u \in W!World, NEW v \in W!World, NEW w \in W!World,
                    W!Before(u, v), W!Before(v, w)
             PROVE  W!Before(u, w)
  OBVIOUS
<1>1. u.plans \in Seq(W!Plan) /\ v.plans \in Seq(W!Plan) /\ w.plans \in Seq(W!Plan)
  BY DEF W!World
<1>2. u.images \subseteq w.images /\ Len(u.plans) <= Len(w.plans)
  BY <1>1 DEF W!Before
<1>3. ASSUME NEW p \in DOMAIN u.plans
      PROVE  /\ u.plans[p].env = w.plans[p].env /\ u.plans[p].verdict = w.plans[p].verdict
             /\ u.plans[p].age <= w.plans[p].age
  <2>1. p \in DOMAIN v.plans /\ p \in DOMAIN w.plans
    BY <1>1 DEF W!Before
  <2>2. u.plans[p] \in W!Plan /\ v.plans[p] \in W!Plan /\ w.plans[p] \in W!Plan
    BY <1>1, <2>1
  <2> QED
    BY <2>1, <2>2 DEF W!Before, W!Plan
<1> QED
  BY <1>2, <1>3 DEF W!Before

\* Changes behind the page leave images and plans in place.
LEMMA MovesGrow ==
  ASSUME offWorld \in W!World
  PROVE  /\ \A r \in W!Reach : LET w == [offWorld EXCEPT !.reach = r]
                              IN w \in W!World /\ W!Before(offWorld, w)
         /\ \A i \in W!Image : LET w == [offWorld EXCEPT !.images = @ \cup {i}]
                              IN w \in W!World /\ W!Before(offWorld, w)
         /\ \A v \in W!Verdict : LET w == [offWorld EXCEPT !.evaluation = v]
                                IN w \in W!World /\ W!Before(offWorld, w)
         /\ \A e \in Environment, v \in {"eligible", "high", "blocked"} :
              W!WithPlan(e, v) \in W!World /\ W!Before(offWorld, W!WithPlan(e, v))
         /\ \A p \in DOMAIN offWorld.plans :
              W!WithAge(p) \in W!World /\ W!Before(offWorld, W!WithAge(p))
<1>1. /\ offWorld.plans \in Seq(W!Plan) /\ offWorld.images \subseteq W!Image
      /\ offWorld.reach \in W!Reach
      /\ offWorld.evaluation \in W!Verdict
      /\ offWorld = [reach |-> offWorld.reach, images |-> offWorld.images, plans |-> offWorld.plans,
                  evaluation |-> offWorld.evaluation]
  BY DEF W!World
<1>2. W!Before(offWorld, offWorld)
  BY BeforeItself
<1>3. ASSUME NEW r \in W!Reach
      PROVE  LET w == [offWorld EXCEPT !.reach = r] IN w \in W!World /\ W!Before(offWorld, w)
  BY <1>1, <1>2 DEF W!World, W!Before
<1>4. ASSUME NEW i \in W!Image
      PROVE  LET w == [offWorld EXCEPT !.images = @ \cup {i}]
             IN w \in W!World /\ W!Before(offWorld, w)
  BY <1>1, <1>2 DEF W!World, W!Before
<1>5. ASSUME NEW v \in W!Verdict
      PROVE  LET w == [offWorld EXCEPT !.evaluation = v] IN w \in W!World /\ W!Before(offWorld, w)
  BY <1>1, <1>2 DEF W!World, W!Before
<1>6. ASSUME NEW e \in Environment, NEW v \in {"eligible", "high", "blocked"}
      PROVE  W!WithPlan(e, v) \in W!World /\ W!Before(offWorld, W!WithPlan(e, v))
  <2> DEFINE plan == [env |-> e, verdict |-> v, age |-> 0]
             plans == Append(offWorld.plans, plan)
             value == IF v = "blocked" THEN "BLOCKED" ELSE "PASSED"
             w == W!WithPlan(e, v)
  <2>1. plan \in W!Plan
    BY DEF W!Plan
  <2>2. plans \in Seq(W!Plan) /\ Len(plans) = Len(offWorld.plans) + 1
    BY <1>1, <2>1
  <2>3. \A p \in DOMAIN offWorld.plans : plans[p] = offWorld.plans[p]
    BY <1>1
  <2>4. value \in W!Verdict
    BY DEF W!Verdict
  <2>5. w = [reach |-> offWorld.reach, images |-> offWorld.images, plans |-> plans,
             evaluation |-> value]
    <3>1. w = [offWorld EXCEPT !.plans = plans, !.evaluation = value]
      BY Zenon DEF W!WithPlan
    <3> HIDE DEF plans, value, w
    <3> QED
      BY <1>1, <3>1
  <2> HIDE DEF plans, value, w
  <2>6. w \in W!World
    BY <1>1, <2>2, <2>4, <2>5 DEF W!World
  <2>7. w.plans = plans /\ w.images = offWorld.images /\ Len(offWorld.plans) <= Len(plans)
    BY <1>1, <2>2, <2>5
  <2>8. W!Before(offWorld, w)
    BY <1>2, <2>3, <2>7 DEF W!Before
  <2> QED
    BY <2>6, <2>8 DEF w
<1>7. ASSUME NEW p \in DOMAIN offWorld.plans
      PROVE  W!WithAge(p) \in W!World /\ W!Before(offWorld, W!WithAge(p))
  <2> DEFINE older(q) == IF q <= p THEN W!Older(offWorld.plans[q]) ELSE offWorld.plans[q]
             plans == [q \in DOMAIN offWorld.plans |-> older(q)]
             w == W!WithAge(p)
  <2>1. ASSUME NEW q \in DOMAIN offWorld.plans
        PROVE  /\ older(q) \in W!Plan /\ older(q).env = offWorld.plans[q].env
               /\ older(q).verdict = offWorld.plans[q].verdict
               /\ offWorld.plans[q].age <= older(q).age
    <3>1. offWorld.plans[q] \in W!Plan
      BY <1>1
    <3>2. offWorld.plans[q].age \in 0..2
      BY <3>1 DEF W!Plan
    <3>3. CASE q <= p /\ offWorld.plans[q].age < 2
      BY <3>1, <3>2, <3>3 DEF W!Plan, W!Older
    <3>4. CASE ~(q <= p /\ offWorld.plans[q].age < 2)
      BY <3>1, <3>2, <3>4 DEF W!Older
    <3> QED
      BY <3>3, <3>4
  <2>2. DOMAIN offWorld.plans = 1..Len(offWorld.plans) /\ Len(offWorld.plans) \in Nat
    BY <1>1
  <2>3. w = [reach |-> offWorld.reach, images |-> offWorld.images, plans |-> plans,
             evaluation |-> offWorld.evaluation]
    BY <1>1 DEF W!WithAge
  <2> HIDE DEF older, w
  <2>4. /\ plans \in [1..Len(offWorld.plans) -> W!Plan]
        /\ \A q \in DOMAIN offWorld.plans : plans[q] = older(q)
    BY <2>1, <2>2
  <2> HIDE DEF plans
  <2>5. plans \in Seq(W!Plan) /\ Len(plans) = Len(offWorld.plans)
    BY <2>2, <2>4
  <2>6. w \in W!World
    BY <1>1, <2>3, <2>5 DEF W!World
  <2>7. w.plans = plans /\ w.images = offWorld.images /\ Len(offWorld.plans) <= Len(plans)
    BY <2>2, <2>3, <2>5
  <2>8. W!Before(offWorld, w)
    BY <2>1, <2>4, <2>7 DEF W!Before
  <2> QED
    BY <2>6, <2>8 DEF w
<1> QED
  BY <1>3, <1>4, <1>5, <1>6, <1>7
-----------------------------------------------------------------------------
(* AwsReadiness: what the reports say                                      *)

\* The first of a set is of it.
LEMMA FirstIsOne == \A targets : W!First(targets) # None => W!First(targets) \in targets
BY DEF W!First, W!IsFirst

\* Whenever AWS answers, the first target is the same.
LEMMA OneFirstTarget ==
  \A s, w : W!FirstTarget(s, w) # None =>
    /\ W!Configured(s) /\ w.reach = "CONNECTED"
    /\ W!Targets(s, w) = s.workspaces \cap s.allowed
    /\ W!FirstTarget(s, w) = W!First(s.workspaces \cap s.allowed)
<1> SUFFICES ASSUME NEW s, NEW w, W!FirstTarget(s, w) # None
             PROVE  /\ W!Configured(s) /\ w.reach = "CONNECTED"
                    /\ W!Targets(s, w) = s.workspaces \cap s.allowed
                    /\ W!FirstTarget(s, w) = W!First(s.workspaces \cap s.allowed)
  OBVIOUS
<1>1. W!FirstTarget(s, w) \in W!Targets(s, w)
  BY FirstIsOne DEF W!FirstTarget
<1>2. W!AwsStatus(s, w) = "CONNECTED" /\ W!Targets(s, w) = s.workspaces \cap s.allowed
  BY <1>1 DEF W!Targets, W!ListResponse
<1>3. W!Configured(s) /\ w.reach = "CONNECTED"
  BY <1>2 DEF W!AwsStatus
<1> QED
  BY <1>2, <1>3 DEF W!FirstTarget

\* What holds where a plan is ready.
LEMMA PlanIsReady ==
  \A s, w : W!PlanReadiness(s, w) = "READY" =>
    /\ W!Configured(s) /\ W!StateConfigured(s) /\ s.tool /\ w.reach = "CONNECTED"
    /\ W!Targets(s, w) = s.workspaces \cap s.allowed
    /\ W!First(s.workspaces \cap s.allowed) = Sample /\ Sample \in W!Targets(s, w)
<1> SUFFICES ASSUME NEW s, NEW w, W!PlanReadiness(s, w) = "READY"
             PROVE  /\ W!Configured(s) /\ W!StateConfigured(s) /\ s.tool /\ w.reach = "CONNECTED"
                    /\ W!Targets(s, w) = s.workspaces \cap s.allowed
                    /\ W!First(s.workspaces \cap s.allowed) = Sample /\ Sample \in W!Targets(s, w)
  OBVIOUS
<1>1. W!StateConfigured(s) /\ s.tool /\ W!FirstTarget(s, w) # None /\ W!FirstTarget(s, w) = Sample
  BY DEF W!PlanReadiness
<1> QED
  BY <1>1, OneFirstTarget, FirstIsOne DEF W!FirstTarget

\* What holds where an apply is ready: the plan that is told is the latest, and is eligible.
LEMMA ApplyIsReady ==
  \A s, w : W!ApplyReadiness(s, w).status = "READY" =>
    LET plan == W!ApplyReadiness(s, w).plan
    IN /\ W!StateConfigured(s) /\ s.tool /\ s.applyEnabled /\ W!GuardrailReadiness(s) # "BLOCKED"
       /\ Sample \in W!Targets(s, w)
       /\ W!LatestPlan(plan, w, Environment) /\ W!ApplyReadiness(s, w).env = w.plans[plan].env
       /\ w.plans[plan].age = 0 /\ w.plans[plan].verdict = "eligible"
<1> SUFFICES ASSUME NEW s, NEW w, W!ApplyReadiness(s, w).status = "READY"
             PROVE  LET plan == W!ApplyReadiness(s, w).plan
                    IN /\ W!StateConfigured(s) /\ s.tool /\ s.applyEnabled
                       /\ W!GuardrailReadiness(s) # "BLOCKED" /\ Sample \in W!Targets(s, w)
                       /\ W!LatestPlan(plan, w, Environment)
                       /\ W!ApplyReadiness(s, w).env = w.plans[plan].env
                       /\ w.plans[plan].age = 0 /\ w.plans[plan].verdict = "eligible"
  OBVIOUS
<1> DEFINE target == W!FirstTarget(s, w)
           found  == {p \in DOMAIN w.plans : target = Sample /\ W!LatestPlan(p, w, Environment)}
           plan   == CHOOSE p \in found : TRUE
           eligible == /\ found # {} /\ s.tool /\ s.applyEnabled
                       /\ W!GuardrailReadiness(s) # "BLOCKED"
                       /\ W!FreshAndEligible(w.plans[plan])
<1>1. W!ApplyReadiness(s, w) =
        [ plan   |-> IF found = {} THEN None ELSE plan,
          env    |-> IF found = {} THEN None ELSE w.plans[plan].env,
          status |-> IF ~W!Configured(s) \/ ~W!StateConfigured(s) \/ target = None
                     THEN "NOT_CONFIGURED" ELSE IF eligible THEN "READY" ELSE "BLOCKED" ]
  BY Zenon DEF W!ApplyReadiness
<1> HIDE DEF target, plan, eligible
<1>2. W!StateConfigured(s) /\ target # None /\ eligible
  BY <1>1
<1>3. found # {} /\ plan \in found
  BY <1>2 DEF eligible, plan
<1>4. W!ApplyReadiness(s, w).plan = plan /\ W!ApplyReadiness(s, w).env = w.plans[plan].env
  BY <1>1, <1>3
<1>5. target = Sample /\ W!LatestPlan(plan, w, Environment)
  BY <1>3
<1>6. Sample \in W!Targets(s, w)
  BY <1>2, <1>5, FirstIsOne DEF target, W!FirstTarget
<1>7. w.plans[plan].age = 0 /\ w.plans[plan].verdict = "eligible"
  BY <1>2 DEF eligible, W!FreshAndEligible
<1> QED
  BY <1>2, <1>4, <1>5, <1>6, <1>7 DEF eligible

\* Images and the plan of a report are of what there was.
LEMMA ReportsAreOf ==
  ASSUME NEW s, NEW v \in W!World, NEW w \in W!World, W!Before(v, w)
  PROVE  /\ W!Report(s, "images", v) \subseteq w.images
         /\ W!ApplyReadiness(s, v).status = "READY" =>
              LET plan == W!ApplyReadiness(s, v).plan
              IN plan \in DOMAIN w.plans /\ w.plans[plan].env = W!ApplyReadiness(s, v).env
<1>1. W!Report(s, "images", v) \subseteq w.images
  BY DEF W!Report, W!ListResponse, W!Before
<1>2. ASSUME W!ApplyReadiness(s, v).status = "READY"
      PROVE  LET plan == W!ApplyReadiness(s, v).plan
             IN plan \in DOMAIN w.plans /\ w.plans[plan].env = W!ApplyReadiness(s, v).env
  <2>1. /\ W!ApplyReadiness(s, v).plan \in DOMAIN v.plans
        /\ W!ApplyReadiness(s, v).env = v.plans[W!ApplyReadiness(s, v).plan].env
    BY <1>2, ApplyIsReady DEF W!LatestPlan
  <2>2. DOMAIN v.plans \subseteq DOMAIN w.plans
    BY DEF W!World, W!Before
  <2> QED
    BY <2>1, <2>2 DEF W!Before
<1> QED
  BY <1>1, <1>2
-----------------------------------------------------------------------------
(* AwsReadiness: the invariant                                             *)

WorkspaceRecord == [report : {None, "READY", "PARTIAL", "ERROR"}, calm : BOOLEAN]

PressRecord == [kind : {None, "build", "push", "plan", "apply"}, env : Environment \cup {None},
                plan : Nat \cup {None}, ready : BOOLEAN, calm : BOOLEAN]

LoadRecord == [stage : {"idle", "status", "asking", "workspace"}, seen : Seq(W!World),
               target : DOMAIN Place \cup {None}]

\* Loads that have not begun or have just begun are loads.
LEMMA LoadsAre == W!Idle \in LoadRecord /\ W!Begun \in LoadRecord
BY DEF LoadRecord, W!Idle, W!Begun

\* A load notes what the world became.
LEMMA NotedIs ==
  ASSUME W!TypeOK, NEW w \in W!World, NEW l \in PageLoad
  PROVE  /\ W!Noted(w)[l] \in LoadRecord
         /\ W!Noted(w)[l].stage = offLoads[l].stage /\ W!Noted(w)[l].target = offLoads[l].target
         /\ offLoads[l].stage \in {"asking", "workspace"} /\ w # offWorld =>
              W!Noted(w)[l].seen = Append(offLoads[l].seen, w)
         /\ ~(offLoads[l].stage \in {"asking", "workspace"} /\ w # offWorld) =>
              W!Noted(w)[l] = offLoads[l]
<1>1. offLoads[l] \in LoadRecord
  BY DEF W!TypeOK, LoadRecord, PressRecord, WorkspaceRecord
<1>2. CASE offLoads[l].stage \in {"asking", "workspace"} /\ w # offWorld
  <2>1. W!Noted(w)[l] = [offLoads[l] EXCEPT !.seen = Append(offLoads[l].seen, w)]
    BY <1>2 DEF W!Noted
  <2>2. Append(offLoads[l].seen, w) \in Seq(W!World)
    BY <1>1 DEF LoadRecord
  <2> QED
    BY <1>1, <1>2, <2>1, <2>2 DEF LoadRecord
<1>3. CASE ~(offLoads[l].stage \in {"asking", "workspace"} /\ w # offWorld)
  <2>1. W!Noted(w)[l] = offLoads[l]
    BY <1>3 DEF W!Noted
  <2> QED
    BY <1>1, <1>3, <2>1
<1> QED
  BY <1>2, <1>3

\* The invariant under whatever happens in the world, and to the request on its way.
LEMMA WorldStep ==
  ASSUME W!ReadinessAssumption, W!OffersInv, NEW w \in W!World, W!Before(offWorld, w), W!Becomes(w),
         NEW begun \in SUBSET PageLoad,
         offLoads' = [l \in PageLoad |-> IF l \in begun THEN W!Begun ELSE W!Noted(w)[l]],
         offPress' = W!NoPress \/ (w # offWorld /\ offPress' = [offPress EXCEPT !.calm = FALSE]),
         offLoading' \in BOOLEAN, offApplying' \in PageLoad \cup {None, "request"},
         offSetting' = offSetting, offShown' = offShown
  PROVE  W!OffersInv'
<1> USE DEF W!OffersInv
<1>1. /\ offWorld' = w /\ offCalm' = (offCalm /\ w = offWorld)
      /\ offWorkspace' = [offWorkspace EXCEPT !.calm = @ /\ w = offWorld]
  BY DEF W!Becomes
<1>2. \A l \in PageLoad : offLoads'[l] \in LoadRecord
  BY LoadsAre, NotedIs
<1>3. W!TypeOK'
  <2>1. offMoves' \in 0..PageMoves
    BY DEF W!Becomes, W!TypeOK, W!ReadinessAssumption
  <2>2. offCalm' \in BOOLEAN
    BY <1>1 DEF W!TypeOK
  <2>3. offWorkspace' \in WorkspaceRecord
    BY <1>1 DEF W!TypeOK, WorkspaceRecord
  <2>4. offPress' \in PressRecord
    <3>1. CASE offPress' = W!NoPress
      BY <3>1 DEF W!NoPress, PressRecord
    <3>2. CASE offPress' = [offPress EXCEPT !.calm = FALSE]
      BY <3>2 DEF W!TypeOK, PressRecord
    <3> QED
      BY <3>1, <3>2
  <2>5. offLoads' \in [PageLoad -> LoadRecord]
    BY <1>2
  <2> QED
    BY <1>1, <2>1, <2>2, <2>3, <2>4, <2>5 DEF W!TypeOK, LoadRecord, PressRecord, WorkspaceRecord
<1>4. W!LoadsSound'
  <2> SUFFICES ASSUME NEW l \in PageLoad, offLoads'[l].stage \in {"asking", "workspace"}
               PROVE  LET seen == offLoads'[l].seen
                      IN /\ seen # <<>> /\ seen[Len(seen)] = w
                         /\ \A i \in DOMAIN seen : W!Before(seen[i], w)
    BY <1>1 DEF W!LoadsSound
  <2>1. offLoads'[l] = W!Noted(w)[l] /\ offLoads[l].stage \in {"asking", "workspace"}
    BY NotedIs DEF W!Begun
  <2> DEFINE seen == offLoads[l].seen
  <2>2. seen \in Seq(W!World) /\ seen # <<>> /\ seen[Len(seen)] = offWorld
    BY <2>1 DEF W!TypeOK, W!LoadsSound
  <2>3. \A i \in DOMAIN seen : W!Before(seen[i], offWorld)
    BY <2>1 DEF W!LoadsSound
  <2>4. CASE w = offWorld
    BY <2>1, <2>2, <2>3, <2>4, NotedIs
  <2>5. CASE w # offWorld
    <3>1. offLoads'[l].seen = Append(seen, w)
      BY <2>1, <2>5, NotedIs
    <3> HIDE DEF seen
    <3>2. /\ Append(seen, w) # <<>> /\ Append(seen, w)[Len(Append(seen, w))] = w
          /\ \A i \in DOMAIN Append(seen, w) :
               Append(seen, w)[i] = w \/ (i \in DOMAIN seen /\ Append(seen, w)[i] = seen[i])
      BY <2>2
    <3>3. \A i \in DOMAIN seen : seen[i] \in W!World
      BY <2>2
    <3>4. \A i \in DOMAIN seen : W!Before(seen[i], w)
      BY <2>3, <3>3, BeforeBefore DEF W!TypeOK
    <3> QED
      BY <3>1, <3>2, <3>4, BeforeItself
  <2> QED
    BY <2>4, <2>5
<1>5. W!ShownSound'
  <2>1. offWorld.images \subseteq w.images
    BY DEF W!Before
  <2>2. DOMAIN offWorld.plans \subseteq DOMAIN w.plans
    BY DEF W!World, W!Before, W!TypeOK
  <2>3. W!ShownImages' = W!ShownImages
    BY DEF W!ShownImages
  <2> QED
    BY <1>1, <2>1, <2>2, <2>3 DEF W!ShownSound, W!Before
<1>6. W!PressSound'
  <2>1. CASE offPress' = W!NoPress
    <3>1. offPress'.kind = None /\ offPress'.ready = FALSE /\ offPress'.calm = FALSE
      BY <2>1 DEF W!NoPress
    <3>2. None \notin {"build", "push", "plan", "apply"}
      BY DEF W!ReadinessAssumption
    <3> QED
      BY <3>1, <3>2 DEF W!PressSound
  <2>2. CASE offPress' = [offPress EXCEPT !.calm = FALSE]
    <3>1. /\ offPress'.kind = offPress.kind /\ offPress'.env = offPress.env
          /\ offPress'.plan = offPress.plan
          /\ offPress'.ready = offPress.ready /\ offPress'.calm = FALSE
      BY <2>2 DEF W!TypeOK
    <3>2. DOMAIN offWorld.plans \subseteq DOMAIN w.plans
      BY DEF W!World, W!Before, W!TypeOK
    <3> QED
      BY <1>1, <3>1, <3>2 DEF W!PressSound, W!Before
  <2> QED
    BY <2>1, <2>2
<1>7. W!WorkspaceSound'
  <2>1. \A l \in PageLoad : offLoads'[l].stage = "workspace" =>
          offLoads[l].stage = "workspace" /\ offLoads'[l].target = offLoads[l].target
    BY NotedIs DEF W!Begun
  <2>2. offWorkspace'.calm => offWorkspace.calm /\ w = offWorld /\ offWorkspace' = offWorkspace
    BY <1>1 DEF W!TypeOK
  <2> QED
    BY <1>1, <2>1, <2>2 DEF W!WorkspaceSound
<1> QED
  BY <1>3, <1>4, <1>5, <1>6, <1>7

\* The invariant under the beginning and the end of a load that shows nothing.
LEMMA BeginStep ==
  ASSUME W!ReadinessAssumption, W!OffersInv, NEW l \in PageLoad,
         W!Refresh(l) \/ W!StatusFails(l) \/ W!StatusAnswered(l) \/ W!StatusBlocked(l)
  PROVE  W!OffersInv'
<1> USE DEF W!OffersInv
<1>1. /\ offSetting' = offSetting /\ offWorld' = offWorld /\ offPress' = offPress
      /\ offMoves' = offMoves
      /\ offWorld \in W!World /\ offLoads \in [PageLoad -> LoadRecord]
  BY DEF W!Refresh, W!StatusFails, W!StatusAnswered, W!StatusBlocked, W!TypeOK, LoadRecord
<1> DEFINE asked == [offLoads[l] EXCEPT !.stage = "asking", !.seen = <<offWorld>>]
<1>2. PICK load \in {W!Begun, W!Idle, asked} : offLoads' = [offLoads EXCEPT ![l] = load]
  <2>1. W!StatusAnswered(l) => offLoads' = [offLoads EXCEPT ![l] = asked]
    BY <1>1 DEF W!StatusAnswered
  <2>2. W!Refresh(l) => offLoads' = [offLoads EXCEPT ![l] = W!Begun]
    BY DEF W!Refresh
  <2>3. W!StatusFails(l) \/ W!StatusBlocked(l) => offLoads' = [offLoads EXCEPT ![l] = W!Idle]
    BY DEF W!StatusFails, W!StatusBlocked, W!Ends
  <2> HIDE DEF asked
  <2> QED
    BY <2>1, <2>2, <2>3
<1>3. /\ asked \in LoadRecord /\ asked.stage = "asking" /\ asked.seen = <<offWorld>>
      /\ asked.target = offLoads[l].target
  <2>1. <<offWorld>> \in Seq(W!World) /\ offLoads[l] \in LoadRecord
    BY <1>1
  <2> QED
    BY <2>1 DEF LoadRecord
<1> HIDE DEF asked
<1>4. /\ offLoads' \in [PageLoad -> LoadRecord]
      /\ offLoads'[l] \in {W!Begun, W!Idle, asked}
      /\ \A m \in PageLoad \ {l} : offLoads'[m] = offLoads[m]
  <2>1. load \in LoadRecord
    BY <1>3, LoadsAre
  <2>2. /\ [offLoads EXCEPT ![l] = load] \in [PageLoad -> LoadRecord]
        /\ [offLoads EXCEPT ![l] = load][l] = load
        /\ \A m \in PageLoad \ {l} : [offLoads EXCEPT ![l] = load][m] = offLoads[m]
    BY <1>1, <2>1
  <2>3. load \in {W!Begun, W!Idle, asked}
    OBVIOUS
  <2>4. offLoads' \in [PageLoad -> LoadRecord]
    BY <1>2, <2>2
  <2>5. offLoads'[l] = load /\ \A m \in PageLoad \ {l} : offLoads'[m] = offLoads[m]
    BY <1>2, <2>2
  <2> QED
    BY <2>3, <2>4, <2>5
<1>5. \/ offShown' = offShown /\ offWorkspace' = offWorkspace /\ offCalm' = offCalm
      \/ offShown' = W!NothingShown /\ offWorkspace' = W!NoWorkspace /\ offCalm' = TRUE
  <2>1. W!Refresh(l) \/ W!StatusFails(l) \/ W!StatusAnswered(l) =>
          offShown' = offShown /\ offWorkspace' = offWorkspace /\ offCalm' = offCalm
    BY DEF W!Refresh, W!StatusFails, W!StatusAnswered
  <2>2. W!StatusBlocked(l) =>
          offShown' = W!NothingShown /\ offWorkspace' = W!NoWorkspace /\ offCalm' = TRUE
    BY DEF W!StatusBlocked
  <2> QED
    BY <2>1, <2>2
<1>6. W!TypeOK'
  <2>1. offLoading' \in BOOLEAN /\ offApplying' \in PageLoad \cup {None, "request"}
    BY DEF W!Refresh, W!StatusFails, W!StatusAnswered, W!StatusBlocked, W!Ends, W!TypeOK
  <2>2. W!NoWorkspace \in WorkspaceRecord
    BY DEF W!NoWorkspace, WorkspaceRecord
  <2>3. DOMAIN offShown' = W!Reports /\ offCalm' \in BOOLEAN
    BY <1>5 DEF W!TypeOK, W!NothingShown
  <2> QED
    BY <1>1, <1>4, <1>5, <2>1, <2>2, <2>3 DEF W!TypeOK, LoadRecord, PressRecord, WorkspaceRecord
<1>7. W!LoadsSound'
  <2> SUFFICES ASSUME NEW m \in PageLoad, offLoads'[m].stage \in {"asking", "workspace"}
               PROVE  LET seen == offLoads'[m].seen
                      IN /\ seen # <<>> /\ seen[Len(seen)] = offWorld
                         /\ \A i \in DOMAIN seen : W!Before(seen[i], offWorld)
    BY <1>1 DEF W!LoadsSound
  <2>1. CASE m # l
    BY <1>4, <2>1 DEF W!LoadsSound
  <2>2. CASE m = l
    <3>1. offLoads'[m].seen = <<offWorld>>
      BY <1>3, <1>4, <2>2 DEF W!Begun, W!Idle
    <3> QED
      BY <1>1, <3>1, BeforeItself
  <2> QED
    BY <2>1, <2>2
<1>8. W!ShownSound'
  <2>1. CASE offShown' = offShown /\ offCalm' = offCalm
    BY <1>1, <2>1 DEF W!ShownSound, W!ShownImages
  <2>2. CASE offShown' = W!NothingShown
    <3>1. \A k \in W!Reports : offShown'[k] = None
      BY <2>2 DEF W!NothingShown
    <3>2. offShown'["images"] = None /\ offShown'["apply"] = None
      BY <3>1 DEF W!Reports
    <3> QED
      BY <3>1, <3>2 DEF W!ShownSound, W!ShownImages
  <2> QED
    BY <1>5, <2>1, <2>2
<1>9. W!PressSound'
  BY <1>1 DEF W!PressSound
<1>10. W!WorkspaceSound'
  <2>1. \A m \in PageLoad : offLoads'[m].stage = "workspace" => m # l
    BY <1>3, <1>4 DEF W!Begun, W!Idle
  <2>2. offWorkspace'.calm => offWorkspace' = offWorkspace
    BY <1>5 DEF W!NoWorkspace
  <2> QED
    BY <1>1, <1>4, <2>1, <2>2 DEF W!WorkspaceSound
<1> QED
  BY <1>6, <1>7, <1>8, <1>9, <1>10

\* What is shown when reports have come is of something there was since they were asked for.
LEMMA ShowIsSound ==
  ASSUME W!ReadinessAssumption, W!OffersInv, NEW l \in PageLoad, W!Show(l)
  PROVE  W!ShownSound'
<1> USE DEF W!OffersInv
<1> DEFINE seen == offLoads[l].seen
<1>1. /\ seen \in Seq(W!World) /\ seen # <<>> /\ seen[Len(seen)] = offWorld
      /\ \A i \in DOMAIN seen : seen[i] \in W!World /\ W!Before(seen[i], offWorld)
  BY DEF W!Show, W!TypeOK, W!LoadsSound
<1>2. PICK lost \in Lost : \E of \in [W!Reports \ lost -> DOMAIN seen] :
        offShown' = [k \in W!Reports |-> IF k \in lost THEN None
                                       ELSE W!Serve(offSetting, k, seen[of[k]])]
  BY DEF W!Show
<1>3. /\ offSetting' = offSetting /\ offWorld' = offWorld /\ offWorld \in W!World
      /\ offCalm' = (Len(seen) = 1)
  BY DEF W!Show, W!TypeOK
<1> HIDE DEF seen
<1>4. \A k \in W!Reports : \/ offShown'[k] = None
                          \/ \E i \in DOMAIN seen : offShown'[k] = W!Serve(offSetting, k, seen[i])
  BY <1>2
<1>5. offCalm' => \A k \in W!Reports : offShown'[k] \in {None, W!Serve(offSetting, k, offWorld)}
  <2>1. ASSUME offCalm', NEW i \in DOMAIN seen
        PROVE  seen[i] = offWorld
    <3>1. Len(seen) = 1 /\ DOMAIN seen = 1..Len(seen)
      <4>1. Len(seen) = 1
        BY <1>3, <2>1
      <4> QED
        BY <1>1, <4>1
    <3>2. i = 1
      BY <3>1
    <3> QED
      BY <1>1, <3>1, <3>2
  <2> QED
    BY <1>4, <2>1
<1>6. \A k \in W!Reports \ W!TenantData : offShown'[k] # None => W!MayView(offSetting)
  BY <1>4 DEF W!Serve
<1>7. W!ShownImages' \subseteq offWorld.images
  <2>1. "images" \in W!Reports
    BY DEF W!Reports
  <2>2. CASE offShown'["images"] = None
    BY <2>2 DEF W!ShownImages
  <2>3. CASE offShown'["images"] # None
    <3>1. PICK i \in DOMAIN seen : offShown'["images"] = W!Report(offSetting, "images", seen[i])
      BY <1>4, <2>1, <2>3 DEF W!Serve
    <3>2. W!ShownImages' = offShown'["images"]
      BY <2>3 DEF W!ShownImages
    <3> QED
      BY <1>1, <1>3, <3>1, <3>2, ReportsAreOf
  <2> QED
    BY <2>2, <2>3
<1>8. ASSUME offShown'["apply"] # None, offShown'["apply"].status = "READY"
      PROVE  /\ offShown'["apply"].plan \in DOMAIN offWorld.plans
             /\ offWorld.plans[offShown'["apply"].plan].env = offShown'["apply"].env
  <2>1. "apply" \in W!Reports
    BY DEF W!Reports
  <2>2. PICK i \in DOMAIN seen : offShown'["apply"] = W!Serve(offSetting, "apply", seen[i])
    BY <1>4, <1>8, <2>1
  <2>3. offShown'["apply"] = W!ApplyReadiness(offSetting, seen[i])
    BY <1>8, <2>2 DEF W!Serve, W!Report
  <2> QED
    BY <1>1, <1>3, <1>8, <2>3, ReportsAreOf
<1> QED
  BY <1>3, <1>5, <1>6, <1>7, <1>8 DEF W!ShownSound

\* The invariant when reports are shown.
LEMMA ShowStep ==
  ASSUME W!ReadinessAssumption, W!OffersInv, NEW l \in PageLoad, W!Show(l)
  PROVE  W!OffersInv'
<1> USE DEF W!OffersInv
<1> DEFINE seen == offLoads[l].seen
           target == W!First(offSetting.workspaces \cap offSetting.allowed)
           waits == [stage |-> "workspace", seen |-> <<offWorld>>, target |-> target]
<1>1. /\ offSetting' = offSetting /\ offWorld' = offWorld /\ offPress' = offPress
      /\ offMoves' = offMoves
      /\ offWorld \in W!World /\ offLoads \in [PageLoad -> LoadRecord] /\ seen \in Seq(W!World)
      /\ offCalm' = (Len(seen) = 1)
  BY DEF W!Show, W!TypeOK, LoadRecord
<1>2. \/ /\ offLoads' = [offLoads EXCEPT ![l] = W!Idle] /\ offWorkspace' = W!NoWorkspace
         /\ offLoading' = FALSE /\ offApplying' \in {None, offApplying}
      \/ /\ offLoads' = [offLoads EXCEPT ![l] = waits] /\ target # None
         /\ offWorkspace' = offWorkspace
         /\ offLoading' = offLoading /\ offApplying' = offApplying
  <2>1. PICK t \in {None} \cup (IF W!MayView(offSetting)
                               THEN {W!FirstTarget(offSetting, seen[i]) : i \in DOMAIN seen}
                               ELSE {}) :
          IF t = None THEN W!Ends(l) /\ offWorkspace' = W!NoWorkspace
          ELSE /\ offLoads' = [offLoads EXCEPT ![l] = [stage |-> "workspace", seen |-> <<offWorld>>,
                                                 target |-> t]]
               /\ UNCHANGED <<offLoading, offWorkspace, offApplying>>
    BY DEF W!Show
  <2>2. CASE t = None
    BY <2>1, <2>2 DEF W!Ends
  <2>3. CASE t # None
    <3>1. t = target
      BY <2>1, <2>3, OneFirstTarget
    <3> QED
      BY <2>1, <2>3, <3>1
  <2> QED
    BY <2>2, <2>3
<1>3. target # None => waits \in LoadRecord
  <2>1. offSetting.workspaces \subseteq DOMAIN Place
    BY DEF W!ReadinessAssumption, W!TypeOK
  <2>2. target # None => target \in DOMAIN Place
    BY <2>1, FirstIsOne
  <2>3. <<offWorld>> \in Seq(W!World)
    BY <1>1
  <2> HIDE DEF target
  <2> QED
    BY <2>2, <2>3 DEF LoadRecord
<1>4. waits.stage = "workspace" /\ waits.seen = <<offWorld>> /\ waits.target = target
  OBVIOUS
<1> HIDE DEF waits, target, seen
<1>5. /\ offLoads' \in [PageLoad -> LoadRecord]
      /\ offLoads'[l] \in {W!Idle, waits} /\ \A m \in PageLoad \ {l} : offLoads'[m] = offLoads[m]
  <2>1. PICK load \in {W!Idle, waits} :
          offLoads' = [offLoads EXCEPT ![l] = load] /\ load \in LoadRecord
    BY <1>2, <1>3, LoadsAre
  <2>2. /\ [offLoads EXCEPT ![l] = load] \in [PageLoad -> LoadRecord]
        /\ [offLoads EXCEPT ![l] = load][l] = load
        /\ \A m \in PageLoad \ {l} : [offLoads EXCEPT ![l] = load][m] = offLoads[m]
    BY <1>1, <2>1
  <2>3. load \in {W!Idle, waits}
    OBVIOUS
  <2>4. offLoads' \in [PageLoad -> LoadRecord]
    BY <2>1, <2>2
  <2>5. offLoads'[l] = load /\ \A m \in PageLoad \ {l} : offLoads'[m] = offLoads[m]
    BY <2>1, <2>2
  <2> QED
    BY <2>3, <2>4, <2>5
<1>6. W!TypeOK'
  <2>1. offLoading' \in BOOLEAN /\ offApplying' \in PageLoad \cup {None, "request"}
    <3>1. offLoading \in BOOLEAN /\ offApplying \in PageLoad \cup {None, "request"}
      BY DEF W!TypeOK
    <3> QED
      BY <1>2, <3>1
  <2>2. offWorkspace' \in WorkspaceRecord
    <3>1. offWorkspace \in WorkspaceRecord
      BY DEF W!TypeOK, WorkspaceRecord
    <3>2. W!NoWorkspace \in WorkspaceRecord
      BY DEF W!NoWorkspace, WorkspaceRecord
    <3> QED
      BY <1>2, <3>1, <3>2
  <2>3. DOMAIN offShown' = W!Reports
    BY DEF W!Show
  <2>4. offCalm' \in BOOLEAN
    BY <1>1
  <2> QED
    BY <1>1, <1>5, <2>1, <2>2, <2>3, <2>4 DEF W!TypeOK, LoadRecord, PressRecord, WorkspaceRecord
<1>7. W!LoadsSound'
  <2> SUFFICES ASSUME NEW m \in PageLoad, offLoads'[m].stage \in {"asking", "workspace"}
               PROVE  LET s == offLoads'[m].seen
                      IN /\ s # <<>> /\ s[Len(s)] = offWorld
                         /\ \A i \in DOMAIN s : W!Before(s[i], offWorld)
    BY <1>1 DEF W!LoadsSound
  <2>1. CASE m # l
    BY <1>5, <2>1 DEF W!LoadsSound
  <2>2. CASE m = l
    <3>1. offLoads'[m].seen = <<offWorld>>
      BY <1>4, <1>5, <2>2 DEF W!Idle
    <3> QED
      BY <1>1, <3>1, BeforeItself
  <2> QED
    BY <2>1, <2>2
<1>8. W!PressSound'
  BY <1>1 DEF W!PressSound
<1>9. W!WorkspaceSound'
  <2>1. offLoads'[l].stage = "workspace" => offLoads'[l].target = target
    BY <1>4, <1>5 DEF W!Idle
  <2>2. \A m \in PageLoad \ {l} : offLoads'[m].stage = "workspace" => offLoads'[m].target = target
    BY <1>5 DEF W!WorkspaceSound, target
  <2>3. offWorkspace'.calm => offWorkspace' = offWorkspace
    BY <1>2 DEF W!NoWorkspace
  <2> QED
    BY <1>1, <2>1, <2>2, <2>3 DEF W!WorkspaceSound, target
<1> QED
  BY <1>6, <1>7, <1>8, <1>9, ShowIsSound

\* The invariant when the workspace has been reported, or its report was lost.
LEMMA WorkspaceStep ==
  ASSUME W!ReadinessAssumption, W!OffersInv, NEW l \in PageLoad, W!WorkspaceAnswered(l)
  PROVE  W!OffersInv'
<1> USE DEF W!OffersInv
<1> DEFINE seen == offLoads[l].seen
           target == W!First(offSetting.workspaces \cap offSetting.allowed)
<1>1. /\ offSetting' = offSetting /\ offWorld' = offWorld /\ offPress' = offPress
      /\ offMoves' = offMoves
      /\ offShown' = offShown /\ offCalm' = offCalm /\ offLoading' = FALSE
      /\ offApplying' \in {None, offApplying}
      /\ offLoads' = [offLoads EXCEPT ![l] = W!Idle] /\ offLoads[l].stage = "workspace"
  BY DEF W!WorkspaceAnswered, W!Ends
<1>2. /\ offLoads' \in [PageLoad -> LoadRecord] /\ offLoads'[l] = W!Idle
      /\ \A m \in PageLoad \ {l} : offLoads'[m] = offLoads[m]
  <2>1. offLoads \in [PageLoad -> LoadRecord]
    BY DEF W!TypeOK, LoadRecord, PressRecord, WorkspaceRecord
  <2> QED
    BY <1>1, <2>1, LoadsAre
<1>3. /\ seen \in Seq(W!World) /\ seen # <<>> /\ seen[Len(seen)] = offWorld
      /\ offLoads[l].target = target
  BY <1>1 DEF W!TypeOK, W!LoadsSound, W!WorkspaceSound
<1>4. \/ offWorkspace' = W!NoWorkspace
      \/ \E i \in DOMAIN seen :
           offWorkspace' = [report |-> W!WorkspaceReadiness(offSetting, target, seen[i]),
                         calm   |-> Len(seen) = 1]
  BY <1>3 DEF W!WorkspaceAnswered
<1> HIDE DEF seen, target
<1>5. W!TypeOK'
  <2>1. offLoading' \in BOOLEAN /\ offApplying' \in PageLoad \cup {None, "request"}
    BY <1>1 DEF W!TypeOK
  <2>2. offWorkspace' \in WorkspaceRecord
    <3>1. W!NoWorkspace \in WorkspaceRecord
      BY DEF W!NoWorkspace, WorkspaceRecord
    <3>2. \A s, t, w : W!WorkspaceReadiness(s, t, w) \in {None, "READY", "PARTIAL", "ERROR"}
      BY DEF W!WorkspaceReadiness
    <3> DEFINE report(i) == W!WorkspaceReadiness(offSetting, target, seen[i])
               one == Len(seen) = 1
    <3>3. /\ one \in BOOLEAN
          /\ \A i \in DOMAIN seen : report(i) \in {None, "READY", "PARTIAL", "ERROR"}
      BY <3>2
    <3>4. \/ offWorkspace' = W!NoWorkspace
          \/ \E i \in DOMAIN seen : offWorkspace' = [report |-> report(i), calm |-> one]
      BY <1>4
    <3> HIDE DEF report, one
    <3> QED
      BY <3>1, <3>3, <3>4 DEF WorkspaceRecord
  <2> QED
    BY <1>1, <1>2, <2>1, <2>2 DEF W!TypeOK, LoadRecord, PressRecord, WorkspaceRecord
<1>6. W!LoadsSound'
  BY <1>1, <1>2 DEF W!LoadsSound, W!Idle
<1>7. W!ShownSound'
  BY <1>1 DEF W!ShownSound, W!ShownImages
<1>8. W!PressSound'
  BY <1>1 DEF W!PressSound
<1>9. W!WorkspaceSound'
  <2>1. \A m \in PageLoad : offLoads'[m].stage = "workspace" => offLoads'[m].target = target
    <3>1. offLoads'[l].stage # "workspace"
      BY <1>2 DEF W!Idle
    <3> QED
      BY <1>2, <3>1 DEF W!WorkspaceSound, target
  <2>2. ASSUME offWorkspace'.calm
        PROVE  offWorkspace'.report = W!WorkspaceReadiness(offSetting, target, offWorld)
    <3>1. PICK i \in DOMAIN seen :
            offWorkspace' = [report |-> W!WorkspaceReadiness(offSetting, target, seen[i]),
                          calm   |-> Len(seen) = 1]
      BY <1>4, <2>2 DEF W!NoWorkspace
    <3>2. Len(seen) = 1
      BY <2>2, <3>1
    <3>3. seen[i] = offWorld
      BY <1>3, <3>2
    <3> QED
      BY <3>1, <3>3
  <2> QED
    BY <1>1, <2>1, <2>2 DEF W!WorkspaceSound, target
<1> QED
  BY <1>5, <1>6, <1>7, <1>8, <1>9

\* The invariant when a button is pressed that the page offers.
LEMMA RequestStep ==
  ASSUME W!ReadinessAssumption, W!OffersInv,
         NEW kind \in {"build", "push", "plan", "apply"}, NEW env \in Environment \cup {None},
         NEW plan \in Nat \cup {None},
         kind = "build" => offShown["ecr"] # None,
         kind = "push" => [env |-> env, stage |-> "built"] \in W!ShownImages,
         kind = "plan" => /\ offShown["plan"] = "READY"
                          /\ [env |-> env, stage |-> "pushed"] \in W!ShownImages,
         kind = "apply" => /\ offShown["apply"] # None /\ offShown["apply"].status = "READY"
                          /\ env = offShown["apply"].env /\ plan = offShown["apply"].plan,
         W!Press(kind, env, plan), offApplying' \in {offApplying, "request"}
  PROVE  W!OffersInv'
<1> USE DEF W!OffersInv
<1> DEFINE ready == offShown["ecr"] # None /\ offShown["ecr"].status = "READY"
<1>1. /\ offSetting' = offSetting /\ offWorld' = offWorld /\ offMoves' = offMoves
      /\ offLoads' = offLoads
      /\ offLoading' = offLoading /\ offShown' = offShown /\ offWorkspace' = offWorkspace
      /\ offCalm' = offCalm
      /\ offPress' = [kind |-> kind, env |-> env, plan |-> plan, calm |-> offCalm, ready |-> ready]
  BY DEF W!Press
<1> HIDE DEF ready
<1>2. /\ offPress'.kind = kind /\ offPress'.env = env /\ offPress'.plan = plan
      /\ offPress'.calm = offCalm
      /\ offPress'.ready = ready
  BY <1>1
<1>3. ready \in BOOLEAN
  BY DEF ready
<1>4. {"ecr", "plan", "apply"} \subseteq W!Reports /\ {"ecr", "plan"} \cap W!TenantData = {}
  BY DEF W!Reports, W!TenantData
<1>5. offShown["plan"] = "READY" => offShown["plan"] # None
  BY DEF W!ReadinessAssumption
<1>6. W!TypeOK'
  <2>1. offPress' \in PressRecord
    BY <1>1, <1>3 DEF W!TypeOK, PressRecord
  <2> QED
    BY <1>1, <2>1 DEF W!TypeOK, PressRecord
<1>7. W!LoadsSound' /\ W!ShownSound' /\ W!WorkspaceSound'
  BY <1>1 DEF W!LoadsSound, W!ShownSound, W!ShownImages, W!WorkspaceSound
<1>8. W!PressSound'
  <2>1. kind \in {"build", "plan"} \/ ready => W!MayView(offSetting)
    <3>1. offShown["ecr"] # None => W!MayView(offSetting)
      BY <1>4 DEF W!ShownSound
    <3>2. offShown["plan"] # None => W!MayView(offSetting)
      BY <1>4 DEF W!ShownSound
    <3> QED
      BY <1>5, <3>1, <3>2 DEF ready
  <2>2. /\ kind = "push" => [env |-> env, stage |-> "built"] \in offWorld.images
        /\ kind = "plan" => [env |-> env, stage |-> "pushed"] \in offWorld.images
    BY DEF W!ShownSound
  <2>3. kind = "apply" => plan \in DOMAIN offWorld.plans /\ offWorld.plans[plan].env = env
    BY DEF W!ShownSound
  <2>4. ASSUME offCalm
        PROVE  /\ ready => W!EcrReadiness(offSetting, offWorld).status = "READY"
               /\ kind = "plan" => W!PlanReadiness(offSetting, offWorld) = "READY"
               /\ kind = "apply" =>
                    LET told == W!ApplyReadiness(offSetting, offWorld)
                    IN told.status = "READY" /\ told.plan = plan /\ told.env = env
    <3>1. \A k \in {"ecr", "plan", "apply"} :
            offShown[k] # None => offShown[k] = W!Report(offSetting, k, offWorld)
      BY <1>4, <2>4 DEF W!ShownSound, W!Serve
    <3>2. /\ W!Report(offSetting, "ecr", offWorld) = W!EcrReadiness(offSetting, offWorld)
          /\ W!Report(offSetting, "plan", offWorld) = W!PlanReadiness(offSetting, offWorld)
          /\ W!Report(offSetting, "apply", offWorld) = W!ApplyReadiness(offSetting, offWorld)
      BY DEF W!Report
    <3>3. /\ ready => offShown["ecr"] = W!EcrReadiness(offSetting, offWorld)
          /\ kind = "plan" => offShown["plan"] = W!PlanReadiness(offSetting, offWorld)
          /\ kind = "apply" => offShown["apply"] = W!ApplyReadiness(offSetting, offWorld)
      BY <1>5, <3>1, <3>2 DEF ready
    <3> QED
      BY <3>3 DEF ready
  <2>5. kind # None
    BY DEF W!ReadinessAssumption
  <2> QED
    BY <1>1, <1>2, <2>1, <2>2, <2>3, <2>4, <2>5 DEF W!PressSound
<1> QED
  BY <1>6, <1>7, <1>8

\* The page opens in the invariant.
LEMMA OffersInit ==
  ASSUME W!ReadinessAssumption, W!Init
  PROVE  W!OffersInv
<1>1. offWorld \in W!World /\ offSetting \in PageSetting
  BY DEF W!Init, W!ReadinessAssumption
<1>2. W!TypeOK
  <2>1. offLoads \in [PageLoad -> LoadRecord]
    BY LoadsAre DEF W!Init
  <2>2. offWorkspace \in WorkspaceRecord
    BY DEF W!Init, W!NoWorkspace, WorkspaceRecord
  <2>3. offPress \in PressRecord
    BY DEF W!Init, W!NoPress, PressRecord
  <2>4. DOMAIN offShown = W!Reports /\ offMoves \in 0..PageMoves
    BY DEF W!Init, W!NothingShown, W!ReadinessAssumption
  <2>5. /\ offLoading \in BOOLEAN /\ offCalm \in BOOLEAN
        /\ offApplying \in PageLoad \cup {None, "request"}
    BY DEF W!Init
  <2> QED
    BY <1>1, <2>1, <2>2, <2>3, <2>4, <2>5 DEF W!TypeOK, LoadRecord, PressRecord, WorkspaceRecord
<1>3. \A l \in PageLoad : offLoads[l].stage \in {"idle", "status"}
  BY DEF W!Init, W!Idle, W!Begun
<1>4. \A k \in W!Reports : offShown[k] = None
  BY DEF W!Init, W!NothingShown
<1>5. W!LoadsSound
  BY <1>3 DEF W!LoadsSound
<1>6. W!ShownSound
  <2>1. offShown["images"] = None /\ offShown["apply"] = None
    BY <1>4 DEF W!Reports
  <2> QED
    BY <1>4, <2>1 DEF W!ShownSound, W!ShownImages
<1>7. W!PressSound
  <2>1. offPress.kind = None /\ offPress.ready = FALSE /\ offPress.calm = FALSE
    BY DEF W!Init, W!NoPress
  <2>2. None \notin {"build", "push", "plan", "apply"}
    BY DEF W!ReadinessAssumption
  <2> QED
    BY <2>1, <2>2 DEF W!PressSound
<1>8. W!WorkspaceSound
  <2>1. offWorkspace.calm = FALSE
    BY DEF W!Init, W!NoWorkspace
  <2> QED
    BY <1>3, <2>1 DEF W!WorkspaceSound
<1> QED
  BY <1>2, <1>5, <1>6, <1>7, <1>8 DEF W!OffersInv

\* What there may be when a request was handled.
LEMMA AfterGrows ==
  ASSUME offWorld \in W!World, NEW w \in W!After(offPress) \cup {offWorld}
  PROVE  w \in W!World /\ W!Before(offWorld, w)
<1>1. CASE w = offWorld
  BY <1>1, BeforeItself
<1>2. CASE w # offWorld
  <2>1. PICK v \in {"PASSED", "BLOCKED"} : w = [offWorld EXCEPT !.evaluation = v]
    BY <1>2 DEF W!After
  <2> QED
    BY <2>1, MovesGrow DEF W!Verdict
<1> QED
  BY <1>1, <1>2

\* A step keeps the invariant.
LEMMA OffersStep ==
  ASSUME W!ReadinessAssumption, W!OffersInv, [W!Next]_(W!vars)
  PROVE  W!OffersInv'
<1>1. W!TypeOK /\ offWorld \in W!World
  BY DEF W!OffersInv, W!TypeOK
<1>2. ASSUME NEW w \in W!World, W!Before(offWorld, w), W!Moves(w)
      PROVE  W!OffersInv'
  <2> PICK none \in SUBSET PageLoad : none = {}
    OBVIOUS
  <2>1. offLoads' = [l \in PageLoad |-> IF l \in none THEN W!Begun ELSE W!Noted(w)[l]]
    BY <1>2 DEF W!Moves, W!Noted
  <2>2. offLoading' \in BOOLEAN /\ offApplying' \in PageLoad \cup {None, "request"}
    BY <1>1, <1>2 DEF W!Moves, W!TypeOK
  <2>3. W!Becomes(w) /\ w # offWorld /\ offPress' = [offPress EXCEPT !.calm = FALSE]
    BY <1>2 DEF W!Moves
  <2>4. offSetting' = offSetting /\ offShown' = offShown
    BY <1>2 DEF W!Moves
  <2> QED
    BY <1>2, <2>1, <2>2, <2>3, <2>4, WorldStep
<1>3. ASSUME NEW r \in W!Reach, W!ReachChanges(r)
      PROVE  W!OffersInv'
  BY <1>1, <1>2, <1>3, MovesGrow DEF W!ReachChanges
<1>4. ASSUME NEW i \in W!Image, W!Imaged(i)
      PROVE  W!OffersInv'
  BY <1>1, <1>2, <1>4, MovesGrow DEF W!Imaged
<1>5. ASSUME NEW v \in W!Verdict, W!Evaluated(v)
      PROVE  W!OffersInv'
  BY <1>1, <1>2, <1>5, MovesGrow DEF W!Evaluated
<1>6. ASSUME NEW e \in Environment, NEW v \in {"eligible", "high", "blocked"}, W!PlanEnds(e, v)
      PROVE  W!OffersInv'
  BY <1>1, <1>2, <1>6, MovesGrow DEF W!PlanEnds
<1>7. ASSUME NEW p \in DOMAIN offWorld.plans, W!Ages(p)
      PROVE  W!OffersInv'
  BY <1>1, <1>2, <1>7, MovesGrow DEF W!Ages
<1>8. ASSUME NEW l \in PageLoad, W!Accepted(l)
      PROVE  W!OffersInv'
  <2>1. PICK w \in W!After(offPress) :
          W!Becomes(w) /\ offLoads' = [W!Noted(w) EXCEPT ![l] = W!Begun]
    BY <1>8 DEF W!Accepted
  <2>2. w \in W!World /\ W!Before(offWorld, w)
    BY <1>1, AfterGrows
  <2>3. offLoads' = [m \in PageLoad |-> IF m \in {l} THEN W!Begun ELSE W!Noted(w)[m]]
    BY <2>1 DEF W!Noted
  <2>4. offLoading' \in BOOLEAN /\ offApplying' \in PageLoad \cup {None, "request"}
    BY <1>1, <1>8 DEF W!Accepted, W!TypeOK
  <2>5. offPress' = W!NoPress /\ offSetting' = offSetting /\ offShown' = offShown
    BY <1>8 DEF W!Accepted
  <2> QED
    BY <2>1, <2>2, <2>3, <2>4, <2>5, WorldStep
<1>9. ASSUME W!Refused
      PROVE  W!OffersInv'
  <2>1. PICK w \in W!After(offPress) \cup {offWorld} : W!Becomes(w) /\ offLoads' = W!Noted(w)
    BY <1>9 DEF W!Refused
  <2>2. w \in W!World /\ W!Before(offWorld, w)
    BY <1>1, AfterGrows
  <2> PICK none \in SUBSET PageLoad : none = {}
    OBVIOUS
  <2>3. offLoads' = [m \in PageLoad |-> IF m \in none THEN W!Begun ELSE W!Noted(w)[m]]
    BY <2>1 DEF W!Noted
  <2>4. offLoading' \in BOOLEAN /\ offApplying' \in PageLoad \cup {None, "request"}
    BY <1>1, <1>9 DEF W!Refused, W!TypeOK
  <2>5. offPress' = W!NoPress /\ offSetting' = offSetting /\ offShown' = offShown
    BY <1>9 DEF W!Refused
  <2> QED
    BY <2>1, <2>2, <2>3, <2>4, <2>5, WorldStep
<1>10. ASSUME W!requestEcrBuild
       PROVE  W!OffersInv'
  BY <1>10, RequestStep DEF W!requestEcrBuild
<1>11. ASSUME NEW e \in Environment, W!requestEcrPush(e)
       PROVE  W!OffersInv'
  BY <1>11, RequestStep DEF W!requestEcrPush
<1>12. ASSUME NEW e \in Environment, W!requestTerraformPlan(e)
       PROVE  W!OffersInv'
  BY <1>12, RequestStep DEF W!requestTerraformPlan
<1>13. ASSUME W!requestTerraformApply
       PROVE  W!OffersInv'
  <2>1. /\ offShown["apply"] # None /\ offShown["apply"].status = "READY"
        /\ W!Press("apply", offShown["apply"].env, offShown["apply"].plan)
        /\ offApplying' = "request"
    BY <1>13 DEF W!requestTerraformApply
  <2>2. /\ offShown["apply"].plan \in DOMAIN offWorld.plans
        /\ offShown["apply"].env = offWorld.plans[offShown["apply"].plan].env
    BY <2>1 DEF W!OffersInv, W!ShownSound
  <2>3. offWorld.plans \in Seq(W!Plan)
    BY <1>1 DEF W!World
  <2>4. offShown["apply"].plan \in Nat /\ offWorld.plans[offShown["apply"].plan] \in W!Plan
    BY <2>2, <2>3
  <2>5. offShown["apply"].env \in Environment
    BY <2>2, <2>4 DEF W!Plan
  <2> QED
    BY <2>1, <2>4, <2>5, RequestStep
<1>14. ASSUME UNCHANGED W!vars
       PROVE  W!OffersInv'
  <2> USE <1>14 DEF W!vars, W!OffersInv
  <2>1. W!TypeOK'
    BY DEF W!TypeOK
  <2>2. W!LoadsSound' /\ W!WorkspaceSound'
    BY DEF W!LoadsSound, W!WorkspaceSound
  <2>3. W!ShownSound'
    BY DEF W!ShownSound, W!ShownImages
  <2>4. W!PressSound'
    BY DEF W!PressSound
  <2> QED
    BY <2>1, <2>2, <2>3, <2>4
<1> QED
  BY <1>3, <1>4, <1>5, <1>6, <1>7, <1>8, <1>9, <1>10, <1>11, <1>12, <1>13, <1>14, BeginStep,
     ShowStep, WorkspaceStep DEF W!Next

\* Where the registry is ready, images may be built for it.
LEMMA RegistryIsReady ==
  \A w : W!EcrReadiness(offSetting, w).status = "READY" => W!Repository(w)
BY DEF W!EcrReadiness, W!Repository, W!AwsStatus

\* Nothing that the page offers is refused while nothing changed.
LEMMA OffersAreAccepted ==
  ASSUME W!OffersInv, offPress.calm, W!Sure(offPress)
  PROVE  W!Accepts(offPress, offWorld)
<1>1. W!TypeOK /\ W!PressSound
  BY DEF W!OffersInv
<1>2. offPress.kind \in {"build", "push", "plan", "apply"}
  BY <1>1 DEF W!TypeOK, W!PressSound
<1>3. W!MayView(offSetting)
  BY <1>1, <1>2 DEF W!PressSound, W!Sure
<1>4. offPress.kind \in {"build", "push"} => W!Repository(offWorld)
  BY <1>1, RegistryIsReady DEF W!PressSound, W!Sure
<1>5. offPress.kind = "plan" => W!Deployable(offWorld)
  BY <1>1, PlanIsReady DEF W!PressSound, W!Deployable
<1>6. ASSUME offPress.kind = "apply"
      PROVE  /\ offSetting.applyEnabled /\ W!GuardrailReadiness(offSetting) # "BLOCKED"
             /\ W!Deployable(offWorld)
             /\ W!LatestPlan(offPress.plan, offWorld, {offPress.env})
             /\ offWorld.plans[offPress.plan].age <= 1
             /\ offWorld.plans[offPress.plan].verdict = "eligible"
  <2>1. /\ W!ApplyReadiness(offSetting, offWorld).status = "READY"
        /\ W!ApplyReadiness(offSetting, offWorld).plan = offPress.plan
        /\ W!ApplyReadiness(offSetting, offWorld).env = offPress.env
    BY <1>1, <1>6 DEF W!PressSound
  <2>2. /\ W!StateConfigured(offSetting) /\ offSetting.tool /\ offSetting.applyEnabled
        /\ W!GuardrailReadiness(offSetting) # "BLOCKED"
        /\ Sample \in W!Targets(offSetting, offWorld)
        /\ W!LatestPlan(offPress.plan, offWorld, Environment)
        /\ offPress.env = offWorld.plans[offPress.plan].env
        /\ offWorld.plans[offPress.plan].age = 0
        /\ offWorld.plans[offPress.plan].verdict = "eligible"
    BY <2>1, ApplyIsReady
  <2>3. W!LatestPlan(offPress.plan, offWorld, {offPress.env})
    BY <2>2 DEF W!LatestPlan
  <2> QED
    BY <2>2, <2>3 DEF W!Deployable
<1>7. /\ offPress.kind = "push" => [env |-> offPress.env, stage |-> "built"] \in offWorld.images
      /\ offPress.kind = "plan" => [env |-> offPress.env, stage |-> "pushed"] \in offWorld.images
  BY <1>1 DEF W!PressSound
<1>8. offPress.kind = "apply" =>
        \E q \in DOMAIN offWorld.plans : /\ W!LatestPlan(q, offWorld, {offPress.env})
                                      /\ offWorld.plans[q].age <= 1
                                      /\ offWorld.plans[q].verdict = "eligible"
  BY <1>6 DEF W!LatestPlan
<1> QED
  BY <1>3, <1>4, <1>5, <1>6, <1>7, <1>8 DEF W!Accepts, W!Sure

\* The plan that would be applied is not an older one than was shown.
LEMMA AppliedIsShown ==
  ASSUME W!OffersInv
  PROVE  W!ShownPlanIsApplied
<1> SUFFICES ASSUME offPress.kind = "apply", NEW q \in DOMAIN offWorld.plans,
                    W!LatestPlan(q, offWorld, {offPress.env})
             PROVE  q >= offPress.plan /\ (offPress.calm => q = offPress.plan)
  BY DEF W!ShownPlanIsApplied
<1>1. W!PressSound /\ offWorld.plans \in Seq(W!Plan)
  BY DEF W!OffersInv, W!TypeOK, W!World
<1>2. offPress.plan \in DOMAIN offWorld.plans /\ offWorld.plans[offPress.plan].env = offPress.env
  BY <1>1 DEF W!PressSound
<1>3. offPress.plan <= q
  BY <1>2 DEF W!LatestPlan
<1>4. q \in Nat /\ offPress.plan \in Nat /\ offWorld.plans[q] \in W!Plan
  BY <1>1, <1>2
<1>5. ASSUME offPress.calm
      PROVE  q <= offPress.plan
  <2>1. /\ W!ApplyReadiness(offSetting, offWorld).status = "READY"
        /\ W!ApplyReadiness(offSetting, offWorld).plan = offPress.plan
    BY <1>1, <1>5 DEF W!PressSound
  <2>2. W!LatestPlan(offPress.plan, offWorld, Environment)
    BY <2>1, ApplyIsReady
  <2> QED
    BY <1>4, <2>2 DEF W!LatestPlan, W!Plan
<1> QED
  BY <1>3, <1>4, <1>5

\* Sections that were reported of the same moment do not deny each other.
LEMMA SectionsDoAgree ==
  ASSUME W!ReadinessAssumption, W!OffersInv
  PROVE  W!SectionsAgree
<1> SUFFICES ASSUME offCalm, offShown["plan"] = "READY"
             PROVE  /\ offShown["identity"] \in {None, "CONNECTED"}
                    /\ offShown["permissions"] # "NOT_CONFIGURED"
                    /\ offShown["remoteState"] # "NOT_CONFIGURED"
                    /\ offShown["readiness"] # "NOT_CONFIGURED"
                    /\ offWorkspace.calm /\ offSetting.files # "state" =>
                         offWorkspace.report # "ERROR"
  BY DEF W!SectionsAgree
<1>1. /\ offSetting \in PageSetting
      /\ \A k \in W!Reports : offShown[k] \in {None, W!Serve(offSetting, k, offWorld)}
      /\ W!MayView(offSetting)
  <2>1. "plan" \in W!Reports \ W!TenantData /\ offShown["plan"] # None
    BY DEF W!Reports, W!TenantData, W!ReadinessAssumption
  <2> QED
    BY <2>1 DEF W!OffersInv, W!TypeOK, W!ShownSound
<1>2. \A k \in W!Reports : offShown[k] \in {None, W!Report(offSetting, k, offWorld)}
  BY <1>1 DEF W!Serve
<1>3. /\ offShown["plan"] \in {None, W!PlanReadiness(offSetting, offWorld)}
      /\ offShown["identity"] \in {None, W!AwsStatus(offSetting, offWorld)}
      /\ offShown["permissions"] \in {None, W!Permissions(offSetting, offWorld)}
      /\ offShown["remoteState"] \in {None, W!RemoteStateReadiness(offSetting, offWorld)}
      /\ offShown["readiness"] \in {None, W!Readiness(offSetting)}
  BY <1>2 DEF W!Reports, W!Report
<1>4. None # "READY" /\ None # "NOT_CONFIGURED"
  BY DEF W!ReadinessAssumption
<1>5. W!PlanReadiness(offSetting, offWorld) = "READY"
  BY <1>3, <1>4
<1>6. /\ W!Configured(offSetting) /\ W!StateConfigured(offSetting) /\ offSetting.tool
      /\ offWorld.reach = "CONNECTED" /\ Sample \in W!Targets(offSetting, offWorld)
      /\ W!First(offSetting.workspaces \cap offSetting.allowed) = Sample
  BY <1>5, PlanIsReady
<1>7. W!AwsStatus(offSetting, offWorld) = "CONNECTED"
  BY <1>6 DEF W!AwsStatus
<1>8. W!Permissions(offSetting, offWorld) # "NOT_CONFIGURED"
  BY <1>1, <1>6 DEF W!Permissions, W!ReadinessAssumption, W!Reach
<1>9. W!RemoteStateReadiness(offSetting, offWorld) # "NOT_CONFIGURED"
  BY <1>6 DEF W!RemoteStateReadiness, W!StateConfigured, W!RemoteState
<1>10. W!Readiness(offSetting) # "NOT_CONFIGURED"
  BY <1>6 DEF W!Readiness, W!Configured
<1>11. offWorkspace.calm /\ offSetting.files # "state" => offWorkspace.report # "ERROR"
  <2>1. offWorkspace.calm =>
          offWorkspace.report = W!WorkspaceReadiness(offSetting, Sample, offWorld)
    BY <1>6 DEF W!OffersInv, W!WorkspaceSound
  <2>2. offSetting.files # "state" => W!WorkspaceReadiness(offSetting, Sample, offWorld) # "ERROR"
    BY <1>6 DEF W!WorkspaceReadiness
  <2> QED
    BY <2>1, <2>2
<1> QED
  BY <1>3, <1>4, <1>7, <1>8, <1>9, <1>10, <1>11

\* What the page offers is truthful.
LEMMA OffersSay ==
  ASSUME W!ReadinessAssumption, W!OffersInv
  PROVE  W!OffersTruthful
BY OffersAreAccepted, AppliedIsShown, SectionsDoAgree DEF W!OffersTruthful, W!OfferedIsAccepted

\* Whatever changes behind the page, and whatever loads and requests overlap: what is shown is of
\* something there was, and what is on its way is of what was shown.
THEOREM OffersInvariance ==
  ASSUME W!ReadinessAssumption
  PROVE  W!Spec => []W!OffersInv
<1> QED
  BY OffersInit, OffersStep, PTL DEF W!Spec

\* Nothing that the page offers is refused while nothing changed, no older plan is applied than
\* was shown, and no section of the page denies another (aws.service.ts:91-1245,
\* aws-deployment-client.tsx:72-807).
THEOREM OffersStayTruthful ==
  ASSUME W!ReadinessAssumption
  PROVE  W!Spec => []W!OffersTruthful
<1>1. W!OffersInv => W!OffersTruthful
  BY OffersSay
<1> QED
  BY <1>1, OffersInvariance, PTL
=============================================================================
