---------------------------- MODULE Remediation ----------------------------
(***************************************************************************)
(* The restart AutoOps recommends for an incident of Docker containers,    *)
(* and its preparation as a governed operation (remediation-rules.service, *)
(* incident-timeline.service, incident.service and the incident page).     *)
(*                                                                         *)
(* Container signals name no resource node: all of them correlate into one *)
(* incident. The recommendation is computed when it is listed, and again   *)
(* when it is prepared: its id names the rule and not the container, and   *)
(* the operation acts on the container the second computation finds.       *)
(***************************************************************************)
EXTENDS Naturals, FiniteSets, FiniteSetsExt

CONSTANTS
  None,
  Container,
  Request,     \* open pages of the incident
  MaxEvidence, \* evidence a recommendation keeps (8)
  MaxTime      \* bound: dated writes

VARIABLES
  now,      \* the time of the last dated write
  seenAt,   \* observedAt of the signal of a container, 0 while there is none
  linked,   \* containers whose signal is linked to the incident
  logged,   \* events of the incident's log that speak of Docker, by time
  page,     \* the container each page shows
  fresh,    \* pages loaded since a signal was observed or linked
  req,      \* the preparation a page has sent
  ops,      \* the operations of idempotency key remediation:<incident>:<rule>
  notes     \* events "Governed remediation operation prepared"

vars == <<now, seenAt, linked, logged, page, fresh, req, ops, notes>>

Idle == [pc |-> "idle", plan |-> None, calm |-> FALSE]

OpStatus == {"PENDING_APPROVAL", "REJECTED", "QUEUED", "RUNNING", "SUCCEEDED", "FAILED"}

Init ==
  /\ now    = 0
  /\ seenAt = [c \in Container |-> 0]
  /\ linked = {}
  /\ logged = [t \in 1..MaxTime |-> 0]
  /\ page   = [r \in Request |-> None]
  /\ fresh  = {}
  /\ req    = [r \in Request |-> Idle]
  /\ ops    = {}
  /\ notes  = 0

Dated == now < MaxTime /\ now' = now + 1

Log(n) == logged' = [logged EXCEPT ![now'] = n]

-----------------------------------------------------------------------------
(* Rules                                                                   *)

\* The timeline is sorted by time: a signal stands at its last observation.
Earlier(c) == {d \in linked : seenAt[d] < seenAt[c]}

\* Before it in the evidence: the incident, its linked signals, which name no
\* container, the events of the log and the signals that are earlier.
Position(c) ==
  1 + Cardinality(linked) + Cardinality(Earlier(c))
    + MapThenSumSet(LAMBDA t : logged[t], {t \in 1..MaxTime : t < seenAt[c]})

\* buildRemediationRecommendations asks the plan with all of the evidence ...
Recommended == {c \in linked : Earlier(c) = {}}

\* Faulty: the newest evidence is kept.
PlannedNewest == {c \in linked : \A d \in linked : seenAt[d] <= seenAt[c]}

\* ... and returns what is left of it, from which the preparation plans again.
Planned == {c \in Recommended : Position(c) < MaxEvidence}

-----------------------------------------------------------------------------
(* Signals come and are correlated                                         *)

Observe(c) ==
  /\ Dated
  /\ seenAt' = [seenAt EXCEPT ![c] = now']
  /\ fresh'  = {}
  /\ UNCHANGED <<linked, logged, page, req, ops, notes>>

\* correlateSignal opens the incident, or links to it: two events either way.
Link(c) ==
  /\ seenAt[c] > 0
  /\ c \notin linked
  /\ Dated
  /\ linked' = linked \cup {c}
  /\ Log(2)
  /\ fresh' = {}
  /\ UNCHANGED <<seenAt, page, req, ops, notes>>

-----------------------------------------------------------------------------
(* The page                                                                *)

Load(r) ==
  /\ req[r].pc = "idle"
  /\ \E c \in Recommended : page' = [page EXCEPT ![r] = c]
  /\ fresh' = fresh \cup {r}
  /\ UNCHANGED <<now, seenAt, linked, logged, req, ops, notes>>

\* Typed RESTART; only a recommendation that can be prepared has the button.
Send(r) ==
  /\ req[r].pc = "idle"
  /\ page[r] # None
  /\ req' = [req EXCEPT ![r] = [Idle EXCEPT !.pc = "reading"]]
  /\ UNCHANGED <<now, seenAt, linked, logged, page, fresh, ops, notes>>

-----------------------------------------------------------------------------
(* prepareRemediationRecommendation                                        *)

Plan(r) ==
  /\ req[r].pc = "reading"
  /\ \/ \E c \in Planned :
          req' = [req EXCEPT ![r] = [pc |-> "creating", plan |-> c, calm |-> r \in fresh]]
     \/ /\ Planned = {}                             \* BadRequestError
        /\ req' = [req EXCEPT ![r] = Idle]
  /\ UNCHANGED <<now, seenAt, linked, logged, page, fresh, ops, notes>>

\* createQueuedOperation: a restart waits for its approval. A second preparation
\* is answered with the operation there is, whatever became of it.
Create(r) ==
  /\ req[r].pc = "creating"
  /\ IF ops = {}
     THEN ops' = {[target |-> req[r].plan, shown |-> page[r], calm |-> req[r].calm,
                   status |-> "PENDING_APPROVAL"]}
     ELSE UNCHANGED ops
  /\ req' = [req EXCEPT ![r] = [Idle EXCEPT !.pc = "noting"]]
  /\ UNCHANGED <<now, seenAt, linked, logged, page, fresh, notes>>

\* _recordRemediationPreparationEvent, then the answer; the page loads again.
Note(r) ==
  /\ req[r].pc = "noting"
  /\ Dated
  /\ notes' = notes + 1
  /\ Log(1)
  /\ req' = [req EXCEPT ![r] = Idle]
  /\ UNCHANGED <<seenAt, linked, page, fresh, ops>>

\* An error or a crash at any of these steps: the page may send again.
Break(r) ==
  /\ req[r].pc # "idle"
  /\ req' = [req EXCEPT ![r] = Idle]
  /\ UNCHANGED <<now, seenAt, linked, logged, page, fresh, ops, notes>>

\* The operation goes its way, which is Operations.
OperationMoves ==
  /\ \E op \in ops, s \in OpStatus :
       /\ <<op.status, s>> \in
            {<<"PENDING_APPROVAL", "QUEUED">>, <<"PENDING_APPROVAL", "REJECTED">>,
             <<"QUEUED", "RUNNING">>, <<"RUNNING", "SUCCEEDED">>, <<"RUNNING", "FAILED">>}
       /\ ops' = (ops \ {op}) \cup {[op EXCEPT !.status = s]}
  /\ UNCHANGED <<now, seenAt, linked, logged, page, fresh, req, notes>>

Next ==
  \/ \E c \in Container : Observe(c) \/ Link(c)
  \/ \E r \in Request : Load(r) \/ Send(r) \/ Plan(r) \/ Create(r) \/ Note(r) \/ Break(r)
  \/ OperationMoves

Spec == Init /\ [][Next]_vars
-----------------------------------------------------------------------------
RequestType == [pc : {"idle", "reading", "creating", "noting"}, plan : Container \cup {None},
                calm : BOOLEAN]
OpType      == [target : Container, shown : Container \cup {None}, calm : BOOLEAN,
                status : OpStatus]

\* The variables keep their types; what is linked was seen, and a plan that goes on to its
\* operation names a linked container.
TypeOK ==
  /\ now \in 0..MaxTime
  /\ seenAt \in [Container -> 0..MaxTime]
  /\ linked \subseteq {c \in Container : seenAt[c] > 0}
  /\ logged \in [1..MaxTime -> 0..2]
  /\ fresh \subseteq Request
  /\ page \in [Request -> Container \cup {None}]
  /\ req \in [Request -> RequestType]
  /\ \A r \in Request : req[r].pc = "creating" => req[r].plan \in linked
  /\ ops \subseteq OpType
  /\ notes \in 0..MaxTime

\* The prepared operation restarts a container of the incident; when nothing was
\* observed or linked between the page and the plan, the one the page showed,
\* however many pages prepare it at once; and no preparation is noted without its
\* operation (incident.service.ts:458-525, remediation-rules.service.ts:56-193).
PreparedAsShown ==
  /\ \A op \in ops : /\ op.target \in linked
                     /\ op.calm => op.target = op.shown
  /\ notes > 0 => ops # {}

-----------------------------------------------------------------------------
(* The inductive invariant                                                 *)

\* Observations are apart in time, so one recommendation at most is the first; a page that
\* is fresh shows it; a calm plan is what its page shows; what is noted has its operation.
Apart     == /\ \A c \in Container : seenAt[c] <= now
             /\ \A c, d \in Container : seenAt[c] = seenAt[d] /\ seenAt[c] > 0 => c = d
FreshShow == \A r \in fresh : page[r] \in Recommended
CalmPlans == \A r \in Request : req[r].pc = "creating" /\ req[r].calm =>
               req[r].plan = page[r]
Noted     == /\ \A r \in Request : req[r].pc = "noting" => ops # {}
             /\ notes <= now

PrepInv == TypeOK /\ PreparedAsShown /\ Apart /\ FreshShow /\ CalmPlans /\ Noted
=============================================================================
