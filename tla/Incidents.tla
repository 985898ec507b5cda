----------------------------- MODULE Incidents -----------------------------
(***************************************************************************)
(* Incidents: the correlation of signals into incidents                    *)
(* (POST /incidents/correlate), the life cycle operators drive             *)
(* (acknowledge, resolve, archive), and the incident a worker raises for a *)
(* failed operation (operation-incidents.ts).                              *)
(*                                                                         *)
(* One database call or transaction is one action; what a handler read     *)
(* stays in its state until it writes. A caller without the role an action *)
(* asks for never gets past the first check and is left out.               *)
(***************************************************************************)
EXTENDS Naturals, FiniteSets

CONSTANTS
  Incident,        \* incident ids
  Signal,          \* resource_signals rows, records of what correlation reads
  Operation,       \* operations whose failure a worker reports
  FailureSeverity, \* severityForOperation of each
  Handler,         \* API requests in flight
  None             \* null

INFO     == 0
WARNING  == 1
ERROR    == 2
CRITICAL == 3
Severity == INFO..CRITICAL

ASSUME IncidentsAssumption ==
  /\ \A s \in Signal : /\ s.severity \in Severity
                       /\ s.operation \in Operation \cup {None}
  /\ FailureSeverity \in [Operation -> Severity]
  /\ None \notin Incident \cup Signal \cup Operation

VARIABLES
  status,    \* incidents.status, "NONE" while the row does not exist
  archived,  \* archivedAt is set
  severity,  \* incidents.severity
  opening,   \* history: the severity the incident was created with
  key,       \* correlationKey
  operation, \* operationId
  count,     \* signalCount
  links,     \* incident_signals: pairs of an incident and a signal
  timeline,  \* incident_events of each incident: what it links and how its severity moves
  handler    \* API handlers: what they do next and what they remember

rowVars  == <<status, archived, severity, opening, key, operation, count, links, timeline>>
vars     == <<rowVars, handler>>

-----------------------------------------------------------------------------
Live           == {"OPEN", "ACKNOWLEDGED"}
IncidentStatus == Live \cup {"RESOLVED"}
HandlerPc      == {"idle", "found", "linking", "creating",
                   "acknowledging", "resolving", "archiving"}

Idle == [pc |-> "idle", sig |-> None, inc |-> None, read |-> None]

Exists(i) == status[i] # "NONE"

\* buildCorrelationKey: connectivity problems by provider, then by operation, by
\* deployment, and last by the resource and the group its type belongs to.
CorrelationKey(s) ==
  CASE s.group = "connectivity"  -> <<"provider-connectivity", s.source>>
    [] s.group # "connectivity" /\ s.operation # None -> <<"operation", s.operation>>
    [] s.group # "connectivity" /\ s.operation = None /\ s.deployment # None ->
         <<"deployment", s.deployment>>
    [] OTHER -> <<s.source, s.group, s.resource>>

\* Faulty: the correlation forgets the key.
CandidatesOfAnyKey(k) == {i \in Incident : status[i] \in Live /\ ~archived[i]}

\* The incidents findFirst may return: which one, the query does not say.
Candidates(k) == {i \in Incident : status[i] \in Live /\ ~archived[i] /\ key[i] = k}

Linked(i, s) == <<i, s>> \in links

\* Faulty: the column is not unique.
OperationTakenNever(o) == FALSE

\* @unique on incidents.operationId.
OperationTaken(o) == o # None /\ \E i \in Incident : operation[i] = o

\* Faulty: the incident takes the severity of its latest signal.
EscalatedLatest(current, incoming) == incoming

Escalated(current, incoming) == IF incoming > current THEN incoming ELSE current

Init ==
  /\ status    = [i \in Incident |-> "NONE"]
  /\ archived  = [i \in Incident |-> FALSE]
  /\ severity  = [i \in Incident |-> INFO]
  /\ opening   = [i \in Incident |-> INFO]
  /\ key       = [i \in Incident |-> None]
  /\ operation = [i \in Incident |-> None]
  /\ count     = [i \in Incident |-> 0]
  /\ links     = {}
  /\ timeline  = [i \in Incident |-> {}]
  /\ handler   = [h \in Handler |-> Idle]

-----------------------------------------------------------------------------
(* Correlation                                                             *)

Correlating(pc, s, i, read) == [pc |-> pc, sig |-> s, inc |-> i, read |-> read]

\* correlateSignalsForOrg calls this for one active signal of severity WARNING or
\* above after the other, as long as none of them throws. Signals come and go, so
\* what follows what in a batch is any signal after any other. The signal is read
\* by id, whatever became of it since; then the open incident of its key.
FindOpen(h, s) ==
  LET same == Candidates(CorrelationKey(s)) IN
  /\ handler[h].pc = "idle"
  /\ s.severity >= WARNING
  /\ \/ /\ same = {}
        /\ handler' = [handler EXCEPT ![h] = Correlating("creating", s, None, None)]
     \/ \E i \in same :
          handler' = [handler EXCEPT ![h] = Correlating("found", s, i, severity[i])]
  /\ UNCHANGED rowVars

Done(h) == handler' = [handler EXCEPT ![h] = Idle]

\* A signal that is linked already is skipped.
ReadLink(h) ==
  /\ handler[h].pc = "found"
  /\ IF Linked(handler[h].inc, handler[h].sig)
       THEN Done(h)
       ELSE handler' = [handler EXCEPT ![h].pc = "linking"]
  /\ UNCHANGED rowVars

\* The events of a link: SEVERITY_CHANGED only if the severity read is not the
\* one written.
LinkEvents(s, from, to) ==
  {<<"SIGNAL_LINKED", s>>}
     \cup (IF from # to THEN {<<"SEVERITY_CHANGED", to>>} ELSE {})

\* Faulty: nothing refuses a second link of the same signal.
CommitLinkTwice(h) ==
  LET i == handler[h].inc
      s == handler[h].sig
      new == Escalated(handler[h].read, s.severity)
  IN
  /\ handler[h].pc = "linking"
  /\ links'    = links \cup {<<i, s>>}
  /\ count'    = [count EXCEPT ![i] = @ + 1]
  /\ severity' = [severity EXCEPT ![i] = new]
  /\ timeline' = [timeline EXCEPT ![i] = @ \cup LinkEvents(s, handler[h].read, new)]
  /\ Done(h)
  /\ UNCHANGED <<status, archived, opening, key, operation>>

\* The transaction writes the severity computed from the stale read, by id; the
\* unique pair of incident and signal refuses a second link.
CommitLink(h) ==
  LET i == handler[h].inc
      s == handler[h].sig
      new == Escalated(handler[h].read, s.severity)
  IN
  /\ handler[h].pc = "linking"
  /\ ~Linked(i, s)
  /\ links'    = links \cup {<<i, s>>}
  /\ count'    = [count EXCEPT ![i] = @ + 1]
  /\ severity' = [severity EXCEPT ![i] = new]
  /\ timeline' = [timeline EXCEPT ![i] = @ \cup LinkEvents(s, handler[h].read, new)]
  /\ Done(h)
  /\ UNCHANGED <<status, archived, opening, key, operation>>

\* The row both creators insert: the correlation and the worker.
Insert(i, k, o, sev) ==
  /\ ~Exists(i)
  /\ ~OperationTaken(o)
  /\ status'    = [status EXCEPT ![i] = "OPEN"]
  /\ severity'  = [severity EXCEPT ![i] = sev]
  /\ opening'   = [opening EXCEPT ![i] = sev]
  /\ key'       = [key EXCEPT ![i] = k]
  /\ operation' = [operation EXCEPT ![i] = o]

\* The transaction: incident, trigger link and two events. That there is no open
\* incident of the key is not checked again.
CommitCreate(h, i) ==
  LET s == handler[h].sig IN
  /\ handler[h].pc = "creating"
  /\ Insert(i, CorrelationKey(s), s.operation, s.severity)
  /\ links'    = links \cup {<<i, s>>}
  /\ count'    = [count EXCEPT ![i] = 1]
  /\ timeline' = [timeline EXCEPT ![i] = {<<"SIGNAL_LINKED", s>>}]
  /\ Done(h)
  /\ UNCHANGED archived

\* A unique index refuses the transaction; the exception leaves the loop and
\* ends the request.
CorrelationAborts(h) ==
  /\ \/ /\ handler[h].pc = "linking"
        /\ Linked(handler[h].inc, handler[h].sig)
     \/ /\ handler[h].pc = "creating"
        /\ OperationTaken(handler[h].sig.operation)
  /\ Done(h)
  /\ UNCHANGED rowVars

-----------------------------------------------------------------------------
(* Life cycle                                                              *)

\* Every handler reads the incident, checks it, and then writes by id alone. The
\* two events it appends in the same transaction are not modelled.
ReadIncident(h, i, pc) ==
  /\ handler[h].pc = "idle"
  /\ Exists(i)
  /\ handler' = [handler EXCEPT ![h].pc = pc, ![h].inc = i]
  /\ UNCHANGED rowVars

BeginAcknowledge(h, i) == status[i] = "OPEN" /\ ReadIncident(h, i, "acknowledging")

\* The code refuses ARCHIVED too, a status no statement writes.
BeginResolve(h, i) == status[i] \notin {"RESOLVED", "ARCHIVED"} /\ ReadIncident(h, i, "resolving")

BeginArchive(h, i) == ~archived[i] /\ ReadIncident(h, i, "archiving")

CommitAcknowledge(h) ==
  /\ handler[h].pc = "acknowledging"
  /\ status' = [status EXCEPT ![handler[h].inc] = "ACKNOWLEDGED"]
  /\ Done(h)
  /\ UNCHANGED <<archived, severity, opening, key, operation, count, links, timeline>>

CommitResolve(h) ==
  /\ handler[h].pc = "resolving"
  /\ status' = [status EXCEPT ![handler[h].inc] = "RESOLVED"]
  /\ Done(h)
  /\ UNCHANGED <<archived, severity, opening, key, operation, count, links, timeline>>

\* Only archivedAt: the status stays what it is.
CommitArchive(h) ==
  /\ handler[h].pc = "archiving"
  /\ archived' = [archived EXCEPT ![handler[h].inc] = TRUE]
  /\ Done(h)
  /\ UNCHANGED <<status, severity, opening, key, operation, count, links, timeline>>

\* The API process ends, or the database refuses the call.
RequestLost(h) ==
  /\ handler[h].pc # "idle"
  /\ Done(h)
  /\ UNCHANGED rowVars

-----------------------------------------------------------------------------
(* The worker: an operation failed                                         *)

\* No link and no event: the incident only names its operation. The handler looks
\* for it first, but what it finds the unique index would find: an operation that
\* has an incident gets no second one, and the refusal is only logged.
Report(o, i) ==
  /\ Insert(i, <<"operation", o>>, o, FailureSeverity[o])
  /\ UNCHANGED <<archived, count, links, timeline, handler>>

-----------------------------------------------------------------------------
CorrelationStep(h) ==
  \/ \E s \in Signal : FindOpen(h, s)
  \/ ReadLink(h)
  \/ CommitLink(h)
  \/ \E i \in Incident : CommitCreate(h, i)
  \/ CorrelationAborts(h)

LifecycleStep(h) ==
  \/ \E i \in Incident : \/ BeginAcknowledge(h, i)
                         \/ BeginResolve(h, i)
                         \/ BeginArchive(h, i)
  \/ CommitAcknowledge(h)
  \/ CommitResolve(h)
  \/ CommitArchive(h)
  \/ RequestLost(h)

Next ==
  \/ \E h \in Handler : CorrelationStep(h) \/ LifecycleStep(h)
  \/ \E o \in Operation, i \in Incident : Report(o, i)

Spec == Init /\ [][Next]_vars

-----------------------------------------------------------------------------
(* Invariants                                                              *)

TypeOK ==
  /\ status \in [Incident -> IncidentStatus \cup {"NONE"}]
  /\ archived \in [Incident -> BOOLEAN]
  /\ severity \in [Incident -> Severity]
  /\ opening \in [Incident -> Severity]
  /\ operation \in [Incident -> Operation \cup {None}]
  /\ count \in [Incident -> Nat]
  /\ links \subseteq Incident \X Signal
  /\ DOMAIN timeline = Incident
  /\ DOMAIN key = Incident
  /\ handler \in [Handler -> [ pc   : HandlerPc,
                              sig  : Signal \cup {None},
                              inc  : Incident \cup {None},
                              read : Severity \cup {None} ]]

Evidence(i) == {s \in Signal : Linked(i, s)}

\* Three records of one fact agree however correlations overlap: the signalCount
\* of an incident, its links and the SIGNAL_LINKED events of its timeline; and
\* every link is of a signal of the incident's key (incident.service.ts:644-662,
\* 706-742).
EvidenceAgrees ==
  \A i \in Incident :
    /\ count[i] = Cardinality(Evidence(i))
    /\ \A s \in Signal : Linked(i, s) <=> <<"SIGNAL_LINKED", s>> \in timeline[i]
    /\ \A s \in Evidence(i) : key[i] = CorrelationKey(s)

\* One operation has one incident, although the worker and the correlation both
\* look before they insert (operation-incidents.ts:31-35, schema.prisma:663).
OneIncidentPerOperation ==
  \A i, j \in Incident : operation[i] # None /\ operation[i] = operation[j] => i = j

\* Overlapping correlations write severities computed from stale reads; none of
\* them takes an incident below the severity it was opened with
\* (incident.service.ts:641-661, 821-830).
SeverityFloor == \A i \in Incident : severity[i] >= opening[i]

\* The severity of an incident is the one it was opened with or one its timeline
\* says it changed to, whichever stale write came last
\* (incident.service.ts:685-696).
SeverityExplained ==
  \A i \in Incident :
    \/ severity[i] = opening[i]
    \/ <<"SEVERITY_CHANGED", severity[i]>> \in timeline[i]

\* The inductive invariant. A row that does not exist is empty, evidence is
\* finite, and what a correlation remembers of its read was once true of the
\* incident: its key, and a severity its timeline still explains.
RowsSound ==
  \A i \in Incident :
    /\ IsFiniteSet(Evidence(i))
    /\ ~Exists(i) => /\ operation[i] = None
                     /\ Evidence(i) = {}
                     /\ timeline[i] = {}

ReadSound(i, read) ==
  /\ read \in Severity
  /\ read >= opening[i]
  /\ read = opening[i] \/ <<"SEVERITY_CHANGED", read>> \in timeline[i]

HandlerSound(h) ==
  LET i == handler[h].inc
      s == handler[h].sig
  IN
  /\ handler[h].pc \in {"found", "linking"} =>
       i \in Incident /\ Exists(i) /\ s \in Signal
         /\ key[i] = CorrelationKey(s) /\ ReadSound(i, handler[h].read)
  /\ handler[h].pc = "creating" => s \in Signal
  /\ handler[h].pc \in {"acknowledging", "resolving", "archiving"} =>
       i \in Incident /\ Exists(i)

HandlersSound == \A h \in Handler : HandlerSound(h)

IInv ==
  /\ TypeOK
  /\ RowsSound
  /\ HandlersSound
  /\ EvidenceAgrees
  /\ OneIncidentPerOperation
  /\ SeverityFloor
  /\ SeverityExplained

=============================================================================
