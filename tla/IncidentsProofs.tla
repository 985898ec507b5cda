-------------------------- MODULE IncidentsProofs --------------------------
(***************************************************************************)
(* What is proved of Incidents, for any set of incidents, signals,         *)
(* operations and handlers. The invariant is carried by two ideas: steps   *)
(* of other handlers only ever extend an incident (Grows), which keeps     *)
(* every stale read sound; and a step either writes no row, or moves the   *)
(* life cycle, or adds one piece of evidence, or inserts one row.          *)
(***************************************************************************)
EXTENDS Incidents, FiniteSetTheorems, TLAPS

\* What every step does to the rows of existing incidents.
Grows ==
  \A i \in Incident :
    Exists(i) => /\ Exists(i)'
                 /\ key'[i] = key[i]
                 /\ opening'[i] = opening[i]
                 /\ timeline[i] \subseteq timeline'[i]

\* The part of the invariant that is about rows, not about handlers.
RowInv ==
  /\ RowsSound
  /\ EvidenceAgrees
  /\ OneIncidentPerOperation
  /\ SeverityFloor
  /\ SeverityExplained

LEMMA IdleType ==
  Idle \in [ pc : HandlerPc, sig : Signal \cup {None}, inc : Incident \cup {None},
             read : Severity \cup {None} ]
BY DEF Idle, HandlerPc

\* The higher of two severities is a severity, and below neither of them.
LEMMA EscalatedBounds ==
  ASSUME NEW a \in Severity, NEW b \in Severity
  PROVE  /\ Escalated(a, b) \in Severity
         /\ Escalated(a, b) >= a
         /\ Escalated(a, b) \in {a, b}
BY DEF Escalated, Severity, INFO, CRITICAL

\* A handler that does not move keeps what it remembers, because rows only grow.
LEMMA StaleReadsStaySound ==
  ASSUME Grows, NEW h \in Handler, handler'[h] = handler[h], HandlerSound(h)
  PROVE  HandlerSound(h)'
BY DEF Grows, HandlerSound, ReadSound, Exists

\* If one handler goes back to idle and the rows grow, all handlers are sound.
LEMMA DoneSound ==
  ASSUME TypeOK, HandlersSound, Grows, NEW h \in Handler, Done(h)
  PROVE  HandlersSound'
<1> SUFFICES ASSUME NEW g \in Handler
             PROVE  HandlerSound(g)'
  BY DEF HandlersSound
<1>1. CASE g = h
  <2>1. handler'[g] = Idle
    BY <1>1 DEF Done, TypeOK
  <2> QED
    BY <2>1 DEF HandlerSound, Idle
<1>2. CASE g # h
  <2>1. handler'[g] = handler[g]
    BY <1>2 DEF Done, TypeOK
  <2> QED
    BY <2>1, StaleReadsStaySound DEF HandlersSound
<1> QED
  BY <1>1, <1>2

\* Steps that write no row.
LEMMA RowsKept ==
  ASSUME RowInv, UNCHANGED rowVars
  PROVE  RowInv' /\ Grows
BY DEF RowInv, rowVars, RowsSound, EvidenceAgrees, OneIncidentPerOperation,
   SeverityFloor, SeverityExplained, Evidence, Linked, Exists, Grows

\* Steps that write only the status of an existing incident, or archive it.
LEMMA LifecycleKeepsRows ==
  ASSUME RowInv,
         UNCHANGED <<severity, opening, key, operation, count, links, timeline>>,
         \A i \in Incident : Exists(i)' <=> Exists(i)
  PROVE  RowInv' /\ Grows
BY DEF RowInv, RowsSound, EvidenceAgrees, OneIncidentPerOperation,
   SeverityFloor, SeverityExplained, Evidence, Linked, Grows

\* One link more: the evidence of that incident gains the signal, all other
\* evidence stays.
LEMMA EvidenceAdded ==
  ASSUME NEW i \in Incident, NEW s \in Signal, links' = links \cup {<<i, s>>}
  PROVE  /\ Evidence(i)' = Evidence(i) \cup {s}
         /\ \A j \in Incident : j # i => Evidence(j)' = Evidence(j)
         /\ \A j \in Incident, t \in Signal :
              Linked(j, t)' <=> Linked(j, t) \/ (j = i /\ t = s)
BY DEF Evidence, Linked

-----------------------------------------------------------------------------
(* Linking a signal to an existing incident                                *)

\* What a link about to be written does, as facts about one incident i and one
\* signal s.
LinkWrites(i, s, read, new) ==
  /\ Exists(i)
  /\ key[i] = CorrelationKey(s)
  /\ ReadSound(i, read)
  /\ ~Linked(i, s)
  /\ new \in {read, s.severity} /\ new >= opening[i]
  /\ links' = links \cup {<<i, s>>}
  /\ count' = [count EXCEPT ![i] = @ + 1]
  /\ severity' = [severity EXCEPT ![i] = new]
  /\ timeline' = [timeline EXCEPT ![i] = @ \cup LinkEvents(s, read, new)]
  /\ UNCHANGED <<status, archived, opening, key, operation>>

LEMMA LinkFacts ==
  ASSUME TypeOK, NEW h \in Handler, HandlerSound(h), CommitLink(h)
  PROVE  \E i \in Incident, s \in Signal, read \in Severity, new \in Severity :
           LinkWrites(i, s, read, new)
<1> DEFINE i == handler[h].inc
           s == handler[h].sig
           read == handler[h].read
           new == Escalated(read, s.severity)
<1>1. /\ i \in Incident /\ s \in Signal /\ Exists(i)
      /\ key[i] = CorrelationKey(s)
      /\ ReadSound(i, read)
  BY DEF HandlerSound, CommitLink
<1>2. /\ read \in Severity /\ read >= opening[i]
      /\ s.severity \in Severity /\ opening[i] \in Severity
  BY <1>1, IncidentsAssumption DEF ReadSound, TypeOK
<1>3. new \in Severity /\ new >= read /\ new \in {read, s.severity}
  BY <1>2, EscalatedBounds
<1>4. new >= opening[i]
  BY <1>2, <1>3 DEF Severity, INFO, CRITICAL
<1>5. LinkWrites(i, s, read, new)
  BY <1>1, <1>3, <1>4 DEF CommitLink, LinkWrites
<1> QED
  BY <1>1, <1>2, <1>3, <1>5

LEMMA LinkRows ==
  ASSUME TypeOK, RowInv, NEW h \in Handler, HandlerSound(h), CommitLink(h)
  PROVE  RowInv' /\ Grows
<1>0. PICK i \in Incident, s \in Signal, read \in Severity, new \in Severity :
        LinkWrites(i, s, read, new)
  BY LinkFacts
<1>1. /\ Exists(i)
      /\ key[i] = CorrelationKey(s)
      /\ ReadSound(i, read)
      /\ ~Linked(i, s)
      /\ new \in {read, s.severity} /\ new >= opening[i]
      /\ links' = links \cup {<<i, s>>}
      /\ count' = [count EXCEPT ![i] = @ + 1]
      /\ severity' = [severity EXCEPT ![i] = new]
      /\ timeline' = [timeline EXCEPT ![i] = @ \cup LinkEvents(s, read, new)]
      /\ UNCHANGED <<status, archived, opening, key, operation>>
  BY <1>0 DEF LinkWrites
<1>2. /\ Evidence(i)' = Evidence(i) \cup {s}
      /\ \A j \in Incident : j # i => Evidence(j)' = Evidence(j)
      /\ \A j \in Incident, t \in Signal :
           Linked(j, t)' <=> Linked(j, t) \/ (j = i /\ t = s)
  BY <1>1, EvidenceAdded
<1>3. /\ DOMAIN timeline = Incident
      /\ timeline'[i] = timeline[i] \cup LinkEvents(s, read, new)
      /\ \A j \in Incident : j # i => timeline'[j] = timeline[j]
  BY <1>1 DEF TypeOK
<1>4. Grows
  BY <1>1, <1>3 DEF Grows, Exists
<1>5. RowsSound'
  <2>1. IsFiniteSet(Evidence(i)')
    BY <1>1, <1>2, FS_AddElement DEF RowInv, RowsSound
  <2>2. Exists(i)' /\ \A j \in Incident : Exists(j)' <=> Exists(j)
    BY <1>1 DEF Exists
  <2> QED
    BY <1>1, <1>2, <1>3, <2>1, <2>2 DEF RowInv, RowsSound
<1>6. EvidenceAgrees'
  <2>1. s \notin Evidence(i) /\ IsFiniteSet(Evidence(i))
    BY <1>1 DEF Evidence, RowInv, RowsSound
  <2>2. count'[i] = Cardinality(Evidence(i)')
    <3>1. Cardinality(Evidence(i) \cup {s}) = Cardinality(Evidence(i)) + 1
      BY <2>1, FS_AddElement
    <3>2. count'[i] = count[i] + 1 /\ count[i] = Cardinality(Evidence(i))
      BY <1>1 DEF TypeOK, RowInv, EvidenceAgrees
    <3> QED
      BY <3>1, <3>2, <1>2
  <2>3. \A j \in Incident : j # i => count'[j] = Cardinality(Evidence(j)')
    BY <1>1, <1>2 DEF TypeOK, RowInv, EvidenceAgrees
  <2>4. \A t \in Signal : <<"SIGNAL_LINKED", t>> \in LinkEvents(s, read, new) <=> t = s
    BY DEF LinkEvents
  <2>5. \A j \in Incident, t \in Signal :
          Linked(j, t)' <=> <<"SIGNAL_LINKED", t>> \in timeline'[j]
    BY <1>2, <1>3, <2>4 DEF RowInv, EvidenceAgrees
  <2>6. \A j \in Incident : \A t \in Evidence(j)' : key'[j] = CorrelationKey(t)
    BY <1>1, <1>2 DEF RowInv, EvidenceAgrees
  <2> QED
    BY <2>2, <2>3, <2>5, <2>6 DEF EvidenceAgrees
<1>7. OneIncidentPerOperation'
  BY <1>1 DEF RowInv, OneIncidentPerOperation
<1>8. SeverityFloor'
  BY <1>1 DEF TypeOK, RowInv, SeverityFloor
<1>9. SeverityExplained'
  <2>1. severity'[i] = new
    BY <1>1 DEF TypeOK
  <2>2. new = opening'[i] \/ <<"SEVERITY_CHANGED", new>> \in timeline'[i]
    <3>1. CASE new = read
      BY <1>1, <1>3, <3>1 DEF ReadSound
    <3>2. CASE new # read
      BY <1>3, <3>2 DEF LinkEvents
    <3> QED
      BY <3>1, <3>2
  <2>3. \A j \in Incident : j # i =>
          severity'[j] = opening'[j] \/ <<"SEVERITY_CHANGED", severity'[j]>> \in timeline'[j]
    BY <1>1, <1>3 DEF TypeOK, RowInv, SeverityExplained
  <2> QED
    BY <2>1, <2>2, <2>3 DEF SeverityExplained
<1> QED
  BY <1>4, <1>5, <1>6, <1>7, <1>8, <1>9 DEF RowInv

-----------------------------------------------------------------------------
(* Inserting an incident                                                   *)

\* Rows that exist do not change when another is inserted.
LEMMA InsertGrows ==
  ASSUME TypeOK, NEW i \in Incident, NEW k, NEW o \in Operation \cup {None},
         NEW sev \in Severity, Insert(i, k, o, sev),
         \A j \in Incident : j # i => timeline'[j] = timeline[j]
  PROVE  /\ Grows
         /\ ~Exists(i) /\ Exists(i)'
         /\ \A j \in Incident : j # i => (Exists(j)' <=> Exists(j))
         /\ severity'[i] = sev /\ opening'[i] = sev /\ key'[i] = k /\ operation'[i] = o
         /\ \A j \in Incident : j # i =>
              /\ severity'[j] = severity[j] /\ opening'[j] = opening[j]
              /\ key'[j] = key[j] /\ operation'[j] = operation[j]
BY DEF Insert, TypeOK, Exists, Grows

\* The columns every insert keeps sound, whoever inserts.
LEMMA InsertRows ==
  ASSUME TypeOK, RowInv, NEW i \in Incident, NEW k, NEW o \in Operation \cup {None},
         NEW sev \in Severity, Insert(i, k, o, sev),
         \A j \in Incident : j # i => timeline'[j] = timeline[j]
  PROVE  OneIncidentPerOperation' /\ SeverityFloor' /\ SeverityExplained'
<1>1. /\ severity'[i] = sev /\ opening'[i] = sev /\ operation'[i] = o
      /\ \A j \in Incident : j # i =>
           /\ severity'[j] = severity[j] /\ opening'[j] = opening[j]
           /\ operation'[j] = operation[j]
  BY InsertGrows
<1>2. o # None => \A j \in Incident : operation[j] # o
  BY DEF Insert, OperationTaken
<1>3. OneIncidentPerOperation'
  BY <1>1, <1>2 DEF RowInv, OneIncidentPerOperation
<1>4. SeverityFloor'
  <2>1. sev >= sev
    BY DEF Severity, INFO, CRITICAL
  <2> QED
    BY <1>1, <2>1 DEF RowInv, SeverityFloor
<1>5. SeverityExplained'
  BY <1>1 DEF RowInv, SeverityExplained
<1> QED
  BY <1>3, <1>4, <1>5

\* The correlation inserts an incident with its first piece of evidence.
LEMMA CreateRows ==
  ASSUME TypeOK, RowInv, NEW h \in Handler, HandlerSound(h),
         NEW i \in Incident, CommitCreate(h, i)
  PROVE  RowInv' /\ Grows
<1>1. PICK s \in Signal : s = handler[h].sig
  BY DEF HandlerSound, CommitCreate
<1>0. PICK k, o, sev : k = CorrelationKey(s) /\ o = s.operation /\ sev = s.severity
  OBVIOUS
<1>2. /\ Insert(i, k, o, sev)
      /\ links' = links \cup {<<i, s>>}
      /\ count' = [count EXCEPT ![i] = 1]
      /\ timeline' = [timeline EXCEPT ![i] = {<<"SIGNAL_LINKED", s>>}]
  BY <1>0, <1>1 DEF CommitCreate
<1>3. o \in Operation \cup {None} /\ sev \in Severity
  BY <1>0, IncidentsAssumption
<1>4. /\ DOMAIN timeline = Incident
      /\ timeline'[i] = {<<"SIGNAL_LINKED", s>>}
      /\ \A j \in Incident : j # i => timeline'[j] = timeline[j]
  BY <1>2 DEF TypeOK
<1>5. /\ Grows
      /\ ~Exists(i) /\ Exists(i)'
      /\ \A j \in Incident : j # i => (Exists(j)' <=> Exists(j))
      /\ key'[i] = k
      /\ \A j \in Incident : j # i => key'[j] = key[j] /\ operation'[j] = operation[j]
  BY <1>2, <1>3, <1>4, InsertGrows
<1>6. OneIncidentPerOperation' /\ SeverityFloor' /\ SeverityExplained'
  BY <1>2, <1>3, <1>4, InsertRows
<1>7. /\ Evidence(i)' = Evidence(i) \cup {s}
      /\ \A j \in Incident : j # i => Evidence(j)' = Evidence(j)
      /\ \A j \in Incident, t \in Signal :
           Linked(j, t)' <=> Linked(j, t) \/ (j = i /\ t = s)
  BY <1>2, EvidenceAdded
<1>8. Evidence(i) = {} /\ Evidence(i)' = {s}
  BY <1>5, <1>7 DEF RowInv, RowsSound
<1>9. IsFiniteSet({s}) /\ Cardinality({s}) = 1
  BY FS_Singleton
<1>10. RowsSound'
  BY <1>4, <1>5, <1>7, <1>8, <1>9 DEF RowInv, RowsSound
<1>11. EvidenceAgrees'
  <2>1. \A j \in Incident : count'[j] = Cardinality(Evidence(j)')
    BY <1>2, <1>7, <1>8, <1>9 DEF TypeOK, RowInv, EvidenceAgrees
  <2>2. \A t \in Signal : ~Linked(i, t)
    BY <1>8 DEF Evidence
  <2>3. \A j \in Incident, t \in Signal :
          Linked(j, t)' <=> <<"SIGNAL_LINKED", t>> \in timeline'[j]
    <3>1. \A t \in Signal : <<"SIGNAL_LINKED", t>> \in {<<"SIGNAL_LINKED", s>>} <=> t = s
      OBVIOUS
    <3>2. \A t \in Signal : Linked(i, t)' <=> <<"SIGNAL_LINKED", t>> \in timeline'[i]
      BY <1>4, <1>7, <2>2, <3>1
    <3>3. \A j \in Incident, t \in Signal : j # i =>
            (Linked(j, t)' <=> <<"SIGNAL_LINKED", t>> \in timeline'[j])
      BY <1>4, <1>7 DEF RowInv, EvidenceAgrees
    <3> QED
      BY <3>2, <3>3
  <2>4. \A j \in Incident : \A t \in Evidence(j)' : key'[j] = CorrelationKey(t)
    BY <1>0, <1>5, <1>7, <1>8 DEF RowInv, EvidenceAgrees
  <2> QED
    BY <2>1, <2>3, <2>4 DEF EvidenceAgrees
<1> QED
  BY <1>5, <1>6, <1>10, <1>11 DEF RowInv

\* The worker inserts an incident without evidence.
LEMMA ReportRows ==
  ASSUME TypeOK, RowInv, NEW o \in Operation, NEW i \in Incident, Report(o, i)
  PROVE  RowInv' /\ Grows
<1>1. /\ Insert(i, <<"operation", o>>, o, FailureSeverity[o])
      /\ UNCHANGED <<count, links, timeline>>
  BY DEF Report
<1>2. o \in Operation \cup {None} /\ FailureSeverity[o] \in Severity
  BY IncidentsAssumption
<1>3. /\ Grows
      /\ ~Exists(i) /\ Exists(i)'
      /\ \A j \in Incident : j # i => (Exists(j)' <=> Exists(j))
      /\ \A j \in Incident : j # i => key'[j] = key[j] /\ operation'[j] = operation[j]
  BY <1>1, <1>2, InsertGrows
<1>4. OneIncidentPerOperation' /\ SeverityFloor' /\ SeverityExplained'
  BY <1>1, <1>2, InsertRows
<1>5. /\ \A j \in Incident : Evidence(j)' = Evidence(j)
      /\ \A j \in Incident, t \in Signal : Linked(j, t)' <=> Linked(j, t)
  BY <1>1 DEF Evidence, Linked
<1>6. Evidence(i) = {}
  BY <1>3 DEF RowInv, RowsSound
<1>7. RowsSound'
  BY <1>1, <1>3, <1>5 DEF RowInv, RowsSound
<1>8. EvidenceAgrees'
  BY <1>1, <1>3, <1>5, <1>6 DEF RowInv, EvidenceAgrees
<1> QED
  BY <1>3, <1>4, <1>7, <1>8 DEF RowInv

-----------------------------------------------------------------------------
(* Types                                                                   *)

\* Every step keeps the types.
LEMMA TypeStep ==
  ASSUME TypeOK, HandlersSound, [Next]_vars
  PROVE  TypeOK'
<1>1. CASE UNCHANGED vars
  BY <1>1 DEF vars, rowVars, TypeOK
<1>2. ASSUME NEW h \in Handler, CorrelationStep(h)
      PROVE  TypeOK'
  <2>1. ASSUME NEW s \in Signal, FindOpen(h, s)
        PROVE  TypeOK'
    <3>1. PICK pc \in HandlerPc, i \in Incident \cup {None}, read \in Severity \cup {None} :
            handler' = [handler EXCEPT ![h] = Correlating(pc, s, i, read)]
      BY <2>1 DEF FindOpen, Candidates, HandlerPc, TypeOK
    <3>2. UNCHANGED rowVars
      BY <2>1 DEF FindOpen
    <3> QED
      BY <3>1, <3>2 DEF Correlating, TypeOK, rowVars
  <2>2. CASE ReadLink(h)
    BY <2>2, IdleType DEF ReadLink, Done, TypeOK, rowVars, HandlerPc
  <2>3. CASE CommitLink(h)
    <3>1. PICK i \in Incident, s \in Signal, read \in Severity, new \in Severity :
            LinkWrites(i, s, read, new)
      BY <1>2, <2>3, LinkFacts DEF HandlersSound
    <3>2. handler' = [handler EXCEPT ![h] = Idle]
      BY <2>3 DEF CommitLink, Done
    <3> QED
      BY <3>1, <3>2, IdleType DEF LinkWrites, TypeOK
  <2>4. ASSUME NEW i \in Incident, CommitCreate(h, i)
        PROVE  TypeOK'
    <3>1. PICK s \in Signal : s = handler[h].sig
      BY <2>4 DEF HandlersSound, HandlerSound, CommitCreate
    <3>2. s.operation \in Operation \cup {None} /\ s.severity \in Severity
      BY IncidentsAssumption
    <3> QED
      BY <2>4, <3>1, <3>2, IdleType
      DEF CommitCreate, Insert, Done, TypeOK, IncidentStatus, Live
  <2>5. CASE CorrelationAborts(h)
    BY <2>5, IdleType DEF CorrelationAborts, Done, TypeOK, rowVars
  <2> QED
    BY <1>2, <2>1, <2>2, <2>3, <2>4, <2>5 DEF CorrelationStep
<1>3. ASSUME NEW h \in Handler, LifecycleStep(h)
      PROVE  TypeOK'
  <2>1. ASSUME NEW i \in Incident, NEW pc \in HandlerPc, ReadIncident(h, i, pc)
        PROVE  TypeOK'
    BY <2>1 DEF ReadIncident, TypeOK, rowVars
  <2>2. ASSUME NEW i \in Incident,
               BeginAcknowledge(h, i) \/ BeginResolve(h, i) \/ BeginArchive(h, i)
        PROVE  TypeOK'
    <3>1. PICK pc \in HandlerPc : ReadIncident(h, i, pc)
      BY <2>2 DEF BeginAcknowledge, BeginResolve, BeginArchive, HandlerPc
    <3> QED
      BY <2>1, <3>1
  <2>3. CASE CommitAcknowledge(h) \/ CommitResolve(h) \/ CommitArchive(h)
    <3>1. handler' \in [Handler -> [pc : HandlerPc, sig : Signal \cup {None},
                                    inc : Incident \cup {None}, read : Severity \cup {None}]]
      BY <2>3, IdleType DEF CommitAcknowledge, CommitResolve, CommitArchive, Done, TypeOK
    <3>2. status' \in [Incident -> IncidentStatus \cup {"NONE"}]
      BY <2>3 DEF CommitAcknowledge, CommitResolve, CommitArchive, TypeOK, IncidentStatus, Live
    <3>3. archived' \in [Incident -> BOOLEAN]
      BY <2>3, Zenon DEF CommitAcknowledge, CommitResolve, CommitArchive, TypeOK
    <3>4. UNCHANGED <<severity, opening, key, operation, count, links, timeline>>
      BY <2>3 DEF CommitAcknowledge, CommitResolve, CommitArchive
    <3> QED
      BY <3>1, <3>2, <3>3, <3>4 DEF TypeOK
  <2>4. CASE RequestLost(h)
    BY <2>4, IdleType DEF RequestLost, Done, TypeOK, rowVars
  <2> QED
    BY <1>3, <2>2, <2>3, <2>4 DEF LifecycleStep
<1>4. ASSUME NEW o \in Operation, NEW i \in Incident, Report(o, i)
      PROVE  TypeOK'
  BY <1>4, IncidentsAssumption DEF Report, Insert, TypeOK, IncidentStatus, Live
<1> QED
  BY <1>1, <1>2, <1>3, <1>4 DEF Next

-----------------------------------------------------------------------------
(* The invariant                                                           *)

\* A handler that moves without writing a row is sound if its new state is.
LEMMA MoveSound ==
  ASSUME HandlersSound, Grows, NEW h \in Handler, HandlerSound(h)',
         \A g \in Handler : g # h => handler'[g] = handler[g]
  PROVE  HandlersSound'
BY StaleReadsStaySound DEF HandlersSound

\* What a correlation reads is sound when it reads it.
LEMMA FindOpenSound ==
  ASSUME TypeOK, RowInv, HandlersSound, NEW h \in Handler, NEW s \in Signal,
         FindOpen(h, s)
  PROVE  HandlersSound' /\ RowInv' /\ Grows
<1>1. RowInv' /\ Grows
  BY RowsKept DEF FindOpen
<1>2. \A g \in Handler : g # h => handler'[g] = handler[g]
  BY DEF FindOpen, TypeOK
<1>3. CASE handler' = [handler EXCEPT ![h] = Correlating("creating", s, None, None)]
  <2>1. handler'[h].pc = "creating" /\ handler'[h].sig = s
    BY <1>3 DEF TypeOK, Correlating
  <2>2. HandlerSound(h)'
    BY <2>1 DEF HandlerSound
  <2> QED
    BY <1>1, <1>2, <2>2, MoveSound DEF HandlersSound
<1>4. ASSUME NEW i \in Candidates(CorrelationKey(s)),
             handler' = [handler EXCEPT ![h] = Correlating("found", s, i, severity[i])]
      PROVE  HandlersSound'
  <2>1. /\ handler'[h].pc = "found" /\ handler'[h].sig = s
        /\ handler'[h].inc = i /\ handler'[h].read = severity[i]
    BY <1>4 DEF TypeOK, Correlating
  <2>2. i \in Incident /\ Exists(i) /\ key[i] = CorrelationKey(s)
    BY <1>4 DEF Candidates, Exists, Live
  <2>3. ReadSound(i, severity[i])
    BY <2>2 DEF ReadSound, TypeOK, RowInv, SeverityFloor, SeverityExplained
  <2>4. HandlerSound(h)'
    <3>1. UNCHANGED rowVars
      BY DEF FindOpen
    <3> QED
      BY <2>1, <2>2, <2>3, <3>1 DEF HandlerSound, ReadSound, Exists, rowVars
  <2> QED
    BY <1>1, <1>2, <2>4, MoveSound DEF HandlersSound
<1> QED
  BY <1>1, <1>3, <1>4 DEF FindOpen

\* Every step keeps the invariant.
LEMMA InvariantStep ==
  ASSUME IInv, [Next]_vars
  PROVE  IInv'
<1>a. TypeOK /\ RowInv /\ HandlersSound
  BY DEF IInv, RowInv
<1>b. TypeOK'
  BY <1>a, TypeStep
<1> SUFFICES HandlersSound' /\ RowInv'
  BY <1>b DEF IInv, RowInv
<1>1. CASE UNCHANGED vars
  <2>1. RowInv' /\ Grows
    BY <1>1, <1>a, RowsKept DEF vars
  <2>2. \A h \in Handler : HandlerSound(h)'
    BY <1>1, <1>a, <2>1, StaleReadsStaySound DEF vars, HandlersSound
  <2> QED
    BY <2>1, <2>2 DEF HandlersSound
<1>2. ASSUME NEW h \in Handler, CorrelationStep(h)
      PROVE  HandlersSound' /\ RowInv'
  <2>a. HandlerSound(h)
    BY <1>a DEF HandlersSound
  <2>1. ASSUME NEW s \in Signal, FindOpen(h, s)
        PROVE  HandlersSound' /\ RowInv'
    BY <1>a, <2>1, FindOpenSound
  <2>2. CASE ReadLink(h)
    <3>1. RowInv' /\ Grows /\ UNCHANGED rowVars
      BY <1>a, <2>2, RowsKept DEF ReadLink
    <3>2. CASE Done(h)
      BY <1>a, <3>1, <3>2, DoneSound
    <3>3. CASE handler' = [handler EXCEPT ![h].pc = "linking"]
      <4>1. \A g \in Handler : g # h => handler'[g] = handler[g]
        BY <3>3, <1>a DEF TypeOK
      <4>2. handler'[h] = [handler[h] EXCEPT !.pc = "linking"]
        BY <3>3, <1>a DEF TypeOK
      <4>3. /\ handler'[h].pc = "linking" /\ handler'[h].sig = handler[h].sig
            /\ handler'[h].inc = handler[h].inc /\ handler'[h].read = handler[h].read
        BY <4>2, <1>a DEF TypeOK
      <4>4. HandlerSound(h)'
        BY <2>a, <2>2, <3>1, <4>3 DEF HandlerSound, ReadSound, Exists, rowVars, ReadLink
      <4> QED
        BY <1>a, <3>1, <4>1, <4>4, MoveSound DEF HandlersSound
    <3> QED
      BY <2>2, <3>2, <3>3 DEF ReadLink
  <2>3. CASE CommitLink(h)
    BY <1>a, <2>a, <2>3, LinkRows, DoneSound DEF CommitLink
  <2>4. ASSUME NEW i \in Incident, CommitCreate(h, i)
        PROVE  HandlersSound' /\ RowInv'
    BY <1>a, <2>a, <2>4, CreateRows, DoneSound DEF CommitCreate
  <2>5. CASE CorrelationAborts(h)
    BY <1>a, <2>5, RowsKept, DoneSound DEF CorrelationAborts
  <2> QED
    BY <1>2, <2>1, <2>2, <2>3, <2>4, <2>5 DEF CorrelationStep
<1>3. ASSUME NEW h \in Handler, LifecycleStep(h)
      PROVE  HandlersSound' /\ RowInv'
  <2>1. ASSUME NEW i \in Incident, NEW pc \in {"acknowledging", "resolving", "archiving"},
               ReadIncident(h, i, pc)
        PROVE  HandlersSound' /\ RowInv'
    <3>1. RowInv' /\ Grows
      BY <1>a, <2>1, RowsKept DEF ReadIncident
    <3>2. /\ \A g \in Handler : g # h => handler'[g] = handler[g]
          /\ handler'[h].pc = pc /\ handler'[h].inc = i
      BY <1>a, <2>1 DEF ReadIncident, TypeOK
    <3>3. HandlerSound(h)'
      BY <2>1, <3>2 DEF HandlerSound, ReadIncident, Exists, rowVars
    <3> QED
      BY <1>a, <3>1, <3>2, <3>3, MoveSound DEF HandlersSound
  <2>2. ASSUME NEW i \in Incident,
               BeginAcknowledge(h, i) \/ BeginResolve(h, i) \/ BeginArchive(h, i)
        PROVE  HandlersSound' /\ RowInv'
    BY <2>1, <2>2 DEF BeginAcknowledge, BeginResolve, BeginArchive
  <2>3. CASE CommitAcknowledge(h) \/ CommitResolve(h) \/ CommitArchive(h)
    <3>1. /\ handler[h].inc \in Incident /\ Exists(handler[h].inc)
          /\ Done(h)
          /\ UNCHANGED <<severity, opening, key, operation, count, links, timeline>>
      BY <1>a, <2>3 DEF HandlersSound, HandlerSound, CommitAcknowledge, CommitResolve,
         CommitArchive
    <3>2. \A i \in Incident : status'[i] # "NONE" <=> status[i] # "NONE"
      BY <1>a, <2>3, <3>1 DEF CommitAcknowledge, CommitResolve, CommitArchive, TypeOK, Exists
    <3>3. RowInv' /\ Grows
      BY <1>a, <3>1, <3>2, LifecycleKeepsRows DEF Exists
    <3> QED
      BY <1>a, <3>1, <3>3, DoneSound
  <2>4. CASE RequestLost(h)
    BY <1>a, <2>4, RowsKept, DoneSound DEF RequestLost
  <2> QED
    BY <1>3, <2>2, <2>3, <2>4 DEF LifecycleStep
<1>4. ASSUME NEW o \in Operation, NEW i \in Incident, Report(o, i)
      PROVE  HandlersSound' /\ RowInv'
  <2>1. RowInv' /\ Grows
    BY <1>a, <1>4, ReportRows
  <2>2. \A h \in Handler : HandlerSound(h)'
    BY <1>a, <1>4, <2>1, StaleReadsStaySound DEF HandlersSound, Report
  <2> QED
    BY <2>1, <2>2 DEF HandlersSound
<1> QED
  BY <1>1, <1>2, <1>3, <1>4 DEF Next

\* The empty database satisfies the invariant.
LEMMA InvariantInit == Init => IInv
<1> SUFFICES ASSUME Init PROVE IInv
  OBVIOUS
<1>1. \A i \in Incident : ~Exists(i) /\ Evidence(i) = {}
  BY DEF Init, Exists, Evidence, Linked
<1>2. TypeOK
  BY IdleType DEF Init, TypeOK, Severity, INFO, CRITICAL
<1>3. RowsSound
  BY <1>1, FS_EmptySet DEF Init, RowsSound
<1>4. HandlersSound
  BY DEF Init, HandlersSound, HandlerSound, Idle
<1>5. EvidenceAgrees
  BY <1>1, FS_EmptySet DEF Init, EvidenceAgrees, Linked
<1>6. OneIncidentPerOperation /\ SeverityFloor /\ SeverityExplained
  BY DEF Init, OneIncidentPerOperation, SeverityFloor, SeverityExplained, INFO
<1> QED
  BY <1>2, <1>3, <1>4, <1>5, <1>6 DEF IInv

-----------------------------------------------------------------------------
(* The theorems                                                            *)

\* The inductive invariant holds in every reachable state, however correlations,
\* operators and workers interleave (incident.service.ts, operation-incidents.ts).
THEOREM IncidentInvariance == Spec => []IInv
<1> QED
  BY InvariantInit, InvariantStep, PTL DEF Spec

\* Every column and every handler keeps its type.
THEOREM IncidentTypes == Spec => []TypeOK
<1>1. IInv => TypeOK
  BY DEF IInv
<1> QED
  BY <1>1, IncidentInvariance, PTL

\* signalCount, the links and the timeline of an incident always agree.
THEOREM EvidenceNeverDisagrees == Spec => []EvidenceAgrees
<1>1. IInv => EvidenceAgrees
  BY DEF IInv
<1> QED
  BY <1>1, IncidentInvariance, PTL

\* One operation has at most one incident, whoever creates it first.
THEOREM OperationHasOneIncident == Spec => []OneIncidentPerOperation
<1>1. IInv => OneIncidentPerOperation
  BY DEF IInv
<1> QED
  BY <1>1, IncidentInvariance, PTL

\* Stale reads never take a severity below the opening one, nor to one the
\* timeline does not name.
THEOREM SeverityStaysAccounted == Spec => [](SeverityFloor /\ SeverityExplained)
<1>1. IInv => SeverityFloor /\ SeverityExplained
  BY DEF IInv
<1> QED
  BY <1>1, IncidentInvariance, PTL
=============================================================================
