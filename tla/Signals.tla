------------------------------ MODULE Signals ------------------------------
(***************************************************************************)
(* Resource signals as the observation of Docker drives them: a scan       *)
(* (DockerService.getStatus or listContainers) looks at the containers,    *)
(* raises a signal for each one in trouble, resolves those of the ones     *)
(* that recovered, and reconciles what is left by scope and time.          *)
(*                                                                         *)
(* Scans of several requests overlap. One database call is one action; an  *)
(* upsert takes its time stamp when it is called and may land later.       *)
(***************************************************************************)
EXTENDS Naturals, FiniteSets

CONSTANTS
  Container, \* stable identities of containers (_resourceIdentity)
  Name,      \* the name of each: a recreated container has a new identity and the old name
  Look,      \* what Docker may show of a container
  Scan,      \* requests that scan, at most one scan each at a time
  Kind,      \* the requests made: "status" for getStatus, "list" for listContainers
  Failure,   \* the ways in which Docker may refuse
  MaxTime,   \* bound on the clock
  None       \* null

INFO     == 0
WARNING  == 1
ERROR    == 2
CRITICAL == 3

Monitored == {"managed", "monitored"}

\* _toObservation: the labels, the compose project and the name decide the scope.
Scope(o) ==
  IF "ignore" \in o.marks THEN "ignored"
  ELSE IF "autoops" \in o.marks THEN "managed"
  ELSE IF o.marks \cap {"watch", "compose"} # {} THEN "monitored"
  ELSE "unrelated"

\* _desiredState: the explicit label wins over the expected-stopped one.
Desired(o) == IF o.desired # None THEN o.desired
              ELSE IF "expected-stopped" \in o.marks THEN "stopped" ELSE "running"

Condition(kind, code, severity) == [kind |-> kind, code |-> code, severity |-> severity]

\* _classifyContainerObservation: the condition a look at a container calls for.
Classify(o) ==
  LET wanted == Desired(o) = "running"
  IN CASE Scope(o) \notin Monitored -> None
       [] Scope(o) \in Monitored /\ o.state = "running" ->
            IF o.health = "unhealthy" THEN Condition("running_unhealthy", None, ERROR) ELSE None
       [] Scope(o) \in Monitored /\ o.state = "restarting" ->
            Condition("restarting", None, IF wanted THEN ERROR ELSE WARNING)
       [] Scope(o) \in Monitored /\ o.state = "dead" -> Condition("dead", None, CRITICAL)
       [] Scope(o) \in Monitored /\ o.state = "paused" ->
            IF wanted THEN Condition("paused", None, WARNING) ELSE None
       [] Scope(o) \in Monitored /\ o.state = "created" ->
            IF wanted THEN Condition("created_not_started", None, WARNING) ELSE None
       [] Scope(o) \in Monitored /\ o.state = "exited" ->
            IF wanted /\ o.exit # 143 THEN Condition("unexpected_exit", o.exit, ERROR) ELSE None
       [] OTHER -> None

\* buildSignalFingerprint in mode DEDUPE: source and type are fixed here.
Fingerprint(c, condition) == [id |-> c, condition |-> condition]

ContainerSignal == {Fingerprint(c, Classify(o)) : c \in Container,
                                                  o \in {p \in Look : Classify(p) # None}}

\* Provider signals carry no resource identity: the title is their condition.
ProviderSignal(title) ==
  Fingerprint("docker", Condition(title, None, IF title = "CONNECTED" THEN INFO ELSE ERROR))

ProviderSignals == {ProviderSignal(t) : t \in {"CONNECTED", "UNKNOWN_ERROR"} \cup Failure}
Row == ContainerSignal \cup ProviderSignals

ASSUME SignalsAssumption ==
  /\ MaxTime \in Nat
  /\ Kind \subseteq {"status", "list"}
  /\ Failure \subseteq {"UNREACHABLE", "AUTH_FAILED", "UNKNOWN_ERROR"}
  /\ DOMAIN Name = Container
  /\ None \notin Look

VARIABLES
  row,     \* resource_signals, by fingerprint
  world,   \* what Docker would show now, None where there is no container
  now,     \* the wall clock
  scan,    \* each request's scan
  pending  \* writes of getStatus nobody awaits: pairs of a request and a write

vars == <<row, world, now, scan, pending>>
-----------------------------------------------------------------------------
Status == {"NONE", "ACTIVE", "RESOLVED", "ARCHIVED"}
Pc     == {"idle", "looking", "ingesting", "writing", "fingerprints", "titles",
           "families", "resolving", "managed", "monitored", "done", "failed"}
Write  == {"connected", "clear-UNREACHABLE", "clear-AUTH_FAILED", "UNREACHABLE",
           "AUTH_FAILED", "UNKNOWN_ERROR"}

Absent   == [status |-> "NONE", archived |-> FALSE, lastSeen |-> 0, scope |-> None]
ScanRecord == [pc : Pc, kind : Kind \cup {None}, start : Nat, looked : Nat,
               seen : [Container -> Look \cup {None}], todo : SUBSET Row,
               signal : Row \cup {None}, stamp : Nat, missed : BOOLEAN,
               found : SUBSET Row, alone : BOOLEAN]
NoScan   == [pc |-> "idle", kind |-> None, start |-> 0, looked |-> 0,
             seen |-> [c \in Container |-> None], todo |-> {}, signal |-> None, stamp |-> 0,
             missed |-> FALSE, found |-> {}, alone |-> FALSE]
Resting  == {"idle", "done", "failed"}
Busy(s)  == scan[s].pc \notin Resting

Active(f) == row[f].status = "ACTIVE" /\ ~row[f].archived

\* The containers of a list that recovered, and the ones nobody watches.
Healthy(seen)   == {c \in Container : /\ seen[c] # None
                                      /\ Scope(seen[c]) \in Monitored
                                      /\ Classify(seen[c]) = None}
Unwatched(seen) == {c \in Container : seen[c] # None /\ Scope(seen[c]) \notin Monitored}
Troubled(seen)  == {c \in Container : seen[c] # None /\ Classify(seen[c]) # None}

\* The signals a list of containers calls for.
Raised(seen) == {Fingerprint(c, Classify(seen[c])) : c \in Troubled(seen)}

\* _resolutionFingerprints of a healthy container.
Resolvable(c, o) ==
  {Fingerprint(c, d) : d \in
     { Condition("running_unhealthy", None, ERROR), Condition("restarting", None, ERROR),
       Condition("restarting", None, WARNING), Condition("dead", None, CRITICAL),
       Condition("paused", None, WARNING), Condition("created_not_started", None, WARNING),
       Condition("unexpected_exit", 137, ERROR), Condition("unexpected_exit", None, ERROR),
       Condition("unexpected_exit", o.exit, ERROR) }}

\* The phases after ingestion, the ones with nothing to resolve skipped.
AfterTitles(seen)       == IF Healthy(seen) # {} THEN "families" ELSE "managed"
AfterFingerprints(seen) ==
  IF \E c \in Unwatched(seen) : seen[c].state \in {"dead", "restarting"}
  THEN "titles" ELSE AfterTitles(seen)
FirstPhase(seen) == IF Healthy(seen) # {} THEN "fingerprints" ELSE AfterFingerprints(seen)

\* The titles of today's signals that the lists of legacy titles name as well: they carry
\* the container's name, not its identity.
Titled(f, names, kinds) ==
  f \in ContainerSignal /\ f.condition.kind \in kinds /\ Name[f.id] \in names

\* _legacyContainerSignalTitles of the unwatched containers.
LegacyTitled(f, seen) ==
  \E c \in Unwatched(seen) :
    seen[c].state \in {"dead", "restarting"} /\ Titled(f, {Name[c]}, {seen[c].state})

\* resolveSignalsByResourceConditionFamily: by identity or by a legacy title.
Family(c) ==
  {f \in Row : /\ Active(f)
               /\ \/ f \in ContainerSignal /\ f.id = c
                  \/ Titled(f, {Name[c]}, {"dead", "restarting"})}

\* Faulty: the cutoff is the time of the reconciliation itself.
CutoffLate(s) == now

\* _withCompleteDockerObservation: the cutoff is taken before Docker is asked.
Cutoff(s) == scan[s].start

\* Faulty: the rows of every scope are reconciled with the list of one.
StaleAnyScope(s, scope) ==
  {f \in ContainerSignal : Active(f) /\ row[f].lastSeen <= Cutoff(s) /\
     f \notin {g \in Raised(scan[s].seen) : Scope(scan[s].seen[g.id]) = scope}}

\* Faulty: rows last seen in the instant of the cutoff are spared.
StaleEarlier(s, scope) ==
  {f \in ContainerSignal : Active(f) /\ row[f].scope = scope /\ row[f].lastSeen < Cutoff(s) /\
     f \notin {g \in Raised(scan[s].seen) : Scope(scan[s].seen[g.id]) = scope}}

\* _historicalReconciliationWhere: rows of the scope, last seen by the cutoff, that the
\* scan did not observe.
Stale(s, scope) ==
  {f \in ContainerSignal :
     /\ Active(f)
     /\ row[f].scope = scope
     /\ row[f].lastSeen <= Cutoff(s)
     /\ f \notin {g \in Raised(scan[s].seen) : Scope(scan[s].seen[g.id]) = scope}}

Init ==
  /\ row = [f \in Row |-> Absent]
  /\ world \in [Container -> {None}]
  /\ now = 0
  /\ scan = [s \in Scan |-> NoScan]
  /\ pending = {}

-----------------------------------------------------------------------------
(* The environment: the clock, the containers, the operators.              *)

Tick == now < MaxTime /\ now' = now + 1 /\ UNCHANGED <<row, world, scan, pending>>

\* One Docker engine has one container of a name.
Change(c, o) ==
  /\ o # world[c]
  /\ o # None => \A d \in Container \ {c} : world[d] # None => Name[d] # Name[c]
  /\ world' = [world EXCEPT ![c] = o]
  /\ UNCHANGED <<row, now, scan, pending>>

\* Nobody is alone any more; a scan that is over and was not leaves no trace.
Disturbed == [s \in Scan |-> IF Busy(s) THEN [scan[s] EXCEPT !.alone = FALSE] ELSE NoScan]

\* The end of a scan; how it looked is remembered while it counts as alone.
Ended(s, pc) == IF scan[s].alone THEN [scan[s] EXCEPT !.pc = pc] ELSE NoScan

\* resolveSignal: no look at the status, and archivedAt stays.
OperatorResolve(f) ==
  /\ row[f].status # "NONE"
  /\ row' = [row EXCEPT ![f].status = "RESOLVED"]
  /\ scan' = Disturbed
  /\ UNCHANGED <<world, now, pending>>

\* archiveSignal
OperatorArchive(f) ==
  /\ row[f].status # "NONE"
  /\ row' = [row EXCEPT ![f].status = "ARCHIVED", ![f].archived = TRUE]
  /\ scan' = Disturbed
  /\ UNCHANGED <<world, now, pending>>

-----------------------------------------------------------------------------
(* One scan.                                                               *)

Move(s, record) == scan' = [scan EXCEPT ![s] = record]

\* getStatus or listContainers of a tenant; a request makes its next scan when the writes
\* of its last one have landed.
Begin(s, kind) ==
  /\ ~Busy(s)
  /\ \A p \in pending : p[1] # s
  /\ scan' = [Disturbed EXCEPT ![s] =
       [NoScan EXCEPT !.pc = "looking", !.kind = kind, !.start = now,
                      !.alone = pending = {} /\ \A r \in Scan \ {s} : ~Busy(r)]]
  /\ UNCHANGED <<row, world, now, pending>>

\* Faulty: nobody asks whether a write was lost.
AfterIngestionAlways(s) == FirstPhase(scan[s].seen)

\* ingestSignals returned: an incomplete ingestion throws.
AfterIngestion(s) == IF scan[s].missed THEN "failed" ELSE FirstPhase(scan[s].seen)

\* The catch of getStatus; listContainers raises nothing.
Fails(s, failure) ==
  /\ Move(s, Ended(s, "failed"))
  /\ pending' = pending \cup {p \in {<<s, failure>>} : scan[s].kind = "status"}

\* The containers as Docker lists them.
LookAt(s) ==
  /\ scan[s].pc = "looking"
  /\ Move(s, [scan[s] EXCEPT !.seen = world, !.looked = now, !.todo = Raised(world),
                             !.pc = IF Raised(world) = {} THEN FirstPhase(world) ELSE "ingesting"])
  /\ UNCHANGED <<row, world, now, pending>>

\* Version, containers or images are refused.
LookFails(s, failure) ==
  /\ scan[s].pc = "looking"
  /\ Fails(s, failure)
  /\ UNCHANGED <<row, world, now>>

\* ingestSignal: the time is read, the upsert is sent.
Send(s, f) ==
  /\ scan[s].pc = "ingesting"
  /\ f \in scan[s].todo
  /\ Move(s, [scan[s] EXCEPT !.pc = "writing", !.signal = f, !.stamp = now,
                             !.todo = @ \ {f}])
  /\ UNCHANGED <<row, world, now, pending>>

\* The upsert: created or found, the row is active, and the stamp is the caller's.
Seen(f, t, scope) == [status |-> "ACTIVE", archived |-> FALSE, lastSeen |-> t, scope |-> scope]

Upsert(s) ==
  /\ scan[s].pc = "writing"
  /\ row' = [row EXCEPT ![scan[s].signal] =
               Seen(scan[s].signal, scan[s].stamp, Scope(scan[s].seen[scan[s].signal.id]))]
  /\ Move(s, [scan[s] EXCEPT !.pc = "ingesting", !.signal = None, !.stamp = 0])
  /\ UNCHANGED <<world, now, pending>>

\* ingestSignals swallows the exception.
UpsertFails(s) ==
  /\ scan[s].pc = "writing"
  /\ Move(s, [scan[s] EXCEPT !.pc = "ingesting", !.signal = None, !.stamp = 0, !.missed = TRUE])
  /\ UNCHANGED <<row, world, now, pending>>

Ingested(s) ==
  /\ scan[s].pc = "ingesting"
  /\ scan[s].todo = {}
  /\ IF AfterIngestion(s) = "failed" THEN Fails(s, "UNKNOWN_ERROR")
     ELSE Move(s, [scan[s] EXCEPT !.pc = AfterIngestion(s)]) /\ UNCHANGED pending
  /\ UNCHANGED <<row, world, now>>

Resolve(F) == row' = [f \in Row |-> IF f \in F THEN [row[f] EXCEPT !.status = "RESOLVED"]
                                    ELSE row[f]]

ResolveFingerprints(s) ==
  /\ scan[s].pc = "fingerprints"
  /\ Resolve({f \in Row : /\ Active(f)
                          /\ \E c \in Healthy(scan[s].seen) : f \in Resolvable(c, scan[s].seen[c])})
  /\ Move(s, [scan[s] EXCEPT !.pc = AfterFingerprints(scan[s].seen)])
  /\ UNCHANGED <<world, now, pending>>

ResolveTitles(s) ==
  /\ scan[s].pc = "titles"
  /\ Resolve({f \in Row : Active(f) /\ LegacyTitled(f, scan[s].seen)})
  /\ Move(s, [scan[s] EXCEPT !.pc = AfterTitles(scan[s].seen)])
  /\ UNCHANGED <<world, now, pending>>

\* findMany of one family; seen[c] is forgotten once its family is done.
FindFamily(s, c) ==
  /\ scan[s].pc = "families"
  /\ c \in Healthy(scan[s].seen)
  /\ Move(s, [scan[s] EXCEPT !.seen[c] = None, !.found = Family(c),
                             !.pc = IF Family(c) = {} THEN "families" ELSE "resolving"])
  /\ UNCHANGED <<row, world, now, pending>>

\* updateMany of the rows found, the ones still active.
ResolveFamily(s) ==
  /\ scan[s].pc = "resolving"
  /\ Resolve({f \in scan[s].found : Active(f)})
  /\ Move(s, [scan[s] EXCEPT !.pc = "families", !.found = {}])
  /\ UNCHANGED <<world, now, pending>>

FamiliesDone(s) ==
  /\ scan[s].pc = "families"
  /\ Healthy(scan[s].seen) = {}
  /\ Move(s, [scan[s] EXCEPT !.pc = "managed"])
  /\ UNCHANGED <<row, world, now, pending>>

\* reconcileHistoricalSignals, once for each scope; a status check that got through reports
\* the provider connected and does not wait for it.
Reconcile(s, scope) ==
  /\ scan[s].pc = scope
  /\ Resolve(Stale(s, scope))
  /\ Move(s, IF scope = "managed" THEN [scan[s] EXCEPT !.pc = "monitored"] ELSE Ended(s, "done"))
  /\ pending' = pending \cup
       {p \in {s} \X {"connected", "clear-UNREACHABLE", "clear-AUTH_FAILED"} :
          scope = "monitored" /\ scan[s].kind = "status"}
  /\ UNCHANGED <<world, now>>

\* A database call of the second half throws; its text may read like a refusal of Docker.
Throws(s) ==
  /\ scan[s].pc \in {"fingerprints", "titles", "families", "resolving", "managed", "monitored"}
  /\ \E x \in Failure \cup {"UNKNOWN_ERROR"} : Fails(s, x)
  /\ UNCHANGED <<row, world, now>>

\* The API stops, as it does when a write nobody awaits fails (server.ts:48); what it had not
\* written is lost.
Crash(s) ==
  /\ Busy(s) \/ \E p \in pending : p[1] = s
  /\ Move(s, NoScan)
  /\ pending' = {p \in pending : p[1] # s}
  /\ UNCHANGED <<row, world, now>>

-----------------------------------------------------------------------------
(* The writes getStatus sends and forgets.                                 *)

ClearedBy(w) == CASE w = "clear-UNREACHABLE" -> "UNREACHABLE"
                  [] w = "clear-AUTH_FAILED" -> "AUTH_FAILED"
                  [] OTHER                   -> "NOTHING"

\* Faulty: a check that gets through clears nothing.
LandsUncleared(w) ==
  IF ClearedBy(w) # "NOTHING" THEN UNCHANGED row
  ELSE row' = [row EXCEPT ![ProviderSignal(IF w = "connected" THEN "CONNECTED" ELSE w)] =
                 Seen(ProviderSignal(IF w = "connected" THEN "CONNECTED" ELSE w), 0, None)]

\* The effect of a write: a provider signal is raised, or an active one is cleared by title.
Lands(w) ==
  IF ClearedBy(w) # "NOTHING"
  THEN Resolve({f \in ProviderSignals : Active(f) /\ f.condition.kind = ClearedBy(w)})
  ELSE row' = [row EXCEPT ![ProviderSignal(IF w = "connected" THEN "CONNECTED" ELSE w)] =
                 Seen(ProviderSignal(IF w = "connected" THEN "CONNECTED" ELSE w), 0, None)]

Land(p) ==
  /\ p \in pending
  /\ Lands(p[2])
  /\ pending' = pending \ {p}
  /\ UNCHANGED <<world, now, scan>>

Next ==
  \/ Tick
  \/ \E c \in Container, o \in Look \cup {None} : Change(c, o)
  \/ \E f \in Row : OperatorResolve(f) \/ OperatorArchive(f)
  \/ \E s \in Scan :
       \/ \E k \in Kind : Begin(s, k)
       \/ LookAt(s)
       \/ \E x \in Failure : LookFails(s, x)
       \/ \E f \in scan[s].todo : Send(s, f)
       \/ Upsert(s) \/ UpsertFails(s) \/ Ingested(s)
       \/ ResolveFingerprints(s) \/ ResolveTitles(s)
       \/ \E c \in Container : FindFamily(s, c)
       \/ ResolveFamily(s) \/ FamiliesDone(s)
       \/ \E scope \in Monitored : Reconcile(s, scope)
       \/ Throws(s) \/ Crash(s)
  \/ \E p \in pending : Land(p)

Spec == Init /\ [][Next]_vars

-----------------------------------------------------------------------------
\* The variables keep their types; an active row is in no archive, an archived one is
\* dated (archivedAt), and no row claims to have been seen in the future.
TypeOK ==
  /\ row \in [Row -> [status : Status, archived : BOOLEAN, lastSeen : 0..now,
                     scope : Monitored \cup {None}]]
  /\ \A f \in Row :
       /\ row[f].status = "NONE" => row[f] = Absent
       /\ row[f].status = "ACTIVE" => ~row[f].archived
       /\ row[f].status = "ARCHIVED" => row[f].archived
  /\ world \in [Container -> Look \cup {None}]
  /\ now \in 0..MaxTime
  /\ scan \in [Scan -> ScanRecord]
  /\ \A s \in Scan : scan[s].start <= now /\ scan[s].looked <= now /\ scan[s].stamp <= now
  /\ pending \subseteq Scan \X Write

-----------------------------------------------------------------------------
(* The inductive invariant behind the properties below.                    *)

Resolving == {"fingerprints", "titles", "families", "resolving", "managed", "monitored"}

\* At most one container of a name, in the world or in a list.
NamesApart(list) ==
  \A c, d \in Container : list[c] # None /\ list[d] # None /\ Name[c] = Name[d] => c = d

\* Every signal of a container was raised in a scope somebody watches.
RowsScoped == \A f \in ContainerSignal : row[f].status # "NONE" => row[f].scope \in Monitored

\* A scan asked after it began, sends only what it saw, resolves nothing after a loss and has
\* found no row that its list calls for.
ScanSound(s) ==
  /\ Busy(s) /\ scan[s].pc # "looking" => scan[s].start <= scan[s].looked
  /\ NamesApart(scan[s].seen)
  /\ scan[s].todo \subseteq Raised(scan[s].seen)
  /\ scan[s].todo # {} => scan[s].pc \in {"ingesting", "writing"}
  /\ scan[s].pc = "writing" => scan[s].signal \in Raised(scan[s].seen)
  /\ scan[s].missed => scan[s].pc \in {"ingesting", "writing", "failed"}
  /\ scan[s].pc = "resolving" => scan[s].found \cap Raised(scan[s].seen) = {}

\* What a signal that the list calls for is once it was ingested.
Told(s, f) == Active(f) /\ row[f].scope = Scope(scan[s].seen[f.id])

\* A scan alone: a row seen after it began is one it raised itself, what it raised stands, and
\* each scope it is through with holds nothing else.
AloneSound(s) ==
  scan[s].alone =>
    /\ \A r \in Scan \ {s} : ~Busy(r) /\ ~scan[r].alone
    /\ Busy(s) => \A f \in ContainerSignal :
         Active(f) /\ row[f].lastSeen > scan[s].start =>
           scan[s].pc # "looking" /\ f \in Raised(scan[s].seen)
    /\ scan[s].pc \in {"ingesting", "writing", "done"} \cup Resolving /\ ~scan[s].missed =>
         \A f \in Raised(scan[s].seen) :
           \/ f \in scan[s].todo
           \/ scan[s].pc = "writing" /\ f = scan[s].signal
           \/ Told(s, f)
    /\ scan[s].pc \in {"monitored", "done"} => \A f \in ContainerSignal :
         Active(f) /\ row[f].scope = "managed" => f \in Raised(scan[s].seen)
    /\ scan[s].pc = "done" => \A f \in ContainerSignal :
         Active(f) /\ row[f].scope = "monitored" => f \in Raised(scan[s].seen)

SignalsInv ==
  /\ TypeOK
  /\ RowsScoped
  /\ NamesApart(world)
  /\ \A s \in Scan : ScanSound(s) /\ AloneSound(s)

\* What an undisturbed status check leaves of the provider is on its way or there.
CheckSound(s) ==
  scan[s].alone =>
    /\ \A p \in pending : p[1] = s
    /\ Busy(s) => pending = {}
    /\ scan[s].kind = "status" /\ scan[s].pc = "done" =>
         /\ \A p \in pending : p[2] \in {"connected", "clear-UNREACHABLE", "clear-AUTH_FAILED"}
         /\ <<s, "connected">> \in pending \/ Active(ProviderSignal("CONNECTED"))
         /\ \A w \in {"clear-UNREACHABLE", "clear-AUTH_FAILED"} :
              \/ <<s, w>> \in pending
              \/ \A f \in ProviderSignals : f.condition.kind = ClearedBy(w) => ~Active(f)
    /\ scan[s].kind = "status" /\ scan[s].pc = "failed" =>
         /\ \A p \in pending : p[2] \in Failure \cup {"UNKNOWN_ERROR"}
         /\ pending # {} \/ \E f \in ProviderSignals : Active(f) /\ f.condition.kind # "CONNECTED"

ChecksInv == SignalsInv /\ \A s \in Scan : CheckSound(s)

-----------------------------------------------------------------------------
\* When a scan got through that no other scan, operator or lost write disturbed, the active
\* container signals are those its look at Docker called for, no more and no fewer: whatever
\* overlapping scans, half-done ingestions, relabelled and removed containers left behind
\* before is made good.
AloneScanTruthful ==
  \A s \in Scan : scan[s].pc = "done" /\ scan[s].alone =>
    {f \in ContainerSignal : Active(f)} = Raised(scan[s].seen)

\* A status check nobody disturbed, once all it sent has landed, leaves the provider shown as
\* it found it: connected and neither unreachable nor refusing, or in some kind of failure.
AloneCheckTruthful ==
  \A s \in Scan : scan[s].kind = "status" /\ scan[s].alone /\ pending = {} =>
    /\ scan[s].pc = "done" =>
         {f \in ProviderSignals : Active(f) /\ f.condition.kind # "UNKNOWN_ERROR"} =
           {ProviderSignal("CONNECTED")}
    /\ scan[s].pc = "failed" =>
         \E f \in ProviderSignals : Active(f) /\ f.condition.kind # "CONNECTED"

\* The signals that scan s resolves in a step.
Resolved(s) == IF Busy(s) /\ scan'[s].pc # scan[s].pc
               THEN {f \in Row : Active(f) /\ row'[f].status = "RESOLVED"} ELSE {}

\* The reconciliation of a scan never resolves a signal that another scan stamped after this
\* one looked at Docker, however long it took to get there.
ReconcileSparesNewer ==
  [][\A s \in Scan : \A f \in Resolved(s) :
       scan[s].pc \in Monitored => row[f].lastSeen <= scan[s].looked]_vars

\* A scan never resolves a condition its own look at Docker called for, by fingerprint, title
\* or family, nor when it reconciles the scope it saw the container in. What remains is a
\* row that the late write of another scan put back in a scope the container has left.
OwnEvidenceStands ==
  [][\A s \in Scan : \A f \in Resolved(s) : f \in Raised(scan[s].seen) =>
       scan[s].pc \in Monitored /\ row[f].scope # Scope(scan[s].seen[f.id])]_vars

\* A scan that lost one of its signals resolves nothing at all.
LossyScanResolvesNothing == [][\A s \in Scan : scan[s].missed => Resolved(s) = {}]_vars
=============================================================================
