-------------------------- MODULE ProviderSignals --------------------------
(***************************************************************************)
(* What the Kubernetes and the Jenkins service observe, and the rows of    *)
(* resource_signals they leave (kubernetes.service.ts, jenkins.service.ts, *)
(* signal.service.ts).                                                     *)
(*                                                                         *)
(* A request reads the provider and answers; the signals of what it read   *)
(* are ingested behind its back, one after the other, each an upsert by    *)
(* fingerprint that may fail on its own. Nothing but an operator resolves  *)
(* such a row: unlike Docker, neither provider is reconciled.              *)
(***************************************************************************)
EXTENDS Naturals

CONSTANTS
  None,
  Pod,      \* [name, place]: a pod and its namespace
  Node,     \* node names
  Job,      \* Jenkins job names
  Request,  \* requests whose ingestion may be under way together
  MaxBuild, \* bound: builds of a job
  MaxMoves  \* bound: moves of the providers and the operators

VARIABLES
  pods,     \* the conditions each pod shows
  ready,    \* the nodes that are ready
  builds,   \* the state of the last build of each job, and its number
  reach,    \* what a call to each provider meets
  batch,    \* signals of a request that are not ingested yet
  row,      \* resource_signals, by fingerprint
  moves     \* counts the moves MaxMoves bounds

vars  == <<pods, ready, builds, reach, batch, row, moves>>
world == <<pods, ready, builds, reach>>

Provider  == {"KUBERNETES", "JENKINS"}
Reached   == {"CONNECTED", "AUTH_FAILED", "UNREACHABLE"}
Condition == {"failed", "restarts", "crashloop"}
Result    == {"SUCCESS", "FAILURE", "ABORTED", "UNSTABLE"}

-----------------------------------------------------------------------------
(* Signals. A title names a thing and what became of it; "about" is what   *)
(* the metadata say.                                                       *)

Signal(source, type, severity, what, about, mode) ==
  [ source |-> source, type |-> type, severity |-> severity, mode |-> mode,
    title  |-> [name |-> about.name, what |-> what, build |-> about.build],
    about  |-> about ]

\* _ingestPodSignals
PodSignals(p) ==
  LET pod == [name |-> p.name, place |-> p.place, build |-> 0]
      type == [ failed    |-> "KUBERNETES_POD_PHASE_CHANGED",
                restarts  |-> "KUBERNETES_RESTART_COUNT_CHANGED",
                crashloop |-> "KUBERNETES_POD_PHASE_CHANGED" ]
      severity == [failed |-> "ERROR", restarts |-> "WARNING", crashloop |-> "CRITICAL"]
  IN { Signal("KUBERNETES", type[c], severity[c], c, pod, "DEDUPE") : c \in pods[p] }

\* _ingestNodeSignals
NodeSignals ==
  { Signal("KUBERNETES", "RESOURCE_CHANGED", "ERROR", "not ready",
           [name |-> n, place |-> "node", build |-> 0], "DEDUPE") : n \in Node \ ready }

\* _ingestBuildSignals
BuildSignal(j) ==
  LET build == [name |-> j, place |-> "jenkins", build |-> builds[j].number]
      type == [ building |-> "JENKINS_BUILD_STARTED",  SUCCESS  |-> "JENKINS_BUILD_SUCCEEDED",
                FAILURE  |-> "JENKINS_BUILD_FAILED",   ABORTED |-> "JENKINS_BUILD_FAILED",
                UNSTABLE |-> "JENKINS_BUILD_FAILED" ]
      severity == [building |-> "INFO", SUCCESS |-> "INFO", FAILURE |-> "ERROR",
                   ABORTED |-> "WARNING", UNSTABLE |-> "WARNING"]
      state == builds[j].state
  IN Signal("JENKINS", type[state], severity[state], state, build, "EVENT")

BuildSignals == { BuildSignal(j) : j \in {k \in Job : builds[k].number > 0} }

\* getStatus of either service
StatusSignal(provider) ==
  LET met  == reach[provider]
      type == [ CONNECTED   |-> "PROVIDER_CONNECTED", AUTH_FAILED |-> "PROVIDER_AUTH_FAILED",
                UNREACHABLE |-> "PROVIDER_UNREACHABLE" ]
  IN Signal(provider, type[met], IF met = "CONNECTED" THEN "INFO" ELSE "ERROR", met,
            [name |-> "provider", place |-> provider, build |-> 0], "DEDUPE")

\* buildSignalFingerprint. None of these signals names a resource node, an
\* operation, a deployment or a resource identity: an event is its number, a
\* condition its severity and its title.
Fingerprint(s) ==
  IF s.mode = "EVENT"
  THEN [source |-> s.source, type |-> s.type, severity |-> None,
        title |-> [name |-> None, what |-> None, build |-> s.title.build]]
  ELSE [source |-> s.source, type |-> s.type, severity |-> s.severity, title |-> s.title]

-----------------------------------------------------------------------------
Init ==
  /\ pods   = [p \in Pod |-> {}]
  /\ ready  = Node
  /\ builds = [j \in Job |-> [number |-> 0, state |-> None]]
  /\ reach  = [q \in Provider |-> "CONNECTED"]
  /\ batch  = [r \in Request |-> {}]
  /\ row    = {}
  /\ moves  = 0

Moves == moves < MaxMoves /\ moves' = moves + 1

\* The providers move on their own.
WorldMoves ==
  /\ Moves
  /\ \/ /\ \E p \in Pod, c \in Condition :
             pods' = [pods EXCEPT ![p] = IF c \in @ THEN {} ELSE @ \cup {c}]
        /\ UNCHANGED <<ready, builds, reach>>
     \/ /\ \E n \in Node : ready' = IF n \in ready THEN ready \ {n} ELSE ready \cup {n}
        /\ UNCHANGED <<pods, builds, reach>>
     \/ /\ \E j \in Job :
             IF builds[j].state = "building"
             THEN \E result \in Result : builds' = [builds EXCEPT ![j].state = result]
             ELSE /\ builds[j].number < MaxBuild
                  /\ builds' = [builds EXCEPT ![j] = [number |-> @.number + 1,
                                                      state |-> "building"]]
        /\ UNCHANGED <<pods, ready, reach>>
     \/ /\ \E q \in Provider, met \in Reached : reach' = [reach EXCEPT ![q] = met]
        /\ UNCHANGED <<pods, ready, builds>>
  /\ UNCHANGED <<batch, row>>

\* What a request to a service observes. A failure is observed by getStatus alone, and
\* by getSummary of Jenkins, which calls it.
Observed(route) ==
  LET jenkins == IF reach["JENKINS"] = "CONNECTED" THEN BuildSignals ELSE {}
      kubernetes(signals) == IF reach["KUBERNETES"] = "CONNECTED" THEN signals ELSE {}
      podSignals == UNION {PodSignals(p) : p \in Pod}
  IN CASE route = "kubernetes status"  -> {StatusSignal("KUBERNETES")}
       [] route = "jenkins status"     -> {StatusSignal("JENKINS")}
       [] route = "jenkins summary"    -> {StatusSignal("JENKINS")} \cup jenkins
       [] route = "builds"             -> jenkins
       [] route = "pods"               -> kubernetes(podSignals)
       [] route = "nodes"              -> kubernetes(NodeSignals)
       [] route = "kubernetes summary" -> kubernetes(NodeSignals \cup podSignals)

Route == { "kubernetes status", "kubernetes summary", "pods", "nodes",
           "jenkins status", "jenkins summary", "builds" }

Observe(r, route) ==
  /\ batch[r] = {}
  /\ batch' = [batch EXCEPT ![r] = Observed(route)]
  /\ UNCHANGED <<world, row, moves>>

\* One upsert of a batch. The update writes the metadata and ACTIVE, and leaves
\* title, message and severity as they were created.
Ingest(r, s) ==
  LET key == Fingerprint(s)
      old == {x \in row : x.key = key}
      title == IF old = {} THEN s.about ELSE (CHOOSE x \in old : TRUE).title
  IN /\ batch' = [batch EXCEPT ![r] = @ \ {s}]
     /\ row' = (row \ old) \cup
               {[key |-> key, title |-> title,
                 about |-> s.about, mode |-> s.mode, status |-> "ACTIVE"]}
     /\ UNCHANGED <<world, moves>>

\* ingestSignals catches the failure and goes on; the process may end with all of them.
IngestFails(r) ==
  /\ \/ \E s \in batch[r] : batch' = [batch EXCEPT ![r] = @ \ {s}]
     \/ batch[r] # {} /\ batch' = [b \in Request |-> {}]
  /\ UNCHANGED <<world, row, moves>>

\* resolveSignal and archiveSignal: an operator, whatever the status was.
Close(x, status) ==
  /\ Moves
  /\ row' = (row \ {x}) \cup {[x EXCEPT !.status = status]}
  /\ UNCHANGED <<world, batch>>

Next ==
  \/ WorldMoves
  \/ \E r \in Request :
       \/ \E route \in Route : Observe(r, route)
       \/ \E s \in batch[r] : Ingest(r, s)
       \/ IngestFails(r)
  \/ \E x \in row, status \in {"RESOLVED", "ARCHIVED"} : Close(x, status)

Spec == Init /\ [][Next]_vars
-----------------------------------------------------------------------------
\* One row for each fingerprint.
TypeOK ==
  /\ pods \in [Pod -> SUBSET Condition]
  /\ ready \subseteq Node
  /\ \A j \in Job : builds[j].number \in 0..MaxBuild
  /\ reach \in [Provider -> Reached]
  /\ \A x \in row, y \in row : x.key = y.key => x = y
  /\ \A x \in row : x.status \in {"ACTIVE", "RESOLVED", "ARCHIVED"}

\* "For events, we want uniqueness per logical occurrence": the title and the metadata
\* of an event's row speak of one build (signal.service.ts:384-391).
OccurrencesToldApart ==
  \A x \in row : x.mode = "EVENT" => x.title = x.about
=============================================================================
