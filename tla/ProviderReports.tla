-------------------------- MODULE ProviderReports ---------------------------
(***************************************************************************)
(* What the console is told of the providers. A provider's connector turns *)
(* what it meets (no configuration, a refusal, an error, silence) into a   *)
(* status; the integrations of the summary, the registry, the health of    *)
(* the observability page and the pages of the providers each turn that    *)
(* status into words of their own, or keep it from a viewer who may not    *)
(* know.                                                                   *)
(*                                                                         *)
(* A report asks its providers all at once and takes the answers as they   *)
(* come: each is of some condition the provider had while the report was   *)
(* made. Counts, versions and wording are left out.                        *)
(***************************************************************************)
EXTENDS FiniteSets, Naturals, Sequences

CONSTANTS
  MaxReports,  \* bound on the reports that are made
  Setting,     \* who looks, and what the deployment allows
  MaxChanges,  \* bound on the changes of a provider's condition
  None         \* nothing told

VARIABLES
  setting,     \* the viewer's role, the policy of the organization and the flags
  condition,   \* what a connector meets, by provider
  report,      \* the reports, one after the other; the last may be under way
  changes

vars == <<setting, condition, report, changes>>
-----------------------------------------------------------------------------
(* The connectors: absent or malformed configuration, credentials denied,   *)
(* access forbidden, an error of the server, an answer that is not           *)
(* understood, silence.                                                      *)

KubernetesStatus ==
  [ absent |-> "NOT_CONFIGURED", malformed |-> "UNREACHABLE", good |-> "CONNECTED",
    denied |-> "AUTH_FAILED", forbidden |-> "AUTH_FAILED", failing |-> "UNREACHABLE",
    odd |-> "UNREACHABLE", silent |-> "UNREACHABLE" ]

AwsStatus ==
  [ KubernetesStatus EXCEPT !.malformed = "ERROR", !.failing = "ERROR", !.odd = "ERROR",
                            !.silent = "ERROR" ]

JenkinsStatus ==
  [ KubernetesStatus EXCEPT !.malformed = "NOT_CONFIGURED", !.forbidden = "FORBIDDEN",
                            !.odd = "UNKNOWN_ERROR" ]

\* The client is built before the try: a DOCKER_HOST that does not parse is thrown. "denied" is
\* the socket's permission; the engine's own refusals are errors like any other.
DockerStatus ==
  [ KubernetesStatus EXCEPT !.malformed = "throws", !.forbidden = "UNKNOWN_ERROR",
                            !.failing = "UNKNOWN_ERROR", !.odd = "UNKNOWN_ERROR" ]

ArgoCdStatus == KubernetesStatus
GitHubStatus == KubernetesStatus

\* Both have an address by default; Prometheus is ready or it is not.
PrometheusStatus == [c \in DOMAIN KubernetesStatus |->
                       IF c = "good" THEN "CONNECTED" ELSE "UNREACHABLE"]
GrafanaStatus ==
  [ PrometheusStatus EXCEPT !.denied = "AUTH_REQUIRED", !.forbidden = "AUTH_REQUIRED",
                            !.odd = "CONNECTED" ]

\* A tool of the runtime: whatever fails, it is not installed.
ToolStatus == [c \in DOMAIN KubernetesStatus |->
                 IF c = "good" THEN "CONNECTED" ELSE "NOT_INSTALLED"]

Tool == {"terraform", "ansible"}

StatusOf ==
  [ kubernetes |-> KubernetesStatus, aws |-> AwsStatus, jenkins |-> JenkinsStatus,
    docker |-> DockerStatus, argocd |-> ArgoCdStatus, github |-> GitHubStatus,
    prometheus |-> PrometheusStatus, grafana |-> GrafanaStatus,
    terraform |-> ToolStatus, ansible |-> ToolStatus ]

Provider ==
  {"kubernetes", "aws", "jenkins", "docker", "argocd", "github", "prometheus", "grafana",
   "terraform", "ansible"}
Condition == {"absent", "malformed", "good", "denied", "forbidden", "failing", "odd", "silent"}

MapAwsToProviderStatus(s) == IF s = "ERROR" THEN "UNKNOWN_ERROR" ELSE s

\* The status of provider p as the reports have it.
Status(p, c) == IF p = "aws" THEN MapAwsToProviderStatus(StatusOf[p][c]) ELSE StatusOf[p][c]
-----------------------------------------------------------------------------
(* The reports.                                                            *)

\* What a report asks for. The six named for a provider are the provider's own page.
Asks ==
  [ hub           |-> {"kubernetes", "aws", "jenkins", "docker"} \cup Tool,
    registry      |-> {"kubernetes", "aws", "jenkins", "docker", "argocd"},
    observability |-> {"kubernetes", "jenkins", "docker"} \cup Tool,
    cloud         |-> {"aws"},
    monitoring    |-> {"prometheus", "grafana"},
    tools         |-> Tool,
    kubernetes    |-> {"kubernetes"},
    jenkins       |-> {"jenkins"},
    docker        |-> {"docker"},
    argocd        |-> {"argocd"},
    github        |-> {"github"} ]

Kind == DOMAIN Asks

CanViewProviderInventory == setting.role \in {"OWNER", "ADMIN"}

\* The summary and the observability page look at the role too; the others at the organization.
Barred(kind) ==
  \/ ~setting.allowed
  \/ kind \in {"hub", "observability"} /\ ~CanViewProviderInventory

ReadinessState(s) ==
  CASE s \in {"BLOCKED_BY_ORG_POLICY", "DISABLED"}                       -> "DISABLED"
    [] s \in {"NOT_CONFIGURED", "NOT_INSTALLED", "NOT_IMPLEMENTED"}      -> "NOT_CONFIGURED"
    [] s = "CONNECTED"                                                   -> "CONNECTED"
    [] OTHER                                                             -> "UNREACHABLE"

HubIntegration(p, s) ==
  CASE s = "CONNECTED"                            -> "CONNECTED"
    [] s \in {"UNREACHABLE", "AUTH_FAILED"}       -> "UNREACHABLE"
    [] p = "jenkins" /\ s = "FORBIDDEN"           -> "UNREACHABLE"
    [] OTHER                                      -> "NOT_CONFIGURED"

HubReport(got) == [p \in Asks["hub"] |-> HubIntegration(p, Status(p, got[p]))]

\* GitHub is listed as not implemented, whatever its own page shows.
RegistryReport(got) ==
  [ p \in Asks["registry"] \cup {"github"} |->
      ReadinessState(IF p = "github" THEN "NOT_CONFIGURED" ELSE Status(p, got[p])) ]

\* Each provider's check catches what it throws; the two tools are one entry.
HealthReport(got) ==
  [ p \in (Asks["observability"] \ Tool) \cup {"infrastructure"} |->
      IF p = "infrastructure"
      THEN IF \E t \in Tool : Status(t, got[t]) = "CONNECTED" THEN "CONNECTED" ELSE "NOT_CONFIGURED"
      ELSE IF Status(p, got[p]) = "throws" THEN "UNKNOWN" ELSE Status(p, got[p]) ]

\* AWS has a flag of its own here, and is not asked without it.
CloudReport(got) ==
  [ p \in {"aws"} |->
      IF setting.awsEnabled THEN ReadinessState(Status(p, got[p])) ELSE "NOT_CONFIGURED" ]

MonitoringReport(got) == [p \in Asks["monitoring"] |-> ReadinessState(Status(p, got[p]))]

\* The tools stand or fall together.
ToolsReport(got) ==
  [ t \in {"toolchain"} |->
      IF \E p \in Tool : Status(p, got[p]) = "NOT_INSTALLED"
      THEN "NOT_CONFIGURED" ELSE "CONNECTED" ]

PageReport(kind, got) == [p \in Asks[kind] |-> ReadinessState(Status(p, got[p]))]

Told(kind, got) ==
  CASE kind = "hub"           -> HubReport(got)
    [] kind = "registry"      -> RegistryReport(got)
    [] kind = "observability" -> HealthReport(got)
    [] kind = "cloud"         -> CloudReport(got)
    [] kind = "monitoring"    -> MonitoringReport(got)
    [] kind = "tools"         -> ToolsReport(got)
    [] OTHER                  -> PageReport(kind, got)

\* What the viewer is offered to do with a provider: builds need an allowlisted job.
Offers(kind, got) ==
  LET up(p) == p \in Asks[kind] /\ Status(p, got[p]) = "CONNECTED"
  IN CASE kind = "registry" ->
            {p \in {"kubernetes", "docker"} : up(p)}
              \cup {p \in {"jenkins"} : up(p) /\ setting.jobs}
       [] kind \in {"hub", "observability", "jenkins"} ->
            {p \in {"jenkins"} : up(p) /\ setting.jobs}
       [] OTHER -> {}

\* Faulty: every report stands or falls with all it asks for.
FailsAny(kind, got) == \E p \in Asks[kind] : Status(p, got[p]) = "throws"

\* One refusal fails a report, unless each of its checks catches its own.
Fails(kind, got) ==
  kind # "observability" /\ \E p \in Asks[kind] : Status(p, got[p]) = "throws"

RestrictedHub    == [p \in Asks["hub"] |-> "NOT_CONFIGURED"]
RestrictedHealth == [p \in (Asks["observability"] \ Tool) \cup {"infrastructure"} |-> "RESTRICTED"]
BlockedReport(kind) == [p \in Asks[kind] |-> ReadinessState("BLOCKED_BY_ORG_POLICY")]

Withheld(kind) ==
  CASE kind = "hub"           -> RestrictedHub
    [] kind = "observability" -> RestrictedHealth
    [] OTHER                  -> BlockedReport(kind)
-----------------------------------------------------------------------------
Blank == [told |-> None, offers |-> {}, failed |-> FALSE]

\* From a barred viewer everything is kept.
Reply(kind, got) ==
  IF Barred(kind) THEN [Blank EXCEPT !.told = Withheld(kind)]
  ELSE IF Fails(kind, got) THEN [Blank EXCEPT !.failed = TRUE]
  ELSE [told |-> Told(kind, got), offers |-> Offers(kind, got), failed |-> FALSE]

Init ==
  /\ setting \in Setting
  /\ \E p \in Provider, c \in Condition :
       condition = [q \in Provider |-> IF q = p THEN c ELSE "good"]
  /\ report = <<>>
  /\ changes = 0

Open == report # <<>> /\ report[Len(report)].open

\* A report is asked for; "had" is what its providers went through since. Reports share nothing,
\* and are made one after the other here.
Begin ==
  /\ Len(report) < MaxReports /\ ~Open
  /\ \E kind \in Kind :
       report' = Append(report, [kind |-> kind, open |-> TRUE, answer |-> Blank,
                                 had |-> [p \in Asks[kind] |-> {condition[p]}]])
  /\ UNCHANGED <<setting, condition, changes>>

\* It is answered, by what each provider was at some moment since it was asked for.
Answer ==
  /\ Open
  /\ LET last == report[Len(report)]
         kind == last.kind
     IN \E got \in [Asks[kind] -> UNION {last.had[p] : p \in Asks[kind]}] :
          /\ \A p \in Asks[kind] : got[p] \in last.had[p]
          /\ report' = [report EXCEPT ![Len(report)].open = FALSE,
                                      ![Len(report)].answer = Reply(kind, got)]
  /\ UNCHANGED <<setting, condition, changes>>

\* A provider fails, or the one that did recovers.
Change ==
  /\ changes < MaxChanges
  /\ \E p \in Provider, c \in Condition :
       /\ IF \A q \in Provider : condition[q] = "good" THEN c # "good"
          ELSE condition[p] # "good" /\ c = "good"
       /\ condition' = [condition EXCEPT ![p] = c]
       /\ report' = IF Open /\ p \in Asks[report[Len(report)].kind]
                    THEN [report EXCEPT ![Len(report)].had[p] = @ \cup {c}] ELSE report
  /\ changes' = changes + 1
  /\ UNCHANGED setting

Next == Begin \/ Answer \/ Change

Spec == Init /\ [][Next]_vars
-----------------------------------------------------------------------------
(* Properties.                                                             *)

Made       == {r \in DOMAIN report : ~report[r].open}
Kept(r)    == Barred(report[r].kind)
Speaks(r)  == ~Kept(r) /\ ~report[r].answer.failed
Tells(r)   == report[r].answer.told
Idle(r, p) == Cardinality(report[r].had[p]) = 1

\* Two reports of a provider that kept its condition while they were made do not contradict
\* each other: both call it connected or neither does, both offer builds or neither does, and
\* what one calls unreachable the other does not call unconfigured.
ReportsAgree ==
  \A r, s \in {q \in Made : Speaks(q)} : \A p \in Asks[report[r].kind] \cap Asks[report[s].kind] :
    LET of(q) == p \in DOMAIN Tells(q) /\ Idle(q, p)
                 /\ (report[q].kind = "cloud" => setting.awsEnabled)
    IN of(r) /\ of(s) /\ report[r].had[p] = report[s].had[p] =>
         /\ (Tells(r)[p] = "CONNECTED") = (Tells(s)[p] = "CONNECTED")
         /\ report[r].kind = "hub" /\ Tells(r)[p] = "UNREACHABLE" => Tells(s)[p] # "NOT_CONFIGURED"
         /\ p = "jenkins" => (p \in report[r].answer.offers) = (p \in report[s].answer.offers)

\* Only a provider that answered while the report was made is called connected, only such a
\* one is offered for writing, and one that was good all the while is called connected.
ConnectedMeansAnswered ==
  \A r \in {q \in Made : Speaks(q)} : \A p \in Asks[report[r].kind] \cap DOMAIN Tells(r) :
    /\ Tells(r)[p] = "CONNECTED" => report[r].had[p] \cap {"good", "odd"} # {}
    /\ p \in report[r].answer.offers => "good" \in report[r].had[p] /\ Tells(r)[p] = "CONNECTED"
    /\ report[r].had[p] = {"good"} /\ (report[r].kind = "cloud" => setting.awsEnabled)
         => Tells(r)[p] = "CONNECTED"

\* A provider costs the viewer its own entry only; but for a Docker address that does not
\* parse, which fails the report that asks for it, though never the observability page.
FailuresContained ==
  \A r \in Made : report[r].answer.failed =>
    /\ report[r].kind \in {"hub", "registry", "docker"}
    /\ "malformed" \in report[r].had["docker"]

\* A viewer who may not know is told the same whatever the providers go through.
NothingLeaks ==
  \A r \in Made : Kept(r) =>
    /\ \A p \in DOMAIN Tells(r) : Tells(r)[p] \in {"NOT_CONFIGURED", "RESTRICTED", "DISABLED"}
    /\ report[r].answer.offers = {} /\ ~report[r].answer.failed

ReportsTruthful == ReportsAgree /\ ConnectedMeansAnswered /\ FailuresContained /\ NothingLeaks
=============================================================================
