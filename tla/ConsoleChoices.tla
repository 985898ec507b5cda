--------------------------- MODULE ConsoleChoices ---------------------------
(***************************************************************************)
(* What a page shows of something that is chosen on it: the environments   *)
(* of a project, the logs of a container, the detail of a resource, a list *)
(* under a filter. Every choice sends a GET of its own, the answers come   *)
(* in any order, and not every page asks whether what arrives is still     *)
(* what is chosen. The form that triggers a deployment submits two choices *)
(* one of which depends on the other.                                      *)
(***************************************************************************)
EXTENDS Naturals

CONSTANTS
  Choice, \* what can be chosen
  None    \* nothing chosen, nothing shown

VARIABLES
  kind,      \* what the page does about late answers
  chosen,    \* what is chosen now
  flight,    \* choices whose GET is under way; api.get joins a second one of the same path
  shown,     \* the choice whose data are there
  loading,   \* the spinner, which also disables what depends on the choice
  error,     \* the page shows an error instead
  picked,    \* the form: the project of the environment that is selected
  posted,    \* the form: the trigger under way, project and environment
  created,   \* history: the deployments there are, project and project of the environment
  overtaken  \* history: the last answer was for another choice

vars == <<kind, chosen, flight, shown, loading, error, picked, posted, created, overtaken>>
-----------------------------------------------------------------------------
\* guarded: a late answer is dropped; empties: an error takes the data away; clears: so does a
\* new choice; form: there is something to submit.
Kind(guarded, empties, clears, form) ==
  [guarded |-> guarded, empties |-> empties, clears |-> clears, form |-> form]

\* The detail beside the list of resources: the effect that is cleaned up drops its answer.
ResourceDetail == Kind(TRUE, FALSE, FALSE, FALSE)
\* The signals under a filter: useQuery keeps an answer under the key it was asked for.
SignalsFilter == Kind(TRUE, FALSE, TRUE, FALSE)
\* The logs of a container.
ContainerLogs == Kind(FALSE, TRUE, FALSE, FALSE)
\* Incidents, resources and evidence under a filter.
ListFilter == Kind(FALSE, FALSE, FALSE, FALSE)
\* The environments of the project a deployment is for.
DeploymentForm == Kind(FALSE, TRUE, FALSE, TRUE)

Pages == {ResourceDetail, SignalsFilter, ContainerLogs, ListFilter, DeploymentForm}

Init ==
  /\ kind \in Pages
  /\ chosen = None /\ flight = {} /\ shown = None
  /\ loading = FALSE /\ error = FALSE
  /\ picked = None /\ posted = None /\ created = {}
  /\ overtaken = FALSE

\* A choice, which the form does not let make while it submits.
Choose(c) ==
  /\ c # chosen
  /\ posted = None
  /\ chosen' = c
  /\ flight' = flight \cup {c}
  /\ loading' = TRUE /\ error' = FALSE
  /\ shown' = IF kind.clears THEN None ELSE shown
  /\ UNCHANGED <<kind, picked, posted, created, overtaken>>

\* The list no longer has what was chosen.
Drop ==
  /\ kind = ResourceDetail
  /\ chosen # None
  /\ chosen' = None /\ shown' = None /\ error' = FALSE
  /\ UNCHANGED <<kind, flight, loading, picked, posted, created, overtaken>>

\* Faulty: the answer is taken whatever is chosen by now.
TakesAny(c) == TRUE

\* Whether the page takes what arrives.
Takes(c) == ~kind.guarded \/ c = chosen

\* The answer to c: the form selects the first of the list, which may be empty.
Arrive(c) ==
  /\ c \in flight
  /\ flight' = flight \ {c}
  /\ IF Takes(c)
     THEN /\ shown' = c /\ loading' = FALSE
          /\ picked' \in IF kind.form THEN {c, None} ELSE {picked}
          /\ overtaken' = (c # chosen)
     ELSE UNCHANGED <<shown, loading, picked, overtaken>>
  /\ UNCHANGED <<kind, chosen, error, posted, created>>

Fail(c) ==
  /\ c \in flight
  /\ flight' = flight \ {c}
  /\ IF Takes(c)
     THEN /\ error' = TRUE /\ loading' = FALSE
          /\ shown' = IF kind.empties THEN None ELSE shown
          /\ picked' = IF kind.form THEN None ELSE picked
          /\ overtaken' = (c # chosen)
     ELSE UNCHANGED <<shown, loading, error, picked, overtaken>>
  /\ UNCHANGED <<kind, chosen, posted, created>>

\* canSubmit and handleTriggerDeployment.
Trigger ==
  /\ kind.form
  /\ chosen # None /\ picked # None
  /\ ~loading /\ posted = None
  /\ posted' = <<chosen, picked>>
  /\ UNCHANGED <<kind, chosen, flight, shown, loading, error, picked, created, overtaken>>

\* Faulty: the environment is looked up by its id alone.
RequireEnvironmentById(project, of) == TRUE

\* _requireEnvironment: the environment is one of the project in the path.
RequireEnvironment(project, of) == of = project

\* The API creates the deployment, or refuses it.
Answered ==
  /\ posted # None
  /\ created' = IF RequireEnvironment(posted[1], posted[2]) THEN created \cup {posted} ELSE created
  /\ posted' = None
  /\ UNCHANGED <<kind, chosen, flight, shown, loading, error, picked, overtaken>>

Next ==
  \/ Drop \/ Trigger \/ Answered
  \/ \E c \in Choice : Choose(c) \/ Arrive(c) \/ Fail(c)

Spec == Init /\ [][Next]_vars
-----------------------------------------------------------------------------
\* The page shows what is chosen: always where late answers are dropped, elsewhere unless the
\* last answer was a late one, which also ends the spinner early; and however late an answer
\* was, a deployment is for an environment of the project it is filed under
\* (resources-client.tsx:172-206, deployments-client.tsx:146-233, deployment.service.ts:209-232).
ChoiceShown ==
  /\ chosen # None /\ ~loading /\ ~error /\ ~overtaken => shown = chosen
  /\ kind.guarded => ~overtaken
  /\ \A d \in created : d[1] = d[2]
=============================================================================
