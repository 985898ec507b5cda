---------------------------- MODULE ProjectPage -----------------------------
(***************************************************************************)
(* The page of a project (project-detail-client.tsx): it loads the project *)
(* and its environments once, and from then on changes its own list by the *)
(* answers to what it asks for. Refresh is offered while a request is      *)
(* under way; the answers to both may come in any order, or never.         *)
(*                                                                         *)
(* The page is the only writer. A request it gives up on goes on at the    *)
(* API.                                                                    *)
(***************************************************************************)
EXTENDS Catalog

CONSTANTS
  Shown,  \* the project of the page
  MaxAsks \* bound on the requests of the page that write

VARIABLES
  view,      \* "loading", "error", "shown", "gone"
  list,      \* the environments the page shows
  editing,   \* the environment whose form is open, None for a new one
  saving,    \* the request that saves an environment, None when the button is enabled
  archiving, \* the environment whose button says so
  closing,   \* the request that archives the project, None when the button is enabled
  asked,     \* what each request found when it was asked: the environment edited then
  load,      \* the two answers of a load
  asks,      \* how many they were
  crossed    \* history: a load met a write or an answer was lost since the list was whole

pageVars == <<view, list, editing, saving, archiving, closing, asked, asks, load,
              crossed>>
vars     == <<catalogVars, pageVars>>
-----------------------------------------------------------------------------
Pending == "pending"
Refused == "refused"
NoLoad  == [project |-> None, environments |-> None, rows |-> <<>>]
Sent    == [NoLoad EXCEPT !.project = Pending, !.environments = Pending]

\* The requests of the page that are not answered yet, and those that may still write.
Waiting == {r \in Request : asked[r] # None}
Busy    == {r \in Request : req[r].phase # "idle"}

Init ==
  /\ project = [p \in Project |-> [slug |-> CHOOSE s \in Slug : TRUE, live |-> p = Shown,
                                   of |-> None]]
  /\ environment = [e \in Environment |-> NoRow]
  /\ born = <<>>
  /\ req = [r \in Request |-> Idle]
  /\ view = "loading" /\ load = Sent
  /\ list = <<>>
  /\ editing = None
  /\ saving = None /\ archiving = None /\ closing = None
  /\ asked = [r \in Request |-> None]
  /\ asks = 0
  /\ crossed = FALSE

-----------------------------------------------------------------------------
\* loadProject: the page is replaced by a spinner until both answers are there.
Load ==
  /\ view \in {"shown", "error"}
  /\ view' = "loading"
  /\ load' = Sent
  /\ crossed' = (Busy # {})
  /\ UNCHANGED <<catalogVars, list, editing, saving, archiving, closing, asked, asks>>

\* The API answers one of the two; or the answer is an error.
Serves(part) ==
  /\ load[part] = Pending
  /\ \E answer \in {IF project[Shown].live THEN "found" ELSE Refused, Refused} :
       load' = [load EXCEPT ![part] = answer,
                            !.rows = IF part = "environments" /\ answer = "found"
                                     THEN Listed(Shown) ELSE @]
  /\ UNCHANGED <<catalogVars, view, list, editing, saving, archiving, closing, asked, asks,
                 crossed>>

\* Promise.all: the first error will do, the list needs both.
Loaded ==
  /\ view = "loading"
  /\ \/ /\ Refused \in {load.project, load.environments}
        /\ view' = "error"
        /\ UNCHANGED list
     \/ /\ load.project = "found" /\ load.environments = "found"
        /\ view' = "shown"
        /\ list' = load.rows
  /\ load' = NoLoad
  /\ UNCHANGED <<catalogVars, editing, saving, archiving, closing, asked, asks, crossed>>

-----------------------------------------------------------------------------
\* What the page asks for is under way: the closure keeps what was edited then, "new" for
\* nothing.
Asking(r) ==
  /\ view = "shown"
  /\ asked[r] = None
  /\ asks < MaxAsks
  /\ asks' = asks + 1
  /\ asked' = [asked EXCEPT ![r] = IF editing = None THEN "new" ELSE editing]

\* handleSaveEnvironment.
SaveEnvironment(r, slug) ==
  /\ Asking(r)
  /\ saving = None
  /\ saving' = r
  /\ IF editing = None
     THEN \E e \in Environment : CreateEnvironment(r, e, Shown, slug)
     ELSE UpdateEnvironment(r, editing, slug)
  /\ UNCHANGED <<view, list, editing, archiving, closing, load, crossed>>

\* handleSave, of the project's own fields.
SaveProject(r) ==
  /\ Asking(r)
  /\ \A q \in Waiting : req[q].op # "updateProject"
  /\ UpdateProject(r, Shown, None)
  /\ UNCHANGED <<view, list, editing, saving, archiving, closing, load, crossed>>

\* handleArchiveEnvironment: the button of another environment stays enabled.
Archive(r, i) ==
  LET e == list[i].id IN
  /\ Asking(r)
  /\ archiving # e
  /\ archiving' = e
  /\ ArchiveEnvironment(r, e)
  /\ UNCHANGED <<view, list, editing, saving, closing, load, crossed>>

\* handleArchive.
Close(r) ==
  /\ Asking(r)
  /\ closing = None
  /\ closing' = r
  /\ ArchiveProject(r, Shown)
  /\ UNCHANGED <<view, list, editing, saving, archiving, load, crossed>>

\* The form of an environment, and Cancel Edit.
Edit(i) ==
  /\ view = "shown"
  /\ editing' = list[i].id
  /\ UNCHANGED <<catalogVars, view, list, saving, archiving, closing, asked, asks, load, crossed>>

\* resetEnvironmentForm
CancelEdit ==
  /\ view = "shown" /\ editing # None
  /\ editing' = None
  /\ UNCHANGED <<catalogVars, view, list, saving, archiving, closing, asked, asks, load, crossed>>

-----------------------------------------------------------------------------
\* A commit that meets a load.
Commit(r) ==
  /\ Writes(r) \/ Answer(r)
  /\ crossed' = (crossed \/ view = "loading")
  /\ UNCHANGED <<view, list, editing, saving, archiving, closing, asked, asks, load>>

\* The button a request disabled is enabled again: archivingEnvironmentId is cleared, whichever
\* environment it names by now.
Settled(r) ==
  /\ asked' = [asked EXCEPT ![r] = None]
  /\ saving' = IF saving = r THEN None ELSE saving
  /\ archiving' = IF req[r].op = "archiveEnvironment" THEN None ELSE archiving
  /\ closing' = IF closing = r THEN None ELSE closing

Row(r) == [id |-> req[r].on, slug |-> environment[req[r].on].slug]

\* Faulty: the row archived stays in the list.
ChangedListKept(r) ==
  CASE req[r].op = "createEnvironment" -> <<Row(r)>> \o list
    [] req[r].op = "updateEnvironment" ->
         [i \in DOMAIN list |-> IF list[i].id = req[r].on THEN Row(r) ELSE list[i]]
    [] OTHER -> list

\* setEnvironments: the new one goes first, the one saved in its place, the archived one away.
ChangedList(r) ==
  CASE req[r].op = "createEnvironment"  -> <<Row(r)>> \o list
    [] req[r].op = "updateEnvironment"  ->
         [i \in DOMAIN list |-> IF list[i].id = req[r].on THEN Row(r) ELSE list[i]]
    [] req[r].op = "archiveEnvironment" -> SelectSeq(list, LAMBDA x : x.id # req[r].on)
    [] OTHER -> list

\* A good answer. A save takes the form with it, an archived environment only when it was
\* edited at the time of the click.
Succeeded(r) ==
  /\ r \in Waiting /\ view # "gone"
  /\ req[r].phase = "answered"
  /\ list' = ChangedList(r)
  /\ editing' = IF \/ req[r].op \in {"createEnvironment", "updateEnvironment"}
                   \/ req[r].op = "archiveEnvironment" /\ asked[r] = req[r].on
                THEN None ELSE editing
  /\ view' = IF req[r].op = "archiveProject" THEN "gone" ELSE view
  /\ Settled(r)
  /\ Collect(r)
  /\ crossed' = (crossed \/ view = "loading")
  /\ UNCHANGED <<asks, load>>

\* An error, or no answer at all: the page says so, the list and the form stay.
Failed(r) ==
  /\ r \in Waiting /\ view # "gone"
  /\ \/ req[r].phase = "refused" /\ Collect(r) /\ UNCHANGED crossed
     \/ req[r].phase # "refused" /\ crossed' = TRUE /\ UNCHANGED catalogVars
  /\ Settled(r)
  /\ UNCHANGED <<view, list, editing, asks, load>>

\* What nobody waits for ends.
Abandoned(r) ==
  /\ r \notin Waiting \/ view = "gone"
  /\ Collect(r)
  /\ asked' = [asked EXCEPT ![r] = None]
  /\ UNCHANGED <<view, list, editing, saving, archiving, closing, asks, load, crossed>>

Next ==
  \/ Load \/ Serves("project") \/ Serves("environments") \/ Loaded \/ CancelEdit
  \/ \E i \in DOMAIN list : Edit(i)
  \/ \E r \in Request :
       \/ SaveProject(r) \/ Close(r) \/ Commit(r) \/ Succeeded(r) \/ Failed(r) \/ Abandoned(r)
       \/ \E slug \in Slug : SaveEnvironment(r, slug)
       \/ \E i \in DOMAIN list : Archive(r, i)

Spec == Init /\ [][Next]_vars
-----------------------------------------------------------------------------
\* Once nothing is under way, the page shows the live environments in their order, each once
\* and as it was saved last, although several answers may have come in any order: only a load
\* that met a write, or an answer that was lost, spoils the list until the next load
\* (project-detail-client.tsx:141-282).
PageListTruthful == view = "shown" /\ Busy = {} /\ ~crossed => list = Listed(Shown)
=============================================================================
