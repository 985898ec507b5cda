------------------------------ MODULE Catalog -------------------------------
(***************************************************************************)
(* The projects of one organization and their environments: what           *)
(* ProjectService and EnvironmentService check, and what they then write   *)
(* by id. Between the two another request may come; the unique indexes of  *)
(* the database, which know archived rows too, have the last word.         *)
(*                                                                         *)
(* A slug stands for name and slug of a row. A name that is not unique, a  *)
(* description and the like are left out; the reads before a write are one *)
(* step.                                                                   *)
(***************************************************************************)
EXTENDS SequencesExt

CONSTANTS
  Project,     \* ids a project may get
  Environment, \* ids an environment may get
  Slug,        \* slugs asked for
  Request,     \* requests under way at the API
  None         \* null

VARIABLES
  project,     \* projects
  environment, \* environments
  born,        \* the environments by createdAt
  req          \* what each request has come to

rows == <<project, environment, born>>
catalogVars == <<rows, req>>
-----------------------------------------------------------------------------
NoRow   == [slug |-> None, live |-> FALSE, of |-> None]
Idle    == [op |-> "none", on |-> None, of |-> None, slug |-> None, phase |-> "idle",
            alone |-> TRUE]
Phase   == {"idle", "checked", "written", "answered", "refused"}
\* What a request may be.
Method == {"none", "createProject", "updateProject", "archiveProject", "createEnvironment",
           "updateEnvironment", "archiveEnvironment"}

\* A row with this slug, archived or not, other than x: what @@unique refuses.
ProjectTaken(x, slug) == \E p \in Project \ {x} : project[p].slug = slug
EnvironmentTaken(x, of, slug) ==
  \E e \in Environment \ {x} : environment[e].of = of /\ environment[e].slug = slug

\* _assertUnique asks of the live environments alone.
AssertUnique(x, of, slug) ==
  \A e \in Environment \ {x} : ~(environment[e].of = of /\ environment[e].live
                                 /\ environment[e].slug = slug)

CatalogInit ==
  /\ project = [p \in Project |-> NoRow]
  /\ environment = [e \in Environment |-> NoRow]
  /\ born = <<>>
  /\ req = [r \in Request |-> Idle]

\* Request r has read what it reads: it goes on, is answered at once or is refused. No
\* request that overlaps another is alone.
Begins(r, op, on, of, slug, phase) ==
  /\ req[r].phase = "idle"
  /\ LET others == {q \in Request \ {r} : req[q].phase # "idle"}
     IN  req' = [q \in Request |->
           IF q = r THEN [op |-> op, on |-> on, of |-> of, slug |-> slug, phase |-> phase,
                          alone |-> others = {}]
           ELSE IF q \in others THEN [req[q] EXCEPT !.alone = FALSE] ELSE req[q]]
  /\ UNCHANGED rows

Goes(checks) == IF checks THEN "checked" ELSE "refused"

\* A new row gets an id of its own.
FreshId(x) == \A r \in Request : req[r].on # x

\* createProject: findUnique sees archived projects too.
CreateProject(r, p, slug) ==
  /\ project[p] = NoRow /\ FreshId(p)
  /\ Begins(r, "createProject", p, None, slug, Goes(~ProjectTaken(p, slug)))

\* updateProject: None asks for no new slug.
UpdateProject(r, p, slug) ==
  /\ project[p] # NoRow
  /\ Begins(r, "updateProject", p, None, slug,
            Goes(project[p].live /\ (slug = None \/ ~ProjectTaken(p, slug))))

\* archiveProject: what is archived already is answered as it is.
ArchiveProject(r, p) ==
  /\ project[p] # NoRow
  /\ Begins(r, "archiveProject", p, None, None, IF project[p].live THEN "checked" ELSE "answered")

\* createEnvironment: _requireProject, _assertUnique.
CreateEnvironment(r, e, p, slug) ==
  /\ environment[e] = NoRow /\ FreshId(e)
  /\ project[p] # NoRow
  /\ LET checks == project[p].live /\ AssertUnique(e, p, slug)
     IN  Begins(r, "createEnvironment", e, p, slug, Goes(checks))

\* updateEnvironment: project and environment are live, the new slug is free.
UpdateEnvironment(r, e, slug) ==
  /\ environment[e] # NoRow
  /\ LET row == environment[e]
     IN  Begins(r, "updateEnvironment", e, row.of, slug,
                Goes(project[row.of].live /\ row.live /\ AssertUnique(e, row.of, slug)))

\* archiveEnvironment: the project is live; idempotent.
ArchiveEnvironment(r, e) ==
  /\ environment[e] # NoRow
  /\ Begins(r, "archiveEnvironment", e, None, None,
            IF ~project[environment[e].of].live THEN "refused"
            ELSE IF environment[e].live THEN "checked" ELSE "answered")

-----------------------------------------------------------------------------
Comes(r, phase) == req' = [req EXCEPT ![r].phase = phase]

\* The slug a project gets, its own when none was asked for.
NewSlug(r) == IF req[r].slug = None THEN project[req[r].on].slug ELSE req[r].slug

\* prisma.project.create and update: by id, whatever happened to the row since it was read;
\* only the index may still refuse.
WriteProject(r) ==
  LET p == req[r].on
      slug == NewSlug(r)
  IN
  /\ req[r].phase = "checked"
  /\ req[r].op \in {"createProject", "updateProject"}
  /\ IF ProjectTaken(p, slug)
     THEN Comes(r, "refused") /\ UNCHANGED rows
     ELSE /\ project' = [project EXCEPT
               ![p] = IF req[r].op = "createProject"
                      THEN [slug |-> slug, live |-> TRUE, of |-> None]
                      ELSE [@ EXCEPT !.slug = slug]]
          /\ Comes(r, "written")
          /\ UNCHANGED <<environment, born>>

\* prisma.environment.create and update.
WriteEnvironment(r) ==
  LET e == req[r].on
      wish == req[r]
  IN
  /\ req[r].phase = "checked"
  /\ req[r].op \in {"createEnvironment", "updateEnvironment"}
  /\ IF EnvironmentTaken(e, wish.of, wish.slug)
     THEN Comes(r, "refused") /\ UNCHANGED rows
     ELSE /\ IF req[r].op = "createEnvironment"
             THEN /\ environment' = [environment EXCEPT
                       ![e] = [slug |-> wish.slug, live |-> TRUE, of |-> wish.of]]
                  /\ born' = Append(born, e)
             ELSE /\ environment' = [environment EXCEPT ![e].slug = wish.slug]
                  /\ UNCHANGED born
          /\ Comes(r, "written")
          /\ UNCHANGED project

\* archivedAt is set by id.
WriteArchive(r) ==
  /\ req[r].phase = "checked"
  /\ \/ /\ req[r].op = "archiveProject"
        /\ project' = [project EXCEPT ![req[r].on].live = FALSE]
        /\ UNCHANGED environment
     \/ /\ req[r].op = "archiveEnvironment"
        /\ environment' = [environment EXCEPT ![req[r].on].live = FALSE]
        /\ UNCHANGED project
  /\ Comes(r, "written")
  /\ UNCHANGED born

\* The registration in the resource graph is over, well or badly: the row is the answer.
Answer(r) ==
  /\ req[r].phase = "written"
  /\ Comes(r, "answered")
  /\ UNCHANGED rows

\* The client has the answer.
Collect(r) ==
  /\ req[r].phase \in {"answered", "refused"}
  /\ req' = [req EXCEPT ![r] = Idle]
  /\ UNCHANGED rows

Asks(r) ==
  \/ \E p \in Project : ArchiveProject(r, p)
  \/ \E p \in Project, slug \in Slug : CreateProject(r, p, slug)
  \/ \E p \in Project, slug \in Slug \cup {None} : UpdateProject(r, p, slug)
  \/ \E e \in Environment : ArchiveEnvironment(r, e)
  \/ \E e \in Environment, slug \in Slug : UpdateEnvironment(r, e, slug)
  \/ \E e \in Environment, p \in Project, slug \in Slug : CreateEnvironment(r, e, p, slug)

Writes(r) == WriteProject(r) \/ WriteEnvironment(r) \/ WriteArchive(r)

-----------------------------------------------------------------------------
\* The live environments of a project as listEnvironments gives them, the youngest first.
Listed(p) ==
  LET live(e)  == environment[e].of = p /\ environment[e].live
      youngest == Reverse(SelectSeq(born, live))
  IN  [i \in DOMAIN youngest |->
         [id |-> youngest[i], slug |-> environment[youngest[i]].slug]]
=============================================================================
