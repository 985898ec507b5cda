----------------------------- MODULE MCRecords ------------------------------
(***************************************************************************)
(* Instances of Incidents and ProjectPage, side by side: a behaviour is    *)
(* one of the component chosen at the start, while the other rests in its  *)
(* initial state. The two share nothing, so that nothing is lost by it.    *)
(* Model values serve twice, so that one symmetry set fits both.           *)
(***************************************************************************)
EXTENDS MCIncidents

CONSTANTS p1

VARIABLES
  subject, \* the component that moves
  prjProject, prjEnvironment, prjBorn, prjReq,
  prjView, prjList, prjEditing, prjSaving, prjArchiving, prjClosing, prjAsked, prjAsks,
  prjLoad, prjCrossed

prjVars == <<prjProject, prjEnvironment, prjBorn, prjReq, prjView, prjList, prjEditing,
             prjSaving, prjArchiving, prjClosing, prjAsked, prjAsks, prjLoad, prjCrossed>>
allVars == <<subject, vars, prjVars>>
-----------------------------------------------------------------------------
\* A page, two environments and two requests under way, three in all.
P == INSTANCE ProjectPage WITH
       Project <- {p1}, Environment <- {i1, i2}, Slug <- {"a", "b"}, Shown <- p1,
       Request <- {h1, h2}, MaxAsks <- 3,
       project <- prjProject, environment <- prjEnvironment, born <- prjBorn, req <- prjReq,
       view <- prjView, list <- prjList, editing <- prjEditing, saving <- prjSaving,
       archiving <- prjArchiving, closing <- prjClosing, asked <- prjAsked, asks <- prjAsks,
       load <- prjLoad, crossed <- prjCrossed

AllInit ==
  /\ subject \in {"incidents", "project"}
  /\ Init /\ P!Init

AllNext ==
  /\ UNCHANGED subject
  /\ IF subject = "incidents" THEN Next   ELSE UNCHANGED vars
  /\ IF subject = "project"   THEN P!Next ELSE UNCHANGED prjVars

AllSpec == AllInit /\ [][AllNext]_allVars
-----------------------------------------------------------------------------
\* Whatever answers come in whatever order, the page of a project shows its live environments
\* as they were saved last, unless a load met a write or an answer was lost
\* (project-detail-client.tsx:121-282).
ProjectListTruthful == subject = "project" => P!PageListTruthful
=============================================================================
