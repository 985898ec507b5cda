----------------------------- MODULE MCConsole ------------------------------
(***************************************************************************)
(* Instances of Operations, ResourceGraph and ConsolePages, side by side:  *)
(* a behaviour is one of the component chosen at the start, while the      *)
(* others rest in their initial states. The components share nothing, so   *)
(* that nothing is lost by it.                                             *)
(***************************************************************************)
EXTENDS MCOperations

CONSTANTS p1, e1, d1, ns, wl

VARIABLES
  subject, \* the component that moves
  resProject, resEnvironment, resBorn, resReq,
  resNode, resEdge, resTodo, resWhole, resSeen, resWorld,
  conPage, conWorld, conStanding, conFlight, conLoads, conShown, conAct, conTold, conOwes,
  conTroubles

resVars == <<resProject, resEnvironment, resBorn, resReq, resNode, resEdge, resTodo, resWhole,
             resSeen, resWorld>>
conVars == <<conPage, conWorld, conStanding, conFlight, conLoads, conShown, conAct, conTold,
             conOwes, conTroubles>>
allVars == <<subject, vars, resVars, conVars>>
-----------------------------------------------------------------------------
\* One project, one environment and one deployment, and two requests that register them.
G == INSTANCE ResourceGraph WITH
       Project <- {p1}, Environment <- {e1}, Deployment <- {d1}, Slug <- {"a", "b"},
       Thing <- {}, Kind <- <<>>, Inside <- <<>>,
       project <- resProject, environment <- resEnvironment,
       born <- resBorn, req <- resReq, node <- resNode, edge <- resEdge, todo <- resTodo,
       whole <- resWhole, seen <- resSeen, world <- resWorld

\* A namespace and a workload in it, and two requests that list them.
V == INSTANCE ResourceGraph WITH
       Project <- {}, Environment <- {}, Deployment <- {}, Slug <- {"a"},
       Thing <- {ns, wl},
       Kind <- [t \in {ns, wl} |-> IF t = ns THEN "namespace" ELSE "workload"],
       Inside <- [t \in {ns, wl} |-> IF t = ns THEN None ELSE ns],
       project <- resProject, environment <- resEnvironment,
       born <- resBorn, req <- resReq, node <- resNode, edge <- resEdge, todo <- resTodo,
       whole <- resWhole, seen <- resSeen, world <- resWorld

\* Two loads that overlap around one change, with one trouble.
C == INSTANCE ConsolePages WITH
       MaxWorld <- 1, MaxLoads <- 2, MaxTroubles <- 1,
       page <- conPage, world <- conWorld, standing <- conStanding, flight <- conFlight,
       loads <- conLoads, shown <- conShown, act <- conAct, told <- conTold, owes <- conOwes,
       troubles <- conTroubles

AllInit ==
  /\ subject \in {"operations", "graph", "inventory", "pages"}
  /\ Init
  /\ IF subject = "inventory" THEN V!Init ELSE G!Init
  /\ IF subject = "pages" THEN C!Init ELSE C!Init /\ conPage = C!IntegrationsHub

AllNext ==
  /\ UNCHANGED subject
  /\ IF subject = "operations" THEN Next   ELSE UNCHANGED vars
  /\ CASE subject = "graph"     -> G!Next
       [] subject = "inventory" -> V!Next
       [] OTHER                 -> UNCHANGED resVars
  /\ IF subject = "pages"      THEN C!Next ELSE UNCHANGED conVars

AllSpec == AllInit /\ [][AllNext]_allVars
-----------------------------------------------------------------------------
\* A registration that runs alone leaves what it registers, and all that it hangs under, as
\* the rows and the provider have it, whatever failed or overlapped before; and no node is
\* without those it hangs under, no edge without its ends (resource-graph.service.ts:258-618).
GraphRegistrationTruthful ==
  /\ subject = "graph"     => G!TypeOK /\ G!NodesRooted /\ G!AloneRegistrationTruthful
  /\ subject = "inventory" => V!TypeOK /\ V!NodesRooted /\ V!AloneRegistrationTruthful

\* However the loads of a page overlap, no section falls back to what it showed before
\* (api.ts:81-110).
PagesNeverGoBack == C!NeverGoesBack

\* A page that loaded after its own action shows that action from then on, whatever other
\* loads are under way (operations-client.tsx:626-647 and its likes).
PagesShowOwnAction == subject = "pages" => C!OwnActionShown
=============================================================================
