--------------------------- MODULE ResourceGraph ----------------------------
(***************************************************************************)
(* The resource graph (ResourceGraphService): a read model of what the     *)
(* API creates and of what the providers show. Every registration is a     *)
(* sequence of upserts, each a statement of its own, made on behalf of a   *)
(* request whose answer does not depend on it: it may stop anywhere, and   *)
(* it may meet another registration anywhere.                              *)
(*                                                                         *)
(* A node has one value: the slug of a row, the health of what a provider  *)
(* showed, None where the code writes null.                                *)
(***************************************************************************)
EXTENDS Catalog

CONSTANTS
  Deployment, \* deployments that may be triggered
  Thing,      \* what the providers have to show
  Kind,       \* the kind of each thing
  Inside      \* the namespace, job or image of a thing, None where it has none

VARIABLES
  node,  \* resource_nodes
  edge,  \* resource_edges
  todo,  \* the upserts a request still has to make
  whole, \* requests whose registration lacks nothing
  seen,  \* what a request was shown by the provider
  world  \* what there is at the providers

graph == <<node, edge>>
vars  == <<catalogVars, graph, todo, whole, seen, world>>
-----------------------------------------------------------------------------
Organization == "organization"
Docker       == {"image", "container", "network", "volume"}
Kubernetes   == {"namespace", "node", "workload", "pod", "service"}
Jenkins      == {"job", "build"}
Kinds        == Docker \cup Kubernetes \cup Jenkins
Health       == {"up", "down"}
Gone         == "gone"
Absent       == "absent"

\* The node of the engine, the cluster or the instance.
Root(kind) == IF kind \in Docker THEN "docker" ELSE IF kind \in Kubernetes THEN "kubernetes"
              ELSE "jenkins"
Nodes == {Organization, "docker", "kubernetes", "jenkins"}
         \cup Project \cup Environment \cup Deployment \cup Thing

Upsert(x, value) == [step |-> "node", of |-> x, value |-> value]
Link(x, y)       == [step |-> "edge", of |-> x, to |-> y]
ReadRow(x)       == [step |-> "read", of |-> x]

\* registerAutoOpsProjectNode, with the row as the caller has it.
ProjectSteps(p, slug) ==
  <<Upsert(Organization, "current"), Upsert(p, slug), Link(Organization, p)>>

\* registerAutoOpsEnvironmentNode: the project is read again and registered on the way.
EnvironmentSteps(e, p, slug) == <<ReadRow(p), Upsert(e, slug), Link(p, e)>>

\* registerAutoOpsDeploymentNode: so is the environment.
DeploymentSteps(d, e) == <<ReadRow(e), Upsert(d, "QUEUED"), Link(e, d)>>

\* What reading a row adds to the path.
Expanded(x) ==
  IF x \in Project THEN ProjectSteps(x, project[x].slug)
  ELSE EnvironmentSteps(x, environment[x].of, environment[x].slug)

-----------------------------------------------------------------------------
\* healthStatus, where a listing gives one: images, networks and volumes have none.
HealthOf(x, health) == IF Kind[x] \in {"image", "network", "volume"} THEN None ELSE health

\* registerJenkinsInventory: a build writes the node of its job, without its health.
JenkinsSteps(x, shown) ==
  IF Kind[x] = "job" THEN <<Upsert(x, shown[x]), Link("jenkins", x)>>
  ELSE <<Upsert(Inside[x], None), Upsert(x, shown[x]), Link(Inside[x], x)>>

\* registerDockerInventory: the image of a container only when the same call lists it.
DockerSteps(x, shown) ==
  <<Upsert(x, HealthOf(x, shown[x])), Link("docker", x)>>
  \o (IF Kind[x] = "container" /\ Inside[x] \in DOMAIN shown THEN <<Link(x, Inside[x])>> ELSE <<>>)

\* registerKubernetesInventory: a workload creates the node of its namespace when the same
\* call does not list it, without an edge and without its health; a pod and a service do
\* without.
KubernetesSteps(x, shown) ==
  LET listed == Inside[x] \in DOMAIN shown
  IN  CASE Kind[x] \in {"namespace", "node"} -> <<Upsert(x, shown[x]), Link("kubernetes", x)>>
        [] Kind[x] = "workload" -> (IF listed THEN <<>> ELSE <<Upsert(Inside[x], None)>>)
                                   \o <<Upsert(x, shown[x]), Link(Inside[x], x)>>
        [] OTHER -> <<Upsert(x, shown[x])>>
                    \o (IF listed THEN <<Link(Inside[x], x)>> ELSE <<>>)

\* The whole path of a listing of one kind.
InventorySteps(kind, shown) ==
  LET steps(x) == CASE kind \in Docker     -> DockerSteps(x, shown)
                    [] kind \in Kubernetes -> KubernetesSteps(x, shown)
                    [] kind \in Jenkins    -> JenkinsSteps(x, shown)
      things   == SetToSeq(DOMAIN shown)
  IN  <<Upsert(Root(kind), None)>> \o FlattenSeq([i \in DOMAIN things |-> steps(things[i])])

-----------------------------------------------------------------------------
Init ==
  /\ CatalogInit
  /\ node = [x \in Nodes |-> Absent]
  /\ edge = {}
  /\ todo = [r \in Request |-> <<>>]
  /\ whole = {}
  /\ seen = [r \in Request |-> <<>>]
  /\ world \in [Thing -> Health]

Registers(r, steps) ==
  /\ todo' = [todo EXCEPT ![r] = steps]
  /\ whole' = whole \cup {r}

Ask(r) ==
  /\ Asks(r)
  /\ UNCHANGED <<graph, todo, whole, seen, world>>

\* A written row is registered as the update returned it.
Write(r) ==
  /\ Writes(r)
  /\ LET x == req[r].on
     IN  IF req'[r].phase # "written" THEN UNCHANGED <<todo, whole>>
         ELSE IF x \in Project THEN Registers(r, ProjectSteps(x, project'[x].slug))
         ELSE Registers(r, EnvironmentSteps(x, environment'[x].of, environment'[x].slug))
  /\ UNCHANGED <<graph, seen, world>>

\* triggerDeployment, of which Deployments has the rest: _requireEnvironment, and at the end
\* _registerDeploymentNode.
Trigger(r, d, e) ==
  /\ node[d] = Absent /\ FreshId(d)
  /\ environment[e].live /\ project[environment[e].of].live
  /\ Begins(r, "deployment", d, e, None, "written")
  /\ Registers(r, DeploymentSteps(d, e))
  /\ UNCHANGED <<graph, seen, world>>

\* The inventory routes: each lists one kind and registers what it was shown.
List(r, kind) ==
  LET shown == [x \in {y \in Thing : Kind[y] = kind /\ world[y] # Gone} |-> world[x]]
  IN  /\ kind \in {Kind[x] : x \in Thing}
      /\ Begins(r, "inventory", kind, None, None, "written")
      /\ Registers(r, InventorySteps(kind, shown))
      /\ seen' = [seen EXCEPT ![r] = shown]
      /\ UNCHANGED <<graph, world>>

\* Something changes at a provider; the namespace, the job or the image stays.
Change(x) ==
  /\ \E h \in Health \cup {Gone} : h # world[x] /\ world' = [world EXCEPT ![x] = h]
  /\ \A y \in Thing : Inside[y] = x => world'[x] # Gone
  /\ UNCHANGED <<catalogVars, graph, todo, whole, seen>>

Next1(r) == [todo EXCEPT ![r] = Tail(@)]

\* Faulty: an upsert that only creates.
UpsertNodeOnce(r, s) ==
  /\ node' = IF node[s.of] = Absent THEN [node EXCEPT ![s.of] = s.value] ELSE node
  /\ todo' = Next1(r)
  /\ UNCHANGED <<edge, whole>>

\* upsertResourceNode: what is there takes the new value.
UpsertNode(r, s) ==
  /\ node' = [node EXCEPT ![s.of] = s.value]
  /\ todo' = Next1(r)
  /\ UNCHANGED <<edge, whole>>

\* upsertResourceEdge: both nodes are there, and they are two.
UpsertEdge(r, s) ==
  /\ IF s.of # s.to /\ node[s.of] # Absent /\ node[s.to] # Absent
     THEN /\ edge' = edge \cup {<<s.of, s.to>>}
          /\ todo' = Next1(r)
          /\ UNCHANGED whole
     ELSE /\ todo' = [todo EXCEPT ![r] = <<>>]
          /\ whole' = whole \ {r}
          /\ UNCHANGED edge
  /\ UNCHANGED node

\* The row as it is now, with the path to it.
ReadAgain(r, s) ==
  /\ todo' = [todo EXCEPT ![r] = Expanded(s.of) \o Tail(@)]
  /\ UNCHANGED <<graph, whole>>

Register(r) ==
  /\ req[r].phase = "written"
  /\ todo[r] # <<>>
  /\ LET s == Head(todo[r])
     IN  CASE s.step = "node" -> UpsertNode(r, s)
           [] s.step = "edge" -> UpsertEdge(r, s)
           [] s.step = "read" -> ReadAgain(r, s)
  /\ UNCHANGED <<catalogVars, seen, world>>

\* A registration that throws is logged, and the request goes on.
RegistrationFails(r) ==
  /\ todo[r] # <<>>
  /\ todo' = [todo EXCEPT ![r] = <<>>]
  /\ whole' = whole \ {r}
  /\ UNCHANGED <<catalogVars, graph, seen, world>>

Respond(r) ==
  /\ todo[r] = <<>>
  /\ Answer(r)
  /\ UNCHANGED <<graph, todo, whole, seen, world>>

Leave(r) ==
  /\ Collect(r)
  /\ whole' = whole \ {r}
  /\ seen' = [seen EXCEPT ![r] = <<>>]
  /\ UNCHANGED <<graph, todo, world>>

Next ==
  \/ \E x \in Thing : Change(x)
  \/ \E r \in Request :
       \/ Ask(r) \/ Write(r) \/ Register(r) \/ RegistrationFails(r) \/ Respond(r) \/ Leave(r)
       \/ \E d \in Deployment, e \in Environment : Trigger(r, d, e)
       \/ \E kind \in Kinds : List(r, kind)

Spec == Init /\ [][Next]_vars
-----------------------------------------------------------------------------
Present(x) == node[x] # Absent

\* Ids are given once, rows keep their place, an edge has two ends (schema.prisma:477-526,
\* 931-996).
TypeOK ==
  /\ \A p \in Project : project[p] = NoRow \/ project[p].slug \in Slug
  /\ \A e \in Environment : environment[e] = NoRow \/ environment[e].slug \in Slug
  /\ ToSet(born) = {e \in Environment : environment[e] # NoRow} /\ IsInjective(born)
  /\ edge \subseteq Nodes \X Nodes
  /\ \A x, y \in Nodes : <<x, y>> \in edge => Present(x) /\ Present(y)
  /\ \A r \in Request : /\ req[r].phase \in Phase
                        /\ req[r].op \in Method \cup {"deployment", "inventory"}
                        /\ todo[r] # <<>> => req[r].phase = "written"

\* Wherever registrations stop and however they meet, the graph has no node without those it
\* hangs under: an environment has its project, a deployment its environment, a build its job
\* (resource-graph.service.ts:258-420).
NodesRooted ==
  /\ \A p \in Project : Present(p) => Present(Organization)
  /\ \A e \in Environment : Present(e) => Present(environment[e].of)
  /\ \A d \in Deployment : Present(d) => \E e \in Environment : Present(e)
  /\ \A x \in Thing : Present(x) =>
       /\ Present(Root(Kind[x]))
       /\ Kind[x] \in {"workload", "build"} => Present(Inside[x])

\* What a project or an environment looks like once it is registered.
ShowsProject(p) == node[p] = project[p].slug /\ <<Organization, p>> \in edge
ShowsEnvironment(e) ==
  /\ node[e] = environment[e].slug
  /\ ShowsProject(environment[e].of)
  /\ <<environment[e].of, e>> \in edge

\* A thing has its last health, if it has one, and its place; pods and services have none,
\* because no route lists them together with their namespaces.
ShowsThing(x, health) ==
  /\ node[x] = HealthOf(x, health)
  /\ CASE Kind[x] \in {"workload", "build"} -> <<Inside[x], x>> \in edge
       [] Kind[x] \in {"pod", "service"}    -> TRUE
       [] OTHER                             -> <<Root(Kind[x]), x>> \in edge

\* A registration that failed, or that an older one overtook, is made good by the next one
\* that runs alone: it leaves what it registers, and all that it hangs under, as the rows and
\* the provider have it (project.service.ts:60-184, environment.service.ts:35-167,
\* resource-graph.service.ts:258-618).
AloneRegistrationTruthful ==
  \A r \in whole :
    LET x == req[r].on
    IN  req[r].phase = "answered" /\ req[r].alone =>
          CASE req[r].op = "inventory"  -> \A y \in DOMAIN seen[r] : ShowsThing(y, seen[r][y])
            [] req[r].op = "deployment" -> ShowsEnvironment(req[r].of)
                                           /\ <<req[r].of, x>> \in edge
            [] x \in Project            -> ShowsProject(x)
            [] OTHER                    -> ShowsEnvironment(x)
=============================================================================
