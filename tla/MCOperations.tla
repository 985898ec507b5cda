---------------------------- MODULE MCOperations ----------------------------
(***************************************************************************)
(* Instances of Operations for TLC.                                        *)
(***************************************************************************)
EXTENDS OperationEvidence, TLC

CONSTANTS member, admin, owner, r1, r2, r3, w1, w2, o1, o2, k1

MCRoleOf == [u \in User |-> CASE u = member -> "MEMBER"
                              [] u = admin  -> "ADMIN"
                              [] u = owner  -> "OWNER"]

Ask(type, provider, token) ==
  [ type |-> type, provider |-> provider, production |-> FALSE, replicas |-> 0,
    listed |-> TRUE, token |-> token ]

Start       == Ask("DOCKER_CONTAINER_START", "DOCKER", "START")
Restart     == Ask("DOCKER_CONTAINER_RESTART", "DOCKER", "RESTART")
Promote     == Ask("AWS_ECS_RELEASE_PROMOTE", "AWS", "PROMOTE")
BigScale    == [Ask("KUBERNETES_DEPLOYMENT_SCALE", "KUBERNETES", "SCALE")
                  EXCEPT !.replicas = 3]
KubeSystem  == [Ask("KUBERNETES_DEPLOYMENT_RESTART", "KUBERNETES", "ROLLOUT")
                  EXCEPT !.listed = FALSE]
ManifestApply == Ask("KUBERNETES_MANIFEST_APPLY", "KUBERNETES", "APPLY")

GatedTarget  == {Restart}
MixedTarget  == {Start, Restart}
PolicyTarget == {Start, Restart, BigScale, KubeSystem, Promote, ManifestApply}

\* Requests and worker slots are interchangeable in the safety runs.
SlotSymmetry == Permutations(Request) \cup Permutations(Worker)
=============================================================================
