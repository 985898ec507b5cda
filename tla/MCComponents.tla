---------------------------- MODULE MCComponents ----------------------------
(***************************************************************************)
(* An instance of Components for TLC.                                      *)
(***************************************************************************)
EXTENDS Components

CONSTANTS d1, e1, r1, r2, w1, w2, u1, u2, q1, q2, c1, c2, o1, o2, l1, l2

\* Six operations: the way of one image and a way back, or parts of two that overlap; the plan
\* that only adds, and the plan that changes.
TheTexts ==
  {text \in [add : {0, 3}, change : {0, 1}, destroy : {0}, imports : {FALSE},
             marks : {{"log-group"}}, desired : {None}, cpu : {None}, memory : {None}] :
     text.add + text.change \in {1, 3}}

\* The AWS page of an owner, of a member, where inventories are disabled, and where less is
\* configured: no push, no repository, not all files, and a first target without images.
ThePlaces == [app |-> 2, net |-> 1]

Owned ==
  [ role |-> "OWNER", enabled |-> TRUE,
    config |-> {"region", "accessKey", "secretKey", "account", "bucket", "lockTable",
                "stateRegion", "accounts", "regions", "push"},
    granted |-> "CONNECTED", stored |-> TRUE, workspaces |-> {"app", "net"},
    allowed |-> {"app"}, tool |-> TRUE, files |-> "all", applyEnabled |-> TRUE,
    ecr |-> {"target", "repository", "exists"} ]

ThePageSettings ==
  { Owned, [Owned EXCEPT !.role = "MEMBER"], [Owned EXCEPT !.enabled = FALSE],
    [Owned EXCEPT !.config = @ \ {"push"}, !.allowed = {"app", "net"}, !.files = "some",
                  !.ecr = {"target", "repository"}] }

\* An image that was pushed, and a plan that was just made.
TheWorlds ==
  { [reach |-> "CONNECTED", images |-> images, plans |-> plans, evaluation |-> "PASSED"] :
      <<images, plans>> \in
        { <<{[env |-> "staging", stage |-> "pushed"]}, <<>>>>,
          <<{}, <<[env |-> "staging", verdict |-> "eligible", age |-> 0]>>>> } }

\* The reports that come: what a plan is offered by, and what an image or an apply is.
TheLosses ==
  LET all == {"identity", "readiness", "permissions", "remoteState", "ecr", "plan",
              "guardrails", "apply", "evaluations", "images"}
  IN {all \ {"plan", "images", "identity"}, all \ {"apply", "ecr", "evaluations"}}

\* Two operations of every route: targets and words that are admitted, and those that
\* are not; one job is listed by the API alone.
Wish(route, target, replicas, token) ==
  [route |-> route, target |-> target, replicas |-> replicas, token |-> token]

TheWishes ==
  { Wish("scale", "default", 3, "SCALE"), Wish("scale", "kube-system", 1, "SCALE"),
    Wish("scale", "default", 9, "SCALE"),
    Wish("rollout", "default", 0, "ROLLOUT"), Wish("rollout", "other", 0, "ROLLOUT"),
    Wish("restart", "kube-system", 0, "RESTART"), Wish("restart", "kube-system", 0, "ROLLOUT"),
    Wish("apply", "kube-system", 0, "APPLY"),
    Wish("build", "api", 0, "BUILD"), Wish("build", "old", 0, "BUILD"),
    Wish("container", "web", 0, "RESTART"), Wish("terraform", "net", 0, "APPLY"),
    Wish("playbook", "site", 0, "RUN") }

\* One pod, of the things of each kind that are observed.
ThePods == {[name |-> "web", place |-> "blue"]}

\* Two reports around one change of one provider, made for an owner, for an admin without
\* builds and AWS, for a member, whom the role bars, and for an owner whom a policy does.
TheSettings ==
  { [role |-> role, allowed |-> allowed, jobs |-> jobs, awsEnabled |-> aws] :
      <<role, allowed, jobs, aws>> \in
        { <<"OWNER", TRUE, TRUE, TRUE>>, <<"ADMIN", TRUE, FALSE, FALSE>>,
          <<"MEMBER", TRUE, TRUE, TRUE>>, <<"OWNER", FALSE, TRUE, TRUE>> } }
=============================================================================
