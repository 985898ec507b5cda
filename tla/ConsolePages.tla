---------------------------- MODULE ConsolePages ----------------------------
(***************************************************************************)
(* The pages of the console, as far as they show what the API has: each    *)
(* loads its sections by GETs, in steps that wait for each other, again    *)
(* on a timer, on a click and after an action of its own. api.get lets a   *)
(* GET that is asked for again join the one under way, so that loads which *)
(* overlap share answers.                                                  *)
(*                                                                         *)
(* What the API has is counted by the changes it went through, and an      *)
(* answer is the count it was given at. Sections that a page treats alike  *)
(* are represented by two of them; wording, tabs, and the search in what   *)
(* is loaded are left out.                                                 *)
(***************************************************************************)
EXTENDS SequencesExt

CONSTANTS
  MaxWorld,    \* bound on the changes at the API
  MaxLoads,    \* bound on the loads of the page under way at once
  MaxTroubles, \* bound on failing requests and on shifts of a provider's standing
  None         \* nothing

VARIABLES
  page,     \* what the page is
  world,    \* the changes so far
  standing, \* how the provider of the page stands
  flight,   \* the GETs under way: sent, or answered and not yet delivered
  loads,    \* the loads of the page, the oldest first
  shown,    \* what each section shows
  act,      \* the action of the page
  told,     \* history: the latest action the page was told is done
  owes,     \* history: what the page has to show since it loaded after that
  troubles

network == <<world, standing, flight, troubles>>
vars    == <<page, network, loads, shown, act, told, owes>>
-----------------------------------------------------------------------------
Standing == {"connected", "down", "blocked"}
Section  == {"status", "summary", "one", "other", "activity"}

Never == {}

\* A step of a load. "stops": the first failure ends the load, what is shown stays.
\* "keeps", "empties": the sections settle one by one, a failure leaves or empties its own.
\* At once: the sections are shown when all of them have settled.
Step(sections, fails, atOnce) ==
  [sections |-> sections, fails |-> fails, atOnce |-> atOnce, ends |-> Never, skips |-> Never]

All           == Step({"one", "other"}, "stops", TRUE)
Only          == Step({"one"}, "stops", TRUE)
Each(how)     == Step({"one", "other"}, how, FALSE)
Activity(how) == Step({"activity"}, how, FALSE)

\* A status that ends the load, and the summary of a cluster that skips the next step.
Gate(ends)   == [Step({"status"}, "stops", TRUE) EXCEPT !.ends = ends]
Skip(skips)  == [Step({"summary"}, "stops", TRUE) EXCEPT !.skips = skips]
Tolerant(g)  == [g EXCEPT !.fails = "keeps"]

\* A page: its steps, what starts a load beside the opening, and what an action leaves of it.
Page(steps, polls, retry, acts) ==
  [steps |-> steps, polls |-> polls, retry |-> retry, acts |-> acts,
   forgets |-> FALSE, clears |-> FALSE]

\* Nine GETs, allSettled; polled; Retry is offered while a load is under way.
DashboardOverview ==
  Page(<<[Each("empties") EXCEPT !.atOnce = TRUE]>>, "always", TRUE, FALSE)

\* Five GETs, then the activity; polled; decisions.
OperationsHub == Page(<<All, Activity("keeps")>>, "always", TRUE, TRUE)

\* The operation, then the worker; polled while it is active; decisions and retries.
OperationRecord == Page(<<Only, Activity("empties")>>, "active", FALSE, TRUE)

Kubernetes ==
  Page(<<Gate({"blocked"}), Skip({"blocked", "down"}), All, Activity("keeps")>>,
       "never", TRUE, TRUE)

Docker == Page(<<Tolerant(Gate({"blocked"})), Each("keeps")>>, "never", TRUE, TRUE)

\* A refusal empties the inventory.
Jenkins ==
  [Page(<<Gate({"blocked"}), All, Activity("empties")>>, "never", TRUE, TRUE)
   EXCEPT !.clears = TRUE]

IntegrationsHub ==
  Page(<<[Each("empties") EXCEPT !.atOnce = TRUE]>>, "never", FALSE, FALSE)

Infrastructure == Page(<<All>>, "never", FALSE, TRUE)

ArgoCd == Page(<<Gate({"blocked", "down"}), All>>, "never", FALSE, FALSE)

GitHubActions == Page(<<Gate({"blocked"}), All>>, "never", FALSE, FALSE)

\* Correlation is the action of the list.
IncidentsList == Page(<<All>>, "never", FALSE, TRUE)

\* What is done to an incident first empties its record.
IncidentRecord == [Page(<<All>>, "never", FALSE, TRUE) EXCEPT !.forgets = TRUE]

GovernanceCenter == Page(<<Only>>, "never", TRUE, FALSE)

DeploymentsList == Page(<<Only>>, "never", FALSE, TRUE)

DeploymentRecord == Page(<<All>>, "never", TRUE, FALSE)

ResourcesList == Page(<<All>>, "never", FALSE, FALSE)

Pages == {DashboardOverview, OperationsHub, OperationRecord, Kubernetes, Docker, Jenkins,
          IntegrationsHub, Infrastructure, ArgoCd, GitHubActions, IncidentsList, IncidentRecord,
          GovernanceCenter, DeploymentsList, DeploymentRecord, ResourcesList}

Gated == \E i \in DOMAIN page.steps : page.steps[i].ends # Never
Parts == UNION {page.steps[i].sections : i \in DOMAIN page.steps}
-----------------------------------------------------------------------------
Sent      == [is |-> "sent"]
Failed    == [is |-> "failed"]
Forbidden == [is |-> "forbidden"]
Idle      == [is |-> "idle"]
Reloading == [is |-> "reloading"]
Done(n)   == [is |-> "done", of |-> n]
Nothing   == [x \in Section |-> None]

Good(answer) == answer # None /\ answer.is = "good"

Get(x, k) == [of |-> x, answer |-> Sent, who |-> {k}]

\* Faulty: every GET goes out anew.
AskedAnew(gets, sections, k) == gets \cup {Get(x, k) : x \in sections}

\* api.get: load k asks for sections, and joins the GETs that are under way.
Asked(gets, sections, k) ==
  {IF g.of \in sections THEN [g EXCEPT !.who = @ \cup {k}] ELSE g : g \in gets}
  \cup {Get(x, k) : x \in sections \ {g.of : g \in gets}}

Joins(gets, sections) == \E g \in gets : g.of \in sections

Starts(own) ==
  LET sections == page.steps[1].sections
  IN  /\ Len(loads) < MaxLoads
      /\ loads' = Append(loads, [at |-> 1, got |-> Nothing, own |-> own,
                                 fresh |-> ~Joins(flight, sections)])
      /\ flight' = Asked(flight, sections, Len(loads) + 1)

Init ==
  /\ page \in Pages
  /\ world = 0
  /\ standing = "connected"
  /\ flight = Asked({}, page.steps[1].sections, 1)
  /\ loads = <<[at |-> 1, got |-> Nothing, own |-> 0, fresh |-> TRUE]>>
  /\ shown = Nothing
  /\ act = Idle
  /\ told = 0 /\ owes = 0
  /\ troubles = 0

-----------------------------------------------------------------------------
\* What others do: the data of the page change.
Change ==
  /\ world < MaxWorld
  /\ world' = world + 1
  /\ UNCHANGED <<page, standing, flight, loads, shown, act, told, owes, troubles>>

\* The provider of the page goes down, is blocked by the organization, or comes back.
Shift ==
  /\ Gated
  /\ standing' \in Standing \ {standing}
  /\ troubles < MaxTroubles
  /\ troubles' = troubles + 1
  /\ UNCHANGED <<page, world, flight, loads, shown, act, told, owes>>

Answers(g, answer) == flight' = (flight \ {g}) \cup {[g EXCEPT !.answer = answer]}

\* The API answers: the inventory of a blocked provider is refused.
Serve(g) ==
  /\ g.answer = Sent
  /\ Answers(g, IF standing = "blocked" /\ g.of \in {"summary", "one", "other"}
                   /\ Gated
                THEN Forbidden
                ELSE [is |-> "good", world |-> world,
                      standing |-> IF g.of \in {"status", "summary"} THEN standing ELSE None])
  /\ UNCHANGED <<page, world, standing, loads, shown, act, told, owes, troubles>>

Fail(g) ==
  /\ g.answer = Sent
  /\ troubles < MaxTroubles
  /\ troubles' = troubles + 1
  /\ Answers(g, Failed)
  /\ UNCHANGED <<page, world, standing, loads, shown, act, told, owes>>

-----------------------------------------------------------------------------
\* The console in the middle of a delivery: what it shows, its loads and those that are over,
\* the GETs under way.
Version(answer) == IF Good(answer) THEN answer.world ELSE None

\* What the sections show of what a load got.
Show(c, sections, load) ==
  [c EXCEPT !.shown =
     [x \in Section |->
        IF x \notin sections THEN @[x]
        ELSE IF Good(load.got[x]) THEN Version(load.got[x])
        ELSE IF page.steps[load.at].fails = "empties" THEN None ELSE @[x]]]

\* Sections that say nothing any more.
Clear(c, sections) ==
  [c EXCEPT !.shown = [x \in Section |-> IF x \in sections THEN None ELSE @[x]]]

\* Load k goes on with step i, or is over.
Goes(c, k, i) ==
  IF i \in DOMAIN page.steps
  THEN LET sections == page.steps[i].sections
       IN  [c EXCEPT !.loads[k].at = i, !.loads[k].got = Nothing,
                     !.loads[k].fresh = @ /\ ~Joins(c.flight, sections),
                     !.flight = Asked(@, sections, k)]
  ELSE [c EXCEPT !.over = @ \cup {k}]

Stops(c, k) == [c EXCEPT !.loads[k].fresh = FALSE, !.over = @ \cup {k}]

\* Load k has the answer to x: the step it is at may be over.
Proceeds(c, k, x) ==
  LET load   == c.loads[k]
      step   == page.steps[load.at]
      later  == UNION {page.steps[i].sections : i \in (load.at + 1)..Len(page.steps)}
      bad    == ~Good(load.got[x])
      over   == \A y \in step.sections : load.got[y] # None
      stale  == [c EXCEPT !.loads[k].fresh = @ /\ ~bad]
      tells  == Show(stale, IF ~step.atOnce THEN {x} ELSE IF over THEN step.sections ELSE {},
                     load)
      closed == ~bad /\ load.got[x].standing \in step.ends
      skips  == ~bad /\ load.got[x].standing \in step.skips
  IN  IF bad /\ step.fails = "stops"
      THEN Stops(IF page.clears /\ load.got[x] = Forbidden
                 THEN Clear(c, {"one", "other"}) ELSE c, k)
      ELSE IF closed THEN Stops(Clear(tells, later \ {"activity"}), k)
      ELSE IF ~over THEN tells
      ELSE IF skips
      THEN LET rest == Clear(tells, page.steps[load.at + 1].sections)
           IN  Goes([rest EXCEPT !.loads[k].fresh = FALSE], k, load.at + 2)
      ELSE Goes(tells, k, load.at + 1)

\* One answer is delivered to every load that waits for it, in the order in which they asked.
Delivered(g) ==
  LET took(k) == IF k \in g.who THEN [loads[k] EXCEPT !.got[g.of] = g.answer] ELSE loads[k]
      before  == [shown |-> shown, loads |-> [k \in DOMAIN loads |-> took(k)],
                  flight |-> flight \ {g}, over |-> {}]
  IN  FoldLeft(LAMBDA c, k : Proceeds(c, k, g.of), before, SetToSortSeq(g.who, <))

\* Loads that are over wait for nothing; the others keep their order.
Place(c, k) == Cardinality((1..k) \ c.over)
Remaining(c) ==
  LET going == DOMAIN loads \ c.over
  IN  [i \in 1..Cardinality(going) |-> c.loads[CHOOSE k \in going : Place(c, k) = i]]
Waiting(c) ==
  {[g EXCEPT !.who = {Place(c, k) : k \in @ \ c.over}] : g \in c.flight}

Deliver(g) ==
  /\ g.answer # Sent
  /\ \E c \in {Delivered(g)} :
       /\ shown' = c.shown
       /\ loads' = Remaining(c)
       /\ flight' = Waiting(c)
       /\ owes' = Max({owes} \cup {c.loads[k].own : k \in {j \in c.over : c.loads[j].fresh}})
       /\ act' = IF \E k \in c.over : c.loads[k].own > 0 THEN Idle ELSE act
  /\ UNCHANGED <<page, world, standing, told, troubles>>

-----------------------------------------------------------------------------
\* The timer of a polled page; that of an operation runs while what is shown is active, and
\* the last change settles it.
Polls ==
  \/ page.polls = "always"
  \/ page.polls = "active" /\ shown["one"] # None /\ shown["one"] < MaxWorld

Poll ==
  /\ Polls
  /\ Starts(0)
  /\ UNCHANGED <<page, world, standing, shown, act, told, owes, troubles>>

\* Refresh and Retry.
Refresh ==
  /\ loads = <<>> \/ page.retry
  /\ Starts(0)
  /\ UNCHANGED <<page, world, standing, shown, act, told, owes, troubles>>

\* An action is confirmed: its button stays disabled until the load that follows is over.
Act ==
  /\ page.acts /\ act = Idle
  /\ act' = Sent
  /\ UNCHANGED <<page, network, loads, shown, told, owes>>

Carry ==
  /\ act = Sent
  /\ world < MaxWorld
  /\ world' = world + 1
  /\ act' = Done(world + 1)
  /\ UNCHANGED <<page, standing, flight, troubles, loads, shown, told, owes>>

\* It is refused, or its answer is lost.
ActFails ==
  /\ act.is \in {"sent", "done"}
  /\ troubles < MaxTroubles
  /\ troubles' = troubles + 1
  /\ act' = Idle
  /\ UNCHANGED <<page, world, standing, flight, loads, shown, told, owes>>

\* Faulty: the page does not wait for the answer before it loads.
ReloadEarly ==
  /\ act = Sent /\ world < MaxWorld
  /\ Starts(world + 1)
  /\ UNCHANGED <<page, world, standing, shown, act, told, owes, troubles>>

\* It is done, and the page loads.
Reload ==
  /\ act.is = "done"
  /\ Starts(act.of)
  /\ told' = act.of
  /\ act' = Reloading
  /\ shown' = IF page.forgets THEN Nothing ELSE shown
  /\ UNCHANGED <<page, world, standing, owes, troubles>>

Next ==
  \/ Change \/ Shift \/ Poll \/ Refresh \/ Act \/ Carry \/ ActFails \/ Reload
  \/ \E g \in flight : Serve(g) \/ Fail(g) \/ Deliver(g)

Spec == Init /\ [][Next]_vars
-----------------------------------------------------------------------------
\* However loads overlap, no section falls back to what it showed before: a later load joins
\* the GETs of an earlier one, so that no older answer comes after a younger (api.ts:81-110).
NeverGoesBack ==
  [][\A x \in Section : shown[x] # None /\ shown'[x] # None => shown'[x] >= shown[x]]_vars

\* A page that loaded after its own action, by GETs sent after the answer, shows that action
\* from then on, whatever other loads were or are under way (the handlers that post and load).
OwnActionShown == \A x \in Parts : shown[x] # None => shown[x] >= owes
=============================================================================
