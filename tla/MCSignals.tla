----------------------------- MODULE MCSignals -----------------------------
(***************************************************************************)
(* Instances of Signals for TLC.                                           *)
(***************************************************************************)
EXTENDS Signals, TLC

CONSTANTS c1, s1, s2

Shows(state, health, marks) ==
  [state |-> state, health |-> health, exit |-> None, desired |-> None, marks |-> marks]

\* One container that recovers, fails in two ways, is relabelled (once with the condition it
\* had, once out of anybody's watch) and disappears.
OneLook == { Shows("running", "healthy", {"autoops"}), Shows("running", "unhealthy", {"autoops"}),
             Shows("dead", None, {"autoops"}), Shows("dead", None, {"watch"}),
             Shows("dead", None, {"watch", "ignore"}) }
OneName == [c \in Container |-> "web"]

\* Requests are interchangeable: every property is about safety.
Symmetry == Permutations(Scan)

\* Nothing archived: no scan tells an archived signal from a resolved one (Active).
NoneArchived == \A f \in Row : ~row[f].archived

\* A behaviour scans lists or, one after the other and before any list, checks the status.
ChecksApart ==
  (\E s \in Scan : scan[s].kind = "status" /\ scan[s].pc # "idle") \/ pending # {}
    \/ (\E f \in ProviderSignals : row[f].status # "NONE") =>
    /\ now = 0
    /\ \A c \in Container : world[c] = None \/ world[c].marks = {"watch"}
    /\ \A s \in Scan : Busy(s) => scan[s].kind = "status"
    /\ \A r, s \in Scan : scan[r].pc # "idle" /\ scan[s].pc # "idle" => r = s
    /\ \A f \in ContainerSignal : row[f].status \in {"NONE", "ACTIVE"}
=============================================================================
