--------------------------- MODULE MCAwsReleases ---------------------------
(***************************************************************************)
(* Instances of AwsReleases for TLC.                                       *)
(***************************************************************************)
EXTENDS AwsReleases

\* A plan that adds a log group, and one that imports a resource and destroys another.
Adds    == PlanText(3, 0, 0, FALSE, {"log-group"}, None, None, None)
Imports == PlanText(0, 0, 1, TRUE, {}, None, None, None)

AddingText    == {Adds}
ImportingText == {Adds, Imports}
=============================================================================
