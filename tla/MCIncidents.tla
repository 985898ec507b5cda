---------------------------- MODULE MCIncidents ----------------------------
(***************************************************************************)
(* Instances of Incidents for TLC.                                         *)
(***************************************************************************)
EXTENDS Incidents, TLC

CONSTANTS o1, n1, h1, h2, i1, i2, i3

DockerSignal(sev) ==
  [ source |-> "DOCKER", group |-> "docker-context", resource |-> n1,
    operation |-> None, deployment |-> None, severity |-> sev ]

\* One container seen with three severities, and the rejection of an operation.
Degraded  == DockerSignal(WARNING)
Failing   == DockerSignal(ERROR)
Exited    == DockerSignal(CRITICAL)
Rejection == [ source |-> "AUTOOPS", group |-> "APPROVAL_REJECTED", resource |-> None,
               operation |-> o1, deployment |-> None, severity |-> WARNING ]

MCSignal == {Degraded, Failing, Exited, Rejection}
MCFailureSeverity == [o \in Operation |-> ERROR]

Symmetry == Permutations(Handler) \cup Permutations(Incident)
=============================================================================
