---------------------------- MODULE MCDecisions -----------------------------
(***************************************************************************)
(* Instances of Operations and EvidenceReport, side by side: a behaviour   *)
(* is one of the component chosen at the start, while the other rests in   *)
(* its initial state. The components share nothing, so that nothing is     *)
(* lost by it. Model values serve twice, so that one symmetry set fits     *)
(* both.                                                                   *)
(***************************************************************************)
EXTENDS MCOperations

VARIABLES
  subject, \* the component that moves
  evdRows, evdDetail

evdVars == <<evdRows, evdDetail>>
allVars == <<subject, vars, evdVars>>
-----------------------------------------------------------------------------
\* Three operations of one provider and two people, windows of two rows and lists of one.
E == INSTANCE EvidenceReport WITH
       Provider <- {"DOCKER"}, Actor <- {w1, w2}, Window <- 2, Recent <- 2, Latest <- 1,
       Limit <- {1, 5}, Took <- <<1, 4, 2>>, MaxRows <- 3,
       MaxDecisions <- 2,
       rows <- evdRows, detail <- evdDetail

AllInit ==
  /\ subject \in {"operations", "evidence"}
  /\ Init /\ E!Init

AllNext ==
  /\ UNCHANGED subject
  /\ IF subject = "operations" THEN Next   ELSE UNCHANGED vars
  /\ IF subject = "evidence"   THEN E!Next ELSE UNCHANGED evdVars

AllSpec == AllInit /\ [][AllNext]_allVars
-----------------------------------------------------------------------------
\* Lists of operations leave out none they should show, agree with each other and add up, and
\* the detail of an operation never shows an incident without its cause (ops.service.ts:189-610).
EvidenceTells == subject = "evidence" => E!EvidenceTells
=============================================================================
