------------------------ MODULE OperationGovernance ------------------------
(***************************************************************************)
(* What the controlled-operation pipeline promises to an auditor, with no  *)
(* queue, no database race and no failure in sight: a requester submits an *)
(* operation; a gated one gains one authorization each time somebody who   *)
(* may approve, and who is not its requester, approves it and is named as  *)
(* its approver; an ungated one has exactly one; and every run consumes    *)
(* one authorization of its own. Operations implements this under every    *)
(* interleaving and fault it models.                                       *)
(***************************************************************************)
EXTENDS Naturals

CONSTANTS
  Op,        \* operations
  User,      \* people of the organization
  Submitters,\* those who may request
  Approvers, \* those who may approve
  None       \* nobody yet

VARIABLES
  requester, \* who asked for the operation, None while it does not exist
  approver,  \* who approved it last, None before the first approval
  gated,     \* does it need somebody else's approval
  approvals, \* approvals granted so far
  runs       \* runs begun so far

govVars == <<requester, approver, gated, approvals, runs>>

Budget(o) == IF gated[o] THEN approvals[o] ELSE 1

Init ==
  /\ requester = [o \in Op |-> None]
  /\ approver  = [o \in Op |-> None]
  /\ gated     = [o \in Op |-> FALSE]
  /\ approvals = [o \in Op |-> 0]
  /\ runs      = [o \in Op |-> 0]

Submit(o, u, g) ==
  /\ requester[o] = None
  /\ u \in Submitters
  /\ requester' = [requester EXCEPT ![o] = u]
  /\ gated'     = [gated EXCEPT ![o] = g]
  /\ UNCHANGED <<approver, approvals, runs>>

Approve(o, u) ==
  /\ requester[o] # None
  /\ gated[o]
  /\ u \in Approvers
  /\ u # requester[o]
  /\ approver'  = [approver EXCEPT ![o] = u]
  /\ approvals' = [approvals EXCEPT ![o] = @ + 1]
  /\ UNCHANGED <<requester, gated, runs>>

Run(o) ==
  /\ requester[o] # None
  /\ runs[o] < Budget(o)
  /\ runs' = [runs EXCEPT ![o] = @ + 1]
  /\ UNCHANGED <<requester, approver, gated, approvals>>

Next ==
  \E o \in Op :
    \/ \E u \in User, g \in BOOLEAN : Submit(o, u, g)
    \/ \E u \in User : Approve(o, u)
    \/ Run(o)

Spec == Init /\ [][Next]_govVars
=============================================================================
