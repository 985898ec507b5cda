--------------------------- MODULE EvidenceReport ---------------------------
(***************************************************************************)
(* The lists the console draws from the operations of an organization:     *)
(* the activity, the governance evidence with its summary, its latest      *)
(* lists and its export, the recent window of the observability page, and  *)
(* the detail of one operation, which is read in two queries at once.      *)
(*                                                                         *)
(* A list is taken from the newest rows by the columns the database knows, *)
(* cut at a window, and only then filtered by what is computed from a row. *)
(* Search and dates are filters like the others and are left out, as is    *)
(* the wording. Rows change as Operations and Incidents let them: two      *)
(* decisions may read a row while it waits, and the later one is written   *)
(* over whatever became of it.                                             *)
(***************************************************************************)
EXTENDS SequencesExt

CONSTANTS
  Provider, Actor,
  Window,      \* the most rows a governance query reads
  Recent,      \* the rows of the observability page
  Latest,      \* the length of its lists, and of the latest lists of the evidence
  Limit,       \* the limits that may be asked for
  Took,        \* how long each operation takes, in the order they are asked for
  MaxRows,     \* bound on the operations
  MaxDecisions,\* bound on the decisions that are begun
  None         \* no filter, no value

VARIABLES
  rows,        \* the operations, the newest first
  detail       \* the detail that is open: what its two queries have returned

vars == <<rows, detail>>
-----------------------------------------------------------------------------
Status   == {"PENDING_APPROVAL", "QUEUED", "RUNNING", "SUCCEEDED", "FAILED", "REJECTED"}
Approval == {"NOT_REQUIRED", "PENDING", "APPROVED", "REJECTED"}
Risk     == {"LOW", "HIGH"}

Filter ==
  [ provider : {None} \cup Provider, status : {None, "FAILED"}, risk : {None, "HIGH"},
    approval : {None, "PENDING"}, actor : {None} \cup Actor, limit : Limit ]

ApprovalStatus(row) ==
  IF row.rejectedBy # None \/ row.status = "REJECTED" THEN "REJECTED"
  ELSE IF row.approvedBy # None THEN "APPROVED"
  ELSE IF row.status = "PENDING_APPROVAL" THEN "PENDING"
  ELSE "NOT_REQUIRED"

Terminal(row) == row.status \in {"SUCCEEDED", "FAILED", "REJECTED"}
Take(s, n)    == SubSeq(s, 1, IF n < Len(s) THEN n ELSE Len(s))
Asked(v, x)   == v = None \/ v = x

\* What the database filters by.
ColumnsMatch(row, q) == Asked(q.provider, row.provider) /\ Asked(q.status, row.status)

\* The activity: cut at the limit. A source that is no provider has none.
Activity(q) ==
  Take(SelectSeq(rows, LAMBDA row : ColumnsMatch(row, q)), q.limit)

\* The rows a governance query reads.
GovernanceRecords(q) == Take(SelectSeq(rows, LAMBDA row : ColumnsMatch(row, q)), Window)

\* An actor is matched as requester, approver or rejecter.
EvidenceMatches(row, q) ==
  /\ Asked(q.risk, row.risk)
  /\ Asked(q.approval, ApprovalStatus(row))
  /\ q.actor # None => q.actor \in {row.by, row.approvedBy, row.rejectedBy}

\* Faulty: cut at the limit before the filter.
EvidenceCutFirst(q) ==
  SelectSeq(Take(GovernanceRecords(q), q.limit), LAMBDA row : EvidenceMatches(row, q))

Evidence(q) ==
  Take(SelectSeq(GovernanceRecords(q), LAMBDA row : EvidenceMatches(row, q)), q.limit)

\* The newest of the evidence that satisfy a test.
LatestOf(evidence, Test(_)) == Take(SelectSeq(evidence, Test), Latest)

LatestHighRisk(evidence) == LatestOf(evidence, LAMBDA row : row.risk = "HIGH")
LatestRejected(evidence) == LatestOf(evidence, LAMBDA row : row.status = "REJECTED")
LatestFailed(evidence)   == LatestOf(evidence, LAMBDA row : row.status = "FAILED")
LatestLinked(evidence)   == LatestOf(evidence, LAMBDA row : row.incident = "open")

\* Math.round of a quotient.
Rounded(n, d) == (2 * n + d) \div (2 * d)
Total(s)      == FoldSeq(+, 0, s)

Mean(s) == IF s = <<>> THEN None ELSE Rounded(Total(s), Len(s))
Median(s) ==
  LET sorted == SortSeq(s, <)
      middle == Len(s) \div 2
  IN IF s = <<>> THEN None
     ELSE IF Len(s) % 2 = 1 THEN sorted[middle + 1]
     ELSE Rounded(sorted[middle] + sorted[middle + 1], 2)

Durations(evidence) ==
  LET ended == SelectSeq(evidence, Terminal) IN [i \in DOMAIN ended |-> Took[ended[i].id]]

Breakdown(evidence, S, Of(_)) ==
  [x \in S |-> Len(SelectSeq(evidence, LAMBDA row : Of(row) = x))]

GovernanceSummary(evidence) ==
  [ total            |-> Len(evidence),
    status           |-> Breakdown(evidence, Status, LAMBDA row : row.status),
    provider         |-> Breakdown(evidence, Provider, LAMBDA row : row.provider),
    risk             |-> Breakdown(evidence, Risk, LAMBDA row : row.risk),
    approval         |-> Breakdown(evidence, Approval, ApprovalStatus),
    pendingApprovals |-> Len(SelectSeq(evidence, LAMBDA row : ApprovalStatus(row) = "PENDING")),
    rejected         |-> Len(SelectSeq(evidence, LAMBDA row : row.status = "REJECTED")),
    meanTime         |-> Mean(Durations(evidence)),
    medianTime       |-> Median(Durations(evidence)) ]

\* The export is the evidence, up to the window, for an owner or an admin.
Export(role, q) ==
  IF role \notin {"OWNER", "ADMIN"} THEN None
  ELSE LET evidence == Evidence([q EXCEPT !.limit = IF @ < Window THEN @ ELSE Window])
       IN [evidence |-> evidence, summary |-> GovernanceSummary(evidence)]

\* The observability page.
RecentRecords   == Take(rows, Recent)
RecentActive    == LatestOf(RecentRecords, LAMBDA row : ~Terminal(row))
RecentFailures  == LatestOf(RecentRecords, LAMBDA row : row.status = "FAILED")
RecentBreakdown == Breakdown(RecentRecords, Status, LAMBDA row : row.status)
-----------------------------------------------------------------------------
Closed == [of |-> None, row |-> None, incident |-> None]

Init == rows = <<>> /\ detail = Closed

Submit ==
  /\ Len(rows) < MaxRows
  /\ \E p \in Provider, risk \in Risk, by \in Actor :
       rows' = << [ id |-> Len(rows) + 1, provider |-> p, risk |-> risk, by |-> by,
                    status |-> IF risk = "HIGH" THEN "PENDING_APPROVAL" ELSE "QUEUED",
                    approvedBy |-> None, rejectedBy |-> None, deciding |-> 0, decided |-> 0,
                    working |-> 0, incident |-> "none" ] >> \o rows
  /\ UNCHANGED detail

Begun == Total([i \in DOMAIN rows |-> rows[i].deciding + rows[i].decided])

\* A decision reads the row while it waits.
BeginDecision(i) ==
  /\ rows[i].status = "PENDING_APPROVAL"
  /\ Begun < MaxDecisions
  /\ rows' = [rows EXCEPT ![i].deciding = @ + 1]
  /\ UNCHANGED detail

\* It is written by somebody else than the requester, over whatever the row says by then: the
\* columns of an earlier decision stay, and a rejection leaves an incident to be opened.
CommitApprove(i) ==
  /\ rows[i].deciding > 0
  /\ \E by \in Actor \ {rows[i].by} :
       rows' = [rows EXCEPT ![i].status = "QUEUED", ![i].approvedBy = by,
                            ![i].deciding = @ - 1, ![i].decided = @ + 1]
  /\ UNCHANGED detail

Due(incident) == IF incident = "none" THEN "due" ELSE incident

CommitReject(i) ==
  /\ rows[i].deciding > 0
  /\ \E by \in Actor \ {rows[i].by} :
       rows' = [rows EXCEPT ![i].status = "REJECTED", ![i].rejectedBy = by,
                            ![i].deciding = @ - 1, ![i].decided = @ + 1, ![i].incident = Due(@)]
  /\ UNCHANGED detail

\* A worker claims a queued row, and later writes its outcome by the row's id.
Claim(i) ==
  /\ rows[i].status = "QUEUED"
  /\ rows' = [rows EXCEPT ![i].status = "RUNNING", ![i].working = @ + 1]
  /\ UNCHANGED detail

Succeed(i) ==
  /\ rows[i].working > 0
  /\ rows' = [rows EXCEPT ![i].status = "SUCCEEDED", ![i].working = @ - 1]
  /\ UNCHANGED detail

Fail(i) ==
  /\ rows[i].working > 0
  /\ rows' = [rows EXCEPT ![i].status = "FAILED", ![i].working = @ - 1, ![i].incident = Due(@)]
  /\ UNCHANGED detail

\* The incident of an operation is opened after its failure is written, by the worker, or from
\* the signal of its rejection, whatever the row says by then.
OpenIncident(i) ==
  /\ rows[i].incident = "due"
  /\ rows' = [rows EXCEPT ![i].incident = "open"]
  /\ UNCHANGED detail

\* The detail of an operation: its row and its incident are read at once, in either order.
\* That of the first operation stands for all.
OpenDetail(i) ==
  /\ detail = Closed /\ rows[i].id = 1
  /\ detail' = [Closed EXCEPT !.of = rows[i].id]
  /\ UNCHANGED rows

ReadRow(i) ==
  /\ detail.of = rows[i].id /\ detail.row = None
  /\ detail' = [detail EXCEPT !.row = rows[i].status]
  /\ UNCHANGED rows

ReadIncident(i) ==
  /\ detail.of = rows[i].id /\ detail.incident = None
  /\ detail' = [detail EXCEPT !.incident = rows[i].incident = "open"]
  /\ UNCHANGED rows

Next ==
  \/ Submit
  \/ \E i \in DOMAIN rows :
       \/ BeginDecision(i) \/ CommitApprove(i) \/ CommitReject(i)
       \/ Claim(i) \/ Succeed(i) \/ Fail(i) \/ OpenIncident(i)
       \/ OpenDetail(i) \/ ReadRow(i) \/ ReadIncident(i)
-----------------------------------------------------------------------------
(* Properties.                                                             *)

Ids(s)       == {s[i].id : i \in DOMAIN s}
Newer(s, id) == {x \in Ids(s) : x > id}

\* A row that matches a query is listed, unless the list is full of newer ones or the window
\* was full of newer rows; what is listed matches, the newest first.
Complete(q, e) ==
  LET candidates == SelectSeq(rows, LAMBDA row : ColumnsMatch(row, q))
  IN /\ \A i \in DOMAIN e : ColumnsMatch(e[i], q) /\ EvidenceMatches(e[i], q)
     /\ \A i, j \in DOMAIN e : i < j => e[i].id > e[j].id
     /\ \A i \in DOMAIN candidates :
          EvidenceMatches(candidates[i], q) /\ candidates[i].id \notin Ids(e) =>
            \/ Cardinality(Newer(e, candidates[i].id)) = q.limit
            \/ Cardinality(Newer(candidates, candidates[i].id)) >= Window

\* A query that needs only columns lists what the activity lists.
AgreesWithActivity(q, e) ==
  q.risk = None /\ q.approval = None /\ q.actor = None /\ q.limit <= Window => e = Activity(q)

\* Every way to break a list down adds up to it, whoever waits for a decision waits for
\* approval, the two counts of rejections agree unless an operation of the list was decided
\* twice, and the times lie between the shortest and the longest.
AddsUp(e) ==
  LET s == GovernanceSummary(e)
      t == ToSet(Durations(e))
      sum(b) == FoldFunction(+, 0, b)
      within(v) == \E lo, hi \in t : lo <= v /\ v <= hi
  IN /\ \A b \in {sum(s.status), sum(s.provider), sum(s.risk), sum(s.approval)} : b = s.total
     /\ s.pendingApprovals = s.status["PENDING_APPROVAL"]
     /\ s.rejected <= s.approval["REJECTED"]
     /\ (\A i \in DOMAIN e : e[i].decided <= 1) => s.rejected = s.approval["REJECTED"]
     /\ t # {} => within(s.meanTime) /\ within(s.medianTime)

\* A row of the evidence is missing from a latest list only for newer ones of its kind.
LatestComplete(e) ==
  LET Full(list, Test(_)) ==
        \A i \in DOMAIN e : Test(e[i]) /\ e[i].id \notin Ids(list) =>
          Cardinality(Newer(list, e[i].id)) = Latest
  IN /\ Full(LatestHighRisk(e), LAMBDA row : row.risk = "HIGH")
     /\ Full(LatestRejected(e), LAMBDA row : row.status = "REJECTED")
     /\ Full(LatestFailed(e), LAMBDA row : row.status = "FAILED")
     /\ Full(LatestLinked(e), LAMBDA row : row.incident = "open")

\* The export holds what the page shows for the same query, for those who may export.
ExportAgrees(q, e) ==
  /\ Export("MEMBER", q) = None
  /\ q.limit <= Window => Export("ADMIN", q).evidence = e

\* No row is both under way and failed; every recent one is counted once.
RecentAddsUp ==
  /\ FoldFunction(+, 0, RecentBreakdown) = Len(RecentRecords)
  /\ Ids(RecentActive) \cap Ids(RecentFailures) = {}

\* Whatever order its two queries return in, a detail that shows an incident is of an
\* operation that has failed or was rejected by then, or was decided again since.
DetailExplained ==
  detail.incident = TRUE =>
    \E i \in DOMAIN rows :
      /\ rows[i].id = detail.of
      /\ rows[i].status \in {"FAILED", "REJECTED"} \/ rows[i].decided > 1

EvidenceTells ==
  /\ DetailExplained
  /\ detail = Closed => \* the lists do not look at it
       /\ RecentAddsUp
       /\ \A q \in Filter :
            LET e == Evidence(q)
            IN /\ Complete(q, e) /\ AgreesWithActivity(q, e) /\ AddsUp(e)
               /\ LatestComplete(e) /\ ExportAgrees(q, e)
=============================================================================
