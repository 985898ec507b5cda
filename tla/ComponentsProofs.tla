-------------------------- MODULE ComponentsProofs --------------------------
(***************************************************************************)
(* Proofs about the components side by side: for any operations, slots,    *)
(* late decisions and requests of the providers, any lists of namespaces   *)
(* and jobs and any policy (P); any number of accounts, tokens and         *)
(* requests of a tab (S); any number of containers and open pages of an    *)
(* incident (R); anything observed of Kubernetes and Jenkins (K); any      *)
(* reports, one after the other, of the providers (T); and any choice on   *)
(* a page (C). With AwsReleasesProofs (A, W) and DeploymentsProofs,        *)
(* whatever component moves keeps its properties.                          *)
(***************************************************************************)
EXTENDS AwsReleasesProofs, DeploymentsProofs

\* The cardinality ProviderActions counts with is the one of the library.
LEMMA ActionsCardinality == \A set : P!Cardinality(set) = Cardinality(set)
BY DEF P!Cardinality, Cardinality

-----------------------------------------------------------------------------
(* ProviderActions: the parts of the invariant                             *)

GatesPart   == \A o \in ActOp : P!GatesSound(o)
OutcomePart == \A o \in ActOp : P!OutcomeSound(o)
SlotPart    == \A s \in Worker : P!SlotSound(s)
ItemPart    == \A i \in DOMAIN actQueue : P!ItemSound(i)

\* The parts by name.
LEMMA ActionsParts == P!ActionsInv <=> P!TypeOK /\ GatesPart /\ OutcomePart /\ SlotPart /\ ItemPart
BY DEF P!ActionsInv, GatesPart, OutcomePart, SlotPart, ItemPart

\* The items of the queue by their parts.
LEMMA ItemTypes ==
  ASSUME P!TypeOK
  PROVE  \A k \in DOMAIN actQueue :
           /\ actQueue[k] \in P!Item /\ actQueue[k].job \in P!Jobs
           /\ actQueue[k].of \subseteq ActOp /\ actQueue[k].build \in Nat
<1>1. actQueue \in Seq(P!Item)
  BY DEF P!TypeOK
<1>2. ASSUME NEW k \in DOMAIN actQueue PROVE actQueue[k] \in P!Item
  BY <1>1, <1>2
<1> QED
  BY <1>2 DEF P!Item

\* A sequence of which one element changes.
LEMMA QueueUpdated ==
  ASSUME NEW V, NEW q \in Seq(V), NEW i \in DOMAIN q, NEW x \in V,
         NEW r, r = [q EXCEPT ![i] = x]
  PROVE  /\ r \in Seq(V) /\ DOMAIN r = DOMAIN q
         /\ \A k \in DOMAIN q : r[k] = IF k = i THEN x ELSE q[k]
OBVIOUS

\* Slots are finitely many, so that those calling for an operation are counted.
LEMMA CallingCounted ==
  ASSUME IsFiniteSet(Worker)
  PROVE  \A o : IsFiniteSet(P!Calling(o)) /\ P!Cardinality(P!Calling(o)) \in Nat
<1>1. ASSUME NEW o PROVE P!Calling(o) \subseteq Worker
  BY DEF P!Calling
<1> QED
  BY <1>1, FS_Subset, ActionsCardinality, FS_CardinalityType

\* A slot that does anything but begin a call leaves those that call, if it was one of them.
LEMMA CallingLeft ==
  ASSUME IsFiniteSet(Worker), P!TypeOK, NEW s \in Worker, NEW x \in P!Slot, x.step # "calling",
         actRun' = [actRun EXCEPT ![s] = x]
  PROVE  \A o : /\ P!Cardinality(P!Calling(o)') \in Nat
               /\ P!Cardinality(P!Calling(o)') =
                    P!Cardinality(P!Calling(o))
                      - (IF actRun[s].op = o /\ actRun[s].step = "calling" THEN 1 ELSE 0)
<1>1. \A r \in Worker : actRun'[r] = IF r = s THEN x ELSE actRun[r]
  BY DEF P!TypeOK
<1>2. ASSUME NEW o PROVE P!Calling(o)' = P!Calling(o) \ {s}
  BY <1>1 DEF P!Calling
<1>3. ASSUME NEW o PROVE s \in P!Calling(o) <=> actRun[s].op = o /\ actRun[s].step = "calling"
  BY DEF P!Calling
<1> QED
  BY <1>2, <1>3, CallingCounted, FS_RemoveElement, FS_CardinalityType, ActionsCardinality

\* A slot that was idle and begins a call is one more.
LEMMA CallingJoined ==
  ASSUME IsFiniteSet(Worker), P!TypeOK, NEW s \in Worker, NEW x \in P!Slot,
         x.step = "calling", actRun[s].step # "calling", actRun' = [actRun EXCEPT ![s] = x]
  PROVE  \A o : P!Cardinality(P!Calling(o)') =
                  P!Cardinality(P!Calling(o)) + (IF x.op = o THEN 1 ELSE 0)
<1>1. \A r \in Worker : actRun'[r] = IF r = s THEN x ELSE actRun[r]
  BY DEF P!TypeOK
<1>2. ASSUME NEW o
      PROVE  /\ x.op = o => P!Calling(o)' = P!Calling(o) \cup {s}
             /\ x.op # o => P!Calling(o)' = P!Calling(o)
             /\ s \notin P!Calling(o)
  BY <1>1 DEF P!Calling
<1>3. ASSUME NEW o
      PROVE  Cardinality(P!Calling(o)') = Cardinality(P!Calling(o)) + (IF x.op = o THEN 1 ELSE 0)
  <2>1. IsFiniteSet(P!Calling(o)) /\ Cardinality(P!Calling(o)) \in Nat
    BY CallingCounted, ActionsCardinality
  <2>2. CASE x.op = o
    BY <1>2, <2>1, <2>2, FS_AddElement
  <2>3. CASE x.op # o
    BY <1>2, <2>1, <2>3
  <2> QED
    BY <2>2, <2>3
<1> QED
  BY <1>3, ActionsCardinality

\* What no slot does changes no count.
LEMMA CallingKept ==
  ASSUME UNCHANGED actRun PROVE \A o : P!Calling(o)' = P!Calling(o)
BY DEF P!Calling

\* An operation that is asked for has done nothing yet.
LEMMA AskedSound ==
  ASSUME IsFiniteSet(Worker), P!ActionsInv, NEW o \in ActOp, NEW a \in Ask,
         P!RequestOperation(o, a)
  PROVE  P!ActionsInv'
<1>a. P!TypeOK /\ GatesPart /\ OutcomePart /\ SlotPart /\ ItemPart
  BY ActionsParts
<1>1. /\ actStatus[o] = "NONE" /\ P!RouteAdmits(a) /\ P!Confirmed(P!Asked(a))
      /\ actAsk' = [actAsk EXCEPT ![o] = a]
      /\ actStatus' = [actStatus EXCEPT ![o] =
                      IF P!LocalApproval(P!Asked(a)) THEN "PENDING_APPROVAL" ELSE "QUEUED"]
      /\ UNCHANGED <<actApprovals, actDeciding, actBegun, actRun, actResult, actTaken, actQueue,
                     actBuilt>>
  BY DEF P!RequestOperation, P!provider, P!decisions
<1>2. /\ \A p \in ActOp : actAsk'[p] = IF p = o THEN a ELSE actAsk[p]
      /\ \A p \in ActOp \ {o} : actStatus'[p] = actStatus[p]
      /\ actStatus'[o] \in {"PENDING_APPROVAL", "QUEUED"}
      /\ actStatus'[o] = "PENDING_APPROVAL" <=> P!LocalApproval(P!Asked(a))
  BY <1>1, <1>a DEF P!TypeOK
<1>3. /\ actTaken[o] = 0 /\ actDeciding[o] = 0
      /\ actResult[o].state = "none"
  BY <1>1, <1>a DEF GatesPart, P!GatesSound, P!Fate
<1>4. /\ \A i \in DOMAIN actQueue : o \notin actQueue[i].of
      /\ \A s \in Worker : actRun[s].step # "idle" => actRun[s].op # o
  BY <1>1, <1>a DEF ItemPart, P!ItemSound, SlotPart, P!SlotSound
<1>5. P!Cardinality(P!Calling(o)) = 0
  <2>1. P!Calling(o) = {}
    BY <1>4 DEF P!Calling
  <2> QED
    BY <2>1, FS_EmptySet, ActionsCardinality
<1>6. P!TypeOK'
  BY <1>1, <1>2, <1>a DEF P!TypeOK
<1>7. GatesPart'
  <2>1. ASSUME NEW p \in ActOp PROVE P!GatesSound(p)'
    <3>1. P!Calling(p)' = P!Calling(p)
      BY <1>1, CallingKept
    <3>2. CASE p = o
      <4>1. actApprovals[o] \in Nat
        BY <1>a DEF P!TypeOK
      <4> QED
        BY <1>1, <1>2, <1>3, <1>5, <3>1, <3>2, <4>1 DEF P!GatesSound, P!Ahead, P!Released
    <3>3. CASE p # o
      BY <1>1, <1>2, <1>a, <3>1, <3>3 DEF GatesPart, P!GatesSound, P!Ahead, P!Released
    <3> QED
      BY <3>2, <3>3
  <2> QED
    BY <2>1 DEF GatesPart
<1>8. OutcomePart'
  BY <1>1, <1>2, <1>3, <1>a DEF OutcomePart, P!OutcomeSound, P!WorkerAdmits, P!BuildOf, P!TypeOK
<1>9. SlotPart'
  BY <1>1, <1>2, <1>4, <1>a DEF SlotPart, P!SlotSound, P!BuildOf
<1>10. ItemPart'
  <2>1. \A i \in DOMAIN actQueue : actQueue[i].of \subseteq ActOp
    BY <1>a, ItemTypes
  <2> QED
    BY <1>1, <1>2, <1>4, <1>a, <2>1 DEF ItemPart, P!ItemSound
<1> QED
  BY <1>6, <1>7, <1>8, <1>9, <1>10 DEF P!ActionsInv, GatesPart, OutcomePart, SlotPart, ItemPart

\* A decision begins on a row that waits, and changes nothing else.
LEMMA BegunSound ==
  ASSUME IsFiniteSet(Worker), P!ActionsInv, NEW o \in ActOp, P!BeginDecision(o)
  PROVE  P!ActionsInv'
<1>a. P!TypeOK /\ GatesPart /\ OutcomePart /\ SlotPart /\ ItemPart
  BY ActionsParts
<1>1. /\ actStatus[o] = "PENDING_APPROVAL"
      /\ actBegun' = actBegun + 1 /\ actDeciding' = [actDeciding EXCEPT ![o] = @ + 1]
      /\ UNCHANGED <<actAsk, actStatus, actApprovals, actRun, actResult, actTaken, actQueue,
                     actBuilt>>
  BY DEF P!BeginDecision, P!provider
<1>2. P!TypeOK'
  BY <1>1, <1>a DEF P!TypeOK
<1>3. GatesPart'
  <2>1. ASSUME NEW p \in ActOp PROVE P!GatesSound(p)'
    <3>1. P!Calling(p)' = P!Calling(p)
      BY <1>1, CallingKept
    <3>2. p # o => actDeciding'[p] = actDeciding[p]
      BY <1>1, <1>a DEF P!TypeOK
    <3> QED
      BY <1>1, <1>a, <3>1, <3>2 DEF GatesPart, P!GatesSound, P!Ahead, P!Released
  <2> QED
    BY <2>1 DEF GatesPart
<1>4. OutcomePart' /\ SlotPart' /\ ItemPart'
  BY <1>1, <1>a DEF OutcomePart, P!OutcomeSound, P!WorkerAdmits, P!BuildOf, SlotPart,
                    P!SlotSound, ItemPart, P!ItemSound
<1> QED
  BY <1>2, <1>3, <1>4 DEF P!ActionsInv, GatesPart, OutcomePart, SlotPart, ItemPart

\* A decision that is written, whatever became of the row: an approval releases the operation
\* once more, and a rejection releases nothing.
LEMMA DecidedSound ==
  ASSUME IsFiniteSet(Worker), P!ActionsInv, NEW o \in ActOp,
         P!CommitApprove(o) \/ P!CommitReject(o)
  PROVE  P!ActionsInv'
<1>a. P!TypeOK /\ GatesPart /\ OutcomePart /\ SlotPart /\ ItemPart
  BY ActionsParts
<1>1. /\ actDeciding[o] > 0 /\ actDeciding' = [actDeciding EXCEPT ![o] = @ - 1]
      /\ UNCHANGED <<actAsk, actBegun, actRun, actResult, actTaken, actQueue, actBuilt>>
  BY DEF P!CommitApprove, P!CommitReject, P!Decide, P!provider
<1>2. PICK outcome \in {"QUEUED", "REJECTED"}, released \in {0, 1} :
        /\ actStatus' = [actStatus EXCEPT ![o] = outcome]
        /\ actApprovals' = [actApprovals EXCEPT ![o] = @ + released]
        /\ outcome = "QUEUED" => released = 1
  <2>1. CASE P!CommitApprove(o)
    BY <2>1 DEF P!CommitApprove, P!Decide
  <2>2. CASE P!CommitReject(o)
    <3>1. actApprovals' = [actApprovals EXCEPT ![o] = @ + 0]
      BY <2>2, <1>a DEF P!CommitReject, P!TypeOK
    <3> QED
      BY <2>2, <3>1 DEF P!CommitReject, P!Decide
  <2> QED
    BY <2>1, <2>2
<1>3. /\ \A p \in ActOp : actStatus'[p] = IF p = o THEN outcome ELSE actStatus[p]
      /\ \A p \in ActOp : actApprovals'[p] = actApprovals[p] + (IF p = o THEN released ELSE 0)
      /\ \A p \in ActOp : actApprovals[p] \in Nat /\ actTaken[p] \in Nat
      /\ \A p \in ActOp \ {o} : actDeciding'[p] = actDeciding[p]
  BY <1>1, <1>2, <1>a DEF P!TypeOK
<1>4. actStatus[o] # "NONE" /\ P!LocalApproval(P!Asked(actAsk[o]))
  BY <1>1, <1>a DEF GatesPart, P!GatesSound
<1>5. P!TypeOK'
  BY <1>1, <1>2, <1>a DEF P!TypeOK
<1>6. GatesPart'
  <2>1. ASSUME NEW p \in ActOp PROVE P!GatesSound(p)'
    <3>1. P!Calling(p)' = P!Calling(p) /\ P!Cardinality(P!Calling(p)) \in Nat
      BY <1>1, CallingKept, CallingCounted
    <3>2. CASE p = o
      BY <1>1, <1>2, <1>3, <1>4, <1>a, <3>1, <3>2 DEF GatesPart, P!GatesSound, P!Ahead, P!Released
    <3>3. CASE p # o
      BY <1>1, <1>3, <1>a, <3>1, <3>3 DEF GatesPart, P!GatesSound, P!Ahead, P!Released
    <3> QED
      BY <3>2, <3>3
  <2> QED
    BY <2>1 DEF GatesPart
<1>7. OutcomePart'
  <2>1. ASSUME NEW p \in ActOp PROVE P!OutcomeSound(p)'
    BY <1>1, <1>2, <1>3, <1>a
       DEF OutcomePart, P!OutcomeSound, P!WorkerAdmits, P!WorkerAccepts, P!BuildOf
  <2> QED
    BY <2>1 DEF OutcomePart
<1>8. SlotPart'
  <2>1. ASSUME NEW s \in Worker PROVE P!SlotSound(s)'
    BY <1>1, <1>2, <1>3, <1>4, <1>a DEF SlotPart, P!SlotSound, P!BuildOf
  <2> QED
    BY <2>1 DEF SlotPart
<1>9. ItemPart'
  <2>1. \A i \in DOMAIN actQueue : actQueue[i].of \subseteq ActOp
    BY <1>a, ItemTypes
  <2> QED
    BY <1>1, <1>2, <1>3, <1>4, <1>a, <2>1 DEF ItemPart, P!ItemSound
<1> QED
  BY <1>5, <1>6, <1>7, <1>8, <1>9 DEF P!ActionsInv, GatesPart, OutcomePart, SlotPart, ItemPart

-----------------------------------------------------------------------------
(* ProviderActions: the worker                                             *)

\* The records of a slot have its type.
LEMMA SlotTypes ==
  /\ P!Idle \in P!Slot /\ P!Idle.step = "idle"
  /\ \A seen \in {"none", "completed", "unverified"} :
       P!Fate(seen) \in P!Outcome /\ P!Fate(seen).state = seen
<1>1. ASSUME NEW seen \in {"none", "completed", "unverified"}
      PROVE  P!Fate(seen) \in P!Outcome /\ P!Fate(seen).state = seen
  BY DEF P!Fate, P!Outcome
<1>2. P!Idle \in P!Slot /\ P!Idle.step = "idle"
  BY <1>1 DEF P!Idle, P!Slot
<1> QED
  BY <1>1, <1>2

\* A claim: of a queued row, by a slot that does nothing.
LEMMA ClaimSound ==
  ASSUME IsFiniteSet(Worker), P!ActionsInv, NEW o \in ActOp, NEW s \in Worker, P!Claim(s, o)
  PROVE  P!ActionsInv'
<1>a. P!TypeOK /\ GatesPart /\ OutcomePart /\ SlotPart /\ ItemPart
  BY ActionsParts
<1> DEFINE x == [P!Idle EXCEPT !.op = o, !.step = "calling"]
<1>0. x \in P!Slot /\ x.op = o /\ x.step = "calling" /\ P!Idle.step = "idle"
  <2>1. P!Idle \in P!Slot /\ P!Idle.step = "idle"
    BY SlotTypes
  <2> QED
    BY <2>1 DEF P!Slot
<1>1. /\ actRun[s] = P!Idle /\ actStatus[o] = "QUEUED"
      /\ actStatus' = [actStatus EXCEPT ![o] = "RUNNING"]
      /\ actRun' = [actRun EXCEPT ![s] = x]
      /\ UNCHANGED <<actAsk, actApprovals, actDeciding, actBegun, actResult, actTaken, actQueue,
                     actBuilt>>
  BY DEF P!Claim, P!ClaimWins, P!provider, P!decisions
<1> HIDE DEF x
<1>2. /\ \A p \in ActOp : actStatus'[p] = IF p = o THEN "RUNNING" ELSE actStatus[p]
      /\ \A r \in Worker : actRun'[r] = IF r = s THEN x ELSE actRun[r]
      /\ \A p \in ActOp : actApprovals[p] \in Nat /\ actTaken[p] \in Nat
  BY <1>1, <1>a DEF P!TypeOK
<1>3. P!TypeOK'
  BY <1>0, <1>1, <1>a DEF P!TypeOK
<1>4. GatesPart'
  <2>1. ASSUME NEW p \in ActOp PROVE P!GatesSound(p)'
    <3>1. /\ P!Cardinality(P!Calling(p)') =
               P!Cardinality(P!Calling(p)) + (IF o = p THEN 1 ELSE 0)
          /\ P!Cardinality(P!Calling(p)) \in Nat
      BY <1>0, <1>1, <1>a, CallingJoined, CallingCounted
    <3>2. CASE p = o
      BY <1>1, <1>2, <1>a, <3>1, <3>2 DEF GatesPart, P!GatesSound, P!Ahead, P!Released
    <3>3. CASE p # o
      BY <1>1, <1>2, <1>a, <3>1, <3>3 DEF GatesPart, P!GatesSound, P!Ahead, P!Released
    <3> QED
      BY <3>2, <3>3
  <2> QED
    BY <2>1 DEF GatesPart
<1>5. OutcomePart'
  BY <1>1, <1>2, <1>a DEF OutcomePart, P!OutcomeSound, P!WorkerAdmits, P!BuildOf
<1>6. SlotPart'
  <2>1. ASSUME NEW r \in Worker PROVE P!SlotSound(r)'
    BY <1>0, <1>1, <1>2, <1>a DEF SlotPart, P!SlotSound, P!BuildOf
  <2> QED
    BY <2>1 DEF SlotPart
<1>7. ItemPart'
  <2>1. \A i \in DOMAIN actQueue : actQueue[i].of \subseteq ActOp
    BY <1>a, ItemTypes
  <2> QED
    BY <1>1, <1>2, <1>a, <2>1 DEF ItemPart, P!ItemSound
<1> QED
  BY <1>3, <1>4, <1>5, <1>6, <1>7 DEF P!ActionsInv, GatesPart, OutcomePart, SlotPart, ItemPart

\* A slot that moves on, and writes at most an outcome of what was taken.
LEMMA SlotMoves ==
  ASSUME IsFiniteSet(Worker), P!ActionsInv, NEW s \in Worker, actRun[s].step # "idle",
         NEW x \in P!Slot, x.step # "calling", x.step # "polling",
         actRun' = [actRun EXCEPT ![s] = x],
         x.step # "idle" => x.op = actRun[s].op,
         x.step = "recording" =>
           /\ actTaken[actRun[s].op] > 0
           /\ x.seen.state = "started" => P!BuildOf(actRun[s].op, x.seen.build),
         NEW outcome \in {"SUCCEEDED", "FAILED"}, NEW seen \in P!Outcome,
         \/ UNCHANGED <<actStatus, actResult>>
         \/ /\ actStatus' = [actStatus EXCEPT ![actRun[s].op] = outcome]
            /\ actResult' = [actResult EXCEPT ![actRun[s].op] = seen],
         outcome = "SUCCEEDED" => actTaken[actRun[s].op] > 0,
         seen.state = "started" => P!BuildOf(actRun[s].op, seen.build),
         UNCHANGED <<actAsk, actApprovals, actDeciding, actBegun, actTaken, actQueue, actBuilt>>
  PROVE  P!ActionsInv'
<1>a. P!TypeOK /\ GatesPart /\ OutcomePart /\ SlotPart /\ ItemPart
  BY ActionsParts
<1> DEFINE o == actRun[s].op
<1>1. o \in ActOp /\ actStatus[o] # "NONE"
  BY <1>a DEF SlotPart, P!SlotSound
<1>2. /\ \A r \in Worker : actRun'[r] = IF r = s THEN x ELSE actRun[r]
      /\ \A p \in ActOp : \/ actStatus'[p] = actStatus[p] /\ actResult'[p] = actResult[p]
                          \/ p = o /\ actStatus'[p] = outcome /\ actResult'[p] = seen
      /\ \A p \in ActOp : actApprovals[p] \in Nat /\ actTaken[p] \in Nat
  BY <1>1, <1>a DEF P!TypeOK
<1>3. P!TypeOK'
  BY <1>1, <1>a DEF P!TypeOK
<1>4. GatesPart'
  <2>1. ASSUME NEW p \in ActOp PROVE P!GatesSound(p)'
    <3>1. /\ P!Cardinality(P!Calling(p)') \in Nat /\ P!Cardinality(P!Calling(p)) \in Nat
          /\ P!Cardinality(P!Calling(p)') <= P!Cardinality(P!Calling(p))
      <4>1. /\ P!Cardinality(P!Calling(p)') \in Nat
            /\ P!Cardinality(P!Calling(p)') =
                 P!Cardinality(P!Calling(p))
                   - (IF actRun[s].op = p /\ actRun[s].step = "calling" THEN 1 ELSE 0)
        BY <1>a, CallingLeft
      <4>2. P!Cardinality(P!Calling(p)) \in Nat
        BY CallingCounted
      <4> QED
        BY <4>1, <4>2
    <3>2. P!Released(p)' = P!Released(p) /\ P!Released(p) \in Nat
      BY <1>2 DEF P!Released
    <3>3. P!Ahead(p) \in {0, 1} /\ P!Ahead(p)' \in {0, 1} /\ P!Ahead(p)' <= P!Ahead(p)
      BY <1>2 DEF P!Ahead
    <3>4. actStatus[p] # "NONE" =>
            actTaken[p] + P!Cardinality(P!Calling(p)') + P!Ahead(p)' <= P!Released(p)
      BY <1>2, <1>a, <3>1, <3>2, <3>3 DEF GatesPart, P!GatesSound
    <3> QED
      BY <1>1, <1>2, <1>a, <3>2, <3>4 DEF GatesPart, P!GatesSound
  <2> QED
    BY <2>1 DEF GatesPart
<1>5. OutcomePart'
  <2>1. ASSUME NEW p \in ActOp PROVE P!OutcomeSound(p)'
    BY <1>1, <1>2, <1>a DEF OutcomePart, P!OutcomeSound, P!WorkerAdmits, P!BuildOf
  <2> QED
    BY <2>1 DEF OutcomePart
<1>6. SlotPart'
  <2>1. \A p \in ActOp : actStatus[p] # "NONE" => actStatus'[p] # "NONE"
    BY <1>2
  <2>2. ASSUME NEW r \in Worker \ {s} PROVE P!SlotSound(r)'
    BY <1>2, <1>a, <2>1 DEF SlotPart, P!SlotSound, P!BuildOf
  <2>3. P!SlotSound(s)'
    BY <1>1, <1>2, <2>1 DEF P!SlotSound, P!BuildOf
  <2> QED
    BY <2>2, <2>3 DEF SlotPart
<1>7. ItemPart'
  <2>1. \A i \in DOMAIN actQueue : actQueue[i].of \subseteq ActOp
    BY <1>a, ItemTypes
  <2> QED
    BY <1>2, <1>a, <2>1 DEF ItemPart, P!ItemSound
<1> QED
  BY <1>3, <1>4, <1>5, <1>6, <1>7 DEF P!ActionsInv, GatesPart, OutcomePart, SlotPart, ItemPart

\* A slot that moves on and writes nothing: refused, at the end of a poll, or dead.
LEMMA SlotMovesQuietly ==
  ASSUME IsFiniteSet(Worker), P!ActionsInv, NEW s \in Worker, actRun[s].step # "idle",
         NEW x \in P!Slot, x.step # "calling", x.step # "polling",
         actRun' = [actRun EXCEPT ![s] = x],
         x.step # "idle" => x.op = actRun[s].op,
         x.step = "recording" =>
           /\ actTaken[actRun[s].op] > 0
           /\ x.seen.state = "started" => P!BuildOf(actRun[s].op, x.seen.build),
         UNCHANGED <<actAsk, actStatus, actResult, P!decisions, P!provider>>
  PROVE  P!ActionsInv'
<1>1. /\ P!Fate("none") \in P!Outcome /\ P!Fate("none").state = "none"
      /\ UNCHANGED <<actAsk, actApprovals, actDeciding, actBegun, actTaken, actQueue, actBuilt>>
      /\ UNCHANGED <<actStatus, actResult>>
  BY SlotTypes DEF P!decisions, P!provider
<1> QED
  BY <1>1, SlotMoves

\* Moving on keeps the operation of a slot.
LEMMA MovedOn ==
  ASSUME P!TypeOK, NEW s \in Worker, NEW step \in {"polling", "recording", "failing"},
         NEW i \in Nat, NEW seen \in P!Outcome, P!MoveOn(s, step, i, seen)
  PROVE  \E x \in P!Slot : /\ actRun' = [actRun EXCEPT ![s] = x]
                           /\ x.op = actRun[s].op /\ x.step = step
                           /\ x.item = i /\ x.seen = seen
<1> DEFINE x == [actRun[s] EXCEPT !.step = step, !.item = i, !.seen = seen]
<1>1. actRun[s] \in P!Slot
  BY DEF P!TypeOK
<1>2. x \in P!Slot /\ x.op = actRun[s].op /\ x.step = step /\ x.item = i /\ x.seen = seen
  BY <1>1 DEF P!Slot
<1>3. actRun' = [actRun EXCEPT ![s] = x]
  BY DEF P!MoveOn
<1> QED
  BY <1>2, <1>3

\* A slot that fails writes nothing yet.
LEMMA FailsSound ==
  ASSUME IsFiniteSet(Worker), P!ActionsInv, NEW s \in Worker, actRun[s].step # "idle", P!Fails(s),
         UNCHANGED <<actAsk, actStatus, actResult, P!decisions, P!provider>>
  PROVE  P!ActionsInv'
<1>1. P!Fate("none") \in P!Outcome /\ P!TypeOK
  BY SlotTypes DEF P!ActionsInv
<1>2. PICK x \in P!Slot : /\ actRun' = [actRun EXCEPT ![s] = x]
                          /\ x.op = actRun[s].op /\ x.step = "failing"
  BY <1>1, MovedOn DEF P!Fails
<1> QED
  BY <1>2, SlotMovesQuietly

\* A slot that dies leaves its row as it is.
LEMMA DeathSound ==
  ASSUME IsFiniteSet(Worker), P!ActionsInv, NEW s \in Worker, P!WorkerDies(s)
  PROVE  P!ActionsInv'
BY SlotMovesQuietly, SlotTypes DEF P!WorkerDies

\* The outcome that is written is of what was taken; a failure keeps the result of before.
LEMMA RecordedSound ==
  ASSUME IsFiniteSet(Worker), P!ActionsInv, NEW s \in Worker,
         P!RecordSuccess(s) \/ P!RecordFailure(s)
  PROVE  P!ActionsInv'
<1>a. P!TypeOK /\ OutcomePart /\ SlotPart
  BY ActionsParts
<1>0. P!Idle \in P!Slot /\ P!Idle.step = "idle"
  BY SlotTypes
<1>1. UNCHANGED <<actAsk, P!decisions, P!provider>>
      /\ UNCHANGED <<actAsk, actApprovals, actDeciding, actBegun, actTaken, actQueue, actBuilt>>
  BY DEF P!RecordSuccess, P!RecordFailure, P!decisions, P!provider
<1>2. CASE P!RecordSuccess(s)
  <2>1. actRun[s].step = "recording" /\ actRun[s].seen \in P!Outcome
    BY <1>2, <1>a DEF P!RecordSuccess, P!TypeOK, P!Slot
  <2>2. /\ actTaken[actRun[s].op] > 0
        /\ actRun[s].seen.state = "started" => P!BuildOf(actRun[s].op, actRun[s].seen.build)
    BY <2>1, <1>a DEF SlotPart, P!SlotSound
  <2>3. CASE P!Fails(s) /\ UNCHANGED <<actStatus, actResult>>
    BY <1>1, <2>1, <2>3, FailsSound
  <2>4. CASE /\ actStatus' = [actStatus EXCEPT ![actRun[s].op] = "SUCCEEDED"]
             /\ actResult' = [actResult EXCEPT ![actRun[s].op] = actRun[s].seen]
             /\ actRun' = [actRun EXCEPT ![s] = P!Idle]
    BY <1>0, <1>1, <2>1, <2>2, <2>4, SlotMoves
  <2> QED
    BY <1>2, <2>3, <2>4 DEF P!RecordSuccess
<1>3. CASE P!RecordFailure(s)
  <2>1. /\ actRun[s].step = "failing"
        /\ actStatus' = [actStatus EXCEPT ![actRun[s].op] = "FAILED"]
        /\ actRun' = [actRun EXCEPT ![s] = P!Idle] /\ UNCHANGED actResult
    BY <1>3 DEF P!RecordFailure
  <2>2. actRun[s].op \in ActOp
    BY <2>1, <1>a DEF SlotPart, P!SlotSound
  <2>3. /\ actResult[actRun[s].op] \in P!Outcome
        /\ actResult' = [actResult EXCEPT ![actRun[s].op] = actResult[actRun[s].op]]
        /\ actResult[actRun[s].op].state = "started" =>
             P!BuildOf(actRun[s].op, actResult[actRun[s].op].build)
    BY <2>1, <2>2, <1>a DEF P!TypeOK, OutcomePart, P!OutcomeSound
  <2> QED
    BY <1>0, <1>1, <2>1, <2>3, SlotMoves
<1> QED
  BY <1>2, <1>3

-----------------------------------------------------------------------------
(* ProviderActions: the provider                                           *)

\* What Jenkins is asked for is in its queue, and nothing else of the queue changes.
LEMMA EnqueuedSound ==
  ASSUME P!TypeOK, NEW o \in ActOp, NEW i \in Nat, P!Enqueue(o, i), actAsk[o].target \in P!Jobs
  PROVE  /\ actQueue' \in Seq(P!Item)
         /\ i \in DOMAIN actQueue' /\ o \in actQueue'[i].of
         /\ actQueue'[i].job = actAsk[o].target
         /\ \A k \in DOMAIN actQueue :
              /\ k \in DOMAIN actQueue' /\ actQueue'[k].job = actQueue[k].job
              /\ actQueue'[k].state = actQueue[k].state /\ actQueue'[k].build = actQueue[k].build
              /\ actQueue[k].of \subseteq actQueue'[k].of
              /\ k # i => actQueue'[k].of = actQueue[k].of
         /\ \A k \in DOMAIN actQueue' : k \in DOMAIN actQueue \/ k = i
         /\ \A p \in actQueue'[i].of : p = o \/ (i \in DOMAIN actQueue /\ p \in actQueue[i].of)
         /\ i \notin DOMAIN actQueue => actQueue'[i].state = "waiting"
<1>0. actQueue \in Seq(P!Item)
  BY DEF P!TypeOK
<1> DEFINE new == [job |-> actAsk[o].target, of |-> {o}, state |-> "waiting", build |-> 0]
<1>1. CASE i = Len(actQueue) + 1 /\ actQueue' = Append(actQueue, new)
  <2>1. new \in P!Item /\ new.of = {o} /\ new.state = "waiting" /\ new.job = actAsk[o].target
    BY DEF P!Item
  <2> HIDE DEF new
  <2>2. actQueue' \in Seq(P!Item) /\ actQueue'[i] = new /\ DOMAIN actQueue' = 1..i
        /\ DOMAIN actQueue = 1..Len(actQueue) /\ Len(actQueue) \in Nat
        /\ \A k \in DOMAIN actQueue : actQueue'[k] = actQueue[k]
    BY <1>0, <1>1, <2>1
  <2> QED
    BY <1>1, <2>1, <2>2
<1>2. CASE /\ i \in DOMAIN actQueue /\ actQueue[i].state = "waiting"
           /\ actQueue[i].job = actAsk[o].target
           /\ actQueue' = [actQueue EXCEPT ![i].of = @ \cup {o}]
  <2> DEFINE item == [actQueue[i] EXCEPT !.of = @ \cup {o}]
  <2>1. actQueue[i] \in P!Item
    BY <1>2, ItemTypes
  <2>2. /\ item \in P!Item /\ item.of = actQueue[i].of \cup {o} /\ item.job = actQueue[i].job
        /\ item.state = actQueue[i].state /\ item.build = actQueue[i].build
    BY <2>1 DEF P!Item
  <2>3. actQueue' = [actQueue EXCEPT ![i] = item]
    BY <1>2
  <2> HIDE DEF item
  <2>4. /\ actQueue' \in Seq(P!Item) /\ DOMAIN actQueue' = DOMAIN actQueue
        /\ \A k \in DOMAIN actQueue : actQueue'[k] = IF k = i THEN item ELSE actQueue[k]
    <3>1. i \in DOMAIN actQueue /\ item \in P!Item
      BY <1>2, <2>2
    <3> QED
      BY <1>0, <2>3, <3>1, QueueUpdated
  <2> QED
    BY <1>2, <2>2, <2>4
<1> QED
  BY <1>1, <1>2 DEF P!Enqueue

\* A call that was taken, whatever becomes of its answer: the poll, an outcome or a failure.
LEMMA TakenSound ==
  ASSUME IsFiniteSet(Worker), P!ActionsInv, NEW s \in Worker, NEW i \in Nat, P!Take(s, i),
         NEW x \in P!Slot, x.step \in {"polling", "recording", "failing"}, x.op = actRun[s].op,
         actRun' = [actRun EXCEPT ![s] = x], x.seen.state # "started",
         x.step = "polling" => x.item = i /\ actAsk[actRun[s].op].route = "build"
  PROVE  P!ActionsInv'
<1>a. P!TypeOK /\ GatesPart /\ OutcomePart /\ SlotPart /\ ItemPart
  BY ActionsParts
<1> DEFINE o == actRun[s].op
<1>1. /\ actRun[s].step = "calling" /\ P!WorkerAdmits(o)
      /\ actTaken' = [actTaken EXCEPT ![o] = @ + 1]
      /\ IF actAsk[o].route = "build" THEN P!Enqueue(o, i) ELSE UNCHANGED actQueue
      /\ UNCHANGED <<actAsk, actStatus, actApprovals, actDeciding, actBegun, actResult, actBuilt>>
  BY DEF P!Take, P!decisions
<1>2. o \in ActOp /\ actStatus[o] # "NONE"
  BY <1>1, <1>a DEF SlotPart, P!SlotSound
<1>3. actAsk[o].route = "build" => actAsk[o].target \in P!Jobs
  BY <1>1 DEF P!WorkerAdmits, P!Jobs
<1>4. /\ actQueue' \in Seq(P!Item)
      /\ actAsk[o].route = "build" => i \in DOMAIN actQueue' /\ o \in actQueue'[i].of
      /\ \A k \in DOMAIN actQueue :
           /\ k \in DOMAIN actQueue' /\ actQueue'[k].job = actQueue[k].job
           /\ actQueue'[k].state = actQueue[k].state /\ actQueue'[k].build = actQueue[k].build
           /\ actQueue[k].of \subseteq actQueue'[k].of
      /\ \A k \in DOMAIN actQueue' : \A p \in actQueue'[k].of :
           \/ k \in DOMAIN actQueue /\ p \in actQueue[k].of
           \/ p = o /\ actQueue'[k].job = actAsk[o].target
      /\ \A k \in DOMAIN actQueue' \ DOMAIN actQueue : actQueue'[k].state = "waiting"
  <2>1. CASE actAsk[o].route = "build"
    <3>1. P!Enqueue(o, i)
      BY <1>1, <2>1
    <3> QED
      BY <1>2, <1>3, <1>a, <2>1, <3>1, EnqueuedSound
  <2>2. CASE actAsk[o].route # "build"
    BY <1>1, <1>a, <2>2 DEF P!TypeOK
  <2> QED
    BY <2>1, <2>2
<1>5. /\ \A r \in Worker : actRun'[r] = IF r = s THEN x ELSE actRun[r]
      /\ \A p \in ActOp : actTaken'[p] = IF p = o THEN actTaken[o] + 1 ELSE actTaken[p]
      /\ \A p \in ActOp : actApprovals[p] \in Nat /\ actTaken[p] \in Nat
  BY <1>1, <1>2, <1>a DEF P!TypeOK
<1>6. P!TypeOK'
  BY <1>1, <1>2, <1>4, <1>a DEF P!TypeOK
<1>7. GatesPart'
  <2>1. ASSUME NEW p \in ActOp PROVE P!GatesSound(p)'
    <3>1. /\ P!Cardinality(P!Calling(p)') =
               P!Cardinality(P!Calling(p)) - (IF o = p THEN 1 ELSE 0)
          /\ P!Cardinality(P!Calling(p)) \in Nat
      BY <1>1, <1>a, CallingLeft, CallingCounted
    <3>2. CASE p = o
      BY <1>1, <1>2, <1>5, <1>a, <3>1, <3>2 DEF GatesPart, P!GatesSound, P!Ahead, P!Released
    <3>3. CASE p # o
      BY <1>1, <1>5, <1>a, <3>1, <3>3 DEF GatesPart, P!GatesSound, P!Ahead, P!Released
    <3> QED
      BY <3>2, <3>3
  <2> QED
    BY <2>1 DEF GatesPart
<1>8. OutcomePart'
  <2>1. ASSUME NEW p \in ActOp PROVE P!OutcomeSound(p)'
    <3>1. P!OutcomeSound(p)
      BY <1>a DEF OutcomePart
    <3>2. actResult'[p].state = "started" => P!BuildOf(p, actResult[p].build)'
      BY <1>1, <1>4, <3>1 DEF P!OutcomeSound, P!BuildOf
    <3> QED
      BY <1>1, <1>5, <3>1, <3>2 DEF P!OutcomeSound, P!WorkerAdmits
  <2> QED
    BY <2>1 DEF OutcomePart
<1>9. SlotPart'
  <2>1. ASSUME NEW r \in Worker \ {s} PROVE P!SlotSound(r)'
    <3>1. P!SlotSound(r) /\ actRun'[r] = actRun[r]
      BY <1>5, <1>a DEF SlotPart
    <3>2. actRun[r].step = "recording" /\ actRun[r].seen.state = "started" =>
            P!BuildOf(actRun[r].op, actRun[r].seen.build)'
      BY <1>1, <1>4, <3>1 DEF P!SlotSound, P!BuildOf
    <3> QED
      BY <1>1, <1>4, <1>5, <3>1, <3>2 DEF P!SlotSound
  <2>2. P!SlotSound(s)'
    BY <1>1, <1>2, <1>4, <1>5 DEF P!SlotSound
  <2> QED
    BY <2>1, <2>2 DEF SlotPart
<1>10. ItemPart'
  <2>1. ASSUME NEW k \in DOMAIN actQueue' PROVE P!ItemSound(k)'
    BY <1>1, <1>2, <1>4, <1>a, <2>1 DEF ItemPart, P!ItemSound
  <2> QED
    BY <2>1 DEF ItemPart
<1> QED
  BY <1>6, <1>7, <1>8, <1>9, <1>10 DEF P!ActionsInv, GatesPart, OutcomePart, SlotPart, ItemPart

\* An answered call, an accepted build and a lost answer are calls that were taken.
LEMMA CalledSound ==
  ASSUME IsFiniteSet(Worker), P!ActionsInv, NEW s \in Worker,
         P!CallAnswered(s) \/ P!BuildAccepted(s) \/ P!AnswerLost(s)
  PROVE  P!ActionsInv'
<1>a. P!TypeOK /\ Len(actQueue) \in Nat
  BY DEF P!ActionsInv, P!TypeOK
<1>1. ASSUME NEW i \in Nat, NEW step \in {"polling", "recording", "failing"},
             NEW seen \in {"none", "completed", "unverified"}, P!Take(s, i),
             P!MoveOn(s, step, IF step = "polling" THEN i ELSE 0, P!Fate(seen)),
             step = "polling" => actAsk[actRun[s].op].route = "build"
      PROVE  P!ActionsInv'
  <2>1. P!Fate(seen) \in P!Outcome /\ P!Fate(seen).state # "started"
    BY SlotTypes
  <2>2. (IF step = "polling" THEN i ELSE 0) \in Nat
    OBVIOUS
  <2>3. PICK x \in P!Slot : /\ actRun' = [actRun EXCEPT ![s] = x]
                            /\ x.op = actRun[s].op /\ x.step = step
                            /\ x.item = (IF step = "polling" THEN i ELSE 0)
                            /\ x.seen = P!Fate(seen)
    BY <1>1, <1>a, <2>1, <2>2, MovedOn
  <2> QED
    BY <1>1, <2>1, <2>3, TakenSound
<1>2. CASE P!CallAnswered(s)
  BY <1>1, <1>2 DEF P!CallAnswered
<1>3. CASE P!AnswerLost(s)
  BY <1>1, <1>3, <1>a DEF P!AnswerLost, P!Fails
<1>4. CASE P!BuildAccepted(s)
  <2>1. PICK i \in 1..(Len(actQueue) + 1) :
          /\ P!Take(s, i)
          /\ P!MoveOn(s, "polling", i, P!Fate("none"))
             \/ P!MoveOn(s, "recording", 0, P!Fate("unverified"))
    BY <1>4 DEF P!BuildAccepted
  <2>2. i \in Nat /\ i # 0
    BY <1>a
  <2>3. actAsk[actRun[s].op].route = "build"
    BY <2>1, <2>2 DEF P!Take
  <2> QED
    BY <1>1, <2>1, <2>2, <2>3
<1> QED
  BY <1>2, <1>3, <1>4

\* A poll ends with the build it found, or without an answer.
LEMMA PollSound ==
  ASSUME IsFiniteSet(Worker), P!ActionsInv, NEW s \in Worker, P!PollEnds(s)
  PROVE  P!ActionsInv'
<1>a. P!TypeOK /\ SlotPart /\ ItemPart
  BY ActionsParts
<1> DEFINE k == actRun[s].item
<1>1. /\ actRun[s].step = "polling"
      /\ UNCHANGED <<actAsk, actStatus, actResult, P!decisions, P!provider>>
  BY DEF P!PollEnds
<1>2. /\ k \in DOMAIN actQueue /\ actRun[s].op \in actQueue[k].of
      /\ actTaken[actRun[s].op] > 0
  BY <1>1, <1>a DEF SlotPart, P!SlotSound
<1>3. CASE P!Fails(s)
  BY <1>1, <1>3, FailsSound
<1>4. ASSUME NEW seen \in P!Outcome, P!MoveOn(s, "recording", 0, seen),
             seen.state = "started" => P!BuildOf(actRun[s].op, seen.build)
      PROVE  P!ActionsInv'
  <2>1. PICK x \in P!Slot : /\ actRun' = [actRun EXCEPT ![s] = x]
                            /\ x.op = actRun[s].op /\ x.step = "recording" /\ x.seen = seen
    BY <1>4, <1>a, MovedOn
  <2> QED
    BY <1>1, <1>2, <1>4, <2>1, SlotMovesQuietly
<1>5. CASE P!MoveOn(s, "recording", 0, P!Fate("unverified"))
  BY <1>4, <1>5, SlotTypes
<1>6. CASE /\ actQueue[k].state = "started"
           /\ P!MoveOn(s, "recording", 0, [state |-> "started", build |-> actQueue[k].build])
  <2>1. actQueue[k].build \in Nat
    BY <1>2, <1>a, ItemTypes
  <2>2. [state |-> "started", build |-> actQueue[k].build] \in P!Outcome
    BY <2>1 DEF P!Outcome
  <2>3. P!BuildOf(actRun[s].op, actQueue[k].build)
    BY <1>2, <1>6, <1>a DEF ItemPart, P!ItemSound, P!BuildOf
  <2> QED
    BY <1>4, <1>6, <2>2, <2>3
<1> QED
  BY <1>3, <1>5, <1>6 DEF P!PollEnds

\* Jenkins starts the next build of an item's job, or cancels the item.
LEMMA JenkinsSound ==
  ASSUME IsFiniteSet(Worker), P!ActionsInv, NEW i \in DOMAIN actQueue, P!JenkinsMoves(i)
  PROVE  P!ActionsInv'
<1>a. P!TypeOK /\ GatesPart /\ OutcomePart /\ SlotPart /\ ItemPart
  BY ActionsParts
<1> DEFINE its == actQueue[i].job
<1>0. /\ actQueue \in Seq(P!Item) /\ actQueue[i] \in P!Item /\ its \in P!Jobs
      /\ \A j \in P!Jobs : actBuilt[j] \in Nat
      /\ \A k \in DOMAIN actQueue : actQueue[k].job \in P!Jobs
  BY <1>a, ItemTypes DEF P!TypeOK
<1>1. /\ actQueue[i].state = "waiting"
      /\ UNCHANGED <<actAsk, actStatus, actApprovals, actDeciding, actBegun, actRun, actResult,
                     actTaken>>
  BY DEF P!JenkinsMoves, P!decisions
<1>2. PICK item \in P!Item :
        /\ actQueue' = [actQueue EXCEPT ![i] = item]
        /\ item.job = its /\ item.of = actQueue[i].of
        /\ \/ /\ item.state = "started" /\ item.build = actBuilt[its] + 1
              /\ actBuilt' = [actBuilt EXCEPT ![its] = @ + 1]
           \/ item.state = "cancelled" /\ UNCHANGED actBuilt
  <2>1. CASE /\ actBuilt' = [actBuilt EXCEPT ![its] = @ + 1]
             /\ actQueue' = [actQueue EXCEPT ![i].state = "started",
                                             ![i].build = actBuilt[its] + 1]
    <3> DEFINE item == [actQueue[i] EXCEPT !.state = "started", !.build = actBuilt[its] + 1]
    <3>1. /\ item \in P!Item /\ item.job = its /\ item.of = actQueue[i].of
          /\ item.state = "started" /\ item.build = actBuilt[its] + 1
      <4>1. actBuilt[its] + 1 \in Nat /\ actQueue[i] \in P!Item
        BY <1>0
      <4> QED
        BY <4>1 DEF P!Item
    <3>2. actQueue' = [actQueue EXCEPT ![i] = item]
      BY <2>1
    <3> QED
      BY <2>1, <3>1, <3>2
  <2>2. CASE UNCHANGED actBuilt /\ actQueue' = [actQueue EXCEPT ![i].state = "cancelled"]
    <3> DEFINE item == [actQueue[i] EXCEPT !.state = "cancelled"]
    <3>1. item \in P!Item /\ item.job = its /\ item.of = actQueue[i].of /\ item.state = "cancelled"
      BY <1>0 DEF P!Item
    <3>2. actQueue' = [actQueue EXCEPT ![i] = item]
      BY <2>2
    <3> QED
      BY <2>2, <3>1, <3>2
  <2> QED
    BY <2>1, <2>2 DEF P!JenkinsMoves
<1>3. /\ actQueue' \in Seq(P!Item) /\ DOMAIN actQueue' = DOMAIN actQueue
      /\ \A k \in DOMAIN actQueue : actQueue'[k] = IF k = i THEN item ELSE actQueue[k]
  BY <1>0, <1>2, QueueUpdated
<1>4. /\ actBuilt' \in [P!Jobs -> Nat]
      /\ \A j \in P!Jobs : actBuilt'[j] \in Nat /\ actBuilt[j] <= actBuilt'[j]
      /\ item.state = "started" => actBuilt'[its] = actBuilt[its] + 1
  <2>1. actBuilt \in [P!Jobs -> Nat]
    BY <1>a DEF P!TypeOK
  <2>2. CASE item.state = "started"
    <3>1. actBuilt' = [actBuilt EXCEPT ![its] = actBuilt[its] + 1]
      BY <1>2, <2>2
    <3> QED
      BY <1>0, <2>1, <3>1
  <2>3. CASE item.state # "started"
    BY <1>0, <1>2, <2>1, <2>3
  <2> QED
    BY <2>2, <2>3
<1>5. P!TypeOK'
  BY <1>1, <1>3, <1>4, <1>a DEF P!TypeOK
<1>6. GatesPart'
  <2>1. ASSUME NEW p \in ActOp PROVE P!GatesSound(p)'
    <3>1. P!Calling(p)' = P!Calling(p)
      BY <1>1, CallingKept
    <3> QED
      BY <1>1, <1>a, <3>1 DEF GatesPart, P!GatesSound, P!Ahead, P!Released
  <2> QED
    BY <2>1 DEF GatesPart
<1>7. \A k \in DOMAIN actQueue : /\ actQueue'[k].job = actQueue[k].job
                                 /\ actQueue'[k].of = actQueue[k].of
                                 /\ actQueue[k].state = "started" => actQueue'[k] = actQueue[k]
                                 /\ 1..actBuilt[actQueue[k].job] \subseteq
                                      1..actBuilt'[actQueue[k].job]
  <2>1. ASSUME NEW j \in P!Jobs PROVE 1..actBuilt[j] \subseteq 1..actBuilt'[j]
    BY <1>0, <1>4
  <2> QED
    BY <1>0, <1>1, <1>2, <1>3, <2>1
<1>8. OutcomePart'
  <2>1. ASSUME NEW p \in ActOp PROVE P!OutcomeSound(p)'
    <3>1. P!OutcomeSound(p)
      BY <1>a DEF OutcomePart
    <3>2. actResult'[p].state = "started" => P!BuildOf(p, actResult[p].build)'
      BY <1>1, <1>3, <1>7, <3>1 DEF P!OutcomeSound, P!BuildOf
    <3> QED
      BY <1>1, <3>1, <3>2 DEF P!OutcomeSound, P!WorkerAdmits
  <2> QED
    BY <2>1 DEF OutcomePart
<1>9. SlotPart'
  <2>1. ASSUME NEW r \in Worker PROVE P!SlotSound(r)'
    <3>1. P!SlotSound(r)
      BY <1>a DEF SlotPart
    <3>2. actRun[r].step = "recording" /\ actRun[r].seen.state = "started" =>
            P!BuildOf(actRun[r].op, actRun[r].seen.build)'
      BY <1>1, <1>3, <1>7, <3>1 DEF P!SlotSound, P!BuildOf
    <3> QED
      BY <1>1, <1>3, <1>7, <3>1, <3>2 DEF P!SlotSound
  <2> QED
    BY <2>1 DEF SlotPart
<1>10. ItemPart'
  <2>1. ASSUME NEW k \in DOMAIN actQueue PROVE P!ItemSound(k)'
    <3>1. P!ItemSound(k) /\ actQueue[k].job \in P!Jobs
      BY <1>0, <1>a DEF ItemPart
    <3>2. actQueue'[k].state = "started" => actQueue'[k].build \in 1..actBuilt'[actQueue'[k].job]
      <4>1. CASE k = i
        BY <1>0, <1>2, <1>3, <1>4, <4>1
      <4>2. CASE k # i
        BY <1>0, <1>3, <1>7, <3>1, <4>2 DEF P!ItemSound
      <4> QED
        BY <4>1, <4>2
    <3> QED
      BY <1>1, <1>7, <3>1, <3>2 DEF P!ItemSound
  <2> QED
    BY <1>3, <2>1 DEF ItemPart
<1> QED
  BY <1>5, <1>6, <1>8, <1>9, <1>10 DEF P!ActionsInv, GatesPart, OutcomePart, SlotPart, ItemPart

-----------------------------------------------------------------------------
(* ProviderActions: the theorems                                           *)

\* Every step of an operation, of a slot and of Jenkins keeps the invariant.
LEMMA ActionsStep ==
  ASSUME IsFiniteSet(Worker), P!ActionsInv, [P!Next]_(P!vars)
  PROVE  P!ActionsInv'
<1>0. CASE UNCHANGED P!vars
  <2>1. \A o : P!Calling(o)' = P!Calling(o)
    BY <1>0, CallingKept DEF P!vars
  <2> QED
    BY <1>0, <2>1 DEF P!vars, P!ActionsInv, P!TypeOK, P!GatesSound, P!OutcomeSound, P!SlotSound,
                      P!ItemSound, P!WorkerAdmits, P!BuildOf, P!Released, P!Ahead
<1>1. ASSUME NEW o \in ActOp, P!OpStep(o)
      PROVE  P!ActionsInv'
  <2>1. CASE \E a \in Ask : P!RequestOperation(o, a)
    BY <2>1, AskedSound
  <2>2. CASE P!BeginDecision(o)
    BY <2>2, BegunSound
  <2>3. CASE P!CommitApprove(o) \/ P!CommitReject(o)
    BY <2>3, DecidedSound
  <2>4. CASE \E s \in Worker : P!Claim(s, o)
    BY <2>4, ClaimSound
  <2> QED
    BY <1>1, <2>1, <2>2, <2>3, <2>4 DEF P!OpStep
<1>2. ASSUME NEW s \in Worker, P!SlotStep(s)
      PROVE  P!ActionsInv'
  <2>1. CASE P!CallAnswered(s) \/ P!BuildAccepted(s) \/ P!AnswerLost(s)
    BY <2>1, CalledSound
  <2>2. CASE P!CallRefused(s)
    BY <2>2, FailsSound DEF P!CallRefused
  <2>3. CASE P!PollEnds(s)
    BY <2>3, PollSound
  <2>4. CASE P!RecordSuccess(s) \/ P!RecordFailure(s)
    BY <2>4, RecordedSound
  <2>5. CASE P!WorkerDies(s)
    BY <2>5, DeathSound
  <2> QED
    BY <1>2, <2>1, <2>2, <2>3, <2>4, <2>5 DEF P!SlotStep
<1> QED
  BY <1>0, <1>1, <1>2, JenkinsSound DEF P!Next

\* Before the first request nothing is asked for, taken or built.
LEMMA ActionsInit == P!Init => P!ActionsInv
<1> SUFFICES ASSUME P!Init PROVE P!ActionsInv
  OBVIOUS
<1>1. /\ P!Fate("none") \in P!Outcome /\ P!Fate("none").state = "none"
      /\ P!Idle \in P!Slot /\ P!Idle.step = "idle"
  BY SlotTypes
<1>2. P!TypeOK
  BY <1>1 DEF P!Init, P!TypeOK
<1>3. \A o \in ActOp : P!GatesSound(o) /\ P!OutcomeSound(o)
  BY <1>1 DEF P!Init, P!GatesSound, P!OutcomeSound
<1>4. \A s \in Worker : P!SlotSound(s)
  BY <1>1 DEF P!Init, P!SlotSound
<1>5. DOMAIN actQueue = {}
  BY DEF P!Init
<1> QED
  BY <1>2, <1>3, <1>4, <1>5 DEF P!ActionsInv

\* Whatever decisions are written late and whatever slots work at once, what a provider took,
\* what slots are about to ask it for and what can still be claimed of an operation is paid for
\* by its releases, and results and Jenkins items are the operation's own
\* (operations.queue.ts:97-159, 1381-1442, operation.service.ts:240-284).
THEOREM ActionsInvariance ==
  ASSUME IsFiniteSet(Worker)
  PROVE  P!Spec => []P!ActionsInv
<1> QED
  BY ActionsInit, ActionsStep, PTL DEF P!Spec

\* No provider takes an operation more often than it was released, what is reported as done
\* was taken, and a verified build is one of the operation's own
\* (operations.queue.ts:97-159, 1381-1442, operation.service.ts:240-284).
THEOREM OutcomesAreTruthful ==
  ASSUME IsFiniteSet(Worker)
  PROVE  P!Spec => []P!OutcomeTruthful
<1>1. ASSUME P!ActionsInv, NEW o \in ActOp, actStatus[o] # "NONE"
      PROVE  actTaken[o] <= P!Released(o)
  <2>1. /\ P!Cardinality(P!Calling(o)) \in Nat /\ P!Ahead(o) \in Nat
        /\ actTaken[o] \in Nat /\ P!Released(o) \in Nat
    BY <1>1, CallingCounted DEF P!ActionsInv, P!TypeOK, P!Ahead, P!Released
  <2>2. actTaken[o] + P!Cardinality(P!Calling(o)) + P!Ahead(o) <= P!Released(o)
    BY <1>1 DEF P!ActionsInv, P!GatesSound
  <2> QED
    BY <2>1, <2>2
<1>2. P!ActionsInv => P!OutcomeTruthful
  BY <1>1 DEF P!ActionsInv, P!OutcomeSound, P!OutcomeTruthful
<1> QED
  BY <1>2, ActionsInvariance, PTL

\* No route changes a Kubernetes namespace that is not allowed, and none scales beyond the
\* limit (kubernetes.service.ts:434-698, operations.queue.ts:163-283).
THEOREM NamespacesAreSpared ==
  ASSUME IsFiniteSet(Worker)
  PROVE  P!Spec => []P!OnlyAllowedNamespacesChange
<1>1. ASSUME P!ActionsInv, NEW o \in ActOp, actTaken[o] > 0, actAsk[o].route \in P!Kubernetes
      PROVE  /\ P!MutationNamespaceAllowed(actAsk[o].target)
             /\ actAsk[o].route = "scale" => actAsk[o].replicas <= MaxReplicas
  <2>1. P!RouteAdmits(actAsk[o]) /\ P!Confirmed(P!Asked(actAsk[o])) /\ P!WorkerAdmits(o)
    BY <1>1 DEF P!ActionsInv, P!GatesSound, P!OutcomeSound
  <2>2. actAsk[o].route # "apply"
    BY <2>1 DEF P!WorkerAdmits, P!WorkerAccepts, P!Asked, P!RouteType, P!KnownType,
                P!ConfirmationLabel
  <2>3. actAsk[o].route # "restart"
    BY <2>1 DEF P!RouteAdmits, P!RouteToken, P!Confirmed, P!Asked, P!RouteType, P!KnownType,
                P!ConfirmationLabel
  <2> QED
    BY <1>1, <2>1, <2>2, <2>3 DEF P!Kubernetes, P!RouteAdmits
<1>2. P!ActionsInv => P!OnlyAllowedNamespacesChange
  BY <1>1 DEF P!OnlyAllowedNamespacesChange
<1> QED
  BY <1>2, ActionsInvariance, PTL

\* Both: what the pages report of a provider is what happened there, and only what is allowed
\* happened (operations.queue.ts:97-283, 1381-1442).
THEOREM ActionsAreTruthful ==
  ASSUME IsFiniteSet(Worker)
  PROVE  P!Spec => []P!ActionsTruthful
<1>1. P!OutcomeTruthful /\ P!OnlyAllowedNamespacesChange => P!ActionsTruthful
  BY DEF P!ActionsTruthful
<1> QED
  BY <1>1, OutcomesAreTruthful, NamespacesAreSpared, PTL

-----------------------------------------------------------------------------
(* Sessions                                                                *)

TabInv == S!TypeOK /\ S!TabCoherent

\* The next pair of an account is a row more, and every other row stays.
LEMMA IssuesAdds ==
  ASSUME S!SessionsAssumption, S!TypeOK, NEW t \in S!Token, NEW u \in User, S!Issues(t, u)
  PROVE  /\ sesToken' \in [S!Token -> S!TokenRow \cup {None}]
         /\ S!Issued' = S!Issued \cup {t}
         /\ t \notin S!Issued
         /\ sesToken'[t].user = u
         /\ \A s \in S!Issued : sesToken'[s] = sesToken[s]
<1> DEFINE new == [user |-> u, revoked |-> FALSE]
<1>0. new \in S!TokenRow /\ new.user = u
  BY DEF S!TokenRow
<1>1. new \in S!TokenRow /\ new.user = u /\ new # None
  <2> HIDE DEF new
  <2> QED
    BY <1>0 DEF S!SessionsAssumption
<1>2. sesToken' = [sesToken EXCEPT ![t] = new] /\ sesToken[t] = None
  BY DEF S!Issues
<1>3. sesToken \in [S!Token -> S!TokenRow \cup {None}]
  BY DEF S!TypeOK
<1> HIDE DEF new
<1>4. sesToken' \in [S!Token -> S!TokenRow \cup {None}] /\ sesToken'[t] = new
      /\ \A s \in S!Token \ {t} : sesToken'[s] = sesToken[s]
  BY <1>1, <1>2, <1>3
<1> QED
  BY <1>1, <1>2, <1>4 DEF S!Issued

\* A page that is loaded anew has nothing under way.
LEMMA GivingUp ==
  ASSUME S!SessionsAssumption, TabInv, S!GiveUp, UNCHANGED <<sesToken, sesExpired>>
  PROVE  TabInv'
<1>1. S!NoReq \in S!RequestType /\ S!NoReq.step = "idle"
  BY DEF S!NoReq, S!RequestType, S!Step
<1>2. sesReq' \in [TabRequest -> S!RequestType] /\ \A r \in TabRequest : sesReq'[r].step = "idle"
  BY <1>1 DEF S!GiveUp
<1>3. sesStorage' = None /\ sesUser' = None
  BY DEF S!GiveUp
<1>4. S!Issued' = S!Issued
  BY DEF S!Issued
<1> QED
  BY <1>2, <1>3, <1>4 DEF TabInv, S!TypeOK, S!TabCoherent

\* What one request does to its own record leaves the tab as it is.
LEMMA RequestMoves ==
  ASSUME TabInv, NEW r \in TabRequest, NEW x \in S!RequestType,
         sesReq' = [sesReq EXCEPT ![r] = x],
           UNCHANGED <<sesToken, sesExpired, sesStorage, sesUser>>,
         x.step # "idle" => x.pair \in S!Issued,
         x.step \in {"refused", "checked", "issued"} => x.presents \in S!Issued,
         x.step = "issued" => x.issued \in S!Issued
  PROVE  TabInv'
<1>1. S!Issued' = S!Issued
  BY DEF S!Issued
<1>2. sesReq' \in [TabRequest -> S!RequestType]
  BY DEF TabInv, S!TypeOK
<1>3. \A q \in TabRequest : sesReq'[q] = IF q = r THEN x ELSE sesReq[q]
  BY DEF TabInv, S!TypeOK
<1> QED
  BY <1>1, <1>2, <1>3 DEF TabInv, S!TypeOK, S!TabCoherent, S!Owner

\* Every step of the tab, of its requests and of the API keeps the tab coherent.
LEMMA TabStep ==
  ASSUME S!SessionsAssumption, TabInv, [S!Next]_(S!vars)
  PROVE  TabInv'
<1>a. /\ S!TypeOK /\ S!TabCoherent /\ None \notin S!TokenRow
      /\ S!Issued \subseteq S!Token
      /\ \A q \in TabRequest : sesReq[q] \in S!RequestType
  BY DEF TabInv, S!TypeOK, S!SessionsAssumption, S!Issued
<1>0. CASE UNCHANGED S!vars
  <2>1. UNCHANGED <<sesToken, sesExpired, sesStorage, sesUser, sesReq>>
    BY <1>0 DEF S!vars
  <2>2. S!Issued' = S!Issued
    BY <2>1 DEF S!Issued
  <2> QED
    BY <1>a, <2>1, <2>2 DEF TabInv, S!TypeOK, S!TabCoherent, S!Owner
<1>1. CASE S!SignOut
  <2>1. S!Issued' = S!Issued /\ UNCHANGED <<sesToken, sesExpired, sesReq>>
        /\ sesStorage' = None /\ sesUser' = None
    BY <1>1 DEF S!SignOut, S!Issued
  <2> QED
    BY <1>a, <2>1 DEF TabInv, S!TypeOK, S!TabCoherent
<1>2. ASSUME NEW t \in S!Token, S!Revoke(t)
      PROVE  TabInv'
  <2>1. /\ sesToken[t] \in S!TokenRow /\ UNCHANGED <<sesExpired, sesStorage, sesUser, sesReq>>
        /\ sesToken' = [sesToken EXCEPT ![t].revoked = TRUE]
    BY <1>2, <1>a DEF S!Revoke, S!Live, S!TypeOK
  <2>2. sesToken' \in [S!Token -> S!TokenRow \cup {None}] /\ sesToken'[t] \in S!TokenRow
        /\ sesToken'[t].user = sesToken[t].user
        /\ \A s \in S!Token \ {t} : sesToken'[s] = sesToken[s]
    BY <2>1, <1>a DEF S!TypeOK, S!TokenRow
  <2>3. S!Issued' = S!Issued
    BY <2>1, <2>2, <1>a DEF S!Issued
  <2> QED
    BY <1>a, <2>1, <2>2, <2>3 DEF TabInv, S!TypeOK, S!TabCoherent, S!Owner
<1>3. ASSUME NEW t \in S!Token, S!Expire(t)
      PROVE  TabInv'
  <2>1. /\ S!Issued' = S!Issued /\ UNCHANGED <<sesToken, sesStorage, sesUser, sesReq>>
        /\ sesExpired' = sesExpired \cup {t} /\ t \in S!Issued
    BY <1>3 DEF S!Expire, S!Issued, S!InUse
  <2> QED
    BY <1>a, <2>1 DEF TabInv, S!TypeOK, S!TabCoherent, S!Owner
<1>4. ASSUME NEW t \in S!Token, NEW u \in User, S!Login(u, t)
      PROVE  TabInv'
  <2>1. S!Issues(t, u) /\ sesStorage' = t /\ sesUser' = u /\ UNCHANGED <<sesExpired, sesReq>>
    BY <1>4 DEF S!Login
  <2>2. /\ sesToken' \in [S!Token -> S!TokenRow \cup {None}] /\ S!Issued' = S!Issued \cup {t}
        /\ sesToken'[t].user = u
    BY <2>1, <1>a, IssuesAdds
  <2>3. t # None
    BY DEF S!SessionsAssumption
  <2> QED
    BY <1>a, <2>1, <2>2, <2>3 DEF TabInv, S!TypeOK, S!TabCoherent, S!Owner
<1>5. ASSUME NEW r \in TabRequest, S!Send(r)
      PROVE  TabInv'
  <2> DEFINE x == [S!NoReq EXCEPT !.step = "sent", !.pair = sesStorage]
  <2>1. sesStorage \in S!Issued /\ UNCHANGED <<sesToken, sesExpired, sesStorage, sesUser>>
        /\ sesReq' = [sesReq EXCEPT ![r] = x]
    BY <1>5, <1>a DEF S!Send, S!TypeOK
  <2>2. x \in S!RequestType /\ x.step = "sent" /\ x.pair = sesStorage
    BY <2>1, <1>a DEF S!NoReq, S!RequestType, S!Step
  <2> HIDE DEF x
  <2> QED
    BY <2>1, <2>2, RequestMoves
<1>6. ASSUME NEW r \in TabRequest, S!Answered(r)
      PROVE  TabInv'
  <2>1. S!NoReq \in S!RequestType /\ S!NoReq.step = "idle"
    BY DEF S!NoReq, S!RequestType, S!Step
  <2> QED
    BY <1>6, <2>1, RequestMoves DEF S!Answered
<1>7. ASSUME NEW r \in TabRequest, S!Unauthorized(r)
      PROVE  TabInv'
  <2>1. CASE sesStorage = None
    BY <1>7, <2>1, GivingUp DEF S!Unauthorized
  <2>2. CASE sesStorage # None
    <3> DEFINE x == [sesReq[r] EXCEPT !.step = "refused", !.presents = sesStorage]
    <3>1. /\ sesStorage \in S!Issued /\ UNCHANGED <<sesToken, sesExpired, sesStorage, sesUser>>
          /\ sesReq[r].step = "sent" /\ sesReq[r].pair \in S!Issued
          /\ sesReq' = [sesReq EXCEPT ![r].step = "refused", ![r].presents = sesStorage]
      BY <1>7, <2>2, <1>a DEF S!Unauthorized, S!TypeOK
    <3>2. x \in S!RequestType /\ x.step = "refused" /\ x.presents = sesStorage
          /\ x.pair = sesReq[r].pair
      BY <3>1, <1>a DEF S!RequestType, S!Step
    <3>3. sesReq' = [sesReq EXCEPT ![r] = x]
      BY <3>1, <1>a DEF S!TypeOK, S!RequestType
    <3> HIDE DEF x
    <3> QED
      BY <3>1, <3>2, <3>3, RequestMoves
  <2> QED
    BY <2>1, <2>2
<1>8. ASSUME NEW r \in TabRequest, S!CheckRefresh(r)
      PROVE  TabInv'
  <2>1. CASE S!GiveUp
    BY <1>8, <2>1, GivingUp DEF S!CheckRefresh
  <2>2. CASE ~S!GiveUp
    <3> DEFINE x == [sesReq[r] EXCEPT !.step = "checked"]
    <3>1. /\ UNCHANGED <<sesToken, sesExpired, sesStorage, sesUser>>
          /\ sesReq[r].pair \in S!Issued /\ sesReq[r].presents \in S!Issued
          /\ sesReq' = [sesReq EXCEPT ![r].step = "checked"]
      BY <1>8, <2>2, <1>a DEF S!CheckRefresh, S!TypeOK
    <3>2. x \in S!RequestType /\ x.step = "checked" /\ x.presents = sesReq[r].presents
          /\ x.pair = sesReq[r].pair
      BY <1>a DEF S!RequestType, S!Step
    <3>3. sesReq' = [sesReq EXCEPT ![r] = x]
      BY <3>1, <1>a DEF S!TypeOK, S!RequestType
    <3> HIDE DEF x
    <3> QED
      BY <3>1, <3>2, <3>3, RequestMoves
  <2> QED
    BY <2>1, <2>2
<1>9. ASSUME NEW r \in TabRequest, NEW t \in S!Token, S!IssueRefreshed(r, t)
      PROVE  TabInv'
  <2>1. /\ UNCHANGED <<sesExpired, sesStorage, sesUser>> /\ S!Issues(t, S!Owner(sesReq[r].presents))
        /\ sesReq[r].step = "checked"
        /\ sesReq[r].pair \in S!Issued /\ sesReq[r].presents \in S!Issued
        /\ sesReq' = [sesReq EXCEPT ![r].step = "issued", ![r].issued = t]
    BY <1>9, <1>a DEF S!IssueRefreshed, S!TypeOK
  <2>2. S!Owner(sesReq[r].presents) \in User
    BY <2>1, <1>a DEF S!Owner, S!Issued, S!TypeOK, S!TokenRow
  <2>3. /\ sesToken' \in [S!Token -> S!TokenRow \cup {None}] /\ S!Issued' = S!Issued \cup {t}
        /\ \A s \in S!Issued : sesToken'[s] = sesToken[s]
    BY <2>1, <2>2, <1>a, IssuesAdds
  <2>4. sesReq' \in [TabRequest -> S!RequestType]
    BY <2>1, <1>a DEF S!TypeOK, S!RequestType, S!Step
  <2>5. \A q \in TabRequest \ {r} : sesReq'[q] = sesReq[q]
    BY <2>1, <1>a DEF S!TypeOK
  <2>6. /\ sesReq'[r].pair = sesReq[r].pair /\ sesReq'[r].presents = sesReq[r].presents
        /\ sesReq'[r].issued = t
    BY <2>1, <1>a DEF S!TypeOK, S!RequestType
  <2> QED
    BY <1>a, <2>1, <2>3, <2>4, <2>5, <2>6 DEF TabInv, S!TypeOK, S!TabCoherent, S!Owner
<1>10. ASSUME NEW r \in TabRequest, S!Replace(r)
       PROVE  TabInv'
  BY <1>10, GivingUp DEF S!Replace, S!ColumnTakes
<1> QED
  BY <1>0, <1>1, <1>2, <1>3, <1>4, <1>5, <1>6, <1>7, <1>8, <1>9, <1>10 DEF S!Next

\* Nothing is issued and nobody is signed in.
LEMMA TabInit == S!SessionsAssumption /\ S!Init => TabInv
<1> SUFFICES ASSUME S!SessionsAssumption, S!Init PROVE TabInv
  OBVIOUS
<1>1. S!NoReq \in S!RequestType /\ S!NoReq.step = "idle"
  BY DEF S!NoReq, S!RequestType, S!Step
<1> QED
  BY <1>1 DEF TabInv, S!Init, S!TypeOK, S!TabCoherent, S!Issued

\* The tokens, the tab and its requests keep their types, and the tab stays coherent.
THEOREM TabInvariance ==
  ASSUME S!SessionsAssumption
  PROVE  S!Spec => []TabInv
<1> QED
  BY TabInit, TabStep, PTL DEF S!Spec

\* The pair in the storage and the account in the store of a tab are always of one user, or
\* both gone, whatever late answers arrive (auth-session.ts:32-128).
THEOREM TabIsCoherent ==
  ASSUME S!SessionsAssumption
  PROVE  S!Spec => []S!TabCoherent
<1>1. TabInv => S!TabCoherent
  BY DEF TabInv
<1> QED
  BY <1>1, TabInvariance, PTL

-----------------------------------------------------------------------------
(* Remediation                                                             *)

\* Of two containers that are both seen first, there is one.
LEMMA OneRecommended ==
  ASSUME R!PrepInv, NEW c \in R!Recommended, NEW d \in R!Recommended
  PROVE  c = d
<1>1. /\ c \in remLinked /\ d \in remLinked /\ remLinked \subseteq Container
      /\ remSeenAt[c] \in Nat /\ remSeenAt[d] \in Nat /\ remSeenAt[c] > 0
  BY DEF R!PrepInv, R!TypeOK, R!Recommended
<1>2. ~(remSeenAt[c] < remSeenAt[d]) /\ ~(remSeenAt[d] < remSeenAt[c])
  BY <1>1 DEF R!Recommended, R!Earlier
<1> QED
  BY <1>1, <1>2 DEF R!PrepInv, R!Apart

\* A dated write takes the next moment.
LEMMA DatedTicks ==
  ASSUME MaxTime \in Nat, R!PrepInv, R!Dated
  PROVE  remNow' = remNow + 1 /\ remNow \in Nat /\ remNow' \in 1..MaxTime
BY DEF R!PrepInv, R!TypeOK, R!Dated

\* What one page does to its own request.
LEMMA PreparationMoves ==
  ASSUME R!PrepInv, NEW r \in Page, NEW x \in R!RequestType,
         remReq' = [remReq EXCEPT ![r] = x],
         UNCHANGED <<remNow, remSeenAt, remLinked, remLogged, remPage, remFresh, remOps, remNotes>>,
         x.pc = "creating" => x.plan \in remLinked /\ (x.calm => x.plan = remPage[r]),
         x.pc # "noting"
  PROVE  R!PrepInv'
<1>1. R!Recommended' = R!Recommended
  BY DEF R!Recommended, R!Earlier
<1>2. remReq' \in [Page -> R!RequestType]
      /\ \A q \in Page : remReq'[q] = IF q = r THEN x ELSE remReq[q]
  BY DEF R!PrepInv, R!TypeOK
<1> QED
  BY <1>1, <1>2
     DEF R!PrepInv, R!TypeOK, R!PreparedAsShown, R!Apart, R!FreshShow, R!CalmPlans, R!Noted

\* Every step of the signals, the pages and the operation keeps the invariant.
LEMMA PrepStep ==
  ASSUME MaxTime \in Nat, R!PrepInv, [R!Next]_(R!vars)
  PROVE  R!PrepInv'
<1>a. /\ R!TypeOK /\ R!PreparedAsShown /\ R!Apart /\ R!FreshShow /\ R!CalmPlans /\ R!Noted
      /\ remLinked \subseteq Container
      /\ R!Idle.pc = "idle"
      /\ None \in Container \cup {None}
  BY DEF R!PrepInv, R!TypeOK, R!Idle
<1>b. R!Idle \in R!RequestType
  BY DEF R!Idle, R!RequestType
<1>0. CASE UNCHANGED R!vars
  <2>1. UNCHANGED <<remNow, remSeenAt, remLinked, remLogged, remPage, remFresh, remReq, remOps,
                    remNotes>>
    BY <1>0 DEF R!vars
  <2>2. R!Recommended' = R!Recommended
    BY <2>1 DEF R!Recommended, R!Earlier
  <2> QED
    BY <1>a, <2>1, <2>2
       DEF R!PrepInv, R!TypeOK, R!PreparedAsShown, R!Apart, R!FreshShow, R!CalmPlans, R!Noted
<1>1. ASSUME NEW c \in Container, R!Observe(c)
      PROVE  R!PrepInv'
  <2>1. /\ remNow' = remNow + 1 /\ remNow \in Nat /\ remNow' \in 1..MaxTime
        /\ remSeenAt' = [remSeenAt EXCEPT ![c] = remNow'] /\ remFresh' = {}
        /\ UNCHANGED <<remLinked, remLogged, remPage, remReq, remOps, remNotes>>
    BY <1>1, DatedTicks DEF R!Observe
  <2>2. /\ remSeenAt \in [Container -> 0..MaxTime] /\ remSeenAt' \in [Container -> 0..MaxTime]
        /\ \A d \in Container : remSeenAt'[d] = IF d = c THEN remNow' ELSE remSeenAt[d]
    BY <1>a, <2>1 DEF R!TypeOK
  <2>3. R!Apart'
    BY <1>a, <2>1, <2>2 DEF R!Apart
  <2>4. R!TypeOK'
    BY <1>a, <2>1, <2>2 DEF R!TypeOK
  <2> QED
    BY <1>a, <2>1, <2>3, <2>4
       DEF R!PrepInv, R!PreparedAsShown, R!FreshShow, R!CalmPlans, R!Noted, R!TypeOK
<1>2. ASSUME NEW c \in Container, R!Link(c)
      PROVE  R!PrepInv'
  <2>1. /\ remNow' = remNow + 1 /\ remNow \in Nat /\ remNow' \in 1..MaxTime
        /\ remLogged' = [remLogged EXCEPT ![remNow'] = 2]
        /\ remLinked' = remLinked \cup {c} /\ remFresh' = {} /\ remSeenAt[c] > 0
        /\ UNCHANGED <<remSeenAt, remPage, remReq, remOps, remNotes>>
    BY <1>2, DatedTicks DEF R!Link, R!Log
  <2>2. R!Apart'
    BY <1>a, <2>1 DEF R!Apart, R!TypeOK
  <2>3. R!TypeOK'
    BY <1>a, <2>1 DEF R!TypeOK
  <2> QED
    BY <1>a, <2>1, <2>2, <2>3
       DEF R!PrepInv, R!PreparedAsShown, R!FreshShow, R!CalmPlans, R!Noted, R!TypeOK
<1>3. ASSUME NEW r \in Page, R!Load(r)
      PROVE  R!PrepInv'
  <2>1. PICK c \in R!Recommended : remPage' = [remPage EXCEPT ![r] = c]
    BY <1>3 DEF R!Load
  <2>2. /\ remReq[r].pc = "idle" /\ remFresh' = remFresh \cup {r} /\ c \in remLinked
        /\ UNCHANGED <<remNow, remSeenAt, remLinked, remLogged, remReq, remOps, remNotes>>
    BY <1>3, <2>1 DEF R!Load, R!Recommended
  <2>3. R!Recommended' = R!Recommended
    BY <2>2 DEF R!Recommended, R!Earlier
  <2>4. remPage' \in [Page -> Container \cup {None}]
        /\ \A q \in Page : remPage'[q] = IF q = r THEN c ELSE remPage[q]
    BY <1>a, <2>1, <2>2 DEF R!TypeOK
  <2>5. R!TypeOK'
    BY <1>a, <2>2, <2>4 DEF R!TypeOK
  <2>6. R!FreshShow' /\ R!CalmPlans'
    BY <1>a, <2>2, <2>3, <2>4 DEF R!FreshShow, R!CalmPlans, R!TypeOK
  <2> QED
    BY <1>a, <2>2, <2>5, <2>6 DEF R!PrepInv, R!PreparedAsShown, R!Apart, R!Noted
<1>4. ASSUME NEW r \in Page, R!Send(r)
      PROVE  R!PrepInv'
  <2> DEFINE x == [R!Idle EXCEPT !.pc = "reading"]
  <2>1. x \in R!RequestType /\ x.pc = "reading"
    BY <1>b DEF R!RequestType, R!Idle
  <2>2. /\ remReq' = [remReq EXCEPT ![r] = x]
        /\ UNCHANGED <<remNow, remSeenAt, remLinked, remLogged, remPage, remFresh, remOps,
                       remNotes>>
    BY <1>4 DEF R!Send
  <2> HIDE DEF x
  <2> QED
    BY <2>1, <2>2, PreparationMoves
<1>5. ASSUME NEW r \in Page, R!Plan(r)
      PROVE  R!PrepInv'
  <2>1. UNCHANGED <<remNow, remSeenAt, remLinked, remLogged, remPage, remFresh, remOps, remNotes>>
    BY <1>5 DEF R!Plan
  <2>2. CASE remReq' = [remReq EXCEPT ![r] = R!Idle]
    BY <1>a, <1>b, <2>1, <2>2, PreparationMoves
  <2>3. ASSUME NEW c \in R!Planned,
               remReq' = [remReq EXCEPT ![r] =
                          [pc |-> "creating", plan |-> c, calm |-> r \in remFresh]]
        PROVE  R!PrepInv'
    <3> DEFINE x == [pc |-> "creating", plan |-> c, calm |-> r \in remFresh]
    <3>1. c \in R!Recommended /\ c \in remLinked
      BY <2>3 DEF R!Planned, R!Recommended
    <3>2. x.pc = "creating" /\ x.plan = c /\ x.calm = (r \in remFresh)
      OBVIOUS
    <3>3. x \in R!RequestType
      BY <3>1, <1>a DEF R!RequestType
    <3>4. r \in remFresh => c = remPage[r]
      BY <1>a, <3>1, OneRecommended DEF R!FreshShow
    <3>5. remReq' = [remReq EXCEPT ![r] = x]
      BY <2>3
    <3> HIDE DEF x
    <3> QED
      BY <2>1, <3>1, <3>2, <3>3, <3>4, <3>5, PreparationMoves
  <2> QED
    BY <1>5, <2>2, <2>3 DEF R!Plan
<1>6. ASSUME NEW r \in Page, R!Create(r)
      PROVE  R!PrepInv'
  <2> DEFINE op == [target |-> remReq[r].plan, shown |-> remPage[r], calm |-> remReq[r].calm,
                    status |-> "PENDING_APPROVAL"]
             x  == [R!Idle EXCEPT !.pc = "noting"]
  <2>1. /\ remReq[r].pc = "creating" /\ remReq' = [remReq EXCEPT ![r] = x]
        /\ UNCHANGED <<remNow, remSeenAt, remLinked, remLogged, remPage, remFresh, remNotes>>
        /\ (remOps' = {op} \/ (remOps # {} /\ remOps' = remOps))
    BY <1>6 DEF R!Create
  <2>2. x \in R!RequestType /\ x.pc = "noting"
    BY <1>b DEF R!RequestType, R!Idle
  <2>3. /\ remReq[r] \in R!RequestType /\ remReq[r].plan \in remLinked
        /\ remPage[r] \in Container \cup {None}
    BY <1>a, <2>1 DEF R!TypeOK
  <2>4. op \in R!OpType /\ op.target \in remLinked /\ (op.calm => op.target = op.shown)
    BY <1>a, <2>1, <2>3 DEF R!OpType, R!OpStatus, R!RequestType, R!CalmPlans
  <2> HIDE DEF op, x
  <2>5. remReq' \in [Page -> R!RequestType]
        /\ \A q \in Page : remReq'[q] = IF q = r THEN x ELSE remReq[q]
    BY <1>a, <2>1, <2>2 DEF R!TypeOK
  <2>6. remOps' # {} /\ remOps' \subseteq R!OpType
    BY <1>a, <2>1, <2>4 DEF R!TypeOK
  <2>7. R!PreparedAsShown'
    BY <1>a, <2>1, <2>4, <2>6 DEF R!PreparedAsShown
  <2>8. R!TypeOK'
    BY <1>a, <2>1, <2>2, <2>5, <2>6 DEF R!TypeOK
  <2>9. R!Recommended' = R!Recommended
    BY <2>1 DEF R!Recommended, R!Earlier
  <2> QED
    BY <1>a, <2>1, <2>2, <2>5, <2>6, <2>7, <2>8, <2>9
       DEF R!PrepInv, R!Apart, R!FreshShow, R!CalmPlans, R!Noted
<1>7. ASSUME NEW r \in Page, R!Note(r)
      PROVE  R!PrepInv'
  <2>1. /\ remNow' = remNow + 1 /\ remNow \in Nat /\ remNow' \in 1..MaxTime
        /\ remLogged' = [remLogged EXCEPT ![remNow'] = 1]
        /\ remNotes' = remNotes + 1 /\ remReq[r].pc = "noting"
        /\ remReq' = [remReq EXCEPT ![r] = R!Idle]
        /\ UNCHANGED <<remSeenAt, remLinked, remPage, remFresh, remOps>>
    BY <1>7, DatedTicks DEF R!Note, R!Log
  <2>2. remReq' \in [Page -> R!RequestType]
        /\ \A q \in Page : remReq'[q] = IF q = r THEN R!Idle ELSE remReq[q]
    BY <1>a, <1>b, <2>1 DEF R!TypeOK
  <2>3. remOps # {} /\ remNotes \in Nat /\ remNotes' <= remNow'
    BY <1>a, <2>1 DEF R!Noted, R!TypeOK
  <2>4. R!Apart' /\ R!Recommended' = R!Recommended
    BY <1>a, <2>1 DEF R!Apart, R!TypeOK, R!Recommended, R!Earlier
  <2>5. R!TypeOK'
    BY <1>a, <2>1, <2>2, <2>3 DEF R!TypeOK
  <2> QED
    BY <1>a, <2>1, <2>2, <2>3, <2>4, <2>5
       DEF R!PrepInv, R!PreparedAsShown, R!FreshShow, R!CalmPlans, R!Noted
<1>8. ASSUME NEW r \in Page, R!Break(r)
      PROVE  R!PrepInv'
  BY <1>a, <1>b, <1>8, PreparationMoves DEF R!Break
<1>9. CASE R!OperationMoves
  <2>1. PICK op \in remOps, s \in R!OpStatus :
          remOps' = (remOps \ {op}) \cup {[op EXCEPT !.status = s]}
    BY <1>9 DEF R!OperationMoves
  <2>2. UNCHANGED <<remNow, remSeenAt, remLinked, remLogged, remPage, remFresh, remReq, remNotes>>
    BY <1>9 DEF R!OperationMoves
  <2>3. op \in R!OpType
    BY <1>a DEF R!TypeOK
  <2>4. PICK moved : moved = [op EXCEPT !.status = s]
    OBVIOUS
  <2>5. moved \in R!OpType /\ moved.target = op.target /\ moved.calm = op.calm
        /\ moved.shown = op.shown
    BY <2>3, <2>4 DEF R!OpType
  <2>6. remOps' = (remOps \ {op}) \cup {moved}
    BY <2>1, <2>4
  <2>7. R!PreparedAsShown'
    BY <1>a, <2>2, <2>5, <2>6 DEF R!PreparedAsShown
  <2>8. R!TypeOK'
    BY <1>a, <2>2, <2>5, <2>6 DEF R!TypeOK
  <2>9. R!Recommended' = R!Recommended
    BY <2>2 DEF R!Recommended, R!Earlier
  <2> QED
    BY <1>a, <2>2, <2>6, <2>7, <2>8, <2>9
       DEF R!PrepInv, R!Apart, R!FreshShow, R!CalmPlans, R!Noted
<1> QED
  BY <1>0, <1>1, <1>2, <1>3, <1>4, <1>5, <1>6, <1>7, <1>8, <1>9 DEF R!Next

\* Nothing was observed and nothing prepared.
LEMMA PrepInit == MaxTime \in Nat /\ R!Init => R!PrepInv
<1> SUFFICES ASSUME MaxTime \in Nat, R!Init PROVE R!PrepInv
  OBVIOUS
<1>1. R!Idle \in R!RequestType /\ R!Idle.pc = "idle"
  BY DEF R!Idle, R!RequestType
<1> QED
  BY <1>1 DEF R!PrepInv, R!Init, R!TypeOK, R!PreparedAsShown, R!Apart, R!FreshShow, R!CalmPlans,
              R!Noted

\* The signals, pages and operations of an incident keep their types, and what makes a
\* recommendation unambiguous holds.
THEOREM PrepInvariance ==
  ASSUME MaxTime \in Nat
  PROVE  R!Spec => []R!PrepInv
<1> QED
  BY PrepInit, PrepStep, PTL DEF R!Spec

\* A prepared restart is of a container of the incident, of the one its page showed when
\* nothing happened in between, and no preparation is noted without its operation
\* (incident.service.ts:458-525).
THEOREM OnlyShownIsPrepared ==
  ASSUME MaxTime \in Nat
  PROVE  R!Spec => []R!PreparedAsShown
<1>1. R!PrepInv => R!PreparedAsShown
  BY DEF R!PrepInv
<1> QED
  BY <1>1, PrepInvariance, PTL

-----------------------------------------------------------------------------
(* ProviderSignals                                                         *)

\* What one fingerprint having one row rests on: a row keeps its key whatever is written, and
\* the last build of a job its number.
SignalsInv ==
  /\ K!TypeOK
  /\ obsBuilds \in [Job -> [number : 0..MaxBuild, state : {None, "building"} \cup K!Result]]
  /\ \A x \in obsRow :
       x = [key |-> x.key, title |-> x.title, about |-> x.about, mode |-> x.mode,
            status |-> x.status]

\* The upsert replaces the row of its fingerprint.
LEMMA IngestSound ==
  ASSUME SignalsInv, NEW r \in SignalRequest, NEW s \in obsBatch[r], K!Ingest(r, s)
  PROVE  SignalsInv'
<1> DEFINE key == K!Fingerprint(s)
           old == {x \in obsRow : x.key = key}
           title == IF old = {} THEN s.about ELSE (CHOOSE x \in old : TRUE).title
<1>1. PICK new : /\ new = [key |-> key, title |-> title, about |-> s.about, mode |-> s.mode,
                           status |-> "ACTIVE"]
                 /\ obsRow' = (obsRow \ old) \cup {new}
                 /\ UNCHANGED <<obsPods, obsReady, obsBuilds, obsReach>>
  BY DEF K!Ingest, K!world
<1>2. /\ new.key = key /\ new.status = "ACTIVE"
      /\ new = [key |-> new.key, title |-> new.title, about |-> new.about, mode |-> new.mode,
                status |-> new.status]
  BY <1>1
<1>3. \A x \in obsRow' : x = new \/ (x \in obsRow /\ x.key # key)
  BY <1>1
<1> HIDE DEF key, old, title
<1> QED
  BY <1>1, <1>2, <1>3 DEF SignalsInv, K!TypeOK

\* An operator writes the status alone.
LEMMA CloseSound ==
  ASSUME SignalsInv, NEW x \in obsRow, NEW ending \in {"RESOLVED", "ARCHIVED"},
         K!Close(x, ending)
  PROVE  SignalsInv'
<1>1. PICK new : /\ new = [x EXCEPT !.status = ending]
                 /\ obsRow' = (obsRow \ {x}) \cup {new}
                 /\ UNCHANGED <<obsPods, obsReady, obsBuilds, obsReach>>
  BY DEF K!Close, K!world
<1>2. x = [key |-> x.key, title |-> x.title, about |-> x.about, mode |-> x.mode,
           status |-> x.status]
  BY DEF SignalsInv
<1>3. /\ new.key = x.key /\ new.status = ending
      /\ new = [key |-> new.key, title |-> new.title, about |-> new.about, mode |-> new.mode,
                status |-> new.status]
  BY <1>1, <1>2
<1>4. \A y \in obsRow' : y = new \/ (y \in obsRow /\ y # x)
  BY <1>1
<1> QED
  BY <1>1, <1>3, <1>4 DEF SignalsInv, K!TypeOK

\* The providers move within what they may show.
LEMMA WorldSound ==
  ASSUME MaxBuild \in Nat, SignalsInv, K!WorldMoves
  PROVE  SignalsInv'
<1>1. obsRow' = obsRow
  BY DEF K!WorldMoves
<1>2. /\ obsPods \in [Pod -> SUBSET K!Condition] /\ obsReady \subseteq Node
      /\ obsReach \in [K!Provider -> K!Reached]
      /\ obsBuilds \in [Job -> [number : 0..MaxBuild, state : {None, "building"} \cup K!Result]]
  BY DEF SignalsInv, K!TypeOK
<1>3. CASE /\ \E p \in Pod, c \in K!Condition :
                obsPods' = [obsPods EXCEPT ![p] = IF c \in @ THEN {} ELSE @ \cup {c}]
           /\ UNCHANGED <<obsReady, obsBuilds, obsReach>>
  BY <1>1, <1>2, <1>3 DEF SignalsInv, K!TypeOK
<1>4. CASE /\ \E n \in Node :
                obsReady' = IF n \in obsReady THEN obsReady \ {n} ELSE obsReady \cup {n}
           /\ UNCHANGED <<obsPods, obsBuilds, obsReach>>
  BY <1>1, <1>2, <1>4 DEF SignalsInv, K!TypeOK
<1>5. CASE /\ \E q \in K!Provider, met \in K!Reached : obsReach' = [obsReach EXCEPT ![q] = met]
           /\ UNCHANGED <<obsPods, obsReady, obsBuilds>>
  BY <1>1, <1>2, <1>5 DEF SignalsInv, K!TypeOK
<1>6. CASE /\ \E j \in Job :
                IF obsBuilds[j].state = "building"
                THEN \E result \in K!Result : obsBuilds' = [obsBuilds EXCEPT ![j].state = result]
                ELSE /\ obsBuilds[j].number < MaxBuild
                     /\ obsBuilds' = [obsBuilds EXCEPT ![j] = [number |-> @.number + 1,
                                                               state |-> "building"]]
           /\ UNCHANGED <<obsPods, obsReady, obsReach>>
  <2>1. PICK j \in Job :
          IF obsBuilds[j].state = "building"
          THEN \E result \in K!Result : obsBuilds' = [obsBuilds EXCEPT ![j].state = result]
          ELSE /\ obsBuilds[j].number < MaxBuild
               /\ obsBuilds' = [obsBuilds EXCEPT ![j] = [number |-> @.number + 1,
                                                         state |-> "building"]]
    BY <1>6
  <2>2. PICK b \in [number : 0..MaxBuild, state : {None, "building"} \cup K!Result] :
          obsBuilds' = [obsBuilds EXCEPT ![j] = b]
    <3>1. obsBuilds[j] \in [number : 0..MaxBuild, state : {None, "building"} \cup K!Result]
      BY <1>2
    <3>2. CASE obsBuilds[j].state = "building"
      <4>1. PICK result \in K!Result : obsBuilds' = [obsBuilds EXCEPT ![j].state = result]
        BY <2>1, <3>2
      <4> QED
        BY <3>1, <4>1
    <3>3. CASE obsBuilds[j].state # "building"
      BY <2>1, <3>1, <3>3
    <3> QED
      BY <3>2, <3>3
  <2>3. /\ obsBuilds' \in [Job -> [number : 0..MaxBuild, state : {None, "building"} \cup K!Result]]
        /\ \A i \in Job : obsBuilds'[i].number \in 0..MaxBuild
    BY <1>2, <2>2
  <2> QED
    BY <1>1, <1>2, <1>6, <2>3 DEF SignalsInv, K!TypeOK
<1> QED
  BY <1>3, <1>4, <1>5, <1>6 DEF K!WorldMoves

\* Every step keeps one row for each fingerprint.
LEMMA SignalsStep ==
  ASSUME MaxBuild \in Nat, SignalsInv, [K!Next]_(K!vars)
  PROVE  SignalsInv'
<1>1. ASSUME UNCHANGED <<K!world, obsRow>> PROVE SignalsInv'
  BY <1>1 DEF SignalsInv, K!TypeOK, K!world
<1>2. CASE UNCHANGED K!vars
  BY <1>1, <1>2 DEF K!vars, K!world
<1>3. CASE K!WorldMoves
  BY <1>3, WorldSound
<1>4. ASSUME NEW r \in SignalRequest, NEW route \in K!Route, K!Observe(r, route)
      PROVE  SignalsInv'
  BY <1>1, <1>4 DEF K!Observe
<1>5. ASSUME NEW r \in SignalRequest, K!IngestFails(r)
      PROVE  SignalsInv'
  BY <1>1, <1>5 DEF K!IngestFails
<1> QED
  BY <1>2, <1>3, <1>4, <1>5, IngestSound, CloseSound DEF K!Next

\* At the start nothing was observed.
LEMMA SignalsInit == MaxBuild \in Nat /\ K!Init => SignalsInv
BY DEF K!Init, SignalsInv, K!TypeOK, K!Reached, K!Condition

-----------------------------------------------------------------------------
(* ConsoleChoices                                                          *)

\* What a page shows of a choice is an invariant of its own: an answer to something else ends
\* no spinner unless it is remembered as the last one.
LEMMA ChoiceStep ==
  ASSUME C!ChoiceShown, [C!Next]_(C!vars)
  PROVE  C!ChoiceShown'
<1>1. CASE UNCHANGED C!vars
  BY <1>1 DEF C!vars, C!ChoiceShown
<1>2. ASSUME NEW c \in Choice, C!Choose(c) PROVE C!ChoiceShown'
  BY <1>2 DEF C!Choose, C!ChoiceShown
<1>3. ASSUME NEW c \in Choice, C!Arrive(c) PROVE C!ChoiceShown'
  <2>1. CASE C!Takes(c)
    BY <1>3, <2>1 DEF C!Arrive, C!Takes, C!ChoiceShown
  <2>2. CASE ~C!Takes(c)
    BY <1>3, <2>2 DEF C!Arrive, C!ChoiceShown
  <2> QED
    BY <2>1, <2>2
<1>4. ASSUME NEW c \in Choice, C!Fail(c) PROVE C!ChoiceShown'
  <2>1. CASE C!Takes(c)
    BY <1>4, <2>1 DEF C!Fail, C!Takes, C!ChoiceShown
  <2>2. CASE ~C!Takes(c)
    BY <1>4, <2>2 DEF C!Fail, C!ChoiceShown
  <2> QED
    BY <2>1, <2>2
<1>5. CASE C!Drop
  BY <1>5 DEF C!Drop, C!ChoiceShown
<1>6. CASE C!Trigger
  BY <1>6 DEF C!Trigger, C!ChoiceShown
<1>7. CASE C!Answered
  BY <1>7 DEF C!Answered, C!RequireEnvironment, C!ChoiceShown
<1> QED
  BY <1>1, <1>2, <1>3, <1>4, <1>5, <1>6, <1>7 DEF C!Next

\* At the start nothing is chosen.
LEMMA ChoiceInit == C!Init => C!ChoiceShown
BY DEF C!Init, C!ChoiceShown

-----------------------------------------------------------------------------
(* ProviderReports                                                         *)

\* The cardinality ProviderReports counts with is the one of the library.
LEMMA ReportsCardinality == \A set : T!Cardinality(set) = Cardinality(set)
BY DEF T!Cardinality, Cardinality

\* A report that is made says what one moment of each of its providers says, of the moments
\* the provider had while it was made.
AnswerSound(i) ==
  \E got \in [T!Asks[rptReport[i].kind] -> T!Condition] :
    /\ \A p \in T!Asks[rptReport[i].kind] : got[p] \in rptReport[i].had[p]
    /\ rptReport[i].answer = T!Reply(rptReport[i].kind, got)

ReportSound(i) ==
  /\ rptReport[i].kind \in T!Kind
  /\ rptReport[i] = [kind |-> rptReport[i].kind, open |-> rptReport[i].open,
                      answer |-> rptReport[i].answer, had |-> rptReport[i].had]
  /\ rptReport[i].had \in [T!Asks[rptReport[i].kind] -> SUBSET T!Condition]
  /\ ~rptReport[i].open => AnswerSound(i)

ReportsInv ==
  /\ rptCondition \in [T!Provider -> T!Condition]
  /\ \E rows : rptReport \in Seq(rows)
  /\ \A i \in DOMAIN rptReport : ReportSound(i)

\* Each report asks some of the providers.
LEMMA AsksProviders == \A kind \in T!Kind : T!Asks[kind] \subseteq T!Provider
BY DEF T!Kind, T!Asks, T!Provider, T!StatusOf, T!Tool

\* What is said of what was seen depends on the viewer alone.
LEMMA ReplyStays ==
  ASSUME rptSetting' = rptSetting, NEW CONSTANT kind, NEW CONSTANT got
  PROVE  T!Reply(kind, got)' = T!Reply(kind, got)
BY DEF T!Reply, T!Barred, T!CanViewProviderInventory, T!Told, T!CloudReport, T!Offers

\* A report that stays as it is stays sound.
LEMMA SoundStays ==
  ASSUME rptSetting' = rptSetting, NEW CONSTANT i, rptReport'[i] = rptReport[i], ReportSound(i)
  PROVE  ReportSound(i)'
<1>1. ASSUME ~rptReport[i].open
      PROVE  AnswerSound(i)'
  <2>1. PICK got \in [T!Asks[rptReport[i].kind] -> T!Condition] :
          /\ \A p \in T!Asks[rptReport[i].kind] : got[p] \in rptReport[i].had[p]
          /\ rptReport[i].answer = T!Reply(rptReport[i].kind, got)
    BY <1>1 DEF ReportSound, AnswerSound
  <2>2. PICK kind : kind = rptReport[i].kind
    OBVIOUS
  <2>3. T!Reply(kind, got)' = T!Reply(kind, got)
    BY ReplyStays
  <2> QED
    BY <2>1, <2>2, <2>3 DEF AnswerSound
<1> QED
  BY <1>1 DEF ReportSound

\* A report that is asked for has met its providers as they are.
LEMMA BeginSound ==
  ASSUME ReportsInv, T!Begin
  PROVE  ReportsInv'
<1>1. PICK rows : rptReport \in Seq(rows)
  BY DEF ReportsInv
<1>2. PICK kind \in T!Kind :
        rptReport' = Append(rptReport, [kind |-> kind, open |-> TRUE, answer |-> T!Blank,
                                        had |-> [p \in T!Asks[kind] |-> {rptCondition[p]}]])
  BY DEF T!Begin
<1>3. PICK new : /\ new = [kind |-> kind, open |-> TRUE, answer |-> T!Blank,
                           had |-> [p \in T!Asks[kind] |-> {rptCondition[p]}]]
                 /\ rptReport' = Append(rptReport, new)
  BY <1>2
<1>4. /\ rptReport' \in Seq(rows \cup {new})
      /\ DOMAIN rptReport' = 1..(Len(rptReport) + 1) /\ DOMAIN rptReport = 1..Len(rptReport)
      /\ \A i \in DOMAIN rptReport : rptReport'[i] = rptReport[i]
      /\ rptReport'[Len(rptReport) + 1] = new /\ Len(rptReport) \in Nat
  BY <1>1, <1>3
<1>5. UNCHANGED <<rptSetting, rptCondition>>
  BY DEF T!Begin
<1>6. ASSUME NEW i \in DOMAIN rptReport
      PROVE  ReportSound(i)'
  BY <1>4, <1>5, SoundStays DEF ReportsInv
<1>7. /\ new.kind = kind /\ new.open /\ new.had = [p \in T!Asks[kind] |-> {rptCondition[p]}]
      /\ new = [kind |-> new.kind, open |-> new.open, answer |-> new.answer, had |-> new.had]
  BY <1>3
<1>8. new.had \in [T!Asks[kind] -> SUBSET T!Condition]
  <2>1. \A p \in T!Asks[kind] : rptCondition[p] \in T!Condition
    BY AsksProviders DEF ReportsInv
  <2> QED
    BY <1>7, <2>1
<1>9. ASSUME NEW i \in {Len(rptReport) + 1}
      PROVE  ReportSound(i)'
  BY <1>4, <1>7, <1>8 DEF ReportSound
<1>10. \A i \in DOMAIN rptReport' : ReportSound(i)'
  <2>1. ASSUME NEW i \in DOMAIN rptReport' PROVE ReportSound(i)'
    <3>1. i \in DOMAIN rptReport \/ i \in {Len(rptReport) + 1}
      BY <1>4
    <3> QED
      BY <1>6, <1>9, <3>1
  <2> QED
    BY <2>1
<1> QED
  BY <1>4, <1>5, <1>10 DEF ReportsInv

\* What is answered is what the providers were.
LEMMA AnswerKeeps ==
  ASSUME ReportsInv, T!Answer
  PROVE  ReportsInv'
<1>1. PICK rows : rptReport \in Seq(rows)
  BY DEF ReportsInv
<1>2. PICK n : n = Len(rptReport)
  OBVIOUS
<1>3. /\ rptReport # <<>> /\ n \in DOMAIN rptReport /\ DOMAIN rptReport = 1..n
      /\ UNCHANGED <<rptSetting, rptCondition>>
  BY <1>1, <1>2 DEF T!Answer, T!Open
<1>4. PICK kind, had : kind = rptReport[n].kind /\ had = rptReport[n].had
  OBVIOUS
<1>5. /\ kind \in T!Kind /\ had \in [T!Asks[kind] -> SUBSET T!Condition]
  BY <1>3, <1>4 DEF ReportsInv, ReportSound
<1>6. PICK got \in [T!Asks[kind] -> UNION {had[p] : p \in T!Asks[kind]}] :
        /\ \A p \in T!Asks[kind] : got[p] \in had[p]
        /\ rptReport' = [rptReport EXCEPT ![n].open = FALSE, ![n].answer = T!Reply(kind, got)]
  <2> DEFINE last == rptReport[Len(rptReport)]
  <2>1. PICK got \in [T!Asks[last.kind] -> UNION {last.had[p] : p \in T!Asks[last.kind]}] :
          /\ \A p \in T!Asks[last.kind] : got[p] \in last.had[p]
          /\ rptReport' = [rptReport EXCEPT ![Len(rptReport)].open = FALSE,
                                            ![Len(rptReport)].answer = T!Reply(last.kind, got)]
    BY Zenon DEF T!Answer
  <2>2. last.kind = kind /\ last.had = had
    BY <1>2, <1>4
  <2>3. rptReport' = [rptReport EXCEPT ![n].open = FALSE, ![n].answer = T!Reply(kind, got)]
    BY <1>2, <2>1, <2>2, Zenon
  <2>4. /\ got \in [T!Asks[kind] -> UNION {had[p] : p \in T!Asks[kind]}]
        /\ \A p \in T!Asks[kind] : got[p] \in had[p]
    BY <2>1, <2>2, Zenon
  <2> QED
    BY <2>3, <2>4, Zenon
<1>7. got \in [T!Asks[kind] -> T!Condition]
  BY <1>5, <1>6
<1>8. PICK reply : reply = T!Reply(kind, got)
  OBVIOUS
<1>9. PICK new : new = [[rptReport[n] EXCEPT !.open = FALSE] EXCEPT !.answer = reply]
  OBVIOUS
<1>10. rptReport' = [rptReport EXCEPT ![n] = new]
  <2>1. rptReport' = [rptReport EXCEPT ![n].open = FALSE, ![n].answer = reply]
    BY <1>6, <1>8
  <2> QED
    BY <1>1, <1>3, <1>9, <2>1
<1>11. /\ rptReport' \in Seq(rows \cup {new}) /\ DOMAIN rptReport' = DOMAIN rptReport
       /\ \A i \in DOMAIN rptReport \ {n} : rptReport'[i] = rptReport[i]
       /\ rptReport'[n] = new
  BY <1>1, <1>3, <1>10
<1>12. /\ new.kind = kind /\ new.had = had /\ new.answer = reply
       /\ new = [kind |-> new.kind, open |-> new.open, answer |-> new.answer, had |-> new.had]
  <2>1. rptReport[n] = [kind |-> rptReport[n].kind, open |-> rptReport[n].open,
                        answer |-> rptReport[n].answer, had |-> rptReport[n].had]
    BY <1>3 DEF ReportsInv, ReportSound
  <2>2. new = [kind |-> kind, open |-> FALSE, answer |-> reply, had |-> had]
    BY <1>4, <1>9, <2>1
  <2> QED
    BY <2>2
<1>13. ASSUME NEW i \in DOMAIN rptReport \ {n}
       PROVE  ReportSound(i)'
  BY <1>3, <1>11, SoundStays DEF ReportsInv
<1>14. reply = T!Reply(kind, got)'
  BY <1>3, <1>8, ReplyStays
<1>15. ASSUME NEW i \in {n}
       PROVE  ReportSound(i)'
  BY <1>5, <1>6, <1>7, <1>11, <1>12, <1>14 DEF ReportSound, AnswerSound
<1>16. ASSUME NEW i \in DOMAIN rptReport'
       PROVE  ReportSound(i)'
  <2>1. i \in DOMAIN rptReport \ {n} \/ i \in {n}
    BY <1>11
  <2> QED
    BY <1>13, <1>15, <2>1
<1> QED
  BY <1>3, <1>11, <1>16 DEF ReportsInv

\* What a provider goes through while a report is made is remembered with the report.
LEMMA ChangeSound ==
  ASSUME ReportsInv, T!Change
  PROVE  ReportsInv'
<1>1. PICK rows : rptReport \in Seq(rows)
  BY DEF ReportsInv
<1>2. PICK p \in T!Provider, c \in T!Condition :
        /\ rptCondition' = [rptCondition EXCEPT ![p] = c]
        /\ rptReport' = IF T!Open /\ p \in T!Asks[rptReport[Len(rptReport)].kind]
                        THEN [rptReport EXCEPT ![Len(rptReport)].had[p] = @ \cup {c}]
                        ELSE rptReport
  BY DEF T!Change
<1>3. rptCondition' \in [T!Provider -> T!Condition] /\ rptSetting' = rptSetting
  BY <1>2 DEF T!Change, ReportsInv
<1>4. CASE rptReport' = rptReport
  <2>1. \A i \in DOMAIN rptReport : ReportSound(i) => ReportSound(i)'
    BY <1>3, <1>4, SoundStays
  <2> QED
    BY <1>3, <1>4, <2>1 DEF ReportsInv
<1>5. CASE T!Open /\ p \in T!Asks[rptReport[Len(rptReport)].kind]
  <2>1. PICK n : n = Len(rptReport)
    OBVIOUS
  <2>2. PICK kind, had : kind = rptReport[n].kind /\ had = rptReport[n].had
    OBVIOUS
  <2>3. /\ n \in DOMAIN rptReport /\ DOMAIN rptReport = 1..n /\ rptReport[n].open
        /\ p \in T!Asks[kind]
    BY <1>1, <1>5, <2>1, <2>2 DEF T!Open
  <2>4. /\ kind \in T!Kind /\ had \in [T!Asks[kind] -> SUBSET T!Condition]
        /\ rptReport[n] = [kind |-> rptReport[n].kind, open |-> rptReport[n].open,
                           answer |-> rptReport[n].answer, had |-> rptReport[n].had]
    BY <2>2, <2>3 DEF ReportsInv, ReportSound
  <2>5. PICK more : more = [had EXCEPT ![p] = @ \cup {c}]
    OBVIOUS
  <2>6. more \in [T!Asks[kind] -> SUBSET T!Condition]
    BY <2>3, <2>4, <2>5
  <2>7. PICK new : new = [kind |-> kind, open |-> rptReport[n].open,
                          answer |-> rptReport[n].answer, had |-> more]
    OBVIOUS
  <2>8. rptReport' = [rptReport EXCEPT ![n] = new]
    <3>1. rptReport' = [rptReport EXCEPT ![n].had[p] = @ \cup {c}]
      BY <1>2, <1>5, <2>1
    <3>2. rptReport' = [rptReport EXCEPT ![n].had =
                                   [rptReport[n].had EXCEPT ![p] = @ \cup {c}]]
      BY <1>1, <2>3, <3>1
    <3>3. rptReport' = [rptReport EXCEPT ![n].had = more]
      BY <2>2, <2>5, <3>2
    <3>4. [rptReport[n] EXCEPT !.had = more] = new
      BY <2>2, <2>4, <2>7
    <3> QED
      BY <1>1, <2>3, <3>3, <3>4
  <2>9. /\ rptReport' \in Seq(rows \cup {new}) /\ DOMAIN rptReport' = DOMAIN rptReport
        /\ \A i \in DOMAIN rptReport \ {n} : rptReport'[i] = rptReport[i]
        /\ rptReport'[n] = new
    BY <1>1, <2>3, <2>8
  <2>10. ASSUME NEW i \in DOMAIN rptReport \ {n}
         PROVE  ReportSound(i)'
    BY <1>3, <2>9, SoundStays DEF ReportsInv
  <2>11. /\ new.kind = kind /\ new.open /\ new.had = more
         /\ new = [kind |-> new.kind, open |-> new.open, answer |-> new.answer, had |-> new.had]
    BY <2>3, <2>7
  <2>12. ASSUME NEW i \in {n}
         PROVE  ReportSound(i)'
    BY <2>4, <2>6, <2>9, <2>11 DEF ReportSound
  <2>13. ASSUME NEW i \in DOMAIN rptReport'
         PROVE  ReportSound(i)'
    <3>1. i \in DOMAIN rptReport \ {n} \/ i \in {n}
      BY <2>9
    <3> QED
      BY <2>10, <2>12, <3>1
  <2> QED
    BY <1>3, <2>9, <2>13 DEF ReportsInv
<1> QED
  BY <1>2, <1>4, <1>5

\* Every step keeps the reports sound.
LEMMA ReportsStep ==
  ASSUME ReportsInv, [T!Next]_(T!vars)
  PROVE  ReportsInv'
<1>1. CASE UNCHANGED T!vars
  <2>1. \A i \in DOMAIN rptReport : ReportSound(i) => ReportSound(i)'
    BY <1>1, SoundStays DEF T!vars
  <2> QED
    BY <1>1, <2>1 DEF ReportsInv, T!vars
<1> QED
  BY <1>1, BeginSound, AnswerKeeps, ChangeSound DEF T!Next

\* At the start there is no report, and one provider may fail.
LEMMA ReportsInit == T!Init => ReportsInv
<1> SUFFICES ASSUME T!Init PROVE ReportsInv
  OBVIOUS
<1>1. rptReport = <<>> /\ rptCondition \in [T!Provider -> T!Condition]
  BY DEF T!Init, T!Condition, T!KubernetesStatus
<1>2. rptReport \in Seq({}) /\ DOMAIN rptReport = {}
  BY <1>1
<1> QED
  BY <1>1, <1>2 DEF ReportsInv

\* The statuses of the connectors, by what they meet.
LEMMA StatusTable ==
  /\ \A c \in T!Condition :
       /\ T!KubernetesStatus[c] = "CONNECTED" <=> c = "good"
       /\ T!AwsStatus[c] = "CONNECTED" <=> c = "good"
       /\ T!JenkinsStatus[c] = "CONNECTED" <=> c = "good"
       /\ T!DockerStatus[c] = "CONNECTED" <=> c = "good"
       /\ T!PrometheusStatus[c] = "CONNECTED" <=> c = "good"
       /\ T!GrafanaStatus[c] = "CONNECTED" <=> c \in {"good", "odd"}
       /\ T!ToolStatus[c] = "CONNECTED" <=> c = "good"
  /\ \A c \in T!Condition :
       /\ T!KubernetesStatus[c] # "throws" /\ T!AwsStatus[c] # "throws"
       /\ T!JenkinsStatus[c] # "throws" /\ T!PrometheusStatus[c] # "throws"
       /\ T!GrafanaStatus[c] # "throws" /\ T!ToolStatus[c] # "throws"
       /\ T!DockerStatus[c] = "throws" <=> c = "malformed"
<1>1. T!Condition = {"absent", "malformed", "good", "denied", "forbidden", "failing", "odd",
                     "silent"}
  BY DEF T!Condition, T!KubernetesStatus
<1>2. T!KubernetesStatus = [absent |-> "NOT_CONFIGURED", malformed |-> "UNREACHABLE",
        good |-> "CONNECTED", denied |-> "AUTH_FAILED", forbidden |-> "AUTH_FAILED",
        failing |-> "UNREACHABLE", odd |-> "UNREACHABLE", silent |-> "UNREACHABLE"]
  BY DEF T!KubernetesStatus
<1> QED
  BY <1>1, <1>2 DEF T!AwsStatus, T!JenkinsStatus, T!DockerStatus, T!PrometheusStatus,
       T!GrafanaStatus, T!ToolStatus

\* Whose status is whose.
LEMMA StatusKnown ==
  ASSUME NEW p \in T!Provider, NEW c \in T!Condition
  PROVE  /\ T!Status(p, c) = "CONNECTED" => c \in {"good", "odd"}
         /\ c = "good" => T!Status(p, c) = "CONNECTED"
         /\ p = "jenkins" => (T!Status(p, c) = "CONNECTED" <=> c = "good")
         /\ p \in {"kubernetes", "docker"} => (T!Status(p, c) = "CONNECTED" <=> c = "good")
         /\ T!Status(p, c) = "throws" => p = "docker" /\ c = "malformed"
<1>1. T!Provider = {"kubernetes", "aws", "jenkins", "docker", "argocd", "github", "prometheus",
                    "grafana", "terraform", "ansible"}
  BY DEF T!Provider, T!StatusOf
<1>2. /\ T!StatusOf["kubernetes"] = T!KubernetesStatus /\ T!StatusOf["aws"] = T!AwsStatus
      /\ T!StatusOf["jenkins"] = T!JenkinsStatus /\ T!StatusOf["docker"] = T!DockerStatus
      /\ T!StatusOf["argocd"] = T!KubernetesStatus /\ T!StatusOf["github"] = T!KubernetesStatus
      /\ T!StatusOf["prometheus"] = T!PrometheusStatus
      /\ T!StatusOf["grafana"] = T!GrafanaStatus
      /\ T!StatusOf["terraform"] = T!ToolStatus /\ T!StatusOf["ansible"] = T!ToolStatus
  BY DEF T!StatusOf, T!ArgoCdStatus, T!GitHubStatus
<1> QED
  BY <1>1, <1>2, StatusTable DEF T!Status, T!MapAwsToProviderStatus

\* The reports, and what each asks for.
LEMMA AsksTable ==
  /\ T!Kind = {"hub", "registry", "observability", "cloud", "monitoring", "tools", "kubernetes",
               "jenkins", "docker", "argocd", "github"}
  /\ T!Asks["hub"] = {"kubernetes", "aws", "jenkins", "docker", "terraform", "ansible"}
  /\ T!Asks["registry"] = {"kubernetes", "aws", "jenkins", "docker", "argocd"}
  /\ T!Asks["observability"] = {"kubernetes", "jenkins", "docker", "terraform", "ansible"}
  /\ T!Asks["cloud"] = {"aws"} /\ T!Asks["monitoring"] = {"prometheus", "grafana"}
  /\ T!Asks["tools"] = {"terraform", "ansible"} /\ T!Asks["kubernetes"] = {"kubernetes"}
  /\ T!Asks["jenkins"] = {"jenkins"} /\ T!Asks["docker"] = {"docker"}
  /\ T!Asks["argocd"] = {"argocd"} /\ T!Asks["github"] = {"github"}
BY DEF T!Kind, T!Asks, T!Tool

\* A status the summary calls unreachable.
Down(p, s) == s \in {"UNREACHABLE", "AUTH_FAILED"} \/ (p = "jenkins" /\ s = "FORBIDDEN")

\* Whatever words a report has for a provider, connected is said of the same statuses by all,
\* and nothing the summary calls unreachable is called unconfigured by another.
LEMMA ToldKnown ==
  ASSUME NEW kind \in T!Kind, NEW got \in [T!Asks[kind] -> T!Condition],
         NEW p \in T!Asks[kind] \cap DOMAIN T!Told(kind, got)
  PROVE  /\ T!Told(kind, got)[p] = "CONNECTED" => T!Status(p, got[p]) = "CONNECTED"
         /\ T!Status(p, got[p]) = "CONNECTED" /\ (kind = "cloud" => rptSetting.awsEnabled)
              => T!Told(kind, got)[p] = "CONNECTED"
         /\ kind = "hub" /\ T!Told(kind, got)[p] = "UNREACHABLE" => Down(p, T!Status(p, got[p]))
         /\ T!Told(kind, got)[p] = "NOT_CONFIGURED" /\ (kind = "cloud" => rptSetting.awsEnabled)
              => ~Down(p, T!Status(p, got[p]))
<1> DEFINE s == T!Status(p, got[p])
<1>1. CASE kind = "hub"
  <2>1. T!Told(kind, got)[p] = T!HubIntegration(p, s)
    BY <1>1 DEF T!Told, T!HubReport
  <2> QED
    BY <1>1, <2>1 DEF T!HubIntegration, Down
<1>2. CASE kind = "registry"
  <2>1. p # "github"
    BY <1>2, AsksTable
  <2>2. T!Told(kind, got)[p] = T!ReadinessState(s)
    BY <1>2, <2>1 DEF T!Told, T!RegistryReport
  <2> QED
    BY <1>2, <2>2 DEF T!ReadinessState, Down
<1>3. CASE kind = "observability"
  <2>1. T!Told(kind, got) = T!HealthReport(got)
    BY <1>3 DEF T!Told
  <2>2. p # "infrastructure" /\ p \in (T!Asks["observability"] \ T!Tool) \cup {"infrastructure"}
    BY <1>3, <2>1, AsksTable DEF T!HealthReport
  <2>3. T!Told(kind, got)[p] = IF s = "throws" THEN "UNKNOWN" ELSE s
    BY <2>1, <2>2 DEF T!HealthReport
  <2> QED
    BY <1>3, <2>3 DEF Down
<1>4. CASE kind = "cloud"
  <2>1. p = "aws" /\ T!Told(kind, got) = T!CloudReport(got)
    BY <1>4, AsksTable DEF T!Told
  <2>2. T!Told(kind, got)[p] = IF rptSetting.awsEnabled THEN T!ReadinessState(s)
                                                       ELSE "NOT_CONFIGURED"
    BY <2>1 DEF T!CloudReport
  <2> QED
    BY <1>4, <2>2 DEF T!ReadinessState, Down
<1>5. CASE kind = "monitoring"
  <2>1. T!Told(kind, got)[p] = T!ReadinessState(s)
    BY <1>5 DEF T!Told, T!MonitoringReport
  <2> QED
    BY <1>5, <2>1 DEF T!ReadinessState, Down
<1>6. CASE kind = "tools"
  <2>1. p \in {"toolchain"}
    BY <1>6 DEF T!Told, T!ToolsReport
  <2> QED
    BY <1>6, <2>1, AsksTable
<1>7. CASE kind \in {"kubernetes", "jenkins", "docker", "argocd", "github"}
  <2>1. T!Told(kind, got)[p] = T!ReadinessState(s)
    BY <1>7 DEF T!Told, T!PageReport
  <2> QED
    BY <1>7, <2>1 DEF T!ReadinessState, Down
<1> QED
  BY <1>1, <1>2, <1>3, <1>4, <1>5, <1>6, <1>7, AsksTable

\* What is offered is up, and builds are offered wherever Jenkins is and jobs are allowed.
LEMMA OffersKnown ==
  ASSUME NEW kind \in T!Kind, NEW got \in [T!Asks[kind] -> T!Condition],
         NEW p \in T!Asks[kind]
  PROVE  /\ p \in T!Offers(kind, got) =>
              /\ T!Status(p, got[p]) = "CONNECTED" /\ kind # "cloud"
              /\ p \in {"kubernetes", "docker", "jenkins"}
         /\ p = "jenkins" =>
              (p \in T!Offers(kind, got) <=> T!Status(p, got[p]) = "CONNECTED" /\ rptSetting.jobs)
BY AsksTable DEF T!Offers

\* A viewer who is barred is told nothing, and offered nothing.
LEMMA WithheldKnown ==
  ASSUME NEW kind \in T!Kind, NEW p \in DOMAIN T!Withheld(kind)
  PROVE  T!Withheld(kind)[p] \in {"NOT_CONFIGURED", "RESTRICTED", "DISABLED"}
<1>1. CASE kind = "hub"
  BY <1>1 DEF T!Withheld, T!RestrictedHub
<1>2. CASE kind = "observability"
  BY <1>2 DEF T!Withheld, T!RestrictedHealth
<1>3. CASE kind \notin {"hub", "observability"}
  BY <1>3 DEF T!Withheld, T!BlockedReport, T!ReadinessState
<1> QED
  BY <1>1, <1>2, <1>3

\* What a made report rests on, by what became of it.
LEMMA MadeKnown ==
  ASSUME ReportsInv, NEW r \in T!Made
  PROVE  \E kind \in T!Kind : \E got \in [T!Asks[kind] -> T!Condition] :
           /\ rptReport[r].kind = kind
           /\ rptReport[r].had \in [T!Asks[kind] -> SUBSET T!Condition]
           /\ \A p \in T!Asks[kind] : got[p] \in rptReport[r].had[p]
           /\ T!Kept(r) =>
                /\ T!Tells(r) = T!Withheld(kind)
                /\ rptReport[r].answer.offers = {} /\ ~rptReport[r].answer.failed
           /\ ~T!Kept(r) /\ rptReport[r].answer.failed => T!Fails(kind, got)
           /\ T!Speaks(r) =>
                /\ T!Tells(r) = T!Told(kind, got)
                /\ rptReport[r].answer.offers = T!Offers(kind, got)
<1>1. r \in DOMAIN rptReport /\ ~rptReport[r].open
  BY DEF T!Made
<1>2. PICK kind \in T!Kind : rptReport[r].kind = kind
  BY <1>1 DEF ReportsInv, ReportSound
<1>3. PICK got \in [T!Asks[kind] -> T!Condition] :
        /\ \A p \in T!Asks[kind] : got[p] \in rptReport[r].had[p]
        /\ rptReport[r].answer = T!Reply(kind, got)
  BY <1>1, <1>2 DEF ReportsInv, ReportSound, AnswerSound
<1>4. rptReport[r].had \in [T!Asks[kind] -> SUBSET T!Condition]
  BY <1>1, <1>2 DEF ReportsInv, ReportSound
<1>5. T!Kept(r) <=> T!Barred(kind)
  BY <1>2 DEF T!Kept
<1>6. CASE T!Barred(kind)
  <2>1. rptReport[r].answer = [T!Blank EXCEPT !.told = T!Withheld(kind)]
    BY <1>3, <1>6 DEF T!Reply
  <2>2. /\ T!Tells(r) = T!Withheld(kind) /\ rptReport[r].answer.offers = {}
        /\ ~rptReport[r].answer.failed
    BY <2>1 DEF T!Blank, T!Tells
  <2> QED
    BY <1>2, <1>3, <1>4, <1>5, <1>6, <2>2 DEF T!Speaks
<1>7. CASE ~T!Barred(kind) /\ T!Fails(kind, got)
  <2>1. rptReport[r].answer = [T!Blank EXCEPT !.failed = TRUE]
    BY <1>3, <1>7 DEF T!Reply
  <2>2. rptReport[r].answer.failed
    BY <2>1 DEF T!Blank
  <2> QED
    BY <1>2, <1>3, <1>4, <1>5, <1>7, <2>2 DEF T!Speaks
<1>8. CASE ~T!Barred(kind) /\ ~T!Fails(kind, got)
  <2>1. rptReport[r].answer = [told |-> T!Told(kind, got), offers |-> T!Offers(kind, got),
                               failed |-> FALSE]
    BY <1>3, <1>8 DEF T!Reply
  <2>2. /\ T!Tells(r) = T!Told(kind, got) /\ rptReport[r].answer.offers = T!Offers(kind, got)
        /\ ~rptReport[r].answer.failed
    BY <2>1 DEF T!Tells
  <2> QED
    BY <1>2, <1>3, <1>4, <1>5, <1>8, <2>2
<1> QED
  BY <1>6, <1>7, <1>8

\* A provider that had one condition while two reports were made was seen alike by both.
LEMMA SeenAlike ==
  ASSUME NEW had \in SUBSET T!Condition, T!Cardinality(had) = 1, NEW c \in had, NEW d \in had
  PROVE  c = d
<1>1. IsFiniteSet(T!Condition)
  <2>1. T!Condition = ({"absent", "malformed"} \cup {"good", "denied"})
                        \cup ({"forbidden", "failing"} \cup {"odd", "silent"})
    BY DEF T!Condition, T!KubernetesStatus
  <2>2. \A x, y : IsFiniteSet({x, y})
    <3>1. ASSUME NEW x, NEW y PROVE IsFiniteSet({x, y})
      <4>1. {x, y} = {x} \cup {y}
        OBVIOUS
      <4>2. IsFiniteSet({x}) /\ IsFiniteSet({y})
        BY FS_Singleton
      <4>3. IsFiniteSet({x} \cup {y})
        BY <4>2, FS_Union
      <4> QED
        BY <4>1, <4>3
    <3> QED
      BY <3>1
  <2>3. /\ IsFiniteSet({"absent", "malformed"} \cup {"good", "denied"})
        /\ IsFiniteSet({"forbidden", "failing"} \cup {"odd", "silent"})
    BY <2>2, FS_Union
  <2> QED
    BY <2>1, <2>3, FS_Union
<1>2. IsFiniteSet(had) /\ Cardinality(had) = 1
  BY <1>1, FS_Subset, ReportsCardinality
<1>3. \E x : had = {x}
  BY <1>2, FS_Singleton
<1> QED
  BY <1>3

\* Reports that are sound are truthful.
LEMMA SoundTruthful ==
  ASSUME ReportsInv
  PROVE  T!ReportsTruthful
<1>1. T!ReportsAgree
  <2> SUFFICES ASSUME NEW r \in T!Made, NEW s \in T!Made, T!Speaks(r), T!Speaks(s),
                      NEW p \in T!Asks[rptReport[r].kind] \cap T!Asks[rptReport[s].kind],
                      p \in DOMAIN T!Tells(r), T!Idle(r, p), p \in DOMAIN T!Tells(s),
                      T!Idle(s, p),
                      rptReport[r].kind = "cloud" => rptSetting.awsEnabled,
                      rptReport[s].kind = "cloud" => rptSetting.awsEnabled,
                      rptReport[r].had[p] = rptReport[s].had[p]
               PROVE  /\ (T!Tells(r)[p] = "CONNECTED") = (T!Tells(s)[p] = "CONNECTED")
                      /\ rptReport[r].kind = "hub" /\ T!Tells(r)[p] = "UNREACHABLE" =>
                           T!Tells(s)[p] # "NOT_CONFIGURED"
                      /\ p = "jenkins" =>
                           (p \in rptReport[r].answer.offers) = (p \in rptReport[s].answer.offers)
    BY DEF T!ReportsAgree
  <2>1. PICK k \in T!Kind : \E got \in [T!Asks[k] -> T!Condition] :
          /\ rptReport[r].kind = k
          /\ rptReport[r].had \in [T!Asks[k] -> SUBSET T!Condition]
          /\ \A q \in T!Asks[k] : got[q] \in rptReport[r].had[q]
          /\ T!Tells(r) = T!Told(k, got) /\ rptReport[r].answer.offers = T!Offers(k, got)
    BY MadeKnown
  <2>2. PICK got \in [T!Asks[k] -> T!Condition] :
          /\ rptReport[r].kind = k
          /\ rptReport[r].had \in [T!Asks[k] -> SUBSET T!Condition]
          /\ \A q \in T!Asks[k] : got[q] \in rptReport[r].had[q]
          /\ T!Tells(r) = T!Told(k, got) /\ rptReport[r].answer.offers = T!Offers(k, got)
    BY <2>1
  <2>3. PICK l \in T!Kind : \E saw \in [T!Asks[l] -> T!Condition] :
          /\ rptReport[s].kind = l
          /\ \A q \in T!Asks[l] : saw[q] \in rptReport[s].had[q]
          /\ T!Tells(s) = T!Told(l, saw) /\ rptReport[s].answer.offers = T!Offers(l, saw)
    BY MadeKnown
  <2>4. PICK saw \in [T!Asks[l] -> T!Condition] :
          /\ rptReport[s].kind = l
          /\ \A q \in T!Asks[l] : saw[q] \in rptReport[s].had[q]
          /\ T!Tells(s) = T!Told(l, saw) /\ rptReport[s].answer.offers = T!Offers(l, saw)
    BY <2>3
  <2>5. p \in T!Asks[k] \cap DOMAIN T!Told(k, got) /\ p \in T!Asks[l] \cap DOMAIN T!Told(l, saw)
    BY <2>2, <2>4
  <2>6. got[p] = saw[p]
    BY <2>2, <2>4, <2>5, SeenAlike DEF T!Idle
  <2>6a. rptReport[r].kind = k /\ (k = "cloud" => rptSetting.awsEnabled)
    BY <2>2
  <2>7. PICK x : x = T!Status(p, got[p]) /\ x = T!Status(p, saw[p])
    BY <2>6
  <2>8. /\ T!Tells(r)[p] = "CONNECTED" <=> x = "CONNECTED"
        /\ k = "hub" /\ T!Tells(r)[p] = "UNREACHABLE" => Down(p, x)
    <3>1. /\ T!Told(k, got)[p] = "CONNECTED" <=> T!Status(p, got[p]) = "CONNECTED"
          /\ k = "hub" /\ T!Told(k, got)[p] = "UNREACHABLE" => Down(p, T!Status(p, got[p]))
      BY <2>5, <2>6a, ToldKnown
    <3> QED
      BY <2>2, <2>7, <3>1
  <2>9. /\ T!Tells(s)[p] = "CONNECTED" <=> x = "CONNECTED"
        /\ T!Tells(s)[p] = "NOT_CONFIGURED" => ~Down(p, x)
    BY <2>4, <2>5, <2>7, ToldKnown
  <2>10. p = "jenkins" =>
           (p \in rptReport[r].answer.offers <=> p \in rptReport[s].answer.offers)
    <3>1. p = "jenkins" => (p \in T!Offers(k, got) <=>
                             T!Status(p, got[p]) = "CONNECTED" /\ rptSetting.jobs)
      BY <2>5, OffersKnown
    <3>2. p = "jenkins" => (p \in T!Offers(l, saw) <=> x = "CONNECTED" /\ rptSetting.jobs)
      BY <2>4, <2>5, <2>7, OffersKnown
    <3> QED
      BY <2>2, <2>4, <2>7, <3>1, <3>2
  <2> QED
    BY <2>2, <2>8, <2>9, <2>10
<1>2. T!ConnectedMeansAnswered
  <2> SUFFICES ASSUME NEW r \in T!Made, T!Speaks(r),
                      NEW p \in T!Asks[rptReport[r].kind] \cap DOMAIN T!Tells(r)
               PROVE  /\ T!Tells(r)[p] = "CONNECTED"
                           => rptReport[r].had[p] \cap {"good", "odd"} # {}
                      /\ p \in rptReport[r].answer.offers =>
                           "good" \in rptReport[r].had[p] /\ T!Tells(r)[p] = "CONNECTED"
                      /\ rptReport[r].had[p] = {"good"}
                           /\ (rptReport[r].kind = "cloud" => rptSetting.awsEnabled)
                           => T!Tells(r)[p] = "CONNECTED"
    BY DEF T!ConnectedMeansAnswered
  <2>1. PICK k \in T!Kind : \E got \in [T!Asks[k] -> T!Condition] :
          /\ rptReport[r].kind = k
          /\ \A q \in T!Asks[k] : got[q] \in rptReport[r].had[q]
          /\ T!Tells(r) = T!Told(k, got) /\ rptReport[r].answer.offers = T!Offers(k, got)
    BY MadeKnown
  <2>2. PICK got \in [T!Asks[k] -> T!Condition] :
          /\ rptReport[r].kind = k
          /\ \A q \in T!Asks[k] : got[q] \in rptReport[r].had[q]
          /\ T!Tells(r) = T!Told(k, got) /\ rptReport[r].answer.offers = T!Offers(k, got)
    BY <2>1
  <2>3. /\ p \in T!Asks[k] \cap DOMAIN T!Told(k, got) /\ got[p] \in rptReport[r].had[p]
        /\ p \in T!Provider /\ got[p] \in T!Condition
    BY <2>2, AsksProviders
  <2>4. T!Tells(r)[p] = "CONNECTED" => rptReport[r].had[p] \cap {"good", "odd"} # {}
    BY <2>2, <2>3, ToldKnown, StatusKnown
  <2>5. p \in rptReport[r].answer.offers =>
          "good" \in rptReport[r].had[p] /\ T!Tells(r)[p] = "CONNECTED"
    BY <2>2, <2>3, ToldKnown, StatusKnown, OffersKnown
  <2>6. rptReport[r].had[p] = {"good"} /\ (rptReport[r].kind = "cloud" => rptSetting.awsEnabled)
          => T!Tells(r)[p] = "CONNECTED"
    BY <2>2, <2>3, ToldKnown, StatusKnown
  <2> QED
    BY <2>4, <2>5, <2>6
<1>3. T!FailuresContained
  <2> SUFFICES ASSUME NEW r \in T!Made, rptReport[r].answer.failed
               PROVE  /\ rptReport[r].kind \in {"hub", "registry", "docker"}
                      /\ "malformed" \in rptReport[r].had["docker"]
    BY DEF T!FailuresContained
  <2>1. PICK k \in T!Kind : \E got \in [T!Asks[k] -> T!Condition] :
          /\ rptReport[r].kind = k
          /\ \A q \in T!Asks[k] : got[q] \in rptReport[r].had[q]
          /\ T!Fails(k, got)
    BY MadeKnown
  <2>2. PICK got \in [T!Asks[k] -> T!Condition] :
          /\ rptReport[r].kind = k
          /\ \A q \in T!Asks[k] : got[q] \in rptReport[r].had[q]
          /\ T!Fails(k, got)
    BY <2>1
  <2>3. PICK p \in T!Asks[k] : k # "observability" /\ T!Status(p, got[p]) = "throws"
    BY <2>2 DEF T!Fails
  <2>4. p = "docker" /\ got[p] = "malformed"
    BY <2>3, StatusKnown, AsksProviders
  <2> QED
    BY <2>2, <2>3, <2>4, AsksTable
<1>4. T!NothingLeaks
  <2> SUFFICES ASSUME NEW r \in T!Made, T!Kept(r)
               PROVE  /\ \A p \in DOMAIN T!Tells(r) :
                           T!Tells(r)[p] \in {"NOT_CONFIGURED", "RESTRICTED", "DISABLED"}
                      /\ rptReport[r].answer.offers = {} /\ ~rptReport[r].answer.failed
    BY DEF T!NothingLeaks
  <2>1. PICK k \in T!Kind :
          /\ T!Tells(r) = T!Withheld(k)
          /\ rptReport[r].answer.offers = {} /\ ~rptReport[r].answer.failed
    BY MadeKnown
  <2> QED
    BY <2>1, WithheldKnown
<1> QED
  BY <1>1, <1>2, <1>3, <1>4 DEF T!ReportsTruthful

-----------------------------------------------------------------------------
(* The composition: a step of all is a step or a stutter of each           *)

\* Of deployments.
LEMMA DeploymentsPart == AllSpec => Spec
<1>1. AllInit => Init
  BY DEF AllInit
<1>2. [AllNext]_allVars => [Next]_vars
  BY DEF AllNext, allVars
<1> QED
  BY <1>1, <1>2, PTL DEF AllSpec, Spec

\* Of AWS releases.
LEMMA AwsPart == AllSpec => A!Spec
<1>1. AllInit => A!Init
  BY DEF AllInit
<1>2. [AllNext]_allVars => [A!Next]_(A!vars)
  BY DEF AllNext, allVars, awsVars, A!vars
<1> QED
  BY <1>1, <1>2, PTL DEF AllSpec, A!Spec

\* Of what the AWS page offers.
LEMMA OffersPart == AllSpec => W!Spec
<1>1. AllInit => W!Init
  BY DEF AllInit
<1>2. [AllNext]_allVars => [W!Next]_(W!vars)
  BY DEF AllNext, allVars, offVars, W!vars
<1> QED
  BY <1>1, <1>2, PTL DEF AllSpec, W!Spec

\* Of the session of a tab.
LEMMA SessionsPart == AllSpec => S!Spec
<1>1. AllInit => S!Init
  BY DEF AllInit
<1>2. [AllNext]_allVars => [S!Next]_(S!vars)
  BY DEF AllNext, allVars, sesVars, S!vars
<1> QED
  BY <1>1, <1>2, PTL DEF AllSpec, S!Spec

\* Of operations at their providers.
LEMMA ActionsPart == AllSpec => P!Spec
<1>1. AllInit => P!Init
  BY DEF AllInit
<1>2. [AllNext]_allVars => [P!Next]_(P!vars)
  BY DEF AllNext, allVars, actVars, P!vars
<1> QED
  BY <1>1, <1>2, PTL DEF AllSpec, P!Spec

\* Of observed signals.
LEMMA SignalsPart == AllSpec => K!Spec
<1>1. AllInit => K!Init
  BY DEF AllInit
<1>2. [AllNext]_allVars => [K!Next]_(K!vars)
  BY DEF AllNext, allVars, obsVars, K!vars
<1> QED
  BY <1>1, <1>2, PTL DEF AllSpec, K!Spec

\* Of prepared remediations.
LEMMA RemediationPart == AllSpec => R!Spec
<1>1. AllInit => R!Init
  BY DEF AllInit
<1>2. [AllNext]_allVars => [R!Next]_(R!vars)
  BY DEF AllNext, allVars, remVars, R!vars
<1> QED
  BY <1>1, <1>2, PTL DEF AllSpec, R!Spec

\* Of reports of the providers.
LEMMA ReportsPart == AllSpec => T!Spec
<1>1. AllInit => T!Init
  BY DEF AllInit
<1>2. [AllNext]_allVars => [T!Next]_(T!vars)
  BY DEF AllNext, allVars, rptVars, T!vars
<1> QED
  BY <1>1, <1>2, PTL DEF AllSpec, T!Spec

\* Of choices on a page.
LEMMA ChoicesPart == AllSpec => C!Spec
<1>1. AllInit => C!Init
  BY DEF AllInit
<1>2. [AllNext]_allVars => [C!Next]_(C!vars)
  BY DEF AllNext, allVars, selVars, C!vars
<1> QED
  BY <1>1, <1>2, PTL DEF AllSpec, C!Spec

-----------------------------------------------------------------------------
(* The composition: the theorems                                           *)

\* Whatever component moves, its variables keep their types, and what its inductive invariant
\* says holds: among others a slot that won the claim of a deployment owns it until it wrote
\* the outcome, an AWS operation names only what was created before it, and a fingerprint has
\* one row.
THEOREM TypesAreKept == AllSpec => []TypesOK
<1>1. AllSpec => []DeploymentInv
  BY DeploymentsPart, DeploymentInvariance, PTL
<1>2. AllSpec => []A!ReleaseInv
  <2>1. A!Spec => []A!ReleaseInv
    BY ReleaseInvariance, ComponentsAssumption DEF ComponentsAssumption
  <2> QED
    BY <2>1, AwsPart, PTL
<1>3. AllSpec => []TabInv
  <2>1. S!Spec => []TabInv
    BY TabInvariance, ComponentsAssumption DEF ComponentsAssumption
  <2> QED
    BY <2>1, SessionsPart, PTL
<1>4. AllSpec => []P!ActionsInv
  <2>1. P!Spec => []P!ActionsInv
    BY ActionsInvariance, ComponentsAssumption DEF ComponentsAssumption
  <2> QED
    BY <2>1, ActionsPart, PTL
<1>5. AllSpec => []SignalsInv
  <2>1. K!Init => SignalsInv
    BY SignalsInit, ComponentsAssumption DEF ComponentsAssumption
  <2>2. SignalsInv /\ [K!Next]_(K!vars) => SignalsInv'
    BY SignalsStep, ComponentsAssumption DEF ComponentsAssumption
  <2> QED
    BY <2>1, <2>2, SignalsPart, PTL DEF K!Spec
<1>6. AllSpec => []R!PrepInv
  <2>1. R!Spec => []R!PrepInv
    BY PrepInvariance, ComponentsAssumption DEF ComponentsAssumption
  <2> QED
    BY <2>1, RemediationPart, PTL
<1>7. AllSpec => []W!OffersInv
  <2>1. W!Spec => []W!OffersInv
    BY OffersInvariance, ComponentsAssumption DEF ComponentsAssumption
  <2> QED
    BY <2>1, OffersPart, PTL
<1>8. /\ DeploymentInv /\ A!ReleaseInv /\ TabInv /\ P!ActionsInv /\ SignalsInv /\ R!PrepInv
      /\ W!OffersInv
      => TypesOK
  BY DEF TypesOK, TabInv, SignalsInv
<1> QED
  BY <1>1, <1>2, <1>3, <1>4, <1>5, <1>6, <1>7, <1>8, PTL

\* What runs in an environment was built, pushed and planned for it, and applied with approval.
THEOREM DeployedIsPushed == AllSpec => []DeployedWasPushed
<1>1. A!Spec => []A!DeployedWasPushed
  BY OnlyPushedIsDeployed, ComponentsAssumption DEF ComponentsAssumption
<1>2. A!DeployedWasPushed => DeployedWasPushed
  BY DEF DeployedWasPushed
<1> QED
  BY <1>1, <1>2, AwsPart, PTL

\* A plan that is applied only adds, within the limits, and never in production.
THEOREM PlansAreBounded == AllSpec => []AppliedPlansBounded
<1>1. A!Spec => []A!AppliedPlansBounded
  BY OnlyBoundedPlansApply, ComponentsAssumption DEF ComponentsAssumption
<1>2. A!AppliedPlansBounded => AppliedPlansBounded
  BY DEF AppliedPlansBounded
<1> QED
  BY <1>1, <1>2, AwsPart, PTL

\* Where no two records overlapped and none was cut short, the releases of an environment are
\* its history.
THEOREM RecordsAgree == AllSpec => []SequentialRecordsAgree
<1>1. A!Spec => []A!SequentialRecordsAgree
  BY RecordsAreHistory, ComponentsAssumption DEF ComponentsAssumption
<1>2. A!SequentialRecordsAgree => SequentialRecordsAgree
  BY DEF SequentialRecordsAgree
<1> QED
  BY <1>1, <1>2, AwsPart, PTL

\* What the AWS page offers is accepted while nothing changed, no older plan is applied than was
\* shown, and no section of the page denies another.
THEOREM OffersAreTruthful == AllSpec => []OffersTruthful
<1>1. W!Spec => []W!OffersTruthful
  BY OffersStayTruthful, ComponentsAssumption DEF ComponentsAssumption
<1>2. W!OffersTruthful => OffersTruthful
  BY DEF OffersTruthful
<1> QED
  BY <1>1, <1>2, OffersPart, PTL

\* Storage and store of a tab name one account or none.
THEOREM TabStaysCoherent == AllSpec => []TabCoherent
<1>1. S!Spec => []S!TabCoherent
  BY TabIsCoherent, ComponentsAssumption DEF ComponentsAssumption
<1>2. S!TabCoherent => TabCoherent
  BY DEF TabCoherent
<1> QED
  BY <1>1, <1>2, SessionsPart, PTL

\* No provider takes an operation more often than it was released, by its request or by the
\* approvals that were written, what is reported was taken, and only allowed namespaces change.
THEOREM ActionsStayTruthful == AllSpec => []ActionsTruthful
<1>1. P!Spec => []P!ActionsTruthful
  BY ActionsAreTruthful, ComponentsAssumption DEF ComponentsAssumption
<1>2. P!ActionsTruthful => ActionsTruthful
  BY DEF ActionsTruthful
<1> QED
  BY <1>1, <1>2, ActionsPart, PTL

\* A prepared restart is of a container of the incident, and of the one its page showed when
\* nothing happened in between.
THEOREM ShownIsPrepared == AllSpec => []PreparedAsShown
<1>1. R!Spec => []R!PreparedAsShown
  BY OnlyShownIsPrepared, ComponentsAssumption DEF ComponentsAssumption
<1>2. R!PreparedAsShown => PreparedAsShown
  BY DEF PreparedAsShown
<1> QED
  BY <1>1, <1>2, RemediationPart, PTL

\* The reports of a provider agree, call connected only what answered, are failed by Docker's
\* address alone, and keep everything from who may not know.
THEOREM ReportsAreTruthful == AllSpec => []ReportsTruthful
<1>1. AllSpec => []ReportsInv
  BY ReportsPart, ReportsInit, ReportsStep, PTL DEF T!Spec
<1>2. ReportsInv => ReportsTruthful
  BY SoundTruthful DEF ReportsTruthful
<1> QED
  BY <1>1, <1>2, PTL

\* What a page shows is what is chosen on it, unless a late answer was the last; and every
\* deployment is of an environment of its project.
THEOREM SelectionsAreTruthful == AllSpec => []SelectionsTruthful
<1>1. AllSpec => []C!ChoiceShown
  BY ChoicesPart, ChoiceInit, ChoiceStep, PTL DEF C!Spec
<1>2. C!ChoiceShown => SelectionsTruthful
  BY DEF SelectionsTruthful
<1> QED
  BY <1>1, <1>2, PTL
=============================================================================
