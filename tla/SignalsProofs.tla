---------------------------- MODULE SignalsProofs ----------------------------
(***************************************************************************)
(* Proofs about Signals, for every set of containers, looks and requests:  *)
(* what a scan may resolve, and that a scan nobody disturbed leaves the    *)
(* active container signals its look at Docker called for. SignalsInv is   *)
(* what a scan relies on from one database call to the next.               *)
(***************************************************************************)
EXTENDS Signals, TLAPS

ConditionKind == {"running_unhealthy", "restarting", "dead", "paused", "created_not_started",
                  "unexpected_exit"}
RowType == [status : Status, archived : BOOLEAN, lastSeen : 0..now,
            scope : Monitored \cup {None}]
List    == [Container -> Look \cup {None}]

-----------------------------------------------------------------------------
(* The conditions of containers and the signals of a list                  *)

\* A condition is called for only where somebody watches, and it has one of six kinds.
LEMMA Watched ==
  ASSUME NEW o, Classify(o) # None
  PROVE  Scope(o) \in Monitored /\ Classify(o).kind \in ConditionKind
<1> DEFINE K == Classify(o)
<1>1. Scope(o) \in Monitored
  BY DEF Classify
<1>2. K.kind \in ConditionKind
  BY <1>1 DEF Classify, Condition, ConditionKind
<1> QED
  BY <1>1, <1>2

\* What a list calls for: one signal for each container in trouble, in a scope somebody watches.
LEMMA RaisedBy ==
  ASSUME NEW seen \in List, NEW f \in Raised(seen)
  PROVE  /\ f \in ContainerSignal /\ f \in Row
         /\ f.id \in Container /\ seen[f.id] # None /\ seen[f.id] \in Look
         /\ Classify(seen[f.id]) # None
         /\ f = Fingerprint(f.id, Classify(seen[f.id]))
         /\ Scope(seen[f.id]) \in Monitored
<1>1. PICK c \in Container : /\ seen[c] # None /\ Classify(seen[c]) # None
                             /\ f = Fingerprint(c, Classify(seen[c]))
  BY DEF Raised, Troubled
<1>2. f.id = c
  BY <1>1 DEF Fingerprint
<1>3. seen[c] \in Look
  BY <1>1 DEF List
<1>4. f \in ContainerSignal
  BY <1>1, <1>3 DEF ContainerSignal
<1> QED
  BY <1>1, <1>2, <1>3, <1>4, Watched DEF Row

\* The signal of a container in trouble is among those its list calls for.
LEMMA RaisedIf ==
  ASSUME NEW seen, NEW c \in Container, seen[c] # None, Classify(seen[c]) # None
  PROVE  Fingerprint(c, Classify(seen[c])) \in Raised(seen)
  BY DEF Raised, Troubled

\* No signal of a container is one of the provider.
LEMMA SignalsApart == ContainerSignal \cap ProviderSignals = {}
<1> SUFFICES ASSUME NEW f \in ContainerSignal,
                    NEW t \in {"CONNECTED", "UNKNOWN_ERROR"} \cup Failure,
                    f = ProviderSignal(t)
             PROVE  FALSE
  BY DEF ProviderSignals
<1>1. PICK c \in Container, o \in Look : Classify(o) # None /\ f = Fingerprint(c, Classify(o))
  BY DEF ContainerSignal
<1>2. f.condition.kind \in ConditionKind
  BY <1>1, Watched DEF Fingerprint
<1>3. f.condition.kind = t
  BY DEF ProviderSignal, Fingerprint, Condition
<1>4. t \in {"CONNECTED", "UNKNOWN_ERROR", "UNREACHABLE", "AUTH_FAILED"}
  BY SignalsAssumption
<1> QED
  BY <1>2, <1>3, <1>4 DEF ConditionKind

\* A family that is done with is forgotten: the list calls for the same signals as before, and
\* none of them is of the family.
LEMMA Forgotten ==
  ASSUME NEW seen \in List, NamesApart(seen), NEW c \in Healthy(seen)
  PROVE  LET left == [seen EXCEPT ![c] = None]
         IN  /\ left \in List /\ NamesApart(left) /\ Raised(left) = Raised(seen)
             /\ \A f \in Raised(left) : left[f.id] = seen[f.id]
             /\ Family(c) \cap Raised(left) = {}
<1> DEFINE left == [seen EXCEPT ![c] = None]
<1>0. c \in Container /\ seen[c] # None /\ Classify(seen[c]) = None
  BY DEF Healthy
<1>1. left \in List /\ \A d \in Container : left[d] = IF d = c THEN None ELSE seen[d]
  BY <1>0 DEF List
<1>2. NamesApart(left)
  BY <1>1 DEF NamesApart
<1>3. Troubled(left) = Troubled(seen)
  BY <1>0, <1>1 DEF Troubled
<1>4. \A d \in Troubled(seen) : left[d] = seen[d]
  BY <1>0, <1>1 DEF Troubled
<1>5. Raised(left) = Raised(seen)
  BY <1>3, <1>4 DEF Raised
<1>6. ASSUME NEW f \in Raised(left) PROVE left[f.id] = seen[f.id] /\ f \notin Family(c)
  <2>1. f.id \in Container /\ left[f.id] # None
    BY <1>1, RaisedBy
  <2>2. f.id # c /\ left[f.id] = seen[f.id]
    BY <2>1, <1>1
  <2>3. Name[f.id] # Name[c]
    BY <2>1, <2>2, <1>0 DEF NamesApart
  <2> QED
    BY <2>2, <2>3 DEF Family, Titled
<1> HIDE DEF left
<1>7. Family(c) \cap Raised(left) = {}
  BY <1>6
<1> QED
  BY <1>1, <1>2, <1>5, <1>6, <1>7 DEF left

\* Ingestion is followed by a step that resolves, with nothing found yet.
LEMMA Phases ==
  \A seen : {FirstPhase(seen), AfterFingerprints(seen), AfterTitles(seen)}
              \subseteq {"fingerprints", "titles", "families", "managed"}
  BY DEF FirstPhase, AfterFingerprints, AfterTitles

-----------------------------------------------------------------------------
(* The inductive invariant                                                 *)

\* Nothing recorded, nothing running and no scan satisfy the invariant.
LEMMA InitSignals == Init => SignalsInv
<1> SUFFICES ASSUME Init PROVE SignalsInv
  OBVIOUS
<1>1. NoScan \in ScanRecord
  BY DEF NoScan, ScanRecord, Pc
<1>2. 0 \in 0..MaxTime
  BY SignalsAssumption
<1>3. TypeOK
  <2>1. Absent \in RowType
    BY DEF Init, Absent, RowType, Status
  <2>2. row \in [Row -> RowType] /\ \A f \in Row : row[f].status = "NONE" /\ row[f] = Absent
    BY <2>1 DEF Init, Absent
  <2>3. \A s \in Scan : scan[s].start = 0 /\ scan[s].looked = 0 /\ scan[s].stamp = 0
    BY DEF Init, NoScan
  <2> QED
    BY <1>1, <1>2, <2>2, <2>3 DEF Init, TypeOK, RowType
<1>4. RowsScoped /\ NamesApart(world)
  BY DEF Init, RowsScoped, NamesApart, Absent, Row
<1>5. ASSUME NEW s \in Scan PROVE ScanSound(s) /\ AloneSound(s)
  BY DEF Init, ScanSound, AloneSound, NoScan, NamesApart, Busy, Resting
<1> QED
  BY <1>3, <1>4, <1>5 DEF SignalsInv

\* While one scan is at work no other is alone, so what it does to itself disturbs nobody.
LEMMA OthersSound ==
  ASSUME SignalsInv, NEW s \in Scan, Busy(s), NEW record, Move(s, record), NEW r \in Scan \ {s}
  PROVE  ScanSound(r)' /\ AloneSound(r)'
<1>1. scan'[r] = scan[r] /\ ~scan[r].alone
  BY DEF SignalsInv, TypeOK, Move, AloneSound
<1>2. ScanSound(r)
  BY DEF SignalsInv
<1> QED
  BY <1>1, <1>2 DEF ScanSound, AloneSound, Busy

\* A step that leaves rows, world and clock alone, and moves one scan, keeps the invariant if
\* the scan stays sound.
LEMMA QuietStep ==
  ASSUME SignalsInv, NEW s \in Scan, Busy(s), NEW record \in ScanRecord, Move(s, record),
         record.start <= now /\ record.looked <= now /\ record.stamp <= now,
         UNCHANGED <<row, world, now>>, pending' \subseteq Scan \X Write,
         ScanSound(s)', AloneSound(s)'
  PROVE  SignalsInv'
<1>1. scan' \in [Scan -> ScanRecord] /\ scan'[s] = record
      /\ \A r \in Scan \ {s} : scan'[r] = scan[r]
  BY DEF SignalsInv, TypeOK, Move
<1>2. TypeOK'
  BY <1>1 DEF SignalsInv, TypeOK
<1>3. RowsScoped' /\ NamesApart(world)'
  BY DEF SignalsInv, RowsScoped, NamesApart
<1>4. ASSUME NEW r \in Scan PROVE ScanSound(r)' /\ AloneSound(r)'
  BY OthersSound
<1> QED
  BY <1>2, <1>3, <1>4 DEF SignalsInv

\* A scan that fails, with nothing left to send, keeps the invariant.
LEMMA FailsSound ==
  ASSUME SignalsInv, NEW s \in Scan, Busy(s), scan[s].todo = {},
         NEW failure \in Failure \cup {"UNKNOWN_ERROR"},
         Fails(s, failure), UNCHANGED <<row, world, now>>
  PROVE  SignalsInv'
<1> DEFINE record == Ended(s, "failed")
<1>1. scan[s] \in ScanRecord /\ scan \in [Scan -> ScanRecord] /\ pending \subseteq Scan \X Write
      /\ scan[s].start <= now /\ scan[s].looked <= now /\ scan[s].stamp <= now
      /\ ScanSound(s) /\ AloneSound(s) /\ now \in Nat
  BY SignalsAssumption DEF SignalsInv, TypeOK
<1>2. record \in ScanRecord /\ record.start <= now /\ record.looked <= now /\ record.stamp <= now
  BY <1>1 DEF Ended, NoScan, ScanRecord, Pc
<1>3. pending' \subseteq Scan \X Write
  BY <1>1, SignalsAssumption DEF Fails, Write
<1>4. /\ scan'[s] = record /\ \A r \in Scan \ {s} : scan'[r] = scan[r]
      /\ Move(s, record)
  BY <1>1 DEF Fails, Move
<1>5. /\ record.pc \in {"failed", "idle"} /\ record.todo = {}
      /\ record.missed => record.pc = "failed"
      /\ record.alone => scan[s].alone
      /\ record.seen = scan[s].seen \/ record.seen = [c \in Container |-> None]
  BY <1>1 DEF Ended, NoScan, ScanRecord
<1>6. ScanSound(s)'
  BY <1>1, <1>4, <1>5 DEF ScanSound, NamesApart, Busy, Resting
<1>7. AloneSound(s)'
  BY <1>1, <1>4, <1>5 DEF AloneSound, Busy, Resting, Resolving
<1> QED
  BY <1>2, <1>3, <1>4, <1>6, <1>7, QuietStep

\* Docker shows its containers, and the scan knows what it will raise.
LEMMA LookSound == ASSUME SignalsInv, NEW s \in Scan, LookAt(s) PROVE SignalsInv'
<1> DEFINE record == [scan[s] EXCEPT !.seen = world, !.looked = now, !.todo = Raised(world),
                        !.pc = IF Raised(world) = {} THEN FirstPhase(world) ELSE "ingesting"]
<1>1. scan[s] \in ScanRecord /\ scan \in [Scan -> ScanRecord] /\ pending \subseteq Scan \X Write
      /\ scan[s].start <= now /\ scan[s].stamp <= now /\ world \in List
      /\ ScanSound(s) /\ AloneSound(s) /\ now \in Nat /\ NamesApart(world)
  BY SignalsAssumption DEF SignalsInv, TypeOK, List
<1>2. Raised(world) \subseteq Row
  BY <1>1, RaisedBy
<1>3. record.pc \in IF Raised(world) = {} THEN {"fingerprints", "titles", "families", "managed"}
                    ELSE {"ingesting"}
  BY <1>1, Phases DEF ScanRecord
<1>4. /\ record.seen = world /\ record.looked = now /\ record.todo = Raised(world)
      /\ record.start = scan[s].start /\ record.stamp = scan[s].stamp
      /\ record.missed = scan[s].missed /\ record.alone = scan[s].alone
  BY <1>1 DEF ScanRecord
<1>5. record \in ScanRecord
  BY <1>1, <1>2, <1>3 DEF ScanRecord, Pc, List
<1> HIDE DEF record
<1>6. scan'[s] = record /\ (\A r \in Scan \ {s} : scan'[r] = scan[r]) /\ Move(s, record) /\ Busy(s)
  BY <1>1 DEF LookAt, Move, Busy, Resting, record
<1>7. UNCHANGED <<row, world, now, pending>> /\ scan[s].pc = "looking"
  BY DEF LookAt
<1>8. ScanSound(s)'
  BY <1>1, <1>3, <1>4, <1>6, <1>7 DEF ScanSound
<1>9. AloneSound(s)'
  <2> SUFFICES ASSUME scan[s].alone PROVE AloneSound(s)'
    BY <1>4, <1>6 DEF AloneSound
  <2>1. \A r \in Scan \ {s} : (~Busy(r) /\ ~scan[r].alone)'
    BY <1>1, <1>6 DEF AloneSound, Busy
  <2>2. \A f \in ContainerSignal : ~(Active(f) /\ row[f].lastSeen > scan[s].start)
    BY <1>1, <1>7, <1>6 DEF AloneSound
  <2>3. record.pc \notin {"writing", "monitored", "done"}
    BY <1>3
  <2> QED
    BY <2>1, <2>2, <2>3, <1>4, <1>6, <1>7 DEF AloneSound, Active, Told
<1> QED
  BY <1>1, <1>4, <1>5, <1>6, <1>7, <1>8, <1>9, QuietStep

\* An ingesting scan that takes one of its signals up, or has lost the one it sent.
LEMMA IngestingSound ==
  ASSUME SignalsInv, NEW s \in Scan, NEW record \in ScanRecord, Move(s, record),
         UNCHANGED <<row, world, now, pending>>,
         record.seen = scan[s].seen, record.start = scan[s].start,
         record.looked = scan[s].looked, record.stamp <= now, record.alone = scan[s].alone,
         \/ /\ scan[s].pc = "writing" /\ record.pc = "ingesting" /\ record.missed
            /\ record.todo = scan[s].todo
         \/ /\ scan[s].pc = "ingesting" /\ record.pc = "writing"
            /\ record.signal \in scan[s].todo
            /\ record.todo = scan[s].todo \ {record.signal}
            /\ record.missed = scan[s].missed
  PROVE  SignalsInv'
<1>1. scan[s] \in ScanRecord /\ scan \in [Scan -> ScanRecord] /\ pending \subseteq Scan \X Write
      /\ scan[s].start <= now /\ scan[s].looked <= now /\ scan[s].stamp <= now
      /\ ScanSound(s) /\ AloneSound(s) /\ now \in Nat
  BY SignalsAssumption DEF SignalsInv, TypeOK
<1>2. /\ scan'[s] = record /\ (\A r \in Scan \ {s} : scan'[r] = scan[r]) /\ Busy(s)
  BY <1>1 DEF Move, Busy, Resting
<1>3. ScanSound(s)'
  BY <1>1, <1>2 DEF ScanSound, Busy, Resting
<1>4. AloneSound(s)'
  <2> SUFFICES ASSUME scan[s].alone PROVE AloneSound(s)'
    BY <1>2 DEF AloneSound
  <2>1. \A r \in Scan \ {s} : (~Busy(r) /\ ~scan[r].alone)'
    BY <1>1, <1>2 DEF AloneSound, Busy
  <2>2. \A f \in ContainerSignal : Active(f) /\ row[f].lastSeen > scan[s].start =>
           f \in Raised(scan[s].seen)
    BY <1>1, <1>2 DEF AloneSound
  <2>3. ~record.missed => \A f \in Raised(scan[s].seen) :
          f \in record.todo \/ (record.pc = "writing" /\ f = record.signal) \/ Told(s, f)
    BY <1>1 DEF AloneSound
  <2> QED
    BY <2>1, <2>2, <2>3, <1>2 DEF AloneSound, Active, Told
<1> QED
  BY <1>1, <1>2, <1>3, <1>4, QuietStep

\* ingestSignal sends one of the signals of the list.
LEMMA SendSound ==
  ASSUME SignalsInv, NEW s \in Scan, NEW f \in scan[s].todo, Send(s, f) PROVE SignalsInv'
<1> DEFINE record == [scan[s] EXCEPT !.pc = "writing", !.signal = f, !.stamp = now,
                                     !.todo = @ \ {f}]
<1>1. scan[s] \in ScanRecord /\ now \in Nat
  BY SignalsAssumption DEF SignalsInv, TypeOK
<1>2. record \in ScanRecord
  BY <1>1 DEF ScanRecord, Pc
<1>3. /\ record.seen = scan[s].seen /\ record.start = scan[s].start
      /\ record.looked = scan[s].looked /\ record.stamp = now /\ record.alone = scan[s].alone
      /\ record.pc = "writing" /\ record.signal = f /\ record.todo = scan[s].todo \ {f}
      /\ record.missed = scan[s].missed
  BY <1>1 DEF ScanRecord
<1> HIDE DEF record
<1>4. Move(s, record) /\ UNCHANGED <<row, world, now, pending>> /\ scan[s].pc = "ingesting"
  BY DEF Send, record
<1> QED
  BY <1>1, <1>2, <1>3, <1>4, IngestingSound

\* A signal that was sent is lost.
LEMMA LossSound == ASSUME SignalsInv, NEW s \in Scan, UpsertFails(s) PROVE SignalsInv'
<1> DEFINE record == [scan[s] EXCEPT !.pc = "ingesting", !.signal = None, !.stamp = 0,
                                     !.missed = TRUE]
<1>1. scan[s] \in ScanRecord /\ now \in Nat
  BY SignalsAssumption DEF SignalsInv, TypeOK
<1>2. record \in ScanRecord
  BY <1>1 DEF ScanRecord, Pc
<1>3. /\ record.seen = scan[s].seen /\ record.start = scan[s].start
      /\ record.looked = scan[s].looked /\ record.stamp = 0 /\ record.alone = scan[s].alone
      /\ record.pc = "ingesting" /\ record.todo = scan[s].todo /\ record.missed
  BY <1>1 DEF ScanRecord
<1> HIDE DEF record
<1>4. Move(s, record) /\ UNCHANGED <<row, world, now, pending>> /\ scan[s].pc = "writing"
  BY DEF UpsertFails, record
<1> QED
  BY <1>1, <1>2, <1>3, <1>4, IngestingSound

\* A scan at work that moves on, with the list it has, to another phase of resolution.
LEMMA PhaseSound ==
  ASSUME SignalsInv, NEW s \in Scan, NEW record \in ScanRecord, Move(s, record),
         UNCHANGED <<row, world, now, pending>>,
         \/ scan[s].pc = "ingesting" /\ scan[s].todo = {} /\ ~scan[s].missed
         \/ scan[s].pc \in Resolving \ {"managed", "monitored"},
         record.pc \in Resolving \ {"monitored"},
         record.seen \in List, NamesApart(record.seen),
         Raised(record.seen) = Raised(scan[s].seen),
         \A f \in Raised(record.seen) : record.seen[f.id] = scan[s].seen[f.id],
         record.pc = "resolving" => record.found \cap Raised(record.seen) = {},
         record.start = scan[s].start, record.looked = scan[s].looked,
         record.stamp = scan[s].stamp, record.alone = scan[s].alone,
         record.todo = scan[s].todo, record.missed = scan[s].missed
  PROVE  SignalsInv'
<1>1. scan[s] \in ScanRecord /\ scan \in [Scan -> ScanRecord] /\ pending \subseteq Scan \X Write
      /\ scan[s].start <= now /\ scan[s].looked <= now /\ scan[s].stamp <= now
      /\ ScanSound(s) /\ AloneSound(s) /\ now \in Nat
  BY SignalsAssumption DEF SignalsInv, TypeOK
<1>2. scan'[s] = record /\ (\A r \in Scan \ {s} : scan'[r] = scan[r]) /\ Busy(s)
  BY <1>1 DEF Move, Busy, Resting, Resolving
<1>3. scan[s].todo = {} /\ ~scan[s].missed
  BY <1>1 DEF ScanSound, Resolving
<1>4. ScanSound(s)'
  <2>1. record.start <= record.looked
    BY <1>1, <1>2 DEF ScanSound, Resolving
  <2> QED
    BY <2>1, <1>2, <1>3 DEF ScanSound, Resolving
<1>5. AloneSound(s)'
  <2> SUFFICES ASSUME scan[s].alone PROVE AloneSound(s)'
    BY <1>2 DEF AloneSound
  <2>1. \A r \in Scan \ {s} : (~Busy(r) /\ ~scan[r].alone)'
    BY <1>1, <1>2 DEF AloneSound, Busy
  <2>2. \A f \in ContainerSignal : Active(f) /\ row[f].lastSeen > scan[s].start =>
           f \in Raised(scan[s].seen)
    BY <1>1, <1>2 DEF AloneSound
  <2>3. \A f \in Raised(scan[s].seen) : Told(s, f)
    BY <1>1, <1>3 DEF AloneSound, Resolving
  <2> QED
    BY <2>1, <2>2, <2>3, <1>2 DEF AloneSound, Active, Told, Resolving
<1> QED
  BY <1>1, <1>2, <1>4, <1>5, QuietStep

\* A complete ingestion is followed by the first phase of resolution, an incomplete one fails.
LEMMA IngestedSound == ASSUME SignalsInv, NEW s \in Scan, Ingested(s) PROVE SignalsInv'
<1>1. scan[s] \in ScanRecord /\ Busy(s) /\ scan[s].pc = "ingesting" /\ scan[s].todo = {}
  BY DEF SignalsInv, TypeOK, Ingested, Busy, Resting
<1>2. CASE AfterIngestion(s) = "failed"
  BY <1>1, <1>2, FailsSound DEF Ingested
<1>3. CASE AfterIngestion(s) # "failed"
  <2> DEFINE record == [scan[s] EXCEPT !.pc = AfterIngestion(s)]
  <2>1. ~scan[s].missed /\ AfterIngestion(s) = FirstPhase(scan[s].seen)
    BY <1>3 DEF AfterIngestion
  <2>2. AfterIngestion(s) \in Resolving \ {"monitored", "resolving"}
    BY <2>1, Phases DEF Resolving
  <2>3. record \in ScanRecord /\ record.pc = AfterIngestion(s)
        /\ record.seen = scan[s].seen /\ record.start = scan[s].start
        /\ record.looked = scan[s].looked /\ record.stamp = scan[s].stamp
        /\ record.alone = scan[s].alone /\ record.todo = scan[s].todo
        /\ record.missed = scan[s].missed
    BY <1>1, <2>2 DEF ScanRecord, Pc, Resolving
  <2> HIDE DEF record
  <2>4. Move(s, record) /\ UNCHANGED <<row, world, now, pending>>
    BY <1>3 DEF Ingested, record
  <2>5. NamesApart(scan[s].seen) /\ scan[s].seen \in List
    BY <1>1 DEF SignalsInv, ScanSound, ScanRecord, List
  <2> QED
    BY <1>1, <2>1, <2>2, <2>3, <2>4, <2>5, PhaseSound
<1> QED
  BY <1>2, <1>3

\* Looking up the family of a container that recovered.
LEMMA FindSound ==
  ASSUME SignalsInv, NEW s \in Scan, NEW c \in Container, FindFamily(s, c) PROVE SignalsInv'
<1> DEFINE pc     == IF Family(c) = {} THEN "families" ELSE "resolving"
           record == [scan[s] EXCEPT !.seen[c] = None, !.found = Family(c), !.pc = pc]
           left   == [scan[s].seen EXCEPT ![c] = None]
<1>1. scan[s] \in ScanRecord /\ NamesApart(scan[s].seen) /\ scan[s].seen \in List
  BY DEF SignalsInv, TypeOK, ScanSound, ScanRecord, List
<1>2. /\ left \in List /\ NamesApart(left) /\ Raised(left) = Raised(scan[s].seen)
      /\ \A f \in Raised(left) : left[f.id] = scan[s].seen[f.id]
      /\ Family(c) \cap Raised(left) = {}
  BY <1>1, Forgotten DEF FindFamily
<1>3. Family(c) \subseteq Row
  BY DEF Family
<1>4. left \in [Container -> Look \cup {None}]
  BY <1>2 DEF List
<1>5. record.seen = left /\ record.found = Family(c) /\ record.pc = pc
      /\ record.start = scan[s].start
      /\ record.looked = scan[s].looked /\ record.stamp = scan[s].stamp
      /\ record.alone = scan[s].alone /\ record.todo = scan[s].todo
      /\ record.missed = scan[s].missed
  BY <1>1 DEF ScanRecord
<1>6. record \in ScanRecord
  BY <1>1, <1>3, <1>4 DEF ScanRecord, Pc
<1>7. pc \in Resolving \ {"monitored"}
  BY DEF Resolving
<1>8. Move(s, record) /\ UNCHANGED <<row, world, now, pending>> /\ scan[s].pc = "families"
  BY DEF FindFamily
<1>9. scan[s].pc \in Resolving \ {"managed", "monitored"}
  BY <1>8 DEF Resolving
<1> HIDE DEF record, left, pc
<1> QED
  BY <1>2, <1>5, <1>6, <1>7, <1>8, <1>9, PhaseSound

\* The families are done with, and reconciliation begins.
LEMMA FamiliesSound == ASSUME SignalsInv, NEW s \in Scan, FamiliesDone(s) PROVE SignalsInv'
<1> DEFINE record == [scan[s] EXCEPT !.pc = "managed"]
<1>1. scan[s] \in ScanRecord /\ NamesApart(scan[s].seen) /\ scan[s].seen \in List
  BY DEF SignalsInv, TypeOK, ScanSound, ScanRecord, List
<1>2. record \in ScanRecord /\ record.pc = "managed"
      /\ record.seen = scan[s].seen /\ record.start = scan[s].start
      /\ record.looked = scan[s].looked /\ record.stamp = scan[s].stamp
      /\ record.alone = scan[s].alone /\ record.todo = scan[s].todo
      /\ record.missed = scan[s].missed
  BY <1>1 DEF ScanRecord, Pc
<1> HIDE DEF record
<1>3. Move(s, record) /\ UNCHANGED <<row, world, now, pending>> /\ scan[s].pc = "families"
  BY DEF FamiliesDone, record
<1> QED
  BY <1>1, <1>2, <1>3, PhaseSound DEF Resolving

\* Docker refuses, or the database does.
LEMMA RefusalSound ==
  ASSUME SignalsInv, NEW s \in Scan, Throws(s) \/ \E x \in Failure : LookFails(s, x)
  PROVE  SignalsInv'
<1>1. Busy(s) /\ scan[s].todo = {}
  BY DEF SignalsInv, ScanSound, Throws, LookFails, Busy, Resting
<1> QED
  BY <1>1, FailsSound DEF Throws, LookFails

-----------------------------------------------------------------------------
(* The steps of the environment and of other requests                      *)

\* The clock and the containers move under everybody's feet.
LEMMA WorldSound ==
  ASSUME SignalsInv, Tick \/ \E c \in Container, o \in Look \cup {None} : Change(c, o)
  PROVE  SignalsInv'
<1>1. now \in Nat /\ now' \in 0..MaxTime /\ now <= now'
      /\ UNCHANGED <<row, scan, pending>>
  BY SignalsAssumption DEF SignalsInv, TypeOK, Tick, Change
<1>2. world' \in [Container -> Look \cup {None}]
  BY DEF SignalsInv, TypeOK, Tick, Change
<1>3. NamesApart(world)'
  <2>1. CASE Tick
    BY <2>1 DEF SignalsInv, NamesApart, Tick
  <2>2. ASSUME NEW c \in Container, NEW o \in Look \cup {None}, Change(c, o)
        PROVE  NamesApart(world)'
    BY <2>2 DEF SignalsInv, TypeOK, NamesApart, Change
  <2> QED
    BY <2>1, <2>2
<1>4. TypeOK'
  <2>1. row \in [Row -> RowType] /\ 0..now \subseteq 0..now'
    BY <1>1 DEF SignalsInv, TypeOK, RowType
  <2>2. RowType \subseteq RowType'
    BY <2>1 DEF RowType
  <2>3. row' \in [Row -> RowType']
    BY <2>1, <2>2, <1>1
  <2>4. \A s \in Scan : scan[s].start \in Nat /\ scan[s].looked \in Nat /\ scan[s].stamp \in Nat
    BY DEF SignalsInv, TypeOK, ScanRecord
  <2>5. \A s \in Scan : scan[s].start <= now' /\ scan[s].looked <= now' /\ scan[s].stamp <= now'
    BY <2>4, <1>1 DEF SignalsInv, TypeOK
  <2> QED
    BY <1>1, <1>2, <2>3, <2>5 DEF SignalsInv, TypeOK, RowType
<1>5. RowsScoped'
  BY <1>1 DEF SignalsInv, RowsScoped
<1>6. ASSUME NEW s \in Scan PROVE ScanSound(s)' /\ AloneSound(s)'
  <2>1. ScanSound(s)'
    BY <1>1 DEF SignalsInv, ScanSound, NamesApart, Busy
  <2>2. AloneSound(s)'
    BY <1>1 DEF SignalsInv, AloneSound, Busy, Active, Told
  <2> QED
    BY <2>1, <2>2
<1> QED
  BY <1>3, <1>4, <1>5, <1>6 DEF SignalsInv

\* Once disturbed, a scan at work is as before but not alone, the others are forgotten.
LEMMA DisturbedScans ==
  ASSUME SignalsInv
  PROVE  /\ Disturbed \in [Scan -> ScanRecord]
         /\ \A r \in Scan :
              /\ ~Disturbed[r].alone
              /\ Disturbed[r].start <= now /\ Disturbed[r].looked <= now
              /\ Disturbed[r].stamp <= now
              /\ scan'[r] = Disturbed[r] => ScanSound(r)' /\ AloneSound(r)' /\ Busy(r)' = Busy(r)
<1> SUFFICES ASSUME NEW r \in Scan
             PROVE  /\ Disturbed[r] \in ScanRecord /\ ~Disturbed[r].alone
                    /\ Disturbed[r].start <= now /\ Disturbed[r].looked <= now
                    /\ Disturbed[r].stamp <= now
                    /\ scan'[r] = Disturbed[r] =>
                         ScanSound(r)' /\ AloneSound(r)' /\ Busy(r)' = Busy(r)
  BY DEF Disturbed
<1>1. scan[r] \in ScanRecord /\ now \in Nat /\ ScanSound(r)
      /\ scan[r].start <= now /\ scan[r].looked <= now /\ scan[r].stamp <= now
  BY SignalsAssumption DEF SignalsInv, TypeOK
<1>2. CASE Busy(r)
  <2> DEFINE record == [scan[r] EXCEPT !.alone = FALSE]
  <2>1. Disturbed[r] = record
    BY <1>2 DEF Disturbed
  <2>2. record \in ScanRecord /\ ~record.alone /\ record.pc = scan[r].pc
        /\ record.start = scan[r].start /\ record.looked = scan[r].looked
        /\ record.stamp = scan[r].stamp /\ record.seen = scan[r].seen
        /\ record.todo = scan[r].todo /\ record.signal = scan[r].signal
        /\ record.missed = scan[r].missed /\ record.found = scan[r].found
    BY <1>1 DEF ScanRecord
  <2> HIDE DEF record
  <2>3. ASSUME scan'[r] = record PROVE ScanSound(r)' /\ AloneSound(r)' /\ Busy(r)' = Busy(r)
    BY <1>1, <2>2, <2>3 DEF ScanSound, AloneSound, Busy
  <2> QED
    BY <1>1, <2>1, <2>2, <2>3
<1>3. CASE ~Busy(r)
  <2>1. Disturbed[r] = NoScan
    BY <1>3 DEF Disturbed
  <2>2. NoScan \in ScanRecord /\ NoScan.pc = "idle" /\ ~NoScan.alone
        /\ NoScan.start = 0 /\ NoScan.looked = 0 /\ NoScan.stamp = 0
        /\ NoScan.seen = [c \in Container |-> None] /\ NoScan.todo = {} /\ ~NoScan.missed
    BY DEF NoScan, ScanRecord, Pc
  <2>3. ASSUME scan'[r] = NoScan PROVE ScanSound(r)' /\ AloneSound(r)' /\ Busy(r)' = Busy(r)
    <3>1. ~Busy(r)'
      BY <2>2, <2>3 DEF Busy, Resting
    <3>2. Busy(r)' = Busy(r)
      BY <3>1, <1>3 DEF Busy
    <3> QED
      BY <2>2, <2>3, <3>1, <3>2 DEF ScanSound, AloneSound, NamesApart
  <2> QED
    BY <1>1, <2>1, <2>2, <2>3
<1> QED
  BY <1>2, <1>3

\* An operator resolves or archives a signal.
LEMMA OperatorSound ==
  ASSUME SignalsInv, NEW f \in Row, OperatorResolve(f) \/ OperatorArchive(f)
  PROVE  SignalsInv'
<1>1. scan' = Disturbed /\ UNCHANGED <<world, now, pending>> /\ row[f].status # "NONE"
  BY DEF OperatorResolve, OperatorArchive
<1>2. row \in [Row -> RowType]
  BY DEF SignalsInv, TypeOK, RowType
<1>3. \A g \in Row : /\ row'[g] \in RowType
                     /\ g # f => row'[g] = row[g]
                     /\ row'[g].scope = row[g].scope
  BY <1>2 DEF OperatorResolve, OperatorArchive, RowType, Status
<1>4. row'[f].status \in {"RESOLVED", "ARCHIVED"}
      /\ (row'[f].status = "ARCHIVED" => row'[f].archived)
  BY <1>2 DEF OperatorResolve, OperatorArchive, RowType, Status
<1>5. row' \in [Row -> RowType]
  BY <1>2, <1>3 DEF OperatorResolve, OperatorArchive
<1>6. TypeOK'
  BY <1>1, <1>3, <1>4, <1>5, DisturbedScans DEF SignalsInv, TypeOK, RowType
<1>7. RowsScoped'
  BY <1>1, <1>3 DEF SignalsInv, RowsScoped, Row
<1> QED
  BY <1>1, <1>6, <1>7, DisturbedScans DEF SignalsInv, NamesApart

\* A request begins its scan; nobody else is alone any more.
LEMMA BeginSound ==
  ASSUME SignalsInv, NEW s \in Scan, NEW kind \in Kind, Begin(s, kind) PROVE SignalsInv'
<1> DEFINE record == [NoScan EXCEPT !.pc = "looking", !.kind = kind, !.start = now,
                        !.alone = pending = {} /\ \A r \in Scan \ {s} : ~Busy(r)]
<1>1. NoScan \in ScanRecord /\ now \in Nat
  BY SignalsAssumption DEF NoScan, ScanRecord, Pc, SignalsInv, TypeOK
<1>2. record \in ScanRecord
  BY <1>1 DEF ScanRecord, Pc
<1>3. record.pc = "looking" /\ record.start = now /\ record.looked = 0 /\ record.stamp = 0
      /\ record.seen = [c \in Container |-> None] /\ record.todo = {} /\ ~record.missed
  BY DEF NoScan
<1>4. record.alone => \A r \in Scan \ {s} : ~Busy(r)
  BY DEF NoScan
<1> HIDE DEF record
<1>5. scan' = [Disturbed EXCEPT ![s] = record] /\ UNCHANGED <<row, world, now, pending>>
  BY DEF Begin, record
<1>6. scan'[s] = record /\ \A r \in Scan \ {s} : scan'[r] = Disturbed[r]
  BY <1>5, DisturbedScans
<1>7. scan' \in [Scan -> ScanRecord]
  BY <1>2, <1>5, DisturbedScans
<1>8. TypeOK'
  BY <1>1, <1>3, <1>5, <1>6, <1>7, DisturbedScans DEF SignalsInv, TypeOK
<1>9. RowsScoped' /\ NamesApart(world)'
  BY <1>5 DEF SignalsInv, RowsScoped, NamesApart
<1>10. ScanSound(s)'
  BY <1>3, <1>6 DEF ScanSound, NamesApart, Busy, Resting
<1>11. AloneSound(s)'
  <2>1. \A f \in ContainerSignal : ~(row[f].lastSeen > now)
    BY <1>1 DEF SignalsInv, TypeOK, Row
  <2>2. record.alone => \A r \in Scan \ {s} : (~Busy(r) /\ ~scan[r].alone)'
    BY <1>4, <1>6, DisturbedScans
  <2> QED
    BY <2>1, <2>2, <1>3, <1>5, <1>6 DEF AloneSound, Resolving
<1> QED
  BY <1>6, <1>8, <1>9, <1>10, <1>11, DisturbedScans DEF SignalsInv

\* The API stops: what the request had not sent is lost.
LEMMA CrashSound == ASSUME SignalsInv, NEW s \in Scan, Crash(s) PROVE SignalsInv'
<1>1. NoScan \in ScanRecord /\ NoScan.pc = "idle" /\ ~NoScan.alone
      /\ NoScan.start = 0 /\ NoScan.looked = 0 /\ NoScan.stamp = 0
      /\ NoScan.seen = [c \in Container |-> None] /\ NoScan.todo = {} /\ ~NoScan.missed
      /\ now \in Nat
  BY SignalsAssumption DEF NoScan, ScanRecord, Pc, SignalsInv, TypeOK
<1>2. scan'[s] = NoScan /\ (\A r \in Scan \ {s} : scan'[r] = scan[r])
      /\ scan' \in [Scan -> ScanRecord] /\ UNCHANGED <<row, world, now>>
      /\ pending' \subseteq Scan \X Write
  BY <1>1 DEF SignalsInv, TypeOK, Crash, Move
<1>3. TypeOK'
  BY <1>1, <1>2 DEF SignalsInv, TypeOK
<1>4. RowsScoped' /\ NamesApart(world)'
  BY <1>2 DEF SignalsInv, RowsScoped, NamesApart
<1>5. ScanSound(s)' /\ AloneSound(s)' /\ ~Busy(s)'
  BY <1>1, <1>2 DEF ScanSound, AloneSound, NamesApart, Busy, Resting
<1>6. ASSUME NEW r \in Scan \ {s} PROVE ScanSound(r)' /\ AloneSound(r)'
  <2>1. ScanSound(r) /\ AloneSound(r) /\ scan'[r] = scan[r]
    BY <1>2 DEF SignalsInv
  <2>2. ScanSound(r)'
    BY <2>1 DEF ScanSound, Busy
  <2>3. AloneSound(r)'
    <3>1. \A q \in Scan \ {r} : ~Busy(q) /\ ~scan[q].alone => (~Busy(q) /\ ~scan[q].alone)'
      BY <1>1, <1>2, <1>5 DEF Busy
    <3> QED
      BY <2>1, <1>2, <3>1 DEF AloneSound, Busy, Active, Told
  <2> QED
    BY <2>2, <2>3
<1> QED
  BY <1>3, <1>4, <1>5, <1>6 DEF SignalsInv

\* A write that nobody awaited lands: no signal of a container is touched.
LEMMA PendingSound ==
  ASSUME SignalsInv, NEW p \in pending, Land(p) PROVE SignalsInv'
<1>1. UNCHANGED <<world, now>> /\ pending' \subseteq Scan \X Write /\ p[2] \in Write
  BY DEF SignalsInv, TypeOK, Land
<1>2. scan' = scan /\ Lands(p[2])
  BY DEF Land
<1>3. now \in Nat /\ row \in [Row -> RowType]
  BY SignalsAssumption DEF SignalsInv, TypeOK, RowType
<1>4. /\ row' \in [Row -> RowType]
      /\ \A f \in Row :
           /\ row'[f].status = "NONE" => row'[f] = Absent
           /\ row'[f].status = "ACTIVE" => ~row'[f].archived
           /\ row'[f].status = "ARCHIVED" => row'[f].archived
      /\ \A f \in ContainerSignal : row'[f] = row[f]
  <2>1. CASE ClearedBy(p[2]) # "NOTHING"
    BY <1>1, <1>2, <1>3, <2>1, SignalsApart
       DEF Lands, Resolve, SignalsInv, TypeOK, RowType, Status, Row, Active
  <2>2. CASE ClearedBy(p[2]) = "NOTHING"
    <3>1. PICK t : row' = [row EXCEPT ![ProviderSignal(t)] = Seen(ProviderSignal(t), 0, None)]
                   /\ t \in {"CONNECTED"} \cup (Write \ {"connected"})
                   /\ (t \notin {"CONNECTED", "UNKNOWN_ERROR"} => t = p[2])
      BY <1>1, <1>2, <2>2 DEF Lands
    <3>2. Seen(ProviderSignal(t), 0, None) \in RowType
          /\ Seen(ProviderSignal(t), 0, None).status = "ACTIVE"
          /\ ~Seen(ProviderSignal(t), 0, None).archived
      BY <1>3 DEF Seen, RowType, Status
    <3>3. ProviderSignal(t) \notin ContainerSignal
      <4>1. ASSUME NEW f \in ContainerSignal PROVE f.condition.kind \in ConditionKind
        BY Watched DEF ContainerSignal, Fingerprint
      <4>2. ProviderSignal(t).condition.kind = t
        BY DEF ProviderSignal, Fingerprint, Condition
      <4> QED
        BY <4>1, <4>2, <3>1 DEF ConditionKind, Write
    <3> QED
      BY <1>3, <3>1, <3>2, <3>3 DEF SignalsInv, TypeOK, Row
  <2> QED
    BY <2>1, <2>2
<1>5. TypeOK'
  BY <1>1, <1>2, <1>4 DEF SignalsInv, TypeOK, RowType
<1>6. RowsScoped' /\ NamesApart(world)'
  BY <1>1, <1>4 DEF SignalsInv, RowsScoped, NamesApart
<1>7. ASSUME NEW s \in Scan PROVE ScanSound(s)' /\ AloneSound(s)'
  <2>1. ScanSound(s)'
    BY <1>2 DEF SignalsInv, ScanSound, NamesApart, Busy
  <2>2. Raised(scan[s].seen) \subseteq ContainerSignal
    BY RaisedBy DEF SignalsInv, TypeOK, ScanRecord, List
  <2>3. AloneSound(s)'
    BY <1>2, <1>4, <2>2 DEF SignalsInv, AloneSound, Busy, Active, Told
  <2> QED
    BY <2>1, <2>3
<1> QED
  BY <1>5, <1>6, <1>7 DEF SignalsInv

-----------------------------------------------------------------------------
(* The steps of a scan that write rows                                     *)

\* Rows of the right type, and a scan moved on within its type, keep every type.
LEMMA WritesTyped ==
  ASSUME TypeOK, NEW s \in Scan, UNCHANGED <<world, now>>, pending' \subseteq Scan \X Write,
         row' \in [Row -> RowType],
         \A f \in Row : /\ row'[f].status = "NONE" => row'[f] = Absent
                        /\ row'[f].status = "ACTIVE" => ~row'[f].archived
                        /\ row'[f].status = "ARCHIVED" => row'[f].archived,
         scan' \in [Scan -> ScanRecord], \A r \in Scan \ {s} : scan'[r] = scan[r],
         scan'[s].start <= now /\ scan'[s].looked <= now /\ scan'[s].stamp <= now
  PROVE  TypeOK'
<1>1. RowType' = RowType
  BY DEF RowType
<1>2. \A r \in Scan : scan'[r].start <= now' /\ scan'[r].looked <= now' /\ scan'[r].stamp <= now'
  BY DEF TypeOK
<1>3. row' \in [Row -> [status : Status, archived : BOOLEAN, lastSeen : 0..now',
                        scope : Monitored \cup {None}]]
  BY <1>1 DEF RowType
<1> QED
  BY <1>2, <1>3 DEF TypeOK

\* The upsert lands: one signal of the list is active, in the scope the list shows.
LEMMA UpsertSound == ASSUME SignalsInv, NEW s \in Scan, Upsert(s) PROVE SignalsInv'
<1> DEFINE record == [scan[s] EXCEPT !.pc = "ingesting", !.signal = None, !.stamp = 0]
           f      == scan[s].signal
           scope  == Scope(scan[s].seen[f.id])
           told   == Seen(f, scan[s].stamp, scope)
<1>1. scan[s] \in ScanRecord /\ scan \in [Scan -> ScanRecord] /\ pending \subseteq Scan \X Write
      /\ scan[s].start <= now /\ scan[s].looked <= now /\ scan[s].stamp <= now
      /\ ScanSound(s) /\ AloneSound(s) /\ now \in Nat /\ row \in [Row -> RowType]
      /\ scan[s].seen \in List
  BY SignalsAssumption DEF SignalsInv, TypeOK, RowType, ScanRecord, List
<1>2. scan[s].pc = "writing" /\ Busy(s)
  BY DEF Upsert, Busy, Resting
<1>3. f \in Raised(scan[s].seen) /\ f \in ContainerSignal /\ f \in Row /\ scope \in Monitored
  BY <1>1, <1>2, RaisedBy DEF ScanSound
<1>4. record \in ScanRecord /\ record.pc = "ingesting" /\ record.start = scan[s].start
      /\ record.looked = scan[s].looked /\ record.seen = scan[s].seen
      /\ record.todo = scan[s].todo /\ record.missed = scan[s].missed
      /\ record.alone = scan[s].alone /\ record.stamp = 0
  BY <1>1 DEF ScanRecord, Pc
<1>5. told \in RowType /\ told.status = "ACTIVE" /\ ~told.archived /\ told.scope = scope
  <2>1. scan[s].stamp \in 0..now
    BY <1>1 DEF ScanRecord
  <2> QED
    BY <2>1, <1>3 DEF Seen, RowType, Status
<1> HIDE DEF record
<1>6. row' = [row EXCEPT ![f] = told] /\ Move(s, record) /\ UNCHANGED <<world, now, pending>>
  BY DEF Upsert, record
<1> HIDE DEF told, scope
<1>7. scan'[s] = record /\ (\A r \in Scan \ {s} : scan'[r] = scan[r])
      /\ scan' \in [Scan -> ScanRecord]
  BY <1>1, <1>4, <1>6 DEF Move
<1>8. row' \in [Row -> RowType] /\ row'[f] = told /\ \A g \in Row \ {f} : row'[g] = row[g]
  BY <1>1, <1>3, <1>5, <1>6
<1>9. TypeOK'
  <2>1. \A g \in Row : /\ row'[g].status = "NONE" => row'[g] = Absent
                       /\ row'[g].status = "ACTIVE" => ~row'[g].archived
                       /\ row'[g].status = "ARCHIVED" => row'[g].archived
    BY <1>5, <1>8 DEF SignalsInv, TypeOK
  <2>2. scan'[s].start <= now /\ scan'[s].looked <= now /\ scan'[s].stamp <= now
    BY <1>1, <1>4, <1>7
  <2> QED
    BY <2>1, <2>2, <1>1, <1>6, <1>7, <1>8, WritesTyped DEF SignalsInv
<1>10. RowsScoped' /\ NamesApart(world)'
  BY <1>3, <1>5, <1>6, <1>8 DEF SignalsInv, RowsScoped, NamesApart, Row
<1>11. ScanSound(s)'
  BY <1>1, <1>2, <1>4, <1>7 DEF ScanSound
<1>12. AloneSound(s)'
  <2> SUFFICES ASSUME scan[s].alone PROVE AloneSound(s)'
    BY <1>4, <1>7 DEF AloneSound
  <2>1. \A r \in Scan \ {s} : (~Busy(r) /\ ~scan[r].alone)'
    BY <1>1, <1>7 DEF AloneSound, Busy
  <2>2. \A g \in ContainerSignal : Active(g)' /\ row'[g].lastSeen > scan[s].start =>
           g \in Raised(scan[s].seen)
    BY <1>1, <1>2, <1>3, <1>8 DEF AloneSound, Active, Row
  <2>3. ASSUME ~scan[s].missed, NEW g \in Raised(scan[s].seen), g \notin scan[s].todo
        PROVE  Told(s, g)'
    <3>1. g # f => Told(s, g) /\ g \in Row
      BY <1>1, <1>2, <2>3, RaisedBy DEF AloneSound
    <3> QED
      BY <3>1, <1>4, <1>5, <1>7, <1>8 DEF Told, Active, scope
  <2> QED
    BY <2>1, <2>2, <2>3, <1>4, <1>7 DEF AloneSound, Resolving
<1>13. ASSUME NEW r \in Scan \ {s} PROVE ScanSound(r)' /\ AloneSound(r)'
  BY <1>2, <1>6, OthersSound
<1> QED
  BY <1>9, <1>10, <1>11, <1>12, <1>13 DEF SignalsInv

\* Resolving active signals keeps the rows well typed and leaves the others as they were.
LEMMA ResolvedRows ==
  ASSUME SignalsInv, NEW F \in SUBSET Row, \A f \in F : Active(f), Resolve(F), now' = now
  PROVE  /\ row' \in [Row -> RowType]
         /\ \A f \in Row :
              /\ row'[f].status = "NONE" => row'[f] = Absent
              /\ row'[f].status = "ACTIVE" => ~row'[f].archived
              /\ row'[f].status = "ARCHIVED" => row'[f].archived
              /\ f \notin F => row'[f] = row[f]
              /\ row'[f].scope = row[f].scope /\ row'[f].lastSeen = row[f].lastSeen
              /\ Active(f)' => f \notin F /\ Active(f)
         /\ RowsScoped'
<1>1. row \in [Row -> RowType]
  BY DEF SignalsInv, TypeOK, RowType
<1>2. ASSUME NEW f \in F
      PROVE  /\ row'[f] \in RowType /\ row'[f].status = "RESOLVED"
             /\ row'[f].scope = row[f].scope /\ row'[f].lastSeen = row[f].lastSeen
  BY <1>1 DEF Resolve, RowType, Status
<1>3. \A f \in Row \ F : row'[f] = row[f]
  BY DEF Resolve
<1>4. row' \in [Row -> RowType]
  BY <1>1, <1>2, <1>3 DEF Resolve
<1>5. RowsScoped'
  BY <1>2, <1>3 DEF SignalsInv, RowsScoped, Row, Active
<1>6. ASSUME NEW f \in Row
      PROVE  /\ row'[f].status = "NONE" => row'[f] = Absent
             /\ row'[f].status = "ACTIVE" => ~row'[f].archived
             /\ row'[f].status = "ARCHIVED" => row'[f].archived
             /\ Active(f)' => f \notin F /\ Active(f)
  BY <1>2, <1>3 DEF SignalsInv, TypeOK, Active
<1> QED
  BY <1>2, <1>3, <1>4, <1>5, <1>6

\* A phase of resolution that touches nothing the list calls for, unless its row was put back
\* in another scope.
LEMMA ResolutionSound ==
  ASSUME SignalsInv, NEW s \in Scan, NEW F \in SUBSET Row, \A f \in F : Active(f),
         scan[s].pc \in Resolving, Resolve(F), UNCHANGED <<world, now, pending>>,
         \A f \in F : f \in Raised(scan[s].seen) =>
                        row[f].scope # Scope(scan[s].seen[f.id]),
         NEW pc \in Resolving \ {"resolving"}, NEW found \in SUBSET Row,
         Move(s, [scan[s] EXCEPT !.pc = pc, !.found = found]),
         pc = "monitored" /\ scan[s].alone => \A f \in ContainerSignal :
           Active(f) /\ row[f].scope = "managed" => f \in F \/ f \in Raised(scan[s].seen)
  PROVE  SignalsInv'
<1> DEFINE record == [scan[s] EXCEPT !.pc = pc, !.found = found]
<1>1. scan[s] \in ScanRecord /\ scan \in [Scan -> ScanRecord] /\ pending \subseteq Scan \X Write
      /\ scan[s].start <= now /\ scan[s].looked <= now /\ scan[s].stamp <= now
      /\ ScanSound(s) /\ AloneSound(s) /\ Busy(s) /\ scan[s].pc \notin {"looking", "writing"}
      /\ scan[s].seen \in List
  BY DEF SignalsInv, TypeOK, Busy, Resting, Resolving, ScanRecord, List
<1>2. record \in ScanRecord /\ record.pc = pc /\ record.start = scan[s].start
      /\ record.looked = scan[s].looked /\ record.seen = scan[s].seen
      /\ record.todo = scan[s].todo /\ record.missed = scan[s].missed
      /\ record.alone = scan[s].alone /\ record.stamp = scan[s].stamp
  BY <1>1 DEF ScanRecord, Pc, Resolving
<1> HIDE DEF record
<1>3. Move(s, record)
  BY DEF record
<1>4. scan'[s] = record /\ (\A r \in Scan \ {s} : scan'[r] = scan[r])
      /\ scan' \in [Scan -> ScanRecord]
  BY <1>1, <1>2, <1>3 DEF Move
<1>5. TypeOK'
  <2>1. scan'[s].start <= now /\ scan'[s].looked <= now /\ scan'[s].stamp <= now
    BY <1>1, <1>2, <1>4
  <2> QED
    BY <2>1, <1>1, <1>4, ResolvedRows, WritesTyped DEF SignalsInv
<1>6. scan[s].todo = {} /\ ~scan[s].missed
  BY <1>1 DEF ScanSound, Resolving
<1>7. ScanSound(s)'
  BY <1>1, <1>2, <1>4, <1>6 DEF ScanSound, Resolving
<1>8. AloneSound(s)'
  <2> SUFFICES ASSUME scan[s].alone PROVE AloneSound(s)'
    BY <1>2, <1>4 DEF AloneSound
  <2>1. \A r \in Scan \ {s} : (~Busy(r) /\ ~scan[r].alone)'
    BY <1>1, <1>4 DEF AloneSound, Busy
  <2>2. \A f \in ContainerSignal : Active(f)' /\ row'[f].lastSeen > scan[s].start =>
           f \in Raised(scan[s].seen)
    BY <1>1, ResolvedRows DEF AloneSound, Row
  <2>3. ASSUME NEW f \in Raised(scan[s].seen) PROVE Told(s, f)'
    <3>1. Told(s, f)
      BY <1>1, <1>6 DEF AloneSound
    <3>2. f \notin F /\ f \in Row
      BY <1>1, <3>1, RaisedBy DEF Told
    <3> QED
      BY <3>1, <3>2, <1>2, <1>4, ResolvedRows DEF Told, Active
  <2>4. pc = "monitored" => \A f \in ContainerSignal :
           Active(f)' /\ row'[f].scope = "managed" => f \in Raised(scan[s].seen)
    BY ResolvedRows DEF Row
  <2> QED
    BY <2>1, <2>2, <2>3, <2>4, <1>2, <1>4 DEF AloneSound, Resolving
<1>9. ASSUME NEW r \in Scan \ {s} PROVE ScanSound(r)' /\ AloneSound(r)'
  BY <1>1, <1>3, OthersSound
<1>10. RowsScoped' /\ NamesApart(world)'
  BY ResolvedRows DEF SignalsInv, NamesApart
<1> QED
  BY <1>5, <1>7, <1>8, <1>9, <1>10 DEF SignalsInv

\* What a phase may resolve: no signal that the list calls for, unless the reconciliation
\* meets its row in another scope than the list shows.
LEMMA EvidenceSpared ==
  ASSUME SignalsInv, NEW s \in Scan, NEW f \in Raised(scan[s].seen)
  PROVE  /\ \A c \in Healthy(scan[s].seen) : f \notin Resolvable(c, scan[s].seen[c])
         /\ ~LegacyTitled(f, scan[s].seen)
         /\ scan[s].pc = "resolving" => f \notin scan[s].found
         /\ \A scope \in Monitored :
              f \in Stale(s, scope) => row[f].scope # Scope(scan[s].seen[f.id])
<1>1. scan[s].seen \in List /\ NamesApart(scan[s].seen) /\ ScanSound(s)
  BY DEF SignalsInv, TypeOK, ScanRecord, ScanSound, List
<1>2. f.id \in Container /\ scan[s].seen[f.id] # None /\ Classify(scan[s].seen[f.id]) # None
  BY <1>1, RaisedBy
<1>3. ASSUME NEW c \in Healthy(scan[s].seen), f \in Resolvable(c, scan[s].seen[c]) PROVE FALSE
  <2>1. f.id = c
    BY <1>3 DEF Resolvable, Fingerprint
  <2> QED
    BY <1>2, <2>1 DEF Healthy
<1>4. ASSUME LegacyTitled(f, scan[s].seen) PROVE FALSE
  <2>1. PICK c \in Unwatched(scan[s].seen) : Name[f.id] = Name[c]
    BY <1>4 DEF LegacyTitled, Titled
  <2>2. c = f.id
    BY <1>1, <1>2, <2>1 DEF NamesApart, Unwatched
  <2> QED
    BY <1>2, <2>2, Watched DEF Unwatched
<1>5. ASSUME NEW scope \in Monitored, f \in Stale(s, scope)
      PROVE  row[f].scope # Scope(scan[s].seen[f.id])
  BY <1>5 DEF Stale
<1> QED
  BY <1>1, <1>3, <1>4, <1>5 DEF ScanSound

\* The three resolutions of what recovered.
LEMMA RecoverySound ==
  ASSUME SignalsInv, NEW s \in Scan,
         ResolveFingerprints(s) \/ ResolveTitles(s) \/ ResolveFamily(s)
  PROVE  SignalsInv'
<1>1. scan[s] \in ScanRecord
  BY DEF SignalsInv, TypeOK
<1>2. \A pc \in Resolving :
        [scan[s] EXCEPT !.pc = pc] = [scan[s] EXCEPT !.pc = pc, !.found = scan[s].found]
  BY <1>1 DEF ScanRecord
<1>3. scan[s].found \in SUBSET Row
  BY <1>1 DEF ScanRecord
<1>4. CASE ResolveFingerprints(s)
  <2> DEFINE F == {f \in Row : /\ Active(f)
                               /\ \E c \in Healthy(scan[s].seen) :
                                    f \in Resolvable(c, scan[s].seen[c])}
             pc == AfterFingerprints(scan[s].seen)
  <2>1. pc \in Resolving \ {"resolving", "monitored"}
    BY Phases DEF Resolving
  <2>2. \A f \in F : Active(f) /\ f \notin Raised(scan[s].seen)
    BY EvidenceSpared
  <2>3. Resolve(F) /\ scan[s].pc \in Resolving /\ UNCHANGED <<world, now, pending>>
        /\ Move(s, [scan[s] EXCEPT !.pc = pc, !.found = scan[s].found])
    BY <1>2, <1>4, <2>1 DEF ResolveFingerprints, Resolving
  <2> HIDE DEF pc
  <2>4. F \in SUBSET Row
    OBVIOUS
  <2> HIDE DEF F
  <2> QED
    BY <1>3, <2>1, <2>2, <2>3, <2>4, ResolutionSound
<1>5. CASE ResolveTitles(s)
  <2> DEFINE F  == {f \in Row : Active(f) /\ LegacyTitled(f, scan[s].seen)}
             pc == AfterTitles(scan[s].seen)
  <2>1. pc \in Resolving \ {"resolving", "monitored"}
    BY Phases DEF Resolving
  <2>2. \A f \in F : Active(f) /\ f \notin Raised(scan[s].seen)
    BY EvidenceSpared
  <2>3. Resolve(F) /\ scan[s].pc \in Resolving /\ UNCHANGED <<world, now, pending>>
        /\ Move(s, [scan[s] EXCEPT !.pc = pc, !.found = scan[s].found])
    BY <1>2, <1>5, <2>1 DEF ResolveTitles, Resolving
  <2> HIDE DEF pc
  <2>4. F \in SUBSET Row
    OBVIOUS
  <2> HIDE DEF F
  <2> QED
    BY <1>3, <2>1, <2>2, <2>3, <2>4, ResolutionSound
<1>6. CASE ResolveFamily(s)
  <2> DEFINE F == {f \in scan[s].found : Active(f)}
  <2>1. \A f \in F : Active(f) /\ f \notin Raised(scan[s].seen)
    BY <1>6, EvidenceSpared DEF ResolveFamily
  <2>2. Resolve(F) /\ scan[s].pc \in Resolving /\ UNCHANGED <<world, now, pending>>
        /\ Move(s, [scan[s] EXCEPT !.pc = "families", !.found = {}])
    BY <1>6 DEF ResolveFamily, Resolving
  <2>3. F \in SUBSET Row
    BY <1>3
  <2>4. "families" \in Resolving \ {"resolving", "monitored"} /\ {} \in SUBSET Row
    BY DEF Resolving
  <2> HIDE DEF F
  <2> QED
    BY <2>1, <2>2, <2>3, <2>4, ResolutionSound
<1> QED
  BY <1>4, <1>5, <1>6

\* The reconciliation of one scope leaves it with what the list calls for, if the scan is alone.
LEMMA Reconciled ==
  ASSUME SignalsInv, NEW s \in Scan, scan[s].alone, NEW scope \in Monitored,
         scan[s].pc = scope, NEW f \in ContainerSignal, Active(f), row[f].scope = scope
  PROVE  f \in Stale(s, scope) \/ f \in Raised(scan[s].seen)
<1>1. Busy(s) /\ AloneSound(s)
  BY DEF SignalsInv, Busy, Resting, Monitored
<1>2. row[f].lastSeen \in Nat /\ scan[s].start \in Nat
  BY DEF SignalsInv, TypeOK, ScanRecord, Row
<1>3. row[f].lastSeen > scan[s].start => f \in Raised(scan[s].seen)
  BY <1>1 DEF AloneSound
<1> QED
  BY <1>2, <1>3 DEF Stale, Cutoff

\* The reconciliation of both scopes.
LEMMA ReconcileSound ==
  ASSUME SignalsInv, NEW s \in Scan, NEW scope \in Monitored, Reconcile(s, scope)
  PROVE  SignalsInv'
<1> DEFINE F == Stale(s, scope)
<1>1. scan[s] \in ScanRecord /\ scan \in [Scan -> ScanRecord] /\ pending \subseteq Scan \X Write
      /\ scan[s].start <= now /\ scan[s].looked <= now /\ scan[s].stamp <= now
      /\ ScanSound(s) /\ AloneSound(s) /\ scan[s].seen \in List /\ now \in Nat
  BY SignalsAssumption DEF SignalsInv, TypeOK, ScanRecord, List
<1>2. F \in SUBSET Row /\ \A f \in F : Active(f)
  BY DEF Stale, Row
<1>3. \A f \in F : f \in Raised(scan[s].seen) => row[f].scope # Scope(scan[s].seen[f.id])
  BY EvidenceSpared
<1>4. Resolve(F) /\ scan[s].pc = scope /\ UNCHANGED <<world, now>> /\ scan[s].pc \in Resolving
      /\ Busy(s)
  BY DEF Reconcile, Monitored, Resolving, Busy, Resting
<1>5. pending' \subseteq Scan \X Write
  BY <1>1 DEF Reconcile, Write
<1> HIDE DEF F
<1>6. CASE scope = "managed"
  <2>1. Move(s, [scan[s] EXCEPT !.pc = "monitored", !.found = scan[s].found])
    BY <1>1, <1>6 DEF Reconcile, ScanRecord
  <2>2. UNCHANGED pending
    BY <1>6 DEF Reconcile
  <2>3. scan[s].alone => \A f \in ContainerSignal :
          Active(f) /\ row[f].scope = "managed" => f \in F \/ f \in Raised(scan[s].seen)
    BY <1>4, <1>6, Reconciled DEF F
  <2>4. "monitored" \in Resolving \ {"resolving"} /\ scan[s].found \in SUBSET Row
    BY <1>1 DEF Resolving, ScanRecord
  <2> QED
    BY <1>2, <1>3, <1>4, <2>1, <2>2, <2>3, <2>4, ResolutionSound
<1>7. CASE scope = "monitored"
  <2> DEFINE record == Ended(s, "done")
  <2>1. record \in ScanRecord /\ record.start <= now /\ record.looked <= now
        /\ record.stamp <= now
    BY <1>1 DEF Ended, NoScan, ScanRecord, Pc
  <2>2. /\ record.pc \in {"done", "idle"} /\ ~record.missed
        /\ record.todo = {} /\ record.alone = scan[s].alone
        /\ record.alone => record.pc = "done"
        /\ record.alone => record.seen = scan[s].seen
        /\ NamesApart(record.seen)
    <3>1. scan[s].todo = {} /\ ~scan[s].missed /\ NamesApart(scan[s].seen)
      BY <1>1, <1>4 DEF ScanSound, Resolving
    <3>2. CASE scan[s].alone
      BY <1>1, <3>1, <3>2 DEF Ended, ScanRecord
    <3>3. CASE ~scan[s].alone
      BY <1>1, <3>3 DEF Ended, NoScan, NamesApart, ScanRecord
    <3> QED
      BY <3>2, <3>3
  <2> HIDE DEF record
  <2>3. Move(s, record)
    BY <1>7 DEF Reconcile, record
  <2>4. scan'[s] = record /\ (\A r \in Scan \ {s} : scan'[r] = scan[r])
        /\ scan' \in [Scan -> ScanRecord]
    BY <1>1, <2>1, <2>3 DEF Move
  <2>5. TypeOK'
    BY <1>2, <1>4, <1>5, <2>1, <2>4, ResolvedRows, WritesTyped DEF SignalsInv
  <2>6. ScanSound(s)'
    BY <2>2, <2>4 DEF ScanSound, Busy, Resting
  <2>7. AloneSound(s)'
    <3> SUFFICES ASSUME scan[s].alone PROVE AloneSound(s)'
      BY <2>2, <2>4 DEF AloneSound
    <3>1. \A r \in Scan \ {s} : (~Busy(r) /\ ~scan[r].alone)'
      BY <1>1, <2>4 DEF AloneSound, Busy
    <3>2. ASSUME NEW f \in Raised(scan[s].seen) PROVE Told(s, f)'
      <4>1. Told(s, f)
        BY <1>1, <1>4, <1>7 DEF AloneSound, ScanSound, Resolving
      <4>2. f \notin F /\ f \in Row
        BY <1>1, <1>3, <4>1, RaisedBy DEF Told
      <4> QED
        BY <4>1, <4>2, <1>2, <1>4, <2>2, <2>4, ResolvedRows DEF Told, Active
    <3>3. ASSUME NEW f \in ContainerSignal, Active(f)', row'[f].scope \in Monitored
          PROVE  f \in Raised(scan[s].seen)
      <4>1. Active(f) /\ f \notin F /\ row'[f].scope = row[f].scope /\ f \in Row
        BY <1>2, <1>4, <3>3, ResolvedRows DEF Row
      <4>2. CASE row[f].scope = "managed"
        BY <1>1, <1>4, <1>7, <4>1, <4>2 DEF AloneSound
      <4>3. CASE row[f].scope = "monitored"
        BY <1>4, <1>7, <4>1, <4>3, Reconciled DEF F
      <4> QED
        BY <3>3, <4>1, <4>2, <4>3 DEF Monitored
    <3>4. ~Busy(s)'
      BY <2>2, <2>4 DEF Busy, Resting
    <3> QED
      BY <3>1, <3>2, <3>3, <3>4, <2>2, <2>4 DEF AloneSound, Monitored, Told
  <2>8. ASSUME NEW r \in Scan \ {s} PROVE ScanSound(r)' /\ AloneSound(r)'
    BY <1>4, <2>3, OthersSound
  <2>9. RowsScoped' /\ NamesApart(world)'
    BY <1>2, <1>4, ResolvedRows DEF SignalsInv, NamesApart
  <2> QED
    BY <2>5, <2>6, <2>7, <2>8, <2>9 DEF SignalsInv
<1> QED
  BY <1>6, <1>7 DEF Monitored

-----------------------------------------------------------------------------
(* The theorems                                                            *)

\* Every step keeps the invariant.
LEMMA NextSignals == SignalsInv /\ [Next]_vars => SignalsInv'
<1> SUFFICES ASSUME SignalsInv, [Next]_vars PROVE SignalsInv'
  OBVIOUS
<1>1. CASE Tick \/ \E c \in Container, o \in Look \cup {None} : Change(c, o)
  BY <1>1, WorldSound
<1>2. CASE \E f \in Row : OperatorResolve(f) \/ OperatorArchive(f)
  BY <1>2, OperatorSound
<1>3. ASSUME NEW s \in Scan,
             \/ \E k \in Kind : Begin(s, k)
             \/ LookAt(s)
             \/ \E x \in Failure : LookFails(s, x)
             \/ \E f \in scan[s].todo : Send(s, f)
             \/ Upsert(s) \/ UpsertFails(s) \/ Ingested(s)
             \/ ResolveFingerprints(s) \/ ResolveTitles(s)
             \/ \E c \in Container : FindFamily(s, c)
             \/ ResolveFamily(s) \/ FamiliesDone(s)
             \/ \E scope \in Monitored : Reconcile(s, scope)
             \/ Throws(s) \/ Crash(s)
      PROVE  SignalsInv'
  BY <1>3, BeginSound, LookSound, RefusalSound, SendSound, LossSound, UpsertSound,
     IngestedSound, RecoverySound, FindSound, FamiliesSound, ReconcileSound, CrashSound
<1>4. CASE \E p \in pending : Land(p)
  BY <1>4, PendingSound
<1>5. CASE UNCHANGED vars
  BY <1>5 DEF vars, SignalsInv, TypeOK, RowsScoped, NamesApart, ScanSound, AloneSound, Busy,
              Active, Told
<1> QED
  BY <1>1, <1>2, <1>3, <1>4, <1>5 DEF Next

\* Who resolves: a scan that resolves a signal is in one of its phases of resolution, and the
\* signal is among those the phase selects.
LEMMA WhoResolves ==
  ASSUME SignalsInv, [Next]_vars, NEW s \in Scan, NEW f \in Resolved(s)
  PROVE  /\ scan[s].pc \in Resolving /\ f \in Row
         /\ \/ \E c \in Healthy(scan[s].seen) : f \in Resolvable(c, scan[s].seen[c])
            \/ LegacyTitled(f, scan[s].seen)
            \/ scan[s].pc = "resolving" /\ f \in scan[s].found
            \/ \E scope \in Monitored : scan[s].pc = scope /\ f \in Stale(s, scope)
         /\ scan[s].pc \in Monitored =>
              \E scope \in Monitored : scan[s].pc = scope /\ f \in Stale(s, scope)
<1>1. Busy(s) /\ scan'[s].pc # scan[s].pc /\ row[f].status = "ACTIVE"
      /\ row'[f].status = "RESOLVED" /\ f \in Row
  BY DEF Resolved, Active
<1>2. row' # row /\ scan' # scan /\ scan'[s] # scan[s]
  BY <1>1
<1>3. ~Tick /\ ~\E c \in Container, o \in Look \cup {None} : Change(c, o)
  BY <1>2 DEF Tick, Change
<1>4. ASSUME NEW g \in Row, OperatorResolve(g) \/ OperatorArchive(g) PROVE FALSE
  <2>1. scan' = Disturbed
    BY <1>4 DEF OperatorResolve, OperatorArchive
  <2>2. Disturbed[s] = [scan[s] EXCEPT !.alone = FALSE] /\ scan[s] \in ScanRecord
    BY <1>1 DEF Disturbed, SignalsInv, TypeOK
  <2>3. Disturbed[s].pc = scan[s].pc
    BY <2>2 DEF ScanRecord
  <2> QED
    BY <1>1, <2>1, <2>3
<1>5. ASSUME NEW p \in pending, Land(p) PROVE FALSE
  BY <1>2, <1>5 DEF Land
<1>6. PICK r \in Scan :
        \/ Upsert(r) \/ ResolveFingerprints(r) \/ ResolveTitles(r) \/ ResolveFamily(r)
        \/ \E scope \in Monitored : Reconcile(r, scope)
  <2>1. \A r \in Scan :
          /\ ~\E k \in Kind : Begin(r, k)
          /\ ~LookAt(r) /\ ~UpsertFails(r) /\ ~Ingested(r) /\ ~FamiliesDone(r)
          /\ ~Throws(r) /\ ~Crash(r)
          /\ ~\E x \in Failure : LookFails(r, x)
          /\ ~\E g \in scan[r].todo : Send(r, g)
          /\ ~\E c \in Container : FindFamily(r, c)
    BY <1>2 DEF Begin, LookAt, UpsertFails, Ingested, FamiliesDone, Throws, Crash, LookFails,
                Send, FindFamily
  <2>2. ~UNCHANGED vars
    BY <1>2 DEF vars
  <2> QED
    BY <1>3, <1>4, <1>5, <2>1, <2>2 DEF Next
<1>7. r = s
  <2>1. \E record : Move(r, record)
    BY <1>6 DEF Upsert, ResolveFingerprints, ResolveTitles, ResolveFamily, Reconcile
  <2> QED
    BY <1>2, <2>1 DEF Move, SignalsInv, TypeOK
<1>8. ~Upsert(s)
  <2>1. ASSUME NEW g, NEW t, NEW scope, row' = [row EXCEPT ![g] = Seen(g, t, scope)]
        PROVE  row'[f] = row[f] \/ row'[f].status = "ACTIVE"
    BY <2>1 DEF Seen, SignalsInv, TypeOK
  <2>2. ~(row'[f] = row[f] \/ row'[f].status = "ACTIVE")
    BY <1>1
  <2> QED
    BY <2>1, <2>2 DEF Upsert
<1>9. ASSUME NEW F, Resolve(F) PROVE f \in F
  BY <1>1, <1>9 DEF Resolve
<1> QED
  BY <1>1, <1>6, <1>7, <1>8, <1>9
     DEF ResolveFingerprints, ResolveTitles, ResolveFamily, Reconcile, Resolving, Monitored

\* The invariant of signals and scans, with every type, holds for any set of containers,
\* looks and overlapping scans.
THEOREM SignalsInvariance == Spec => []SignalsInv
<1> QED
  BY InitSignals, NextSignals, PTL DEF Spec

\* A scan that nobody disturbed leaves exactly the active container signals that its look
\* called for (docker.service.ts:492-606, signal.service.ts:75-117).
THEOREM AloneIsTruthful == Spec => []AloneScanTruthful
<1>1. SignalsInv => AloneScanTruthful
  <2> SUFFICES ASSUME SignalsInv, NEW s \in Scan, scan[s].pc = "done", scan[s].alone
               PROVE  {f \in ContainerSignal : Active(f)} = Raised(scan[s].seen)
    BY DEF AloneScanTruthful
  <2>1. ScanSound(s) /\ AloneSound(s) /\ RowsScoped /\ scan[s].seen \in List
    BY DEF SignalsInv, TypeOK, ScanRecord, List
  <2>2. scan[s].todo = {} /\ ~scan[s].missed
    BY <2>1 DEF ScanSound
  <2>3. \A f \in Raised(scan[s].seen) : f \in ContainerSignal /\ Active(f)
    BY <2>1, <2>2, RaisedBy DEF AloneSound, Told
  <2>4. \A f \in ContainerSignal : Active(f) => f \in Raised(scan[s].seen)
    BY <2>1 DEF AloneSound, RowsScoped, Monitored, Active
  <2> QED
    BY <2>3, <2>4
<1> QED
  BY <1>1, SignalsInvariance, PTL

\* Landing and clearing: a write raises the signal it names, and one that clears leaves none
\* of its title active.
LEMMA Landing ==
  ASSUME TypeOK, NEW w \in Write, Lands(w)
  PROVE  LET t == IF w = "connected" THEN "CONNECTED" ELSE w
         IN  /\ ClearedBy(w) = "NOTHING" =>
                  /\ ProviderSignal(t) \in ProviderSignals => Active(ProviderSignal(t))'
                  /\ ProviderSignal(t).condition.kind = t
                  /\ \A f \in Row : f.condition.kind # t => row'[f] = row[f]
             /\ ClearedBy(w) # "NOTHING" =>
                  /\ \A f \in ProviderSignals : f.condition.kind = ClearedBy(w) => ~Active(f)'
                  /\ \A f \in Row : f.condition.kind # ClearedBy(w) => row'[f] = row[f]
                  /\ \A f \in Row : ~Active(f) => ~Active(f)'
<1> DEFINE t == IF w = "connected" THEN "CONNECTED" ELSE w
<1>1. row \in [Row -> [status : Status, archived : BOOLEAN, lastSeen : 0..now,
                       scope : Monitored \cup {None}]]
  BY DEF TypeOK
<1>2. ProviderSignal(t).condition.kind = t
  BY DEF ProviderSignal, Fingerprint, Condition
<1>3. ProviderSignals \subseteq Row
  BY DEF Row
<1> HIDE DEF t
<1>4. CASE ClearedBy(w) = "NOTHING"
  <2>1. row' = [row EXCEPT ![ProviderSignal(t)] = Seen(ProviderSignal(t), 0, None)]
    BY <1>4 DEF Lands, t
  <2>2. \A f \in Row : f.condition.kind # t => row'[f] = row[f]
    BY <1>1, <1>2, <2>1
  <2>3. ProviderSignal(t) \in ProviderSignals => Active(ProviderSignal(t))'
    BY <1>1, <1>3, <2>1 DEF Active, Seen
  <2> QED
    BY <1>2, <1>4, <2>2, <2>3 DEF t
<1>5. CASE ClearedBy(w) # "NOTHING"
  <2> DEFINE F == {f \in ProviderSignals : Active(f) /\ f.condition.kind = ClearedBy(w)}
  <2>1. Resolve(F)
    BY <1>5 DEF Lands
  <2>2. \A f \in Row : f \notin F => row'[f] = row[f]
    BY <2>1 DEF Resolve
  <2>3. \A f \in F : row'[f].status = "RESOLVED"
    BY <1>1, <1>3, <2>1 DEF Resolve
  <2>4. \A f \in Row : f.condition.kind # ClearedBy(w) => row'[f] = row[f]
    BY <2>2
  <2>5. \A f \in ProviderSignals : f.condition.kind = ClearedBy(w) => ~Active(f)'
    BY <1>3, <2>2, <2>3 DEF Active
  <2>6. \A f \in Row : ~Active(f) => ~Active(f)'
    BY <2>2, <2>3 DEF Active
  <2> QED
    BY <1>5, <2>4, <2>5, <2>6
<1> QED
  BY <1>4, <1>5 DEF t

\* The signal of each title is one of the provider's.
LEMMA Titles == \A t \in {"CONNECTED", "UNKNOWN_ERROR"} \cup Failure :
                  ProviderSignal(t) \in ProviderSignals /\ ProviderSignal(t) \in Row
  BY DEF ProviderSignals, Row

\* A step of a scan: it ends, or it goes on as alone as it was and sends nothing.
LEMMA ScanMoves ==
  ASSUME SignalsInv, NEW s \in Scan,
         \/ LookAt(s) \/ (\E x \in Failure : LookFails(s, x))
         \/ (\E f \in scan[s].todo : Send(s, f)) \/ Upsert(s) \/ UpsertFails(s) \/ Ingested(s)
         \/ ResolveFingerprints(s) \/ ResolveTitles(s)
         \/ (\E c \in Container : FindFamily(s, c)) \/ ResolveFamily(s) \/ FamiliesDone(s)
         \/ (\E scope \in Monitored : Reconcile(s, scope)) \/ Throws(s)
  PROVE  /\ Busy(s) /\ \E record : Move(s, record)
         /\ \/ /\ scan'[s].alone = scan[s].alone /\ pending' = pending
               /\ scan'[s].pc \notin {"done", "failed"}
            \/ /\ \E x \in Failure \cup {"UNKNOWN_ERROR"} : Fails(s, x)
               /\ scan'[s] = Ended(s, "failed")
            \/ Reconcile(s, "monitored") /\ scan'[s] = Ended(s, "done")
<1>1. scan[s] \in ScanRecord /\ scan \in [Scan -> ScanRecord] /\ scan[s].alone \in BOOLEAN
  BY DEF SignalsInv, TypeOK, ScanRecord
<1>2. Busy(s) /\ \E record : Move(s, record)
  BY DEF LookAt, LookFails, Send, Upsert, UpsertFails, Ingested, ResolveFingerprints,
         ResolveTitles, FindFamily, ResolveFamily, FamiliesDone, Reconcile, Throws, Fails,
         Monitored, Busy, Resting
<1>3. \A record : Move(s, record) => scan'[s] = record
  BY <1>1 DEF Move
<1>4. \A x : Fails(s, x) => scan'[s] = Ended(s, "failed")
  BY <1>3 DEF Fails
<1>5. \A seen : /\ FirstPhase(seen) \notin {"done", "failed"}
                /\ AfterFingerprints(seen) \notin {"done", "failed"}
                /\ AfterTitles(seen) \notin {"done", "failed"}
  <2>1. \A pc \in {"fingerprints", "titles", "families", "managed"} : pc \notin {"done", "failed"}
    OBVIOUS
  <2> QED
    BY <2>1, Phases
<1>0. \A pc, found : /\ [scan[s] EXCEPT !.pc = pc].pc = pc
                     /\ [scan[s] EXCEPT !.pc = pc].alone = scan[s].alone
                     /\ [scan[s] EXCEPT !.pc = pc, !.found = found].pc = pc
                     /\ [scan[s] EXCEPT !.pc = pc, !.found = found].alone = scan[s].alone
  BY <1>1 DEF ScanRecord
<1>6. CASE LookAt(s)
  <2> DEFINE pc == IF Raised(world) = {} THEN FirstPhase(world) ELSE "ingesting"
  <2>1. scan'[s] = [scan[s] EXCEPT !.seen = world, !.looked = now, !.todo = Raised(world),
                                   !.pc = pc]
    BY <1>3, <1>6 DEF LookAt
  <2>2. pc \notin {"done", "failed"}
    BY <1>5
  <2> HIDE DEF pc
  <2>3. scan'[s].pc = pc /\ scan'[s].alone = scan[s].alone
    BY <1>1, <2>1 DEF ScanRecord
  <2>4. pending' = pending
    BY <1>6 DEF LookAt
  <2> QED
    BY <1>2, <2>2, <2>3, <2>4
<1>7. CASE (\E f \in scan[s].todo : Send(s, f)) \/ Upsert(s) \/ UpsertFails(s)
  BY <1>1, <1>3, <1>7, <1>2 DEF Send, Upsert, UpsertFails, ScanRecord
<1>8. CASE Ingested(s)
  <2>1. CASE AfterIngestion(s) = "failed"
    BY <1>2, <1>4, <1>8, <2>1 DEF Ingested
  <2>2. CASE AfterIngestion(s) # "failed"
    <3>1. scan'[s] = [scan[s] EXCEPT !.pc = AfterIngestion(s)] /\ pending' = pending
      BY <1>3, <1>8, <2>2 DEF Ingested
    <3>2. AfterIngestion(s) \notin {"done", "failed"}
      BY <1>5, <2>2 DEF AfterIngestion
    <3> QED
      BY <1>0, <1>2, <3>1, <3>2
  <2> QED
    BY <2>1, <2>2
<1>9. CASE ResolveFingerprints(s) \/ ResolveTitles(s) \/ ResolveFamily(s) \/ FamiliesDone(s)
  <2>1. PICK pc : /\ pc \notin {"done", "failed"} /\ pending' = pending
                  /\ \/ scan'[s] = [scan[s] EXCEPT !.pc = pc]
                     \/ \E found : scan'[s] = [scan[s] EXCEPT !.pc = pc, !.found = found]
    <3>1. CASE ResolveFingerprints(s)
      BY <1>3, <1>5, <3>1 DEF ResolveFingerprints
    <3>2. CASE ResolveTitles(s)
      BY <1>3, <1>5, <3>2 DEF ResolveTitles
    <3>3. CASE ResolveFamily(s)
      BY <1>3, <3>3 DEF ResolveFamily
    <3>4. CASE FamiliesDone(s)
      BY <1>3, <3>4 DEF FamiliesDone
    <3> QED
      BY <1>9, <3>1, <3>2, <3>3, <3>4
  <2>2. scan'[s] = [scan[s] EXCEPT !.pc = pc] =>
          scan'[s].pc = pc /\ scan'[s].alone = scan[s].alone
    BY <1>1 DEF ScanRecord
  <2>3. ASSUME NEW found, scan'[s] = [scan[s] EXCEPT !.pc = pc, !.found = found]
        PROVE  scan'[s].pc = pc /\ scan'[s].alone = scan[s].alone
    BY <1>1, <2>3 DEF ScanRecord
  <2>4. scan'[s].pc = pc /\ scan'[s].alone = scan[s].alone
    BY <2>1, <2>2, <2>3
  <2> QED
    BY <1>2, <2>1, <2>4
<1>10. CASE \E c \in Container : FindFamily(s, c)
  BY <1>1, <1>3, <1>10, <1>2 DEF FindFamily, ScanRecord
<1>11. CASE \E scope \in Monitored : Reconcile(s, scope)
  <2>1. CASE Reconcile(s, "managed")
    <3>1. scan'[s] = [scan[s] EXCEPT !.pc = "monitored"] /\ pending' = pending
      BY <1>3, <2>1 DEF Reconcile
    <3> QED
      BY <1>1, <1>2, <3>1 DEF ScanRecord
  <2>2. CASE Reconcile(s, "monitored")
    BY <1>2, <1>3, <2>2 DEF Reconcile
  <2> QED
    BY <1>11, <2>1, <2>2 DEF Monitored
<1>12. CASE Throws(s) \/ \E x \in Failure : LookFails(s, x)
  BY <1>2, <1>4, <1>12 DEF Throws, LookFails
<1> QED
  BY <1>6, <1>7, <1>8, <1>9, <1>10, <1>11, <1>12

\* Every step keeps what an undisturbed status check is accountable for.
LEMMA ChecksStep == ChecksInv /\ [Next]_vars => ChecksInv'
<1> SUFFICES ASSUME ChecksInv, [Next]_vars, NEW s \in Scan, scan'[s].alone
             PROVE  CheckSound(s)'
  BY NextSignals DEF ChecksInv, CheckSound
<1>1. SignalsInv /\ CheckSound(s) /\ TypeOK
  BY DEF ChecksInv, SignalsInv
<1>2. CASE Tick \/ (\E c \in Container, o \in Look \cup {None} : Change(c, o)) \/ UNCHANGED vars
  <2>1. UNCHANGED <<row, scan, pending>>
    BY <1>2 DEF Tick, Change, vars
  <2> QED
    BY <1>1, <2>1 DEF CheckSound, Busy, Active
<1>3. ASSUME scan' = Disturbed \/ \E r \in Scan \ {s} : \E record :
                scan' = [Disturbed EXCEPT ![r] = record]
      PROVE  FALSE
  <2>1. scan'[s] = Disturbed[s]
    BY <1>1, <1>3, DisturbedScans
  <2> QED
    BY <1>1, <2>1, DisturbedScans
<1>4. CASE \E f \in Row : OperatorResolve(f) \/ OperatorArchive(f)
  BY <1>3, <1>4 DEF OperatorResolve, OperatorArchive
<1>5. ASSUME NEW r \in Scan, NEW k \in Kind, Begin(r, k) PROVE CheckSound(s)'
  <2>1. r = s
    BY <1>3, <1>5 DEF Begin
  <2>2. Disturbed \in [Scan -> ScanRecord]
    BY <1>1, DisturbedScans
  <2>3. scan'[s].pc = "looking" /\ (scan'[s].alone => pending = {}) /\ pending' = pending
    BY <1>5, <2>1, <2>2 DEF Begin, NoScan
  <2> QED
    BY <2>3 DEF CheckSound
<1>6. ASSUME NEW r \in Scan, Crash(r) PROVE CheckSound(s)'
  <2>1. scan \in [Scan -> ScanRecord] /\ scan' = [scan EXCEPT ![r] = NoScan]
        /\ pending' = {p \in pending : p[1] # r} /\ UNCHANGED row
    BY <1>1, <1>6 DEF Crash, Move, TypeOK
  <2>2. r # s
    BY <2>1 DEF NoScan
  <2>3. scan'[s] = scan[s]
    BY <2>1, <2>2
  <2>4. \A p \in pending : p[1] = s
    BY <1>1, <2>3 DEF CheckSound
  <2>5. pending' = pending
    BY <2>1, <2>2, <2>4
  <2> QED
    BY <1>1, <2>1, <2>3, <2>5 DEF CheckSound, Busy, Active
<1>7. ASSUME NEW r \in Scan,
             \/ LookAt(r) \/ (\E x \in Failure : LookFails(r, x))
             \/ (\E f \in scan[r].todo : Send(r, f)) \/ Upsert(r) \/ UpsertFails(r) \/ Ingested(r)
             \/ ResolveFingerprints(r) \/ ResolveTitles(r)
             \/ (\E c \in Container : FindFamily(r, c)) \/ ResolveFamily(r) \/ FamiliesDone(r)
             \/ (\E scope \in Monitored : Reconcile(r, scope)) \/ Throws(r)
      PROVE  CheckSound(s)'
  <2>1. /\ Busy(r) /\ \E record : Move(r, record)
        /\ \/ /\ scan'[r].alone = scan[r].alone /\ pending' = pending
              /\ scan'[r].pc \notin {"done", "failed"}
           \/ /\ \E x \in Failure \cup {"UNKNOWN_ERROR"} : Fails(r, x)
              /\ scan'[r] = Ended(r, "failed")
           \/ Reconcile(r, "monitored") /\ scan'[r] = Ended(r, "done")
    BY <1>1, <1>7, ScanMoves
  <2>2. r = s
    <3>1. r # s => scan'[s] = scan[s]
      BY <1>1, <2>1 DEF Move, TypeOK
    <3>2. r # s => ~scan[s].alone
      BY <1>1, <2>1 DEF SignalsInv, AloneSound
    <3> QED
      BY <3>1, <3>2
  <2>3. scan[s] \in ScanRecord /\ NoScan.alone = FALSE
    BY <1>1 DEF TypeOK, NoScan
  <2>4. CASE /\ scan'[s].alone = scan[s].alone /\ pending' = pending
             /\ scan'[s].pc \notin {"done", "failed"}
    BY <1>1, <2>1, <2>2, <2>4 DEF CheckSound
  <2>5. ASSUME NEW x \in Failure \cup {"UNKNOWN_ERROR"}, Fails(s, x),
               scan'[s] = Ended(s, "failed")
        PROVE  CheckSound(s)'
    <3>1. scan[s].alone /\ scan'[s] = [scan[s] EXCEPT !.pc = "failed"]
      BY <2>3, <2>5 DEF Ended
    <3>2. scan'[s].pc = "failed" /\ scan'[s].kind = scan[s].kind
      BY <2>3, <3>1 DEF ScanRecord
    <3>3. pending = {}
      BY <1>1, <2>1, <2>2, <3>1 DEF CheckSound
    <3>4. pending' = {p \in {<<s, x>>} : scan[s].kind = "status"}
      BY <2>5, <3>3 DEF Fails
    <3>5. \A p \in pending' : p[1] = s /\ p[2] \in Failure \cup {"UNKNOWN_ERROR"}
      BY <3>4
    <3>6. scan[s].kind = "status" => pending' # {}
      BY <3>4
    <3> QED
      BY <3>2, <3>5, <3>6 DEF CheckSound, Busy, Resting
  <2>6. ASSUME Reconcile(s, "monitored"), scan'[s] = Ended(s, "done")
        PROVE  CheckSound(s)'
    <3>1. scan[s].alone /\ scan'[s] = [scan[s] EXCEPT !.pc = "done"]
      BY <2>3, <2>6 DEF Ended
    <3>2. scan'[s].pc = "done" /\ scan'[s].kind = scan[s].kind
      BY <2>3, <3>1 DEF ScanRecord
    <3>3. pending = {}
      BY <1>1, <2>1, <2>2, <3>1 DEF CheckSound
    <3>4. pending' = {p \in {s} \X {"connected", "clear-UNREACHABLE", "clear-AUTH_FAILED"} :
                        scan[s].kind = "status"}
      BY <2>6, <3>3 DEF Reconcile
    <3>5. scan[s].kind = "status" =>
            /\ <<s, "connected">> \in pending'
            /\ \A w \in {"clear-UNREACHABLE", "clear-AUTH_FAILED"} : <<s, w>> \in pending'
      BY <3>4
    <3> QED
      BY <3>2, <3>4, <3>5 DEF CheckSound, Busy, Resting
  <2> QED
    BY <2>1, <2>2, <2>4, <2>5, <2>6
<1>8. ASSUME NEW p \in pending, Land(p) PROVE CheckSound(s)'
  <2>1. UNCHANGED scan /\ Lands(p[2]) /\ pending' = pending \ {p} /\ p[2] \in Write
        /\ p = <<p[1], p[2]>> /\ scan[s].alone
    BY <1>1, <1>8 DEF Land, TypeOK
  <2>2. p[1] = s /\ ~Busy(s)
    BY <1>1, <2>1 DEF CheckSound
  <2>3. CASE scan[s].kind = "status" /\ scan[s].pc = "done"
    <3>1. p[2] \in {"connected", "clear-UNREACHABLE", "clear-AUTH_FAILED"}
      BY <1>1, <2>1, <2>3 DEF CheckSound
    <3>2. ProviderSignal("CONNECTED") \in ProviderSignals
          /\ ProviderSignal("CONNECTED") \in Row
          /\ ProviderSignal("CONNECTED").condition.kind = "CONNECTED"
      BY Titles DEF ProviderSignal, Fingerprint, Condition
    <3>3. CASE p[2] = "connected"
      <4>1. Active(ProviderSignal("CONNECTED"))'
            /\ \A f \in Row : f.condition.kind # "CONNECTED" => row'[f] = row[f]
        BY <1>1, <2>1, <3>2, <3>3, Landing DEF ClearedBy
      <4>2. \A w \in {"clear-UNREACHABLE", "clear-AUTH_FAILED"} :
              /\ <<s, w>> \in pending => <<s, w>> \in pending'
              /\ ClearedBy(w) # "CONNECTED"
        BY <2>1, <3>3 DEF ClearedBy
      <4>3. ProviderSignals \subseteq Row
        BY DEF Row
      <4> QED
        BY <1>1, <2>1, <2>2, <2>3, <4>1, <4>2, <4>3 DEF CheckSound, Busy, Active
    <3>4. CASE p[2] # "connected"
      <4>1. ClearedBy(p[2]) \in {"UNREACHABLE", "AUTH_FAILED"}
        BY <3>1, <3>4 DEF ClearedBy
      <4>2. /\ \A f \in ProviderSignals : f.condition.kind = ClearedBy(p[2]) => ~Active(f)'
            /\ \A f \in Row : f.condition.kind # ClearedBy(p[2]) => row'[f] = row[f]
            /\ \A f \in Row : ~Active(f) => ~Active(f)'
        BY <1>1, <2>1, <4>1, Landing
      <4>3. Active(ProviderSignal("CONNECTED")) => Active(ProviderSignal("CONNECTED"))'
        BY <3>2, <4>1, <4>2 DEF Active
      <4>4. <<s, "connected">> \in pending => <<s, "connected">> \in pending'
        BY <2>1, <3>4
      <4>5. ASSUME NEW w \in {"clear-UNREACHABLE", "clear-AUTH_FAILED"},
                   NEW f \in ProviderSignals, f.condition.kind = ClearedBy(w),
                   <<s, w>> \notin pending'
            PROVE  ~Active(f)'
        <5>1. <<s, w>> \in pending => w = p[2]
          BY <2>1, <4>5
        <5>2. f \in Row
          BY DEF Row
        <5> QED
          BY <1>1, <2>1, <2>3, <4>2, <4>5, <5>1, <5>2 DEF CheckSound
      <4> QED
        BY <1>1, <2>1, <2>2, <2>3, <4>3, <4>4, <4>5 DEF CheckSound, Busy
    <3> QED
      BY <3>3, <3>4
  <2>4. CASE scan[s].kind = "status" /\ scan[s].pc = "failed"
    <3>1. p[2] \in Failure \cup {"UNKNOWN_ERROR"}
      BY <1>1, <2>1, <2>4 DEF CheckSound
    <3>2. p[2] \in {"UNREACHABLE", "AUTH_FAILED", "UNKNOWN_ERROR"}
      BY <3>1, SignalsAssumption
    <3>3. ClearedBy(p[2]) = "NOTHING" /\ p[2] # "connected"
      BY <3>2 DEF ClearedBy
    <3>4. ProviderSignal(p[2]) \in ProviderSignals /\ Active(ProviderSignal(p[2]))'
          /\ ProviderSignal(p[2]).condition.kind = p[2]
      BY <1>1, <2>1, <3>1, <3>3, Titles, Landing
    <3> QED
      BY <1>1, <2>1, <2>2, <2>4, <3>2, <3>4 DEF CheckSound, Busy
  <2>5. CASE ~(scan[s].kind = "status" /\ scan[s].pc \in {"done", "failed"})
    BY <1>1, <2>1, <2>2, <2>5 DEF CheckSound, Busy
  <2> QED
    BY <2>3, <2>4, <2>5
<1> QED
  BY <1>2, <1>4, <1>5, <1>6, <1>7, <1>8 DEF Next

\* The reconciliation of a scan, however late, spares every signal stamped after its look
\* (the cutoff of docker.service.ts:492-606).
THEOREM NewerSignalsSpared == Spec => ReconcileSparesNewer
<1> DEFINE Spared == \A s \in Scan : \A f \in Resolved(s) :
      scan[s].pc \in Monitored => row[f].lastSeen <= scan[s].looked
<1>1. ASSUME SignalsInv, [Next]_vars PROVE Spared
  <2> SUFFICES ASSUME NEW s \in Scan, NEW f \in Resolved(s), scan[s].pc \in Monitored
               PROVE  row[f].lastSeen <= scan[s].looked
    OBVIOUS
  <2>1. row[f].lastSeen <= scan[s].start
    BY <1>1, WhoResolves DEF Stale, Cutoff
  <2>2. scan[s].start <= scan[s].looked
    BY <1>1 DEF SignalsInv, ScanSound, Busy, Resting, Monitored
  <2>3. row[f].lastSeen \in Nat /\ scan[s].start \in Nat /\ scan[s].looked \in Nat
    BY <1>1, WhoResolves DEF SignalsInv, TypeOK, ScanRecord
  <2> QED
    BY <2>1, <2>2, <2>3
<1>2. SignalsInv /\ [Next]_vars => [Spared]_vars
  BY <1>1
<1> HIDE DEF Spared
<1>3. Spec => [][Spared]_vars
  BY <1>2, SignalsInvariance, PTL DEF Spec
<1> QED
  BY <1>3, PTL DEF ReconcileSparesNewer, Spared

\* No scan resolves what its own look called for, except a row that another scan's late write
\* put back in a scope the container has left (docker.service.ts:558-582).
THEOREM EvidenceStands == Spec => OwnEvidenceStands
<1> DEFINE Stands == \A s \in Scan : \A f \in Resolved(s) : f \in Raised(scan[s].seen) =>
        scan[s].pc \in Monitored /\ row[f].scope # Scope(scan[s].seen[f.id])
<1>1. ASSUME SignalsInv, [Next]_vars PROVE Stands
  <2> SUFFICES ASSUME NEW s \in Scan, NEW f \in Resolved(s), f \in Raised(scan[s].seen)
               PROVE  scan[s].pc \in Monitored /\ row[f].scope # Scope(scan[s].seen[f.id])
    OBVIOUS
  <2>1. PICK scope \in Monitored : scan[s].pc = scope /\ f \in Stale(s, scope)
    BY <1>1, WhoResolves, EvidenceSpared
  <2> QED
    BY <1>1, <2>1, EvidenceSpared
<1>2. SignalsInv /\ [Next]_vars => [Stands]_vars
  BY <1>1
<1> HIDE DEF Stands
<1>3. Spec => [][Stands]_vars
  BY <1>2, SignalsInvariance, PTL DEF Spec
<1> QED
  BY <1>3, PTL DEF OwnEvidenceStands, Stands

\* A scan that lost one of its signals fails before it resolves anything
\* (docker.service.ts:518-521).
THEOREM LossResolvesNothing == Spec => LossyScanResolvesNothing
<1> DEFINE Nothing == \A s \in Scan : scan[s].missed => Resolved(s) = {}
<1>1. ASSUME SignalsInv, [Next]_vars PROVE Nothing
  <2> SUFFICES ASSUME NEW s \in Scan, NEW f \in Resolved(s) PROVE ~scan[s].missed
    OBVIOUS
  <2>1. scan[s].pc \in Resolving
    BY <1>1, WhoResolves
  <2> QED
    BY <1>1, <2>1 DEF SignalsInv, ScanSound, Resolving
<1>2. SignalsInv /\ [Next]_vars => [Nothing]_vars
  BY <1>1
<1> HIDE DEF Nothing
<1>3. Spec => [][Nothing]_vars
  BY <1>2, SignalsInvariance, PTL DEF Spec
<1> QED
  BY <1>3, PTL DEF LossyScanResolvesNothing, Nothing

\* A status check that nobody disturbed, once all it sent has landed, leaves the provider shown
\* as it found it (docker.service.ts:88-159).
THEOREM CheckIsTruthful == Spec => []AloneCheckTruthful
<1>1. Init => ChecksInv
  <2>1. Init => \A s \in Scan : CheckSound(s)
    BY DEF Init, CheckSound, NoScan
  <2> QED
    BY <2>1, InitSignals DEF ChecksInv
<1>2. ChecksInv => AloneCheckTruthful
  <2> SUFFICES ASSUME ChecksInv, NEW s \in Scan, scan[s].kind = "status", scan[s].alone,
                      pending = {}
               PROVE  /\ scan[s].pc = "done" =>
                           {f \in ProviderSignals :
                              Active(f) /\ f.condition.kind # "UNKNOWN_ERROR"} =
                             {ProviderSignal("CONNECTED")}
                      /\ scan[s].pc = "failed" =>
                           \E f \in ProviderSignals : Active(f) /\ f.condition.kind # "CONNECTED"
    BY DEF AloneCheckTruthful
  <2>1. CheckSound(s)
    BY DEF ChecksInv
  <2>2. ASSUME NEW f \in ProviderSignals
        PROVE  \/ f = ProviderSignal("CONNECTED") /\ f.condition.kind = "CONNECTED"
               \/ f.condition.kind \in {"UNKNOWN_ERROR", "UNREACHABLE", "AUTH_FAILED"}
    <3>1. PICK t \in {"CONNECTED", "UNKNOWN_ERROR"} \cup Failure : f = ProviderSignal(t)
      BY DEF ProviderSignals
    <3>2. f.condition.kind = t
      BY <3>1 DEF ProviderSignal, Fingerprint, Condition
    <3> QED
      BY <3>1, <3>2, SignalsAssumption
  <2>3. ASSUME scan[s].pc = "done"
        PROVE  {f \in ProviderSignals : Active(f) /\ f.condition.kind # "UNKNOWN_ERROR"} =
                 {ProviderSignal("CONNECTED")}
    <3>1. Active(ProviderSignal("CONNECTED"))
      BY <2>1, <2>3 DEF CheckSound
    <3>2. \A f \in ProviderSignals :
            f.condition.kind \in {"UNREACHABLE", "AUTH_FAILED"} => ~Active(f)
      BY <2>1, <2>3 DEF CheckSound, ClearedBy
    <3>3. ProviderSignal("CONNECTED") \in ProviderSignals
          /\ ProviderSignal("CONNECTED").condition.kind = "CONNECTED"
      BY Titles DEF ProviderSignal, Fingerprint, Condition
    <3> QED
      BY <2>2, <3>1, <3>2, <3>3
  <2> QED
    BY <2>1, <2>3 DEF CheckSound
<1> QED
  BY <1>1, <1>2, ChecksStep, PTL DEF Spec
=============================================================================
