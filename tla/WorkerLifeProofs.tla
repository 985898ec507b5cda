-------------------------- MODULE WorkerLifeProofs --------------------------
(***************************************************************************)
(* The worker report is truthful for any number of workers, thresholds and *)
(* latencies: IInv of WorkerLife is inductive and implies what it shows.   *)
(***************************************************************************)
EXTENDS WorkerLife, TLAPS

\* A row that is not null is a heartbeat.
LEMMA NoneIsNoHeartbeat == None \notin Heartbeat
BY WorkerAssumption DEF Heartbeat, WorkerHeartbeatStatus, Age

\* Ages stay in their range, grow, and keep their order.
LEMMA OlderAge ==
  ASSUME NEW a \in Age
  PROVE  /\ Older(a) \in Age
         /\ Older(a) > 0
         /\ a > 0 => Older(a) > 1
         /\ Older(a) > 1 => a > 0
         /\ \A b \in Age : a <= b => Older(a) <= Older(b)
BY WorkerAssumption DEF Older, Age

LEMMA AgedHeartbeat ==
  ASSUME NEW f \in Heartbeat
  PROVE  Aged(f) \in Heartbeat /\ Aged(f).status = f.status /\ Aged(f).age = Older(f.age)
BY OlderAge DEF Aged, Heartbeat

LEMMA BeatIsHeartbeat ==
  ASSUME NEW s \in WorkerHeartbeatStatus
  PROVE  Beat(s) \in Heartbeat /\ Beat(s).status = s /\ Beat(s).age = 0
BY WorkerAssumption DEF Beat, Heartbeat, Age

-----------------------------------------------------------------------------
\* The initial states satisfy the invariant: nobody has sent anything.
LEMMA InitInv == Init => IInv
<1>. SUFFICES ASSUME Init PROVE IInv
  OBVIOUS
<1>1. TypeOK
  BY WorkerAssumption DEF Init, TypeOK, Phase, Age
<1>2. Vouching /\ StopsDrained /\ MadeGood
  BY DEF Init, Vouching, StopsDrained, MadeGood, Sent, Running
<1>. QED BY <1>1, <1>2 DEF IInv

-----------------------------------------------------------------------------
\* Every step keeps the types: a worker that marks itself stopped has drained.
LEMMA TypeStep == TypeOK /\ StopsDrained /\ [Next]_vars => TypeOK'
<1>. SUFFICES ASSUME TypeOK, StopsDrained, [Next]_vars PROVE TypeOK'
  OBVIOUS
<1>. USE DEF TypeOK
<1>b. \A s \in WorkerHeartbeatStatus : Beat(s) \in Heartbeat
  BY BeatIsHeartbeat
<1>s. {"RUNNING", "STOPPING", "STOPPED"} = WorkerHeartbeatStatus
  BY DEF WorkerHeartbeatStatus
<1>z. 0 \in Age
  BY WorkerAssumption DEF Age
<1>1. CASE Tick
  <2>1. heartbeat' \in [Worker -> Heartbeat \cup {None}]
    BY <1>1, AgedHeartbeat DEF Tick
  <2>2. flights' \in [Worker -> SUBSET Heartbeat]
    BY <1>1, <1>b, <1>s, AgedHeartbeat DEF Tick
  <2>3. quiet' \in [Worker -> Age] /\ trouble' \in [Worker -> Age]
    BY <1>1, <1>z, OlderAge DEF Tick
  <2>. QED BY <1>1, <2>1, <2>2, <2>3 DEF Tick, Alive
<1>2. ASSUME NEW w \in Worker, Boot(w) PROVE TypeOK'
  BY <1>2, <1>b, <1>s, <1>z DEF Boot, Phase, Alive
<1>3. ASSUME NEW w \in Worker, TakeJob(w) \/ EndJob(w) PROVE TypeOK'
  BY <1>3 DEF TakeJob, EndJob, Alive
<1>4. ASSUME NEW w \in Worker, NEW f \in flights[w], Land(w, f) \/ Lose(w, f) PROVE TypeOK'
  <2>1. f \in Heartbeat
    OBVIOUS
  <2>2. Answered(w, f) \in Phase
    BY DEF Answered, Phase
  <2>3. busy[w] => Answered(w, f) \notin {"off", "exited", "dead"}
    BY DEF Answered, Alive, StopsDrained, Sent
  <2>. QED BY <1>4, <1>z, <2>1, <2>2, <2>3 DEF Land, Lose, Written, Alive
<1>5. ASSUME NEW w \in Worker, Signal(w) \/ Close(w) \/ CloseFails(w) \/ Crash(w) PROVE TypeOK'
  <2>1. phase' \in [Worker -> Phase] /\ busy' \in [Worker -> BOOLEAN]
    BY <1>5 DEF Signal, Close, CloseFails, Crash, Phase
  <2>2. flights' \in [Worker -> SUBSET Heartbeat]
    BY <1>5, <1>b, <1>s DEF Signal, Close, CloseFails, Crash
  <2>3. UNCHANGED <<heartbeat, quiet, trouble>>
    BY <1>5 DEF Signal, Close, CloseFails, Crash
  <2>4. \A v \in Worker : busy'[v] => Alive(v)'
    BY <1>5 DEF Signal, Close, CloseFails, Crash, Drained, Alive
  <2>. QED BY <2>1, <2>2, <2>3, <2>4
<1>6. CASE UNCHANGED vars
  BY <1>6 DEF vars, Alive
<1>. QED BY <1>1, <1>2, <1>3, <1>4, <1>5, <1>6 DEF Next

-----------------------------------------------------------------------------
\* Every step keeps a RUNNING heartbeat at least as old as the silence.
LEMMA VouchingStep == TypeOK /\ StopsDrained /\ MadeGood /\ Vouching /\ [Next]_vars => Vouching'
<1>. SUFFICES ASSUME TypeOK, Vouching, StopsDrained, MadeGood, [Next]_vars,
                     NEW v \in Worker
              PROVE  /\ Running(v)' => quiet'[v] = 0
                     /\ \A h \in Sent(v)' : h.status = "RUNNING" => quiet'[v] <= h.age
  BY DEF Vouching
<1>. USE DEF TypeOK
<1>t. /\ Running(v) => quiet[v] = 0
      /\ \A h \in Sent(v) : h \in Heartbeat /\ (h.status = "RUNNING" => quiet[v] <= h.age)
      /\ quiet[v] \in Age
  BY DEF Vouching, Sent
<1>b. Beat("RUNNING") \in Heartbeat /\ Beat("RUNNING").age = 0
      /\ Beat("STOPPING").status = "STOPPING" /\ Beat("STOPPED").status = "STOPPED"
  BY BeatIsHeartbeat DEF WorkerHeartbeatStatus
<1>1. CASE Tick
  <2>1. Running(v)' <=> Running(v)
    BY <1>1 DEF Tick, Running
  <2>2. \A h \in Sent(v)' : \/ \E f \in Sent(v) : f \in Heartbeat /\ h = Aged(f)
                            \/ h = Beat("RUNNING") /\ phase[v] = "up"
    BY <1>1, <1>t DEF Tick, Sent
  <2>3. quiet'[v] = IF Running(v) THEN 0 ELSE Older(quiet[v])
    BY <1>1 DEF Tick
  <2>4. ASSUME NEW h \in Sent(v)', h.status = "RUNNING" PROVE quiet'[v] <= h.age
    <3>1. CASE h = Beat("RUNNING") /\ phase[v] = "up"
      BY <3>1, <1>b, <2>3 DEF Running
    <3>2. ASSUME NEW f \in Sent(v), f \in Heartbeat, h = Aged(f) PROVE quiet'[v] <= h.age
      <4>1. h.status = f.status /\ h.age = Older(f.age) /\ f.age \in Age
        BY <3>2, AgedHeartbeat DEF Heartbeat
      <4>2. quiet[v] <= f.age
        BY <3>2, <4>1, <2>4, <1>t
      <4>3. Older(quiet[v]) <= Older(f.age) /\ Older(f.age) > 0 /\ Older(f.age) \in Age
        BY <4>1, <4>2, <1>t, OlderAge
      <4>. QED BY <4>1, <4>3, <2>3 DEF Age
    <3>. QED BY <2>2, <3>1, <3>2
  <2>. QED BY <2>1, <2>3, <2>4
<1>2. ASSUME NEW w \in Worker, Boot(w) PROVE (Running(v)' => quiet'[v] = 0)
        /\ \A h \in Sent(v)' : h.status = "RUNNING" => quiet'[v] <= h.age
  <2>1. CASE v = w
    <3>1. quiet'[v] = 0
      BY <1>2, <2>1 DEF Boot
    <3>2. \A h \in Sent(v)' : h \in Heartbeat
      BY <1>2, <2>1, <1>b, <1>t DEF Boot, Sent
    <3>. QED BY <3>1, <3>2 DEF Heartbeat, Age
  <2>2. CASE v # w
    <3>1. quiet'[v] = quiet[v] /\ phase'[v] = phase[v] /\ Sent(v)' = Sent(v)
      BY <1>2, <2>2 DEF Boot, Sent
    <3>. QED BY <3>1, <1>t DEF Running
  <2>. QED BY <2>1, <2>2
<1>3. ASSUME NEW w \in Worker, TakeJob(w) \/ EndJob(w) PROVE (Running(v)' => quiet'[v] = 0)
        /\ \A h \in Sent(v)' : h.status = "RUNNING" => quiet'[v] <= h.age
  BY <1>3, <1>t DEF TakeJob, EndJob, Sent, Running
<1>4. ASSUME NEW w \in Worker, NEW f \in flights[w], Land(w, f) \/ Lose(w, f)
      PROVE  (Running(v)' => quiet'[v] = 0)
             /\ \A h \in Sent(v)' : h.status = "RUNNING" => quiet'[v] <= h.age
  <2>1. quiet'[v] = quiet[v]
    BY <1>4 DEF Land, Lose
  <2>2. Sent(v)' \subseteq Sent(v)
    <3>1. f \in Heartbeat
      OBVIOUS
    <3>2. f # None
      BY <3>1, NoneIsNoHeartbeat
    <3>. QED BY <1>4, <3>2 DEF Land, Lose, Written, Sent
  <2>3. Running(v)' => Running(v)
    BY <1>4 DEF Land, Lose, Answered, Running
  <2>. QED BY <2>1, <2>2, <2>3, <1>t
<1>5. ASSUME NEW w \in Worker, Signal(w) \/ Close(w) \/ CloseFails(w) \/ Crash(w)
      PROVE  (Running(v)' => quiet'[v] = 0)
             /\ \A h \in Sent(v)' : h.status = "RUNNING" => quiet'[v] <= h.age
  <2>1. quiet'[v] = quiet[v]
    BY <1>5 DEF Signal, Close, CloseFails, Crash
  <2>2. Sent(v)' \subseteq Sent(v) \cup {Beat("STOPPING"), Beat("STOPPED")}
    BY <1>5 DEF Signal, Close, CloseFails, Crash, Sent
  <2>3. Running(v)' => Running(v)
    BY <1>5 DEF Signal, Close, CloseFails, Crash, Running
  <2>. QED BY <2>1, <2>2, <2>3, <1>t, <1>b
<1>6. CASE UNCHANGED vars
  BY <1>6, <1>t DEF vars, Sent, Running
<1>. QED BY <1>1, <1>2, <1>3, <1>4, <1>5, <1>6 DEF Next

-----------------------------------------------------------------------------
\* Every step keeps STOPPED behind the drain.
LEMMA StopsStep == TypeOK /\ StopsDrained /\ MadeGood /\ [Next]_vars => StopsDrained'
<1>. SUFFICES ASSUME TypeOK, StopsDrained, MadeGood, [Next]_vars,
                     NEW v \in Worker, NEW h \in Sent(v)', h.status = "STOPPED"
              PROVE  ~busy'[v] /\ phase'[v] \in {"marking", "exited", "dead"}
  BY DEF StopsDrained
<1>. USE DEF TypeOK
<1>o. (\E f \in Sent(v) : f.status = "STOPPED") =>
        ~busy[v] /\ phase[v] \in {"marking", "exited", "dead"}
  BY DEF StopsDrained
<1>b. Beat("RUNNING").status = "RUNNING" /\ Beat("STOPPING").status = "STOPPING"
  BY DEF Beat
<1>t. \A f \in Sent(v) : f \in Heartbeat
  BY DEF Sent
<1>1. CASE Tick
  <2>1. \/ \E f \in Sent(v) : f \in Heartbeat /\ h = Aged(f)
        \/ h = Beat("RUNNING")
    BY <1>1, <1>t DEF Tick, Sent
  <2>2. \E f \in Sent(v) : f.status = "STOPPED"
    BY <2>1, <1>b, AgedHeartbeat
  <2>. QED BY <1>1, <1>o, <2>2 DEF Tick
<1>2. ASSUME NEW w \in Worker, Boot(w)
      PROVE  ~busy'[v] /\ phase'[v] \in {"marking", "exited", "dead"}
  <2>1. h \in Sent(v)
    BY <1>2, <1>b DEF Boot, Sent
  <2>. QED BY <1>2, <1>o, <2>1 DEF Boot
<1>3. ASSUME NEW w \in Worker, TakeJob(w) \/ EndJob(w)
      PROVE  ~busy'[v] /\ phase'[v] \in {"marking", "exited", "dead"}
  <2>1. h \in Sent(v)
    BY <1>3 DEF TakeJob, EndJob, Sent
  <2>. QED BY <1>3, <1>o, <2>1 DEF TakeJob, EndJob
<1>4. ASSUME NEW w \in Worker, NEW f \in flights[w], Land(w, f) \/ Lose(w, f)
      PROVE  ~busy'[v] /\ phase'[v] \in {"marking", "exited", "dead"}
  <2>1. f \in Heartbeat /\ f # None
    BY NoneIsNoHeartbeat
  <2>2. h \in Sent(v)
    BY <1>4, <2>1 DEF Land, Lose, Written, Sent
  <2>3. ~busy[v] /\ phase[v] \in {"marking", "exited", "dead"}
    BY <1>o, <2>2
  <2>. QED BY <1>4, <2>3 DEF Land, Lose, Answered
<1>5. ASSUME NEW w \in Worker, Signal(w) \/ Close(w) \/ CloseFails(w) \/ Crash(w)
      PROVE  ~busy'[v] /\ phase'[v] \in {"marking", "exited", "dead"}
  <2>1. CASE h \in Sent(v)
    BY <1>5, <1>o, <2>1 DEF Signal, Close, CloseFails, Crash, Drained
  <2>2. CASE h \notin Sent(v)
    <3>1. Close(w) /\ v = w
      BY <1>5, <1>b, <2>2 DEF Signal, Close, CloseFails, Crash, Sent
    <3>. QED BY <3>1 DEF Close, Drained
  <2>. QED BY <2>1, <2>2
<1>6. CASE UNCHANGED vars
  BY <1>6, <1>o DEF vars, Sent
<1>. QED BY <1>1, <1>2, <1>3, <1>4, <1>5, <1>6 DEF Next

-----------------------------------------------------------------------------
\* Every step keeps what makes a row good.
LEMMA MadeGoodStep == TypeOK /\ MadeGood /\ [Next]_vars => MadeGood'
<1>. SUFFICES ASSUME TypeOK, MadeGood, [Next]_vars, NEW v \in Worker
              PROVE  /\ Running(v)' => \A f \in flights'[v] : f.status = "RUNNING"
                     /\ phase'[v] = "announcing" => flights'[v] # {}
                     /\ trouble'[v] > 0 =>
                          \A f \in flights'[v] : f.status = "RUNNING" => f.age = 0
                     /\ phase'[v] = "up" /\ trouble'[v] > 0 /\ flights'[v] = {} =>
                          heartbeat'[v] = Beat("RUNNING")
                     /\ phase'[v] = "up" /\ trouble'[v] > 1 =>
                          heartbeat'[v] \in [status : {"RUNNING"}, age : {0, 1}]
  BY Zenon DEF MadeGood, Beat
<1>. USE DEF TypeOK
<1>g. /\ Running(v) => \A f \in flights[v] : f.status = "RUNNING"
      /\ phase[v] = "announcing" => flights[v] # {}
      /\ trouble[v] > 0 => \A f \in flights[v] : f.status = "RUNNING" => f.age = 0
      /\ phase[v] = "up" /\ trouble[v] > 0 /\ flights[v] = {} => heartbeat[v] = Beat("RUNNING")
      /\ phase[v] = "up" /\ trouble[v] > 1 =>
           heartbeat[v] \in [status : {"RUNNING"}, age : {0, 1}]
  BY DEF MadeGood
<1>b. Beat("RUNNING") \in Heartbeat /\ Beat("RUNNING").age = 0
      /\ Beat("RUNNING").status = "RUNNING"
  BY BeatIsHeartbeat DEF WorkerHeartbeatStatus
<1>h. \A f \in flights[v] : f \in Heartbeat
  OBVIOUS
<1>s. ASSUME NEW f \in Heartbeat, f.status = "RUNNING", f.age = 0
      PROVE  f = Beat("RUNNING") /\ f \in [status : {"RUNNING"}, age : {0, 1}]
  BY <1>s DEF Heartbeat, Beat
<1>1. CASE Tick
  <2>1. phase'[v] = phase[v] /\ (Running(v)' <=> Running(v))
    BY <1>1 DEF Tick, Running
  <2>2. \A h \in flights'[v] : \/ \E f \in flights[v] : h = Aged(f)
                               \/ h = Beat("RUNNING") /\ phase[v] = "up"
    BY <1>1 DEF Tick
  <2>3. trouble'[v] = IF \E f \in flights[v] : f.status = "RUNNING" THEN 0
                      ELSE Older(trouble[v])
    BY <1>1 DEF Tick
  <2>4. \A f \in flights[v] : Aged(f) \in flights'[v]
    BY <1>1 DEF Tick
  <2>5. phase[v] = "up" => Beat("RUNNING") \in flights'[v]
    BY <1>1 DEF Tick
  <2>6. Running(v)' => \A f \in flights'[v] : f.status = "RUNNING"
    BY <2>1, <2>2, <1>g, <1>h, <1>b, AgedHeartbeat
  <2>7. phase'[v] = "announcing" => flights'[v] # {}
    BY <2>1, <2>4, <1>g
  <2>8. trouble'[v] > 0 => \A f \in flights'[v] : f.status = "RUNNING" => f.age = 0
    BY <2>2, <2>3, <1>b, <1>h, AgedHeartbeat
  <2>9. phase'[v] = "up" => flights'[v] # {}
    BY <2>1, <2>5
  <2>10. ASSUME phase'[v] = "up", trouble'[v] > 1
         PROVE  heartbeat'[v] \in [status : {"RUNNING"}, age : {0, 1}]
    <3>1. ~ \E f \in flights[v] : f.status = "RUNNING"
      BY <2>3, <2>10
    <3>2. flights[v] = {}
      BY <3>1, <2>1, <2>10, <1>g DEF Running
    <3>3. trouble[v] > 0
      <4>1. trouble[v] \in Age
        OBVIOUS
      <4>. QED BY <4>1, <3>1, <2>3, <2>10, OlderAge
    <3>4. heartbeat[v] = Beat("RUNNING")
      BY <3>2, <3>3, <2>1, <2>10, <1>g
    <3>5. heartbeat'[v] = Aged(Beat("RUNNING"))
      BY <1>1, <3>4, <1>b, NoneIsNoHeartbeat DEF Tick
    <3>. QED BY <3>5, WorkerAssumption DEF Aged, Beat, Older
  <2>. QED BY <2>6, <2>7, <2>8, <2>9, <2>10
<1>2. ASSUME NEW w \in Worker, Boot(w) PROVE
        /\ Running(v)' => \A f \in flights'[v] : f.status = "RUNNING"
        /\ phase'[v] = "announcing" => flights'[v] # {}
        /\ trouble'[v] > 0 => \A f \in flights'[v] : f.status = "RUNNING" => f.age = 0
        /\ phase'[v] = "up" /\ trouble'[v] > 0 /\ flights'[v] = {} =>
             heartbeat'[v] = Beat("RUNNING")
        /\ phase'[v] = "up" /\ trouble'[v] > 1 =>
             heartbeat'[v] \in [status : {"RUNNING"}, age : {0, 1}]
  BY <1>2, <1>g, <1>b DEF Boot, Running
<1>3. ASSUME NEW w \in Worker, NEW f \in flights[w], Land(w, f) PROVE
        /\ Running(v)' => \A g \in flights'[v] : g.status = "RUNNING"
        /\ phase'[v] = "announcing" => flights'[v] # {}
        /\ trouble'[v] > 0 => \A g \in flights'[v] : g.status = "RUNNING" => g.age = 0
        /\ phase'[v] = "up" /\ trouble'[v] > 0 /\ flights'[v] = {} =>
             heartbeat'[v] = Beat("RUNNING")
        /\ phase'[v] = "up" /\ trouble'[v] > 1 =>
             heartbeat'[v] \in [status : {"RUNNING"}, age : {0, 1}]
  <2>1. CASE v # w
    <3>1. UNCHANGED <<phase[v], flights[v], heartbeat[v], trouble[v]>>
      BY <1>3, <2>1 DEF Land
    <3>. QED BY <3>1, <1>g DEF Running
  <2>2. CASE v = w
    <3>1. /\ flights'[v] = flights[v] \ {f} /\ trouble'[v] = trouble[v]
          /\ heartbeat'[v] = f /\ phase'[v] = Answered(v, f)
      BY <1>3, <2>2 DEF Land, Written
    <3>2. phase'[v] # "announcing" /\ (Running(v)' => Running(v))
      BY <3>1 DEF Answered, Running
    <3>3. phase'[v] = "up" /\ trouble'[v] > 0 =>
            f \in Heartbeat /\ f.status = "RUNNING" /\ f.age = 0
      BY <3>1, <3>2, <2>2, <1>g, <1>h DEF Running
    <3>4. trouble'[v] > 1 => trouble'[v] > 0
      BY <3>1 DEF Age
    <3>. QED BY <3>1, <3>2, <3>3, <3>4, <1>g, <1>s
  <2>. QED BY <2>1, <2>2
<1>4. ASSUME NEW w \in Worker, NEW f \in flights[w], Lose(w, f) PROVE
        /\ Running(v)' => \A g \in flights'[v] : g.status = "RUNNING"
        /\ phase'[v] = "announcing" => flights'[v] # {}
        /\ trouble'[v] > 0 => \A g \in flights'[v] : g.status = "RUNNING" => g.age = 0
        /\ phase'[v] = "up" /\ trouble'[v] > 0 /\ flights'[v] = {} =>
             heartbeat'[v] = Beat("RUNNING")
        /\ phase'[v] = "up" /\ trouble'[v] > 1 =>
             heartbeat'[v] \in [status : {"RUNNING"}, age : {0, 1}]
  BY <1>4, <1>g DEF Lose, Answered, Running
<1>5. ASSUME NEW w \in Worker,
             TakeJob(w) \/ EndJob(w) \/ Signal(w) \/ Close(w) \/ CloseFails(w) \/ Crash(w)
      PROVE
        /\ Running(v)' => \A f \in flights'[v] : f.status = "RUNNING"
        /\ phase'[v] = "announcing" => flights'[v] # {}
        /\ trouble'[v] > 0 => \A f \in flights'[v] : f.status = "RUNNING" => f.age = 0
        /\ phase'[v] = "up" /\ trouble'[v] > 0 /\ flights'[v] = {} =>
             heartbeat'[v] = Beat("RUNNING")
        /\ phase'[v] = "up" /\ trouble'[v] > 1 =>
             heartbeat'[v] \in [status : {"RUNNING"}, age : {0, 1}]
  <2>1. trouble'[v] = trouble[v] /\ heartbeat'[v] = heartbeat[v]
    BY <1>5 DEF TakeJob, EndJob, Signal, Close, CloseFails, Crash
  <2>2. /\ flights[v] \subseteq flights'[v]
        /\ \A f \in flights'[v] : f \in flights[v] \/ f.status # "RUNNING"
    BY <1>5 DEF TakeJob, EndJob, Signal, Close, CloseFails, Crash, Beat
  <2>3. phase'[v] \in {"announcing", "up"} => phase'[v] = phase[v] /\ flights'[v] = flights[v]
    BY <1>5 DEF TakeJob, EndJob, Signal, Close, CloseFails, Crash, Drained
  <2>. QED BY <2>1, <2>2, <2>3, <1>g DEF Running
<1>6. CASE UNCHANGED vars
  BY <1>6, <1>g DEF vars, Running
<1>. QED BY <1>1, <1>2, <1>3, <1>4, <1>5, <1>6 DEF Next

-----------------------------------------------------------------------------
\* What was sent and written never says more of a worker than was true when it was sent.
THEOREM InvariantHolds == Spec => []IInv
<1>1. IInv /\ [Next]_vars => IInv'
  BY TypeStep, VouchingStep, StopsStep, MadeGoodStep DEF IInv
<1>. QED BY InitInv, <1>1, PTL DEF Spec

\* The variables keep their types.
THEOREM TypeCorrect == Spec => []TypeOK
<1>1. IInv => TypeOK
  BY DEF IInv
<1>. QED BY InvariantHolds, <1>1, PTL

\* A worker the hub shows as active was up within the stale threshold, for any number of
\* workers, any thresholds and any latency (ops.service.ts:901-1040).
THEOREM ReportIsTruthful == Spec => []ReportTruthful
<1>1. IInv => ReportTruthful
  <2>. SUFFICES ASSUME IInv, NEW w \in Worker, ShownActive(w) PROVE quiet[w] <= Stale
    BY DEF ReportTruthful
  <2>1. heartbeat[w] \in Sent(w) /\ heartbeat[w] \in Heartbeat /\ quiet[w] \in Age
    BY DEF IInv, TypeOK, ShownActive, Sent
  <2>2. quiet[w] <= heartbeat[w].age /\ heartbeat[w].age <= Stale
    BY <2>1 DEF IInv, Vouching, ShownActive
  <2>. QED BY <2>1, <2>2, WorkerAssumption DEF Heartbeat, Age
<1>. QED BY InvariantHolds, <1>1, PTL

\* A worker whose row says STOPPED executes nothing, whatever landed late
\* (main.ts, worker-heartbeat.ts).
THEOREM StoppedIsIdle == Spec => []StoppedMeansIdle
<1>1. IInv => StoppedMeansIdle
  BY DEF IInv, StopsDrained, StoppedMeansIdle, Sent, Running
<1>. QED BY InvariantHolds, <1>1, PTL

\* A worker that is up and lost no heartbeat lately is shown, and then the hub says RUNNING
\* (ops.service.ts:901-1040).
THEOREM UpIsAlwaysShown == Spec => []UpIsShown
<1>1. IInv => UpIsShown
  <2>. SUFFICES ASSUME IInv, NEW w \in Worker, phase[w] = "up", trouble[w] > 1
                PROVE  ShownActive(w) /\ Posture(TRUE) = "RUNNING"
    BY DEF UpIsShown
  <2>1. heartbeat[w] \in [status : {"RUNNING"}, age : {0, 1}]
    BY DEF IInv, MadeGood
  <2>2. heartbeat[w] \in Heartbeat
    BY <2>1, WorkerAssumption DEF Heartbeat, WorkerHeartbeatStatus, Age
  <2>3. ShownActive(w)
    BY <2>1, <2>2, NoneIsNoHeartbeat, WorkerAssumption DEF ShownActive
  <2>. QED BY <2>3 DEF Posture, ShownActive
<1>. QED BY InvariantHolds, <1>1, PTL

\* The hub shows a worker as active only if it was up of late, and always if it is up and its
\* heartbeats were answered of late (ops.service.ts:901-1040).
THEOREM ReportIsAccurate == Spec => []ReportAccurate
<1>1. ReportTruthful /\ UpIsShown => ReportAccurate
  BY DEF ReportAccurate
<1>. QED BY ReportIsTruthful, UpIsAlwaysShown, <1>1, PTL
=============================================================================
