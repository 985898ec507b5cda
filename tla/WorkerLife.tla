----------------------------- MODULE WorkerLife -----------------------------
(***************************************************************************)
(* The life of worker processes as the heartbeat registry records it and   *)
(* the operations hub reports it. A worker boots, beats, takes jobs, is    *)
(* told to stop, drains, and exits; every heartbeat carries the time it    *)
(* was taken and may land late, out of order, or never.                    *)
(*                                                                         *)
(* Time is counted in beats (HEARTBEAT_INTERVAL_MS) and kept as ages, so   *)
(* that it needs no bound.                                                 *)
(***************************************************************************)
EXTENDS Naturals

CONSTANTS
  Worker,      \* worker processes; a restarted worker is another one (its id holds the start time)
  Stale,       \* WORKER_STALE_THRESHOLD_MS in beats
  Offline,     \* WORKER_OFFLINE_THRESHOLD_MS in beats
  MaxLatency,  \* bound on the beats a heartbeat is under way
  None         \* null

ASSUME WorkerAssumption ==
  /\ Stale \in Nat /\ Offline \in Nat /\ MaxLatency \in Nat
  /\ 1 <= Stale /\ Stale < Offline
  /\ None \notin [status : {"RUNNING", "STOPPING", "STOPPED"}, age : 0..(Offline + 1)]

VARIABLES
  phase,     \* where the process stands in main and shutdown
  busy,      \* it executes a job
  heartbeat, \* worker_heartbeats: the row of each worker, None before its first
  flights,   \* heartbeats sent and not yet answered
  quiet,     \* history: beats since the worker was last up
  trouble    \* history: beats since a heartbeat of it was lost, or landed late

vars == <<phase, busy, heartbeat, flights, quiet, trouble>>
-----------------------------------------------------------------------------
WorkerHeartbeatStatus == {"RUNNING", "STOPPING", "STOPPED"}
Phase == {"off", "announcing", "up", "stopping", "draining", "stuck", "marking", "exited", "dead"}
Age   == 0..(Offline + 1)
Older(a) == IF a > Offline THEN Offline + 1 ELSE a + 1

Heartbeat == [status : WorkerHeartbeatStatus, age : Age]
Beat(status) == [status |-> status, age |-> 0]
Aged(f)      == [status |-> f.status, age |-> Older(f.age)]

Running(w) == phase[w] \in {"announcing", "up"}
Alive(w)   == phase[w] \notin {"off", "exited", "dead"}

\* Faulty: the report looks at the status alone.
ShownActiveAnyAge(w) == heartbeat[w] # None /\ heartbeat[w].status = "RUNNING"

\* _getWorkerRuntime: the active workers, the stale ones, and the status of all together.
\* Every worker serves every queue, so that one active worker covers them.
ShownActive(w) ==
  /\ heartbeat[w] # None
  /\ heartbeat[w].status = "RUNNING" /\ heartbeat[w].age <= Stale

ShownStale(w) ==
  /\ heartbeat[w] # None
  /\ heartbeat[w].status = "RUNNING" /\ heartbeat[w].age \in (Stale + 1)..Offline

\* A registry that cannot be read is reported like one that is empty.
Posture(readable) ==
  IF ~readable \/ \A w \in Worker : heartbeat[w] = None THEN "UNKNOWN"
  ELSE IF \E w \in Worker : ShownActive(w) THEN "RUNNING"
  ELSE IF \E w \in Worker : ShownStale(w) THEN "DEGRADED" ELSE "OFFLINE"

Init ==
  /\ phase = [w \in Worker |-> "off"]
  /\ busy = [w \in Worker |-> FALSE]
  /\ heartbeat = [w \in Worker |-> None]
  /\ flights = [w \in Worker |-> {}]
  /\ quiet = [w \in Worker |-> Offline + 1]
  /\ trouble = [w \in Worker |-> Offline + 1]

-----------------------------------------------------------------------------
\* main: the queue workers take jobs before the first heartbeat is written.
Boot(w) ==
  /\ phase[w] = "off"
  /\ phase' = [phase EXCEPT ![w] = "announcing"]
  /\ flights' = [flights EXCEPT ![w] = {Beat("RUNNING")}]
  /\ quiet' = [quiet EXCEPT ![w] = 0]
  /\ UNCHANGED <<busy, heartbeat, trouble>>

\* BullMQ hands a job to a worker that was not told to close.
TakeJob(w) ==
  /\ phase[w] \in {"announcing", "up", "stopping"}
  /\ ~busy[w]
  /\ busy' = [busy EXCEPT ![w] = TRUE]
  /\ UNCHANGED <<phase, heartbeat, flights, quiet, trouble>>

EndJob(w) ==
  /\ busy[w]
  /\ busy' = [busy EXCEPT ![w] = FALSE]
  /\ UNCHANGED <<phase, heartbeat, flights, quiet, trouble>>

\* A beat passes; the interval of a worker that is up sends the next heartbeat.
Tick ==
  /\ \A w \in Worker : \A f \in flights[w] : f.age < MaxLatency
  /\ heartbeat' = [w \in Worker |-> IF heartbeat[w] = None THEN None ELSE Aged(heartbeat[w])]
  /\ flights' = [w \in Worker |->
       {Aged(f) : f \in flights[w]} \cup {f \in {Beat("RUNNING")} : phase[w] = "up"}]
  /\ quiet' = [w \in Worker |-> IF Running(w) THEN 0 ELSE Older(quiet[w])]
  /\ trouble' = [w \in Worker |->
       IF \E f \in flights[w] : f.status = "RUNNING" THEN 0 ELSE Older(trouble[w])]
  /\ UNCHANGED <<phase, busy>>

\* Faulty: a stopping worker goes on only if nothing else is under way.
AnsweredLast(w, f) ==
  CASE phase[w] = "announcing"                                                -> "up"
    [] phase[w] = "stopping" /\ f.status = "STOPPING" /\ flights[w] = {f}     -> "draining"
    [] phase[w] = "marking" /\ f.status = "STOPPED"                           -> "exited"
    [] OTHER                                                                  -> phase[w]

\* What the process does when the heartbeat it waits for was answered, or refused: a failed
\* heartbeat is logged and changes nothing else.
Answered(w, f) ==
  CASE phase[w] = "announcing"                              -> "up"
    [] phase[w] = "stopping" /\ f.status = "STOPPING"       -> "draining"
    [] phase[w] = "marking" /\ f.status = "STOPPED"         -> "exited"
    [] OTHER                                                -> phase[w]

\* writeHeartbeat: lastSeenAt is the time the heartbeat was taken.
Written(f) == f

Land(w, f) ==
  /\ f \in flights[w]
  /\ heartbeat' = [heartbeat EXCEPT ![w] = Written(f)]
  /\ flights' = [flights EXCEPT ![w] = @ \ {f}]
  /\ phase' = [phase EXCEPT ![w] = Answered(w, f)]
  /\ UNCHANGED <<busy, quiet, trouble>>

Lose(w, f) ==
  /\ f \in flights[w]
  /\ flights' = [flights EXCEPT ![w] = @ \ {f}]
  /\ phase' = [phase EXCEPT ![w] = Answered(w, f)]
  /\ trouble' = [trouble EXCEPT ![w] = 0]
  /\ UNCHANGED <<busy, heartbeat, quiet>>

\* shutdown: the interval is cleared and STOPPING is written first. The signal handlers are
\* set up after the first heartbeat: before that a signal is a crash.
Signal(w) ==
  /\ phase[w] = "up"
  /\ phase' = [phase EXCEPT ![w] = "stopping"]
  /\ flights' = [flights EXCEPT ![w] = @ \cup {Beat("STOPPING")}]
  /\ UNCHANGED <<busy, heartbeat, quiet, trouble>>

\* The workers are closed: each waits for the jobs it has.
Drained(w) == phase[w] = "draining" /\ ~busy[w]

\* The health server and Redis follow; then STOPPED is written.
Close(w) ==
  /\ Drained(w)
  /\ phase' = [phase EXCEPT ![w] = "marking"]
  /\ flights' = [flights EXCEPT ![w] = @ \cup {Beat("STOPPED")}]
  /\ UNCHANGED <<busy, heartbeat, quiet, trouble>>

\* A close is refused: nobody catches the rejection, shuttingDown stays set, and every
\* later signal returns at once.
CloseFails(w) ==
  /\ phase[w] = "draining"
  /\ phase' = [phase EXCEPT ![w] = "stuck"]
  /\ UNCHANGED <<busy, heartbeat, flights, quiet, trouble>>

\* The process is killed or throws; what it sent may still land.
Crash(w) ==
  /\ Alive(w)
  /\ phase' = [phase EXCEPT ![w] = "dead"]
  /\ busy' = [busy EXCEPT ![w] = FALSE]
  /\ UNCHANGED <<heartbeat, flights, quiet, trouble>>

Next ==
  \/ Tick
  \/ \E w \in Worker :
       \/ Boot(w) \/ TakeJob(w) \/ EndJob(w)
       \/ \E f \in flights[w] : Land(w, f) \/ Lose(w, f)
       \/ Signal(w) \/ Close(w) \/ CloseFails(w) \/ Crash(w)

\* A database call is answered or times out, a job ends, a drained worker closes.
Fairness ==
  \A w \in Worker :
    /\ WF_vars(\E f \in flights[w] : f.status # "RUNNING" /\ (Land(w, f) \/ Lose(w, f)))
    /\ WF_vars(EndJob(w))
    /\ WF_vars(Close(w) \/ CloseFails(w))

Spec == Init /\ [][Next]_vars /\ Fairness
-----------------------------------------------------------------------------
\* The variables keep their types; only a process that is there executes jobs.
TypeOK ==
  /\ phase \in [Worker -> Phase]
  /\ busy \in [Worker -> BOOLEAN]
  /\ heartbeat \in [Worker -> Heartbeat \cup {None}]
  /\ flights \in [Worker -> SUBSET Heartbeat]
  /\ quiet \in [Worker -> Age]
  /\ trouble \in [Worker -> Age]
  /\ \A w \in Worker : busy[w] => Alive(w)

\* A worker shown as active was up within the stale threshold, whatever late heartbeat
\* overtook STOPPING or STOPPED, and whether or not the process is still there: a RUNNING row
\* vouches for the time it was taken, not for the time it was written.
ReportTruthful == \A w \in Worker : ShownActive(w) => quiet[w] <= Stale

\* A row that says STOPPED belongs to a worker that has drained: it executes nothing, and
\* took its last job before.
StoppedMeansIdle ==
  \A w \in Worker :
    heartbeat[w] # None /\ heartbeat[w].status = "STOPPED" => ~busy[w] /\ ~Running(w)

\* A worker that is up is missing from the report only when one of its heartbeats was lost, or
\* was overtaken by the next, no longer than a beat ago: otherwise every row is made good.
UpIsShown ==
  \A w \in Worker : phase[w] = "up" /\ trouble[w] > 1 => ShownActive(w) /\ Posture(TRUE) = "RUNNING"

\* The worker report errs in neither direction: what it shows as active was up, and what is up
\* it shows.
ReportAccurate == ReportTruthful /\ UpIsShown

\* A worker told to stop is gone in the end, unless one of its closes is refused: then it
\* hangs, and only a kill ends it.
ShutdownEnds ==
  \A w \in Worker : phase[w] = "stopping" ~> phase[w] \in {"exited", "dead", "stuck"}

\* What a worker sent, written or under way.
Sent(w) == flights[w] \cup ({heartbeat[w]} \ {None})

\* No RUNNING heartbeat is younger than the worker's silence.
Vouching ==
  \A w \in Worker :
    /\ Running(w) => quiet[w] = 0
    /\ \A h \in Sent(w) : h.status = "RUNNING" => quiet[w] <= h.age

\* A STOPPED heartbeat exists only after the drain.
StopsDrained ==
  \A w \in Worker : \A h \in Sent(w) :
    h.status = "STOPPED" => ~busy[w] /\ phase[w] \in {"marking", "exited", "dead"}

\* Until it is told to stop a worker sends RUNNING alone, and unless one was lost or is late
\* each beat finds the one before written.
MadeGood ==
  \A w \in Worker :
    /\ Running(w) => \A f \in flights[w] : f.status = "RUNNING"
    /\ phase[w] = "announcing" => flights[w] # {}
    /\ trouble[w] > 0 => \A f \in flights[w] : f.status = "RUNNING" => f.age = 0
    /\ phase[w] = "up" /\ trouble[w] > 0 /\ flights[w] = {} => heartbeat[w] = Beat("RUNNING")
    /\ phase[w] = "up" /\ trouble[w] > 1 =>
         heartbeat[w] \in [status : {"RUNNING"}, age : {0, 1}]

\* The inductive invariant behind the report.
IInv == TypeOK /\ Vouching /\ StopsDrained /\ MadeGood
=============================================================================
