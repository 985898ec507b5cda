------------------------------ MODULE BullQueue ------------------------------
(***************************************************************************)
(* One BullMQ job, as far as the queues of this system use it: what adding,*)
(* taking, completing, failing, stalling and ageing out make of it. The    *)
(* library is not part of the repository; the options it is given are      *)
(* (attempts, jobId, removeOnComplete and removeOnFail, and the default    *)
(* maxStalledCount).                                                       *)
(***************************************************************************)
EXTENDS Naturals

CONSTANTS
  None,        \* null, and the lock of a job nobody holds
  MaxAttempts, \* attempts of a job
  MaxStalls    \* maxStalledCount

ASSUME QueueAssumption ==
  /\ MaxAttempts \in Nat \ {0}
  /\ MaxStalls \in Nat

JobState == {"absent", "waiting", "active", "delayed", "completed", "failed"}

NoJob == [state |-> "absent", attempts |-> 0, stalls |-> 0, lock |-> None]

\* queue.add with a jobId: ignored while a job of that id is kept, in whatever
\* state it is.
Added(j) == IF j.state = "absent" THEN [NoJob EXCEPT !.state = "waiting"] ELSE j

\* A slot takes the job and locks it.
Taken(j, slot) == [j EXCEPT !.state = "active", !.lock = slot]

\* The handler returned; or it threw, and the job is retried after a backoff
\* until its attempts are spent.
Completed(j) == [j EXCEPT !.state = "completed", !.lock = None]
Thrown(j)    == [j EXCEPT !.attempts = @ + 1,
                          !.state = IF j.attempts + 1 < MaxAttempts
                                    THEN "delayed" ELSE "failed",
                          !.lock = None]

\* The lock is not renewed in time; the stalled check then redelivers the job,
\* or gives it up.
Unlocked(j) == [j EXCEPT !.lock = None]
Stalled(j)  == [j EXCEPT !.stalls = @ + 1,
                         !.state = IF j.stalls < MaxStalls THEN "waiting" ELSE "failed"]

\* The backoff is over.
Due(j) == [j EXCEPT !.state = "waiting"]
=============================================================================
