----------------------------- MODULE JobService -----------------------------
(***************************************************************************)
(* What the background job service promises about one job, whatever the    *)
(* number of API processes, workers and concurrent callers: a job is       *)
(* submitted once, tried at most MaxRetries + 1 times, never two tries at  *)
(* once, ends in SUCCEEDED or FAILED for good, and is listed as a dead     *)
(* letter at most once and only after its last allowed try failed.         *)
(* JobQueue is the Redis protocol that is meant to keep this promise.      *)
(***************************************************************************)
EXTENDS Naturals

CONSTANTS
  Job,          \* job ids
  MaxRetries    \* settings.job_max_retries

VARIABLES
  phase,        \* phase[j]: the status a poller of GET /jobs/{id} sees
  tries,        \* tries[j]: how many times the handler was started
  dead          \* the ids GET /jobs/dead-letter lists

vars == <<phase, tries, dead>>

Init ==
  /\ phase = [j \in Job |-> "NONE"]
  /\ tries = [j \in Job |-> 0]
  /\ dead = {}

Submit(j) ==
  /\ phase[j] = "NONE"
  /\ phase' = [phase EXCEPT ![j] = "PENDING"]
  /\ UNCHANGED <<tries, dead>>

Start(j) ==
  /\ phase[j] = "PENDING"
  /\ tries[j] <= MaxRetries
  /\ phase' = [phase EXCEPT ![j] = "RUNNING"]
  /\ tries' = [tries EXCEPT ![j] = @ + 1]
  /\ UNCHANGED dead

Succeed(j) ==
  /\ phase[j] = "RUNNING"
  /\ phase' = [phase EXCEPT ![j] = "SUCCEEDED"]
  /\ UNCHANGED <<tries, dead>>

Retry(j) ==
  /\ phase[j] = "RUNNING"
  /\ tries[j] <= MaxRetries
  /\ phase' = [phase EXCEPT ![j] = "PENDING"]
  /\ UNCHANGED <<tries, dead>>

GiveUp(j) ==
  /\ phase[j] = "RUNNING"
  /\ tries[j] = MaxRetries + 1
  /\ phase' = [phase EXCEPT ![j] = "FAILED"]
  /\ UNCHANGED <<tries, dead>>

Report(j) ==
  /\ phase[j] = "FAILED"
  /\ j \notin dead
  /\ dead' = dead \union {j}
  /\ UNCHANGED <<phase, tries>>

Next ==
  \E j \in Job :
    Submit(j) \/ Start(j) \/ Succeed(j) \/ Retry(j) \/ GiveUp(j) \/ Report(j)

Spec == Init /\ [][Next]_vars

=============================================================================
