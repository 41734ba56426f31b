------------------------------ MODULE JobQueue ------------------------------
(***************************************************************************)
(* app/services/job_queue.py: a Redis LIST as the queue, one JSON record    *)
(* per job, an idempotency key per deduplicated request, a dead-letter      *)
(* LIST.  Each action is one Redis command (or the handler call) together   *)
(* with the local computation up to the next one, so every interleaving of  *)
(* request threads (Client) and background workers (Worker, one per API     *)
(* process) that Redis admits is a behaviour.                               *)
(***************************************************************************)
EXTENDS Naturals, Sequences, Functions

CONSTANTS
  Job,          \* uuid4 job ids; a finite set bounds the number of enqueues
  Client,       \* request threads that call enqueue
  Worker,       \* run_forever tasks
  Key,          \* idempotency keys
  NoKey,        \* idempotency_key=None
  NoJob,        \* no job at hand / Redis GET of a missing key
  NoRecord,     \* Redis GET of a missing jobs:status:<id>
  MaxRetries    \* settings.job_max_retries

ASSUME MaxRetriesAssumption == MaxRetries \in Nat
ASSUME NoneAssumption ==
  /\ NoKey \notin Key
  /\ NoJob \notin Job

Status == {"PENDING", "RUNNING", "SUCCEEDED", "FAILED"}
Active == {"PENDING", "RUNNING"}

(* A job's JSON record, without what no decision reads: payload, result,     *)
(* error and timestamps.                                                     *)
Record == [status : Status, attempts : 0..(MaxRetries + 1), key : Key \union {NoKey}]

ASSUME NoRecordAssumption == NoRecord \notin Record

VARIABLES
  queue,        \* jobs:queue, oldest first: LPUSH appends, BRPOP takes the head
  record,       \* jobs:status:<id>
  idem,         \* jobs:idempotency:<key>
  deadLetter,   \* jobs:dead_letter, oldest first
  cpc,          \* where each client is in enqueue
  asked,        \* the idempotency key it called enqueue with
  cjob,         \* its existing (at "check") or new job id
  wpc,          \* where each worker is in process_next / _run
  held,         \* the job id it popped
  copy          \* its local `record` dict

redisVars  == <<queue, record, idem, deadLetter>>
clientVars == <<cpc, asked, cjob>>
workerVars == <<wpc, held, copy>>
vars == <<queue, record, idem, deadLetter, cpc, asked, cjob, wpc, held, copy>>

ClientPC == {"idle", "check", "write", "setkey", "push"}
WorkerPC == {"down", "poll", "read", "mark", "run", "write", "requeue", "bury"}

Init ==
  /\ queue = <<>>
  /\ record = [j \in Job |-> NoRecord]
  /\ idem = [k \in Key |-> NoJob]
  /\ deadLetter = <<>>
  /\ cpc = [c \in Client |-> "idle"]
  /\ asked = [c \in Client |-> NoKey]
  /\ cjob = [c \in Client |-> NoJob]
  /\ wpc = [w \in Worker |-> "poll"]
  /\ held = [w \in Worker |-> NoJob]
  /\ copy = [w \in Worker |-> NoRecord]

-----------------------------------------------------------------------------
(* enqueue, one Redis command at a time.                                     *)

(* The call, with GET jobs:idempotency:<key> when a key is given.            *)
Enqueue(c, k) ==
  /\ cpc[c] = "idle"
  /\ asked' = [asked EXCEPT ![c] = k]
  /\ IF k \in Key /\ idem[k] # NoJob
       THEN /\ cjob' = [cjob EXCEPT ![c] = idem[k]]
            /\ cpc' = [cpc EXCEPT ![c] = "check"]
       ELSE /\ cpc' = [cpc EXCEPT ![c] = "write"]
            /\ UNCHANGED cjob
  /\ UNCHANGED <<redisVars, workerVars>>

(* Mutant: a RUNNING job no longer counts.                                   *)
IsActivePending(j) == record[j] # NoRecord /\ record[j].status = "PENDING"

(* The test enqueue makes on the job an idempotency key leads to.            *)
IsActive(j) == record[j] # NoRecord /\ record[j].status \in Active

(* enqueue returns or raises: its locals are gone.                           *)
Leave(c) ==
  /\ cpc' = [cpc EXCEPT ![c] = "idle"]
  /\ cjob' = [cjob EXCEPT ![c] = NoJob]
  /\ asked' = [asked EXCEPT ![c] = NoKey]

(* GET the existing job's record: return its id, or go on to make a new one. *)
CheckExisting(c) ==
  /\ cpc[c] = "check"
  /\ IF IsActive(cjob[c])
       THEN Leave(c)
       ELSE /\ cpc' = [cpc EXCEPT ![c] = "write"]
            /\ cjob' = [cjob EXCEPT ![c] = NoJob]
            /\ UNCHANGED asked
  /\ UNCHANGED <<redisVars, workerVars>>

(* Mutant: the key is set before the record is written.                      *)
WriteRecordKeyFirst(c) ==
  /\ cpc[c] = "write"
  /\ \E j \in Job :
       /\ record[j] = NoRecord
       /\ cjob' = [cjob EXCEPT ![c] = j]
       /\ idem' = IF asked[c] = NoKey THEN idem ELSE [idem EXCEPT ![asked[c]] = j]
  /\ cpc' = [cpc EXCEPT ![c] = "push"]
  /\ UNCHANGED <<queue, record, deadLetter, asked, workerVars>>

(* SET the new job's record under a fresh uuid.                              *)
WriteRecord(c) ==
  /\ cpc[c] = "write"
  /\ \E j \in Job :
       /\ record[j] = NoRecord
       /\ record' = [record EXCEPT ![j] =
                       [status |-> "PENDING", attempts |-> 0, key |-> asked[c]]]
       /\ cjob' = [cjob EXCEPT ![c] = j]
  /\ cpc' = [cpc EXCEPT ![c] = IF asked[c] = NoKey THEN "push" ELSE "setkey"]
  /\ UNCHANGED <<queue, idem, deadLetter, asked, workerVars>>

SetKey(c) ==
  /\ cpc[c] = "setkey"
  /\ idem' = [idem EXCEPT ![asked[c]] = cjob[c]]
  /\ cpc' = [cpc EXCEPT ![c] = "push"]
  /\ UNCHANGED <<queue, record, deadLetter, asked, cjob, workerVars>>

(* LPUSH jobs:queue and return the id.                                       *)
Push(c) ==
  /\ cpc[c] = "push"
  /\ queue' = Append(queue, cjob[c])
  /\ Leave(c)
  /\ UNCHANGED <<record, idem, deadLetter, workerVars>>

-----------------------------------------------------------------------------
(* process_next and _run.                                                    *)

(* Mutant: the worker reads the oldest id without taking it off the list.    *)
PopPeeks(w) ==
  /\ wpc[w] = "poll"
  /\ queue # <<>>
  /\ held' = [held EXCEPT ![w] = Head(queue)]
  /\ wpc' = [wpc EXCEPT ![w] = "read"]
  /\ UNCHANGED <<redisVars, copy, clientVars>>

(* BRPOP; its timeout leaves everything as it is.                            *)
Pop(w) ==
  /\ wpc[w] = "poll"
  /\ queue # <<>>
  /\ held' = [held EXCEPT ![w] = Head(queue)]
  /\ queue' = Tail(queue)
  /\ wpc' = [wpc EXCEPT ![w] = "read"]
  /\ UNCHANGED <<record, idem, deadLetter, copy, clientVars>>

(* Back to run_forever: _run's locals are gone.                              *)
Release(w) ==
  /\ wpc' = [wpc EXCEPT ![w] = "poll"]
  /\ held' = [held EXCEPT ![w] = NoJob]
  /\ copy' = [copy EXCEPT ![w] = NoRecord]

(* The local record of an attempt that starts, and of one with an outcome.   *)
Attempt(rec) == [status |-> "RUNNING", attempts |-> rec.attempts + 1, key |-> rec.key]
Outcome(rec, status) == [status |-> status, attempts |-> rec.attempts, key |-> rec.key]

(* GET the record into the local dict and count the attempt there.           *)
ReadRecord(w) ==
  /\ wpc[w] = "read"
  /\ IF record[held[w]] = NoRecord
       THEN Release(w)
       ELSE /\ copy' = [copy EXCEPT ![w] = Attempt(record[held[w]])]
            /\ wpc' = [wpc EXCEPT ![w] = "mark"]
            /\ UNCHANGED held
  /\ UNCHANGED <<redisVars, clientVars>>

(* Mutant: RUNNING and the attempt stay in the local dict.                   *)
MarkRunningUnsaved(w) ==
  /\ wpc[w] = "mark"
  /\ wpc' = [wpc EXCEPT ![w] = "run"]
  /\ UNCHANGED <<redisVars, held, copy, clientVars>>

MarkRunning(w) ==
  /\ wpc[w] = "mark"
  /\ record' = [record EXCEPT ![held[w]] = copy[w]]
  /\ wpc' = [wpc EXCEPT ![w] = "run"]
  /\ UNCHANGED <<queue, idem, deadLetter, held, copy, clientVars>>

HandlerReturns(w) ==
  /\ wpc[w] = "run"
  /\ copy' = [copy EXCEPT ![w] = Outcome(copy[w], "SUCCEEDED")]
  /\ wpc' = [wpc EXCEPT ![w] = "write"]
  /\ UNCHANGED <<redisVars, held, clientVars>>

(* Mutant: one retry too few.                                                *)
AfterFailureEarly(rec) == IF rec.attempts < MaxRetries THEN "PENDING" ELSE "FAILED"

(* The status a failed attempt leaves behind.                                *)
AfterFailure(rec) == IF rec.attempts <= MaxRetries THEN "PENDING" ELSE "FAILED"

(* The handler raised, or none is registered for the job's type.             *)
HandlerRaises(w) ==
  /\ wpc[w] = "run"
  /\ copy' = [copy EXCEPT ![w] = Outcome(copy[w], AfterFailure(copy[w]))]
  /\ wpc' = [wpc EXCEPT ![w] = "write"]
  /\ UNCHANGED <<redisVars, held, clientVars>>

(* Mutant: a job that failed for good is finished with its record.           *)
WriteOutcomeUnreported(w) ==
  /\ wpc[w] = "write"
  /\ record' = [record EXCEPT ![held[w]] = copy[w]]
  /\ IF copy[w].status # "PENDING"
       THEN Release(w)
       ELSE /\ wpc' = [wpc EXCEPT ![w] = "requeue"]
            /\ UNCHANGED <<held, copy>>
  /\ UNCHANGED <<queue, idem, deadLetter, clientVars>>

(* SET the outcome; a success is finished, a failure has one command to go.  *)
WriteOutcome(w) ==
  /\ wpc[w] = "write"
  /\ record' = [record EXCEPT ![held[w]] = copy[w]]
  /\ IF copy[w].status = "SUCCEEDED"
       THEN Release(w)
       ELSE /\ wpc' = [wpc EXCEPT ![w] =
                         IF copy[w].status = "PENDING" THEN "requeue" ELSE "bury"]
            /\ UNCHANGED <<held, copy>>
  /\ UNCHANGED <<queue, idem, deadLetter, clientVars>>

(* Mutant: the retry is recorded but not pushed.                             *)
RequeueForgets(w) ==
  /\ wpc[w] = "requeue"
  /\ Release(w)
  /\ UNCHANGED <<redisVars, clientVars>>

Requeue(w) ==
  /\ wpc[w] = "requeue"
  /\ queue' = Append(queue, held[w])
  /\ Release(w)
  /\ UNCHANGED <<record, idem, deadLetter, clientVars>>

Bury(w) ==
  /\ wpc[w] = "bury"
  /\ deadLetter' = Append(deadLetter, held[w])
  /\ Release(w)
  /\ UNCHANGED <<queue, record, idem, clientVars>>

(* Mutant: shutdown cancels the worker in the middle of a job.               *)
StopAnywhere(w) ==
  /\ wpc[w] # "down"
  /\ wpc' = [wpc EXCEPT ![w] = "down"]
  /\ held' = [held EXCEPT ![w] = NoJob]
  /\ copy' = [copy EXCEPT ![w] = NoRecord]
  /\ UNCHANGED <<redisVars, clientVars>>

(* A graceful shutdown: stop_event is only looked at between two jobs.       *)
Stop(w) ==
  /\ wpc[w] = "poll"
  /\ wpc' = [wpc EXCEPT ![w] = "down"]
  /\ UNCHANGED <<redisVars, held, copy, clientVars>>

(* lifespan starts a worker with every API process.                          *)
Restart(w) ==
  /\ wpc[w] = "down"
  /\ wpc' = [wpc EXCEPT ![w] = "poll"]
  /\ UNCHANGED <<redisVars, held, copy, clientVars>>

-----------------------------------------------------------------------------
(* Failures.                                                                 *)

(* The request dies between two commands: the process is killed, or Redis    *)
(* raised and enqueue has no handler for it.                                 *)
ClientFails(c) ==
  /\ cpc[c] # "idle"
  /\ Leave(c)
  /\ UNCHANGED <<redisVars, workerVars>>

(* The worker dies between two commands: the process is killed, or Redis     *)
(* raised, which ends run_forever.                                           *)
WorkerFails(w) ==
  /\ wpc[w] # "down"
  /\ wpc' = [wpc EXCEPT ![w] = "down"]
  /\ held' = [held EXCEPT ![w] = NoJob]
  /\ copy' = [copy EXCEPT ![w] = NoRecord]
  /\ UNCHANGED <<redisVars, clientVars>>

(* The key's 24h TTL runs out.                                               *)
KeyExpires(k) ==
  /\ idem[k] # NoJob
  /\ idem' = [idem EXCEPT ![k] = NoJob]
  /\ UNCHANGED <<queue, record, deadLetter, clientVars, workerVars>>

-----------------------------------------------------------------------------
ClientStep(c) ==
  \/ CheckExisting(c)
  \/ WriteRecord(c)
  \/ SetKey(c)
  \/ Push(c)

WorkerStep(w) ==
  \/ Pop(w)
  \/ ReadRecord(w)
  \/ MarkRunning(w)
  \/ HandlerReturns(w)
  \/ HandlerRaises(w)
  \/ WriteOutcome(w)
  \/ Requeue(w)
  \/ Bury(w)

Next ==
  \/ \E c \in Client : ClientStep(c) \/ \E k \in Key \union {NoKey} : Enqueue(c, k)
  \/ \E w \in Worker : WorkerStep(w) \/ Stop(w) \/ Restart(w)

(* Next without failures is the service on a good day, graceful redeploys    *)
(* included; NextF adds crashes, Redis errors and key expiry.                *)
NextF ==
  \/ Next
  \/ \E c \in Client : ClientFails(c)
  \/ \E w \in Worker : WorkerFails(w)
  \/ \E k \in Key : KeyExpires(k)

Spec == Init /\ [][Next]_vars
SpecF == Init /\ [][NextF]_vars

(* A request thread and a worker task that can go on do go on; a stopped     *)
(* process is started again.  Enqueue and Stop are the callers' and the      *)
(* operator's choice.                                                        *)
Fairness ==
  /\ \A c \in Client : WF_vars(ClientStep(c))
  /\ \A w \in Worker : WF_vars(WorkerStep(w)) /\ WF_vars(Restart(w))

FairSpec == Spec /\ Fairness

-----------------------------------------------------------------------------
TypeOK ==
  /\ queue \in Seq(Job)
  /\ record \in [Job -> Record \union {NoRecord}]
  /\ idem \in [Key -> Job \union {NoJob}]
  /\ deadLetter \in Seq(Job)
  /\ cpc \in [Client -> ClientPC]
  /\ asked \in [Client -> Key \union {NoKey}]
  /\ cjob \in [Client -> Job \union {NoJob}]
  /\ wpc \in [Worker -> WorkerPC]
  /\ held \in [Worker -> Job \union {NoJob}]
  /\ copy \in [Worker -> Record \union {NoRecord}]

-----------------------------------------------------------------------------
Unfinished(j) == record[j] # NoRecord /\ record[j].status \in Active

(* Who is responsible for a job that is not finished.                        *)
Carries(c, j) == cpc[c] \in {"setkey", "push"} /\ cjob[c] = j
Holds(w, j) == wpc[w] \notin {"down", "poll"} /\ held[w] = j
Queued(j) == j \in Range(queue)
Buried(j) == j \in Range(deadLetter)

(* Competing consumers do not duplicate work (README.md, Phase 15, item 4):  *)
(* a job is in the queue once, or with one caller on its way there, or with  *)
(* one worker, and never in two of these, whatever crashes in between.       *)
OnePlacePerJob ==
  /\ IsInjective(queue)
  /\ \A j \in Job :
       /\ \A w1, w2 \in Worker : Holds(w1, j) /\ Holds(w2, j) => w1 = w2
       /\ \A c1, c2 \in Client : Carries(c1, j) /\ Carries(c2, j) => c1 = c2
       /\ Queued(j) => \A w \in Worker : ~Holds(w, j)
       /\ \A c \in Client : Carries(c, j) =>
            /\ ~Queued(j)
            /\ \A w \in Worker : ~Holds(w, j)

(* Without a crash no job is forgotten: one that a poller sees as PENDING or *)
(* RUNNING is in the queue or in somebody's hands.                           *)
NoJobStranded ==
  \A j \in Job : Unfinished(j) =>
    \/ Queued(j)
    \/ \E c \in Client : Carries(c, j)
    \/ \E w \in Worker : Holds(w, j)

(* GET /jobs/dead-letter lists nobody twice, and only jobs that failed with  *)
(* every retry used up: a listed job will never run again.                   *)
DeadLetterSound ==
  /\ IsInjective(deadLetter)
  /\ \A j \in Job : Buried(j) =>
       /\ record[j] # NoRecord
       /\ record[j].status = "FAILED"
       /\ record[j].attempts = MaxRetries + 1
       /\ ~Queued(j)

(* The module docstring: "jobs:dead_letter holds every job_id that exhausted *)
(* its retries", once the worker that gave up on it has moved on.            *)
DeadLetterComplete ==
  \A j \in Job :
    /\ record[j] # NoRecord
    /\ record[j].status = "FAILED"
    => Buried(j) \/ \E w \in Worker : Holds(w, j)

(* An idempotency key never leads a caller to someone else's job, nor to an  *)
(* id without a record (GET /jobs/{id} would answer 404).                    *)
KeyLeadsToItsJob ==
  \A k \in Key : idem[k] # NoJob =>
    /\ record[idem[k]] # NoRecord
    /\ record[idem[k]].key = k

(* The module docstring's idempotency: while a job with a key is PENDING or  *)
(* RUNNING there is no second one with that key.                             *)
OneActiveJobPerKey ==
  \A j1, j2 \in Job :
    /\ Unfinished(j1)
    /\ Unfinished(j2)
    /\ record[j1].key = record[j2].key
    /\ record[j1].key # NoKey
    => j1 = j2

(* The queue keeps the promise of JobService, read off each job's record.    *)
PhaseOf(j) == IF record[j] = NoRecord THEN "NONE" ELSE record[j].status
TriesOf(j) == IF record[j] = NoRecord THEN 0 ELSE record[j].attempts

Promise == INSTANCE JobService WITH
  phase <- [j \in Job |-> PhaseOf(j)],
  tries <- [j \in Job |-> TriesOf(j)],
  dead  <- {j \in Job : Buried(j)}

ImplementsJobService == Promise!Spec

(* Every job whose id was written is finished in the end, provided workers   *)
(* are not stopped for ever after: redeploys are finitely many.              *)
EveryJobFinishes ==
  (<>[][\A w \in Worker : ~Stop(w)]_vars)
    => \A j \in Job : Unfinished(j) ~> ~Unfinished(j)
=============================================================================
