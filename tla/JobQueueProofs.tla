-------------------------- MODULE JobQueueProofs ----------------------------
(***************************************************************************)
(* Proofs about JobQueue for any sets of jobs, callers, workers and keys,   *)
(* any retry budget, and with every failure of NextF.                       *)
(***************************************************************************)
EXTENDS JobQueue, TLAPS

-----------------------------------------------------------------------------
(* The inductive invariant: what each list and each program point says of    *)
(* the record of the job it stands for.                                      *)

(* The record of a job that may be tried once more.                          *)
IsWaiting(j) ==
  /\ record[j] # NoRecord
  /\ record[j].status = "PENDING"
  /\ record[j].attempts <= MaxRetries

IsExhausted(j) ==
  /\ record[j] # NoRecord
  /\ record[j].status = "FAILED"
  /\ record[j].attempts = MaxRetries + 1

QueueInv == \A j \in Job : Queued(j) => IsWaiting(j)

ClientOK(c) ==
  /\ cpc[c] = "check" => cjob[c] \in Job
  /\ cpc[c] \in {"setkey", "push"} => cjob[c] \in Job /\ IsWaiting(cjob[c])
  /\ cpc[c] = "setkey" => asked[c] \in Key /\ record[cjob[c]].key = asked[c]

ClientInv == \A c \in Client : ClientOK(c)

Busy(w) == wpc[w] \notin {"down", "poll"}

WorkerOK(w) ==
  /\ Busy(w) => held[w] \in Job
  /\ wpc[w] \in {"read", "mark", "requeue"} => IsWaiting(held[w])
  /\ wpc[w] = "mark" => copy[w] = Attempt(record[held[w]])
  /\ wpc[w] \in {"run", "requeue", "bury"} =>
       copy[w] # NoRecord /\ copy[w] = record[held[w]]
  /\ wpc[w] = "run" => copy[w].status = "RUNNING"
  /\ wpc[w] = "write" =>
       /\ copy[w] # NoRecord
       /\ record[held[w]] = Outcome(copy[w], "RUNNING")
       /\ copy[w].status \in {"SUCCEEDED", AfterFailure(copy[w])}
  /\ wpc[w] = "bury" => IsExhausted(held[w]) /\ ~Buried(held[w])

WorkerInv == \A w \in Worker : WorkerOK(w)

DeadInv ==
  /\ IsInjective(deadLetter)
  /\ \A j \in Job : Buried(j) => IsExhausted(j)

IInv ==
  /\ TypeOK
  /\ OnePlacePerJob
  /\ QueueInv
  /\ ClientInv
  /\ WorkerInv
  /\ DeadInv
  /\ KeyLeadsToItsJob

-----------------------------------------------------------------------------
(* What BRPOP leaves of a list without duplicates.                           *)
LEMMA PopFacts ==
  ASSUME NEW S, NEW s \in Seq(S), s # <<>>, IsInjective(s)
  PROVE  /\ Tail(s) \in Seq(S)
         /\ Head(s) \in S
         /\ Head(s) \in Range(s)
         /\ IsInjective(Tail(s))
         /\ Range(Tail(s)) = Range(s) \ {Head(s)}
<1>1. Tail(s) \in Seq(S) /\ Head(s) \in S /\ Head(s) \in Range(s)
  BY DEF Range
<1>2. Len(Tail(s)) = Len(s) - 1 /\ \A i \in 1..Len(Tail(s)) : Tail(s)[i] = s[i + 1]
  OBVIOUS
<1>3. DOMAIN s = 1..Len(s) /\ DOMAIN Tail(s) = 1..Len(Tail(s))
  BY <1>1
<1>4. IsInjective(Tail(s))
  BY <1>1, <1>2, <1>3 DEF IsInjective
<1>5. ASSUME NEW x \in Range(Tail(s))
      PROVE  x \in Range(s) \ {Head(s)}
  BY <1>2, <1>3, <1>5 DEF Range, IsInjective
<1>6. ASSUME NEW x \in Range(s), x # Head(s)
      PROVE  x \in Range(Tail(s))
  <2>1. PICK i \in 1..Len(s) : x = s[i]
    BY <1>3 DEF Range
  <2>2. i # 1 /\ i - 1 \in 1..Len(Tail(s)) /\ Tail(s)[i - 1] = x
    BY <1>2, <1>6, <2>1
  <2>3. QED
    BY <1>3, <2>2 DEF Range
<1>7. QED
  BY <1>1, <1>4, <1>5, <1>6

(* What LPUSH of an id that is not on the list makes of it.                  *)
LEMMA PushFacts ==
  ASSUME NEW S, NEW s \in Seq(S), NEW e \in S, e \notin Range(s), IsInjective(s)
  PROVE  /\ Append(s, e) \in Seq(S)
         /\ IsInjective(Append(s, e))
         /\ Range(Append(s, e)) = Range(s) \union {e}
<1>1. DOMAIN s = 1..Len(s) /\ DOMAIN Append(s, e) = 1..(Len(s) + 1)
  OBVIOUS
<1>2. \A i \in 1..(Len(s) + 1) :
        Append(s, e)[i] = IF i = Len(s) + 1 THEN e ELSE s[i]
  OBVIOUS
<1>3. IsInjective(Append(s, e))
  BY <1>1, <1>2 DEF IsInjective, Range
<1>4. Range(Append(s, e)) = Range(s) \union {e}
  <2>1. ASSUME NEW x \in Range(s) PROVE x \in Range(Append(s, e))
    BY <1>1, <1>2 DEF Range
  <2>2. e \in Range(Append(s, e))
    BY <1>1, <1>2 DEF Range
  <2>3. ASSUME NEW x \in Range(Append(s, e)) PROVE x \in Range(s) \union {e}
    BY <1>1, <1>2 DEF Range
  <2>4. QED
    BY <2>1, <2>2, <2>3
<1>5. QED
  BY <1>3, <1>4

-----------------------------------------------------------------------------
LEMMA InitIInv == Init => IInv
<1>1. \A j \in Job : ~(j \in Range(<<>>))
  BY DEF Range
<1>2. IsInjective(<<>>)
  BY DEF IsInjective
<1>3. QED
  BY <1>1, <1>2, NoneAssumption DEF Init, IInv, TypeOK, OnePlacePerJob, QueueInv,
     ClientInv, ClientOK, WorkerInv, WorkerOK, Busy, DeadInv, KeyLeadsToItsJob,
     Queued, Buried, Holds, Carries, ClientPC, WorkerPC


(* A busy worker has its job to itself.                                      *)
LEMMA Exclusive ==
  ASSUME IInv, NEW w \in Worker, Busy(w)
  PROVE  /\ held[w] \in Job
         /\ record[held[w]] \in Record
         /\ ~Queued(held[w])
         /\ \A c \in Client : cpc[c] \in {"setkey", "push"} => cjob[c] # held[w]
         /\ \A v \in Worker : Busy(v) /\ held[v] = held[w] => v = w
<1>1. held[w] \in Job /\ Holds(w, held[w])
  BY DEF IInv, WorkerInv, WorkerOK, Busy, Holds
<1>2. record[held[w]] # NoRecord
  <2>1. CASE wpc[w] \in {"read", "mark", "requeue"}
    BY <2>1 DEF IInv, WorkerInv, WorkerOK, IsWaiting
  <2>2. CASE wpc[w] \in {"run", "bury"}
    BY <2>2 DEF IInv, WorkerInv, WorkerOK
  <2>3. CASE wpc[w] = "write"
    <3>1. record[held[w]] = Outcome(copy[w], "RUNNING") /\ copy[w] \in Record
      BY <2>3 DEF IInv, WorkerInv, WorkerOK, TypeOK
    <3>2. Outcome(copy[w], "RUNNING") \in Record
      BY <3>1 DEF Outcome, Record, Status
    <3>3. QED
      BY <3>1, <3>2, NoRecordAssumption
  <2>4. QED
    BY <2>1, <2>2, <2>3 DEF IInv, TypeOK, WorkerPC, Busy
<1>3. record[held[w]] \in Record
  BY <1>1, <1>2 DEF IInv, TypeOK
<1>4. QED
  BY <1>1, <1>3 DEF IInv, OnePlacePerJob, Holds, Carries, Busy

(* An id nobody has written yet is nowhere.                                  *)
LEMMA FreshIsNowhere ==
  ASSUME IInv, NEW j \in Job, record[j] = NoRecord
  PROVE  /\ ~Queued(j)
         /\ ~Buried(j)
         /\ \A c \in Client : ~Carries(c, j)
         /\ \A w \in Worker : ~Holds(w, j)
<1>1. ~Queued(j) /\ ~Buried(j) /\ \A c \in Client : ~Carries(c, j)
  BY DEF IInv, QueueInv, DeadInv, ClientInv, ClientOK, Carries, IsWaiting, IsExhausted
<1>2. ASSUME NEW w \in Worker, Holds(w, j) PROVE FALSE
  BY <1>2, Exclusive, NoRecordAssumption DEF Holds, Busy
<1>3. QED
  BY <1>1, <1>2

(* A step that gives no job a new place keeps every job in one place.        *)
LEMMA OnePlaceFrame ==
  ASSUME OnePlacePerJob,
         queue' = queue,
         \A c \in Client, j \in Job : Carries(c, j)' => Carries(c, j),
         \A w \in Worker, j \in Job : Holds(w, j)' => Holds(w, j)
  PROVE  OnePlacePerJob'
BY DEF OnePlacePerJob, Queued

(* A caller that does not move keeps its part of the invariant while the     *)
(* record of its job stays as it is.                                         *)
LEMMA ClientFrame ==
  ASSUME NEW c \in Client, ClientOK(c),
         cpc'[c] = cpc[c], cjob'[c] = cjob[c], asked'[c] = asked[c],
         cpc[c] \in {"setkey", "push"} => record'[cjob[c]] = record[cjob[c]]
  PROVE  ClientOK(c)'
BY DEF ClientOK, IsWaiting

(* So does a worker.                                                         *)
LEMMA WorkerFrame ==
  ASSUME NEW w \in Worker, WorkerOK(w),
         wpc'[w] = wpc[w], held'[w] = held[w], copy'[w] = copy[w],
         Busy(w) => record'[held[w]] = record[held[w]],
         wpc[w] = "bury" /\ Buried(held[w])' => Buried(held[w])
  PROVE  WorkerOK(w)'
BY DEF WorkerOK, Busy, IsWaiting, IsExhausted

-----------------------------------------------------------------------------
(* One lemma per action: each keeps the invariant.                           *)

LEMMA EnqueueStep ==
  ASSUME IInv, NEW c \in Client, NEW k \in Key \union {NoKey}, Enqueue(c, k)
  PROVE  IInv'
<1> USE DEF Enqueue, redisVars, workerVars, IInv
<1>1. TypeOK'
  <2>1. CASE k \in Key /\ idem[k] # NoJob
    BY <2>1 DEF TypeOK, ClientPC
  <2>2. CASE ~(k \in Key /\ idem[k] # NoJob)
    BY <2>2 DEF TypeOK, ClientPC
  <2>3. QED
    BY <2>1, <2>2
<1>2. OnePlacePerJob'
  <2>1. \A d \in Client, j \in Job : Carries(d, j)' => Carries(d, j)
    BY DEF Carries, TypeOK
  <2>2. QED
    BY <2>1, OnePlaceFrame DEF Holds
<1>3. ClientInv'
  <2>1. ClientOK(c)'
    BY NoneAssumption DEF ClientOK, TypeOK
  <2>2. \A d \in Client \ {c} : ClientOK(d)'
    BY ClientFrame DEF ClientInv, TypeOK
  <2>3. QED
    BY <2>1, <2>2 DEF ClientInv
<1>4. WorkerInv'
  BY WorkerFrame DEF WorkerInv, Buried
<1>5. QueueInv' /\ DeadInv' /\ KeyLeadsToItsJob'
  BY DEF QueueInv, DeadInv, KeyLeadsToItsJob, Queued, Buried, IsWaiting, IsExhausted
<1>6. QED
  BY <1>1, <1>2, <1>3, <1>4, <1>5

(* The steps that end a call, or drop its existing id.                       *)
LEMMA CheckExistingStep ==
  ASSUME IInv, NEW c \in Client, CheckExisting(c)
  PROVE  IInv'
<1> USE DEF CheckExisting, Leave, redisVars, workerVars, IInv
<1>1. TypeOK'
  <2>1. CASE IsActive(cjob[c])
    BY <2>1 DEF TypeOK, ClientPC
  <2>2. CASE ~IsActive(cjob[c])
    BY <2>2 DEF TypeOK, ClientPC
  <2>3. QED
    BY <2>1, <2>2
<1>2. cpc'[c] \in {"idle", "write"}
  BY DEF TypeOK
<1>3. \A d \in Client \ {c} :
        cpc'[d] = cpc[d] /\ cjob'[d] = cjob[d] /\ asked'[d] = asked[d]
  BY DEF TypeOK
<1>4. OnePlacePerJob'
  <2>1. \A d \in Client, j \in Job : Carries(d, j)' => Carries(d, j)
    BY <1>2, <1>3 DEF Carries
  <2>2. QED
    BY <2>1, OnePlaceFrame DEF Holds
<1>5. ClientInv'
  <2>1. ClientOK(c)'
    BY <1>2 DEF ClientOK
  <2>2. \A d \in Client \ {c} : ClientOK(d)'
    BY <1>3, ClientFrame DEF ClientInv
  <2>3. QED
    BY <2>1, <2>2 DEF ClientInv
<1>6. WorkerInv'
  BY WorkerFrame DEF WorkerInv, Buried
<1>7. QueueInv' /\ DeadInv' /\ KeyLeadsToItsJob'
  BY DEF QueueInv, DeadInv, KeyLeadsToItsJob, Queued, Buried, IsWaiting, IsExhausted
<1>8. QED
  BY <1>1, <1>4, <1>5, <1>6, <1>7

LEMMA ClientFailsStep ==
  ASSUME IInv, NEW c \in Client, ClientFails(c)
  PROVE  IInv'
<1> USE DEF ClientFails, Leave, redisVars, workerVars, IInv
<1>1. TypeOK'
  BY DEF TypeOK, ClientPC
<1>2. cpc'[c] = "idle"
  BY DEF TypeOK
<1>3. \A d \in Client \ {c} :
        cpc'[d] = cpc[d] /\ cjob'[d] = cjob[d] /\ asked'[d] = asked[d]
  BY DEF TypeOK
<1>4. OnePlacePerJob'
  <2>1. \A d \in Client, j \in Job : Carries(d, j)' => Carries(d, j)
    BY <1>2, <1>3 DEF Carries
  <2>2. QED
    BY <2>1, OnePlaceFrame DEF Holds
<1>5. ClientInv'
  <2>1. ClientOK(c)'
    BY <1>2 DEF ClientOK
  <2>2. \A d \in Client \ {c} : ClientOK(d)'
    BY <1>3, ClientFrame DEF ClientInv
  <2>3. QED
    BY <2>1, <2>2 DEF ClientInv
<1>6. WorkerInv'
  BY WorkerFrame DEF WorkerInv, Buried
<1>7. QueueInv' /\ DeadInv' /\ KeyLeadsToItsJob'
  BY DEF QueueInv, DeadInv, KeyLeadsToItsJob, Queued, Buried, IsWaiting, IsExhausted
<1>8. QED
  BY <1>1, <1>4, <1>5, <1>6, <1>7

LEMMA WriteRecordStep ==
  ASSUME IInv, NEW c \in Client, WriteRecord(c)
  PROVE  IInv'
<1> USE DEF WriteRecord, workerVars, IInv
<1>1. PICK n \in Job :
        /\ record[n] = NoRecord
        /\ record' = [record EXCEPT ![n] =
                        [status |-> "PENDING", attempts |-> 0, key |-> asked[c]]]
        /\ cjob' = [cjob EXCEPT ![c] = n]
  OBVIOUS
<1>2. record'[n] \in Record /\ IsWaiting(n)' /\ record'[n].key = asked[c]
  BY <1>1, MaxRetriesAssumption, NoRecordAssumption DEF TypeOK, Record, Status, IsWaiting
<1>3. \A j \in Job \ {n} : record'[j] = record[j]
  BY <1>1 DEF TypeOK
<1>4. cpc'[c] \in {"setkey", "push"} /\ cjob'[c] = n /\ asked' = asked
  BY <1>1 DEF TypeOK
<1>5. \A d \in Client \ {c} : cpc'[d] = cpc[d] /\ cjob'[d] = cjob[d]
  BY <1>1 DEF TypeOK
<1>6. TypeOK'
  BY <1>1, <1>2 DEF TypeOK, ClientPC
<1>7. /\ ~Queued(n) /\ ~Buried(n)
      /\ \A d \in Client : ~Carries(d, n)
      /\ \A w \in Worker : ~Holds(w, n)
  BY <1>1, FreshIsNowhere
<1>8. OnePlacePerJob'
  <2>1. \A d \in Client, j \in Job : Carries(d, j)' =>
          Carries(d, j) \/ (d = c /\ j = n)
    BY <1>4, <1>5 DEF Carries
  <2>2. \A w \in Worker, j \in Job : Holds(w, j)' <=> Holds(w, j)
    BY DEF Holds
  <2>3. \A j \in Job : Queued(j)' <=> Queued(j)
    BY DEF Queued
  <2>4. QED
    BY <1>7, <2>1, <2>2, <2>3 DEF OnePlacePerJob
<1>9. ClientInv'
  <2>1. ClientOK(c)'
    BY <1>2, <1>4 DEF ClientOK, TypeOK
  <2>2. ASSUME NEW d \in Client \ {c} PROVE ClientOK(d)'
    <3>1. cpc[d] \in {"setkey", "push"} => cjob[d] \in Job \ {n}
      BY <1>7 DEF ClientInv, ClientOK, Carries
    <3>2. QED
      BY <1>3, <1>5, <3>1, ClientFrame DEF ClientInv
  <2>3. QED
    BY <2>1, <2>2 DEF ClientInv
<1>10. WorkerInv'
  <2>1. ASSUME NEW w \in Worker PROVE WorkerOK(w)'
    <3>1. Busy(w) => held[w] \in Job \ {n}
      BY <1>7 DEF WorkerInv, WorkerOK, Busy, Holds
    <3>2. QED
      BY <1>3, <3>1, WorkerFrame DEF WorkerInv, Buried
  <2>2. QED
    BY <2>1 DEF WorkerInv
<1>11. QueueInv' /\ DeadInv'
  BY <1>3, <1>7 DEF QueueInv, DeadInv, Queued, Buried, IsWaiting, IsExhausted
<1>12. KeyLeadsToItsJob'
  BY <1>1, <1>3 DEF KeyLeadsToItsJob, TypeOK
<1>13. QED
  BY <1>6, <1>8, <1>9, <1>10, <1>11, <1>12

LEMMA SetKeyStep ==
  ASSUME IInv, NEW c \in Client, SetKey(c)
  PROVE  IInv'
<1> USE DEF SetKey, workerVars, IInv
<1>1. ClientOK(c) /\ asked[c] \in Key /\ cjob[c] \in Job
  BY DEF ClientInv, ClientOK
<1>2. TypeOK'
  BY <1>1 DEF TypeOK, ClientPC
<1>3. OnePlacePerJob'
  <2>1. \A d \in Client, j \in Job : Carries(d, j)' => Carries(d, j)
    BY DEF Carries, TypeOK
  <2>2. QED
    BY <2>1, OnePlaceFrame DEF Holds
<1>4. ClientInv'
  <2>1. ClientOK(c)'
    BY <1>1 DEF ClientOK, IsWaiting, TypeOK
  <2>2. \A d \in Client \ {c} : ClientOK(d)'
    BY ClientFrame DEF ClientInv, TypeOK
  <2>3. QED
    BY <2>1, <2>2 DEF ClientInv
<1>5. WorkerInv'
  BY WorkerFrame DEF WorkerInv, Buried
<1>6. QueueInv' /\ DeadInv'
  BY DEF QueueInv, DeadInv, Queued, Buried, IsWaiting, IsExhausted
<1>7. KeyLeadsToItsJob'
  BY <1>1 DEF KeyLeadsToItsJob, ClientOK, IsWaiting, TypeOK
<1>8. QED
  BY <1>2, <1>3, <1>4, <1>5, <1>6, <1>7

LEMMA PushStep ==
  ASSUME IInv, NEW c \in Client, Push(c)
  PROVE  IInv'
<1> USE DEF Push, Leave, workerVars, IInv
<1> DEFINE j0 == cjob[c]
<1>1. j0 \in Job /\ IsWaiting(j0) /\ Carries(c, j0)
  BY DEF ClientInv, ClientOK, Carries
<1>2. ~Queued(j0) /\ IsInjective(queue)
  BY <1>1 DEF OnePlacePerJob
<1>3. /\ queue' \in Seq(Job)
      /\ IsInjective(queue')
      /\ \A j \in Job : Queued(j)' <=> Queued(j) \/ j = j0
  BY <1>1, <1>2, PushFacts DEF Queued, TypeOK
<1>4. cpc'[c] = "idle"
  BY DEF TypeOK
<1>5. \A d \in Client \ {c} :
        cpc'[d] = cpc[d] /\ cjob'[d] = cjob[d] /\ asked'[d] = asked[d]
  BY DEF TypeOK
<1>6. TypeOK'
  BY <1>3 DEF TypeOK, ClientPC
<1>7. OnePlacePerJob'
  <2>1. \A d \in Client, j \in Job : Carries(d, j)' => Carries(d, j) /\ d # c
    BY <1>4, <1>5 DEF Carries
  <2>2. \A w \in Worker, j \in Job : Holds(w, j)' <=> Holds(w, j)
    BY DEF Holds
  <2>3. QED
    BY <1>1, <1>3, <2>1, <2>2 DEF OnePlacePerJob
<1>8. ClientInv'
  <2>1. ClientOK(c)'
    BY <1>4 DEF ClientOK
  <2>2. \A d \in Client \ {c} : ClientOK(d)'
    BY <1>5, ClientFrame DEF ClientInv
  <2>3. QED
    BY <2>1, <2>2 DEF ClientInv
<1>9. WorkerInv'
  BY WorkerFrame DEF WorkerInv, Buried
<1>10. QueueInv' /\ DeadInv' /\ KeyLeadsToItsJob'
  BY <1>1, <1>3 DEF QueueInv, DeadInv, KeyLeadsToItsJob, Buried, IsWaiting, IsExhausted
<1>11. QED
  BY <1>6, <1>7, <1>8, <1>9, <1>10

LEMMA PopStep ==
  ASSUME IInv, NEW w \in Worker, Pop(w)
  PROVE  IInv'
<1> USE DEF Pop, clientVars, IInv
<1> DEFINE j0 == Head(queue)
<1>1. queue \in Seq(Job) /\ queue # <<>> /\ IsInjective(queue)
  BY DEF TypeOK, OnePlacePerJob
<1>2. /\ queue' \in Seq(Job)
      /\ IsInjective(queue')
      /\ j0 \in Job
      /\ Queued(j0)
      /\ \A j \in Job : Queued(j)' <=> Queued(j) /\ j # j0
  BY <1>1, PopFacts DEF Queued
<1>3. wpc'[w] = "read" /\ held'[w] = j0
  BY DEF TypeOK
<1>4. \A v \in Worker \ {w} : wpc'[v] = wpc[v] /\ held'[v] = held[v]
  BY DEF TypeOK
<1>5. TypeOK'
  BY <1>2 DEF TypeOK, WorkerPC
<1>6. OnePlacePerJob'
  <2>1. \A v \in Worker, j \in Job : Holds(v, j)' => Holds(v, j) \/ (v = w /\ j = j0)
    BY <1>3, <1>4 DEF Holds
  <2>2. \A c \in Client, j \in Job : Carries(c, j)' <=> Carries(c, j)
    BY DEF Carries
  <2>3. QED
    BY <1>2, <2>1, <2>2 DEF OnePlacePerJob
<1>7. WorkerInv'
  <2>1. WorkerOK(w)'
    <3>1. IsWaiting(held[w])'
      BY <1>2, <1>3 DEF QueueInv, IsWaiting
    <3>2. QED
      BY <1>2, <1>3, <3>1 DEF WorkerOK, Busy
  <2>2. \A v \in Worker \ {w} : WorkerOK(v)'
    BY <1>4, WorkerFrame DEF WorkerInv, Buried
  <2>3. QED
    BY <2>1, <2>2 DEF WorkerInv
<1>8. ClientInv'
  BY ClientFrame DEF ClientInv
<1>9. QueueInv' /\ DeadInv' /\ KeyLeadsToItsJob'
  BY <1>2 DEF QueueInv, DeadInv, KeyLeadsToItsJob, Buried, IsWaiting, IsExhausted
<1>10. QED
  BY <1>5, <1>6, <1>7, <1>8, <1>9

LEMMA ReadRecordStep ==
  ASSUME IInv, NEW w \in Worker, ReadRecord(w)
  PROVE  IInv'
<1> USE DEF ReadRecord, redisVars, clientVars, IInv
<1>1. held[w] \in Job /\ IsWaiting(held[w])
  BY DEF WorkerInv, WorkerOK, Busy
<1>2. Attempt(record[held[w]]) \in Record
  BY <1>1, MaxRetriesAssumption DEF TypeOK, IsWaiting, Attempt, Record, Status
<1>3. /\ copy' = [copy EXCEPT ![w] = Attempt(record[held[w]])]
      /\ wpc' = [wpc EXCEPT ![w] = "mark"]
      /\ held' = held
  BY <1>1 DEF IsWaiting
<1>4. TypeOK'
  BY <1>2, <1>3 DEF TypeOK, WorkerPC
<1>5. OnePlacePerJob'
  <2>1. \A v \in Worker, j \in Job : Holds(v, j)' => Holds(v, j)
    BY <1>3 DEF Holds, TypeOK
  <2>2. QED
    BY <2>1, OnePlaceFrame DEF Carries
<1>6. WorkerInv'
  <2>1. WorkerOK(w)'
    BY <1>1, <1>3 DEF WorkerOK, Busy, IsWaiting, TypeOK
  <2>2. \A v \in Worker \ {w} : WorkerOK(v)'
    BY <1>3, WorkerFrame DEF WorkerInv, Buried, TypeOK
  <2>3. QED
    BY <2>1, <2>2 DEF WorkerInv
<1>7. ClientInv'
  BY ClientFrame DEF ClientInv
<1>8. QueueInv' /\ DeadInv' /\ KeyLeadsToItsJob'
  BY DEF QueueInv, DeadInv, KeyLeadsToItsJob, Queued, Buried, IsWaiting, IsExhausted
<1>9. QED
  BY <1>4, <1>5, <1>6, <1>7, <1>8

(* The handler has returned or raised: only the local dict changes.          *)
LEMMA HandlerStep ==
  ASSUME IInv, NEW w \in Worker, HandlerReturns(w) \/ HandlerRaises(w)
  PROVE  IInv'
<1> USE DEF HandlerReturns, HandlerRaises, redisVars, clientVars, IInv
<1>1. /\ wpc[w] = "run"
      /\ held[w] \in Job
      /\ copy[w] \in Record
      /\ copy[w] = record[held[w]]
      /\ copy[w].status = "RUNNING"
  BY DEF WorkerInv, WorkerOK, Busy, TypeOK
<1>2. PICK s \in {"SUCCEEDED", AfterFailure(copy[w])} :
        copy' = [copy EXCEPT ![w] = Outcome(copy[w], s)]
  OBVIOUS
<1>3. s \in Status /\ Outcome(copy[w], s) \in Record
  BY <1>1, <1>2 DEF AfterFailure, Outcome, Record, Status
<1>4. /\ wpc' = [wpc EXCEPT ![w] = "write"]
      /\ held' = held
      /\ UNCHANGED <<redisVars, clientVars>>
  OBVIOUS
<1>5. TypeOK'
  BY <1>2, <1>3, <1>4 DEF TypeOK, WorkerPC
<1>6. OnePlacePerJob'
  <2>1. \A v \in Worker, j \in Job : Holds(v, j)' => Holds(v, j)
    BY <1>1, <1>4 DEF Holds, TypeOK
  <2>2. QED
    BY <1>4, <2>1, OnePlaceFrame DEF Carries
<1>7. WorkerInv'
  <2>1. WorkerOK(w)'
    <3>1. copy'[w] = Outcome(copy[w], s) /\ copy'[w] # NoRecord
      BY <1>2, <1>3, NoRecordAssumption DEF TypeOK
    <3>2. copy'[w].status = s /\ AfterFailure(copy'[w]) = AfterFailure(copy[w])
      BY <3>1 DEF Outcome, AfterFailure
    <3>3. Outcome(copy'[w], "RUNNING") = copy[w]
      BY <1>1, <3>1 DEF Outcome, Record
    <3>4. QED
      BY <1>1, <1>2, <1>4, <3>1, <3>2, <3>3 DEF WorkerOK, Busy, TypeOK
  <2>2. \A v \in Worker \ {w} : WorkerOK(v)'
    BY <1>2, <1>4, WorkerFrame DEF WorkerInv, Buried, TypeOK
  <2>3. QED
    BY <2>1, <2>2 DEF WorkerInv
<1>8. ClientInv'
  BY <1>4, ClientFrame DEF ClientInv
<1>9. QueueInv' /\ DeadInv' /\ KeyLeadsToItsJob'
  BY <1>4 DEF QueueInv, DeadInv, KeyLeadsToItsJob, Queued, Buried, IsWaiting, IsExhausted
<1>10. QED
  BY <1>5, <1>6, <1>7, <1>8, <1>9

(* A worker writes the record of the job it holds: nobody else's part of the *)
(* invariant speaks of that record, keys included.                           *)
LEMMA WriteFrame ==
  ASSUME IInv, NEW w \in Worker, Busy(w),
         record' = [record EXCEPT ![held[w]] = copy[w]],
         copy[w] \in Record, copy[w].key = record[held[w]].key,
         ~Buried(held[w]),
         queue' = queue, idem' = idem, deadLetter' = deadLetter,
         cpc' = cpc, cjob' = cjob, asked' = asked,
         \A v \in Worker \ {w} :
           wpc'[v] = wpc[v] /\ held'[v] = held[v] /\ copy'[v] = copy[v]
  PROVE  /\ QueueInv' /\ ClientInv' /\ DeadInv' /\ KeyLeadsToItsJob'
         /\ \A v \in Worker \ {w} : WorkerOK(v)'
<1> USE DEF IInv
<1>1. /\ held[w] \in Job
      /\ ~Queued(held[w])
      /\ \A c \in Client : cpc[c] \in {"setkey", "push"} => cjob[c] # held[w]
      /\ \A v \in Worker : Busy(v) /\ held[v] = held[w] => v = w
  BY Exclusive
<1>2. /\ record'[held[w]] = copy[w]
      /\ \A j \in Job \ {held[w]} : record'[j] = record[j]
  BY <1>1 DEF TypeOK
<1>3. QueueInv' /\ DeadInv'
  BY <1>1, <1>2 DEF QueueInv, DeadInv, Queued, Buried, IsWaiting, IsExhausted
<1>4. ClientInv'
  <2>1. ASSUME NEW c \in Client PROVE ClientOK(c)'
    <3>1. cpc[c] \in {"setkey", "push"} => cjob[c] \in Job \ {held[w]}
      BY <1>1 DEF ClientInv, ClientOK
    <3>2. QED
      BY <1>2, <3>1, ClientFrame DEF ClientInv
  <2>2. QED
    BY <2>1 DEF ClientInv
<1>5. KeyLeadsToItsJob'
  <2>1. ASSUME NEW k \in Key, idem[k] # NoJob
        PROVE  record'[idem[k]] # NoRecord /\ record'[idem[k]].key = k
    <3>1. idem[k] \in Job /\ record[idem[k]].key = k /\ record[idem[k]] # NoRecord
      BY <2>1 DEF TypeOK, KeyLeadsToItsJob
    <3>2. QED
      BY <1>2, <3>1, NoRecordAssumption
  <2>2. QED
    BY <2>1 DEF KeyLeadsToItsJob
<1>6. ASSUME NEW v \in Worker \ {w} PROVE WorkerOK(v)'
  <2>1. Busy(v) => held[v] \in Job \ {held[w]}
    BY <1>1 DEF WorkerInv, WorkerOK
  <2>2. QED
    BY <1>2, <2>1, WorkerFrame DEF WorkerInv, Buried
<1>7. QED
  BY <1>3, <1>4, <1>5, <1>6

LEMMA MarkRunningStep ==
  ASSUME IInv, NEW w \in Worker, MarkRunning(w)
  PROVE  IInv'
<1> USE DEF MarkRunning, clientVars, IInv
<1>1. /\ Busy(w)
      /\ held[w] \in Job
      /\ IsWaiting(held[w])
      /\ copy[w] = Attempt(record[held[w]])
  BY DEF WorkerInv, WorkerOK, Busy
<1>2. copy[w] \in Record /\ copy[w].key = record[held[w]].key
  BY <1>1, MaxRetriesAssumption DEF TypeOK, IsWaiting, Attempt, Record, Status
<1>3. ~Buried(held[w])
  BY <1>1 DEF DeadInv, IsWaiting, IsExhausted
<1>4. TypeOK'
  BY <1>2 DEF TypeOK, WorkerPC
<1>5. OnePlacePerJob'
  <2>1. \A v \in Worker, j \in Job : Holds(v, j)' => Holds(v, j)
    BY DEF Holds, TypeOK
  <2>2. QED
    BY <2>1, OnePlaceFrame DEF Carries
<1>6. /\ QueueInv' /\ ClientInv' /\ DeadInv' /\ KeyLeadsToItsJob'
      /\ \A v \in Worker \ {w} : WorkerOK(v)'
  BY <1>1, <1>2, <1>3, WriteFrame DEF TypeOK
<1>7. WorkerOK(w)'
  BY <1>1, <1>2, NoRecordAssumption DEF WorkerOK, Busy, Attempt, TypeOK
<1>8. QED
  BY <1>4, <1>5, <1>6, <1>7 DEF WorkerInv

LEMMA WriteOutcomeStep ==
  ASSUME IInv, NEW w \in Worker, WriteOutcome(w)
  PROVE  IInv'
<1> USE DEF WriteOutcome, Release, clientVars, IInv
<1>1. /\ Busy(w)
      /\ held[w] \in Job
      /\ copy[w] \in Record
      /\ record[held[w]] = Outcome(copy[w], "RUNNING")
      /\ copy[w].status \in {"SUCCEEDED", AfterFailure(copy[w])}
  BY DEF WorkerInv, WorkerOK, Busy, TypeOK
<1>2. copy[w].key = record[held[w]].key /\ record[held[w]].status = "RUNNING"
  BY <1>1 DEF Outcome
<1>3. ~Buried(held[w])
  BY <1>1, <1>2 DEF DeadInv, IsExhausted
<1>4. \A v \in Worker \ {w} :
        wpc'[v] = wpc[v] /\ held'[v] = held[v] /\ copy'[v] = copy[v]
  BY DEF TypeOK
<1>5. \/ /\ copy[w].status = "SUCCEEDED"
         /\ wpc'[w] = "poll"
      \/ /\ copy[w].status = "PENDING"
         /\ wpc'[w] = "requeue"
         /\ held' = held /\ copy' = copy
      \/ /\ copy[w].status = "FAILED"
         /\ wpc'[w] = "bury"
         /\ held' = held /\ copy' = copy
  BY <1>1 DEF AfterFailure, TypeOK
<1>6. TypeOK'
  <2>1. record' \in [Job -> Record \union {NoRecord}]
    BY <1>1 DEF TypeOK
  <2>2. wpc' \in [Worker -> WorkerPC]
    BY DEF TypeOK, WorkerPC
  <2>3. held' \in [Worker -> Job \union {NoJob}]
    BY DEF TypeOK
  <2>4. copy' \in [Worker -> Record \union {NoRecord}]
    BY DEF TypeOK
  <2>5. QED
    BY <2>1, <2>2, <2>3, <2>4 DEF TypeOK
<1>7. OnePlacePerJob'
  <2>1. \A v \in Worker, j \in Job : Holds(v, j)' => Holds(v, j)
    BY <1>1, <1>4, <1>5 DEF Holds, Busy
  <2>2. QED
    BY <2>1, OnePlaceFrame DEF Carries
<1>8. /\ QueueInv' /\ ClientInv' /\ DeadInv' /\ KeyLeadsToItsJob'
      /\ \A v \in Worker \ {w} : WorkerOK(v)'
  BY <1>1, <1>2, <1>3, <1>4, WriteFrame
<1>9. WorkerOK(w)'
  <2>1. record'[held[w]] = copy[w]
    BY <1>1 DEF TypeOK
  <2>2. CASE copy[w].status = "SUCCEEDED"
    BY <1>5, <2>2 DEF WorkerOK, Busy
  <2>3. CASE copy[w].status = "PENDING"
    <3>1. copy[w].attempts <= MaxRetries
      BY <1>1, <2>3 DEF AfterFailure
    <3>2. QED
      BY <1>1, <1>5, <2>1, <2>3, <3>1, NoRecordAssumption DEF WorkerOK, Busy, IsWaiting
  <2>4. CASE copy[w].status = "FAILED"
    <3>1. copy[w].attempts = MaxRetries + 1
      BY <1>1, <2>4, MaxRetriesAssumption DEF AfterFailure, Record
    <3>2. ~Buried(held[w])'
      BY <1>3, <1>5, <2>4 DEF Buried
    <3>3. QED
      BY <1>1, <1>5, <2>1, <2>4, <3>1, <3>2, NoRecordAssumption
         DEF WorkerOK, Busy, IsExhausted
  <2>5. QED
    BY <1>5, <2>2, <2>3, <2>4
<1>10. QED
  BY <1>6, <1>7, <1>8, <1>9 DEF WorkerInv

LEMMA RequeueStep ==
  ASSUME IInv, NEW w \in Worker, Requeue(w)
  PROVE  IInv'
<1> USE DEF Requeue, Release, clientVars, IInv
<1>1. Busy(w) /\ held[w] \in Job /\ IsWaiting(held[w])
  BY DEF WorkerInv, WorkerOK, Busy
<1>2. /\ ~Queued(held[w])
      /\ \A c \in Client : ~Carries(c, held[w])
      /\ \A v \in Worker : Holds(v, held[w]) => v = w
  BY <1>1, Exclusive DEF Carries, Holds, Busy
<1>3. /\ queue' \in Seq(Job)
      /\ IsInjective(queue')
      /\ \A j \in Job : Queued(j)' <=> Queued(j) \/ j = held[w]
  BY <1>1, <1>2, PushFacts DEF Queued, TypeOK, OnePlacePerJob
<1>4. wpc'[w] = "poll"
  BY DEF TypeOK
<1>5. \A v \in Worker \ {w} :
        wpc'[v] = wpc[v] /\ held'[v] = held[v] /\ copy'[v] = copy[v]
  BY DEF TypeOK
<1>6. TypeOK'
  BY <1>3 DEF TypeOK, WorkerPC
<1>7. OnePlacePerJob'
  <2>1. \A v \in Worker, j \in Job : Holds(v, j)' => Holds(v, j) /\ v # w
    BY <1>4, <1>5 DEF Holds
  <2>2. \A c \in Client, j \in Job : Carries(c, j)' <=> Carries(c, j)
    BY DEF Carries
  <2>3. QED
    BY <1>2, <1>3, <2>1, <2>2 DEF OnePlacePerJob
<1>8. WorkerInv'
  <2>1. WorkerOK(w)'
    BY <1>4 DEF WorkerOK, Busy
  <2>2. \A v \in Worker \ {w} : WorkerOK(v)'
    BY <1>5, WorkerFrame DEF WorkerInv, Buried
  <2>3. QED
    BY <2>1, <2>2 DEF WorkerInv
<1>9. ClientInv'
  BY ClientFrame DEF ClientInv
<1>10. QueueInv' /\ DeadInv' /\ KeyLeadsToItsJob'
  BY <1>1, <1>3 DEF QueueInv, DeadInv, KeyLeadsToItsJob, Buried, IsWaiting, IsExhausted
<1>11. QED
  BY <1>6, <1>7, <1>8, <1>9, <1>10

LEMMA BuryStep ==
  ASSUME IInv, NEW w \in Worker, Bury(w)
  PROVE  IInv'
<1> USE DEF Bury, Release, clientVars, IInv
<1>1. Busy(w) /\ held[w] \in Job /\ IsExhausted(held[w]) /\ ~Buried(held[w])
  BY DEF WorkerInv, WorkerOK, Busy
<1>2. /\ deadLetter' \in Seq(Job)
      /\ IsInjective(deadLetter')
      /\ \A j \in Job : Buried(j)' <=> Buried(j) \/ j = held[w]
  BY <1>1, PushFacts DEF Buried, TypeOK, DeadInv
<1>3. wpc'[w] = "poll"
  BY DEF TypeOK
<1>4. \A v \in Worker \ {w} :
        wpc'[v] = wpc[v] /\ held'[v] = held[v] /\ copy'[v] = copy[v]
  BY DEF TypeOK
<1>5. TypeOK'
  BY <1>2 DEF TypeOK, WorkerPC
<1>6. OnePlacePerJob'
  <2>1. \A v \in Worker, j \in Job : Holds(v, j)' => Holds(v, j)
    BY <1>3, <1>4 DEF Holds
  <2>2. QED
    BY <2>1, OnePlaceFrame DEF Carries
<1>7. WorkerInv'
  <2>1. WorkerOK(w)'
    BY <1>3 DEF WorkerOK, Busy
  <2>2. ASSUME NEW v \in Worker \ {w} PROVE WorkerOK(v)'
    <3>1. Busy(v) => held[v] \in Job /\ held[v] # held[w]
      BY <1>1, Exclusive DEF WorkerInv, WorkerOK
    <3>2. wpc[v] = "bury" /\ Buried(held[v])' => Buried(held[v])
      BY <1>2, <1>4, <3>1 DEF Busy, Buried
    <3>3. QED
      BY <1>4, <3>2, WorkerFrame DEF WorkerInv
  <2>3. QED
    BY <2>1, <2>2 DEF WorkerInv
<1>8. ClientInv'
  BY ClientFrame DEF ClientInv
<1>9. QueueInv' /\ DeadInv' /\ KeyLeadsToItsJob'
  BY <1>1, <1>2 DEF QueueInv, DeadInv, KeyLeadsToItsJob, Queued, IsWaiting, IsExhausted
<1>10. QED
  BY <1>5, <1>6, <1>7, <1>8, <1>9

(* A worker between two jobs, or one that gives up its job, is in nobody's   *)
(* way.                                                                      *)
LEMMA WorkerUpDownStep ==
  ASSUME IInv, NEW w \in Worker, Stop(w) \/ Restart(w) \/ WorkerFails(w)
  PROVE  IInv'
<1> USE DEF Stop, Restart, WorkerFails, redisVars, clientVars, IInv
<1>1. /\ wpc'[w] \in {"poll", "down"}
      /\ \A v \in Worker \ {w} :
           wpc'[v] = wpc[v] /\ held'[v] = held[v] /\ copy'[v] = copy[v]
      /\ UNCHANGED <<redisVars, clientVars>>
  BY DEF TypeOK
<1>2. TypeOK'
  BY DEF TypeOK, WorkerPC
<1>3. OnePlacePerJob'
  <2>1. \A v \in Worker, j \in Job : Holds(v, j)' => Holds(v, j)
    BY <1>1 DEF Holds
  <2>2. QED
    BY <1>1, <2>1, OnePlaceFrame DEF Carries
<1>4. WorkerInv'
  <2>1. WorkerOK(w)'
    BY <1>1 DEF WorkerOK, Busy
  <2>2. \A v \in Worker \ {w} : WorkerOK(v)'
    BY <1>1, WorkerFrame DEF WorkerInv, Buried
  <2>3. QED
    BY <2>1, <2>2 DEF WorkerInv
<1>5. ClientInv'
  BY <1>1, ClientFrame DEF ClientInv
<1>6. QueueInv' /\ DeadInv' /\ KeyLeadsToItsJob'
  BY <1>1 DEF QueueInv, DeadInv, KeyLeadsToItsJob, Queued, Buried, IsWaiting, IsExhausted
<1>7. QED
  BY <1>2, <1>3, <1>4, <1>5, <1>6

LEMMA KeyExpiresStep ==
  ASSUME IInv, NEW k \in Key, KeyExpires(k)
  PROVE  IInv'
<1> USE DEF KeyExpires, clientVars, workerVars, IInv
<1>1. TypeOK'
  BY DEF TypeOK
<1>2. OnePlacePerJob'
  BY OnePlaceFrame DEF Carries, Holds
<1>3. WorkerInv' /\ ClientInv'
  BY WorkerFrame, ClientFrame DEF WorkerInv, ClientInv, Buried
<1>4. QueueInv' /\ DeadInv'
  BY DEF QueueInv, DeadInv, Queued, Buried, IsWaiting, IsExhausted
<1>5. KeyLeadsToItsJob'
  BY DEF KeyLeadsToItsJob, TypeOK
<1>6. QED
  BY <1>1, <1>2, <1>3, <1>4, <1>5

LEMMA StutterStep ==
  ASSUME IInv, UNCHANGED vars
  PROVE  IInv'
BY DEF vars, IInv, TypeOK, OnePlacePerJob, QueueInv, ClientInv, ClientOK, WorkerInv,
   WorkerOK, Busy, DeadInv, KeyLeadsToItsJob, Queued, Buried, Holds, Carries,
   IsWaiting, IsExhausted

LEMMA NextIInv == IInv /\ [NextF]_vars => IInv'
<1> SUFFICES ASSUME IInv, [NextF]_vars PROVE IInv'
  OBVIOUS
<1>1. CASE \E c \in Client : ClientStep(c) \/ \E k \in Key \union {NoKey} : Enqueue(c, k)
  BY <1>1, EnqueueStep, CheckExistingStep, WriteRecordStep, SetKeyStep, PushStep
     DEF ClientStep
<1>2. CASE \E w \in Worker : WorkerStep(w) \/ Stop(w) \/ Restart(w)
  BY <1>2, PopStep, ReadRecordStep, MarkRunningStep, HandlerStep, WriteOutcomeStep,
     RequeueStep, BuryStep, WorkerUpDownStep DEF WorkerStep
<1>3. CASE \E c \in Client : ClientFails(c)
  BY <1>3, ClientFailsStep
<1>4. CASE \E w \in Worker : WorkerFails(w)
  BY <1>4, WorkerUpDownStep
<1>5. CASE \E k \in Key : KeyExpires(k)
  BY <1>5, KeyExpiresStep
<1>6. CASE UNCHANGED vars
  BY <1>6, StutterStep
<1>7. QED
  BY <1>1, <1>2, <1>3, <1>4, <1>5, <1>6 DEF NextF, Next

(* The invariant holds whatever crashes, fails or expires.                   *)
THEOREM Invariance == SpecF => []IInv
<1>1. QED
  BY InitIInv, NextIInv, PTL DEF SpecF

-----------------------------------------------------------------------------
(* Every queue, record, id and local copy has its type; in particular no     *)
(* job is ever tried more than MaxRetries + 1 times.                         *)
THEOREM TypeCorrect == SpecF => []TypeOK
<1>1. IInv => TypeOK
  BY DEF IInv
<1>2. QED
  BY <1>1, Invariance, PTL

(* Competing workers never share a job and no id is queued twice, crashes    *)
(* included: process_next, _run and enqueue of job_queue.py.                 *)
THEOREM NoDuplicatedWork == SpecF => []OnePlacePerJob
<1>1. IInv => OnePlacePerJob
  BY DEF IInv
<1>2. QED
  BY <1>1, Invariance, PTL

(* What GET /jobs/dead-letter lists has failed for good, each id once.       *)
THEOREM DeadLettersAreDead == SpecF => []DeadLetterSound
<1>1. IInv => DeadLetterSound
  BY DEF IInv, DeadInv, QueueInv, IsExhausted, IsWaiting, DeadLetterSound
<1>2. QED
  BY <1>1, Invariance, PTL

(* An idempotency key leads to a written record of a job of that key.        *)
THEOREM KeysLeadHome == SpecF => []KeyLeadsToItsJob
<1>1. IInv => KeyLeadsToItsJob
  BY DEF IInv
<1>2. QED
  BY <1>1, Invariance, PTL

-----------------------------------------------------------------------------
(* The queue keeps the promise of JobService.                                *)

LEMMA InitPromise == Init => Promise!Init
<1>1. Range(<<>>) = {}
  BY DEF Range
<1>2. QED
  BY <1>1 DEF Init, Promise!Init, Buried, PhaseOf, TriesOf

(* What touches neither a record nor the dead letters is not seen at all.    *)
LEMMA SilentStep ==
  ASSUME UNCHANGED <<record, deadLetter>>
  PROVE  UNCHANGED Promise!vars
BY DEF Promise!vars, Buried, PhaseOf, TriesOf

LEMMA WriteRecordPromise ==
  ASSUME IInv, NEW c \in Client, WriteRecord(c)
  PROVE  Promise!Next
<1>1. PICK n \in Job :
        /\ record[n] = NoRecord
        /\ record' = [record EXCEPT ![n] =
                        [status |-> "PENDING", attempts |-> 0, key |-> asked[c]]]
  BY DEF WriteRecord
<1>2. record'[n] # NoRecord
  BY <1>1, NoRecordAssumption, MaxRetriesAssumption DEF IInv, TypeOK, Record, Status
<1>3. Promise!Submit(n)
  BY <1>1, <1>2 DEF Promise!Submit, WriteRecord, Buried, PhaseOf, TriesOf, IInv, TypeOK
<1>4. QED
  BY <1>3 DEF Promise!Next

LEMMA MarkRunningPromise ==
  ASSUME IInv, NEW w \in Worker, MarkRunning(w)
  PROVE  Promise!Next
<1>1. PICK n \in Job : n = held[w]
  BY DEF IInv, WorkerInv, WorkerOK, Busy, MarkRunning
<1>2. /\ IsWaiting(n)
      /\ copy[w] = Attempt(record[n])
      /\ record' = [record EXCEPT ![n] = copy[w]]
      /\ UNCHANGED deadLetter
  BY <1>1 DEF IInv, WorkerInv, WorkerOK, MarkRunning
<1>3. copy[w] # NoRecord
  BY <1>2, MaxRetriesAssumption, NoRecordAssumption
     DEF IInv, TypeOK, IsWaiting, Attempt, Record, Status
<1>4. /\ record'[n] = copy[w]
      /\ copy[w].status = "RUNNING"
      /\ copy[w].attempts = record[n].attempts + 1
      /\ \A j \in Job \ {n} : record'[j] = record[j]
  BY <1>2 DEF Attempt, IInv, TypeOK
<1>5. [j \in Job |-> PhaseOf(j)]' = [[j \in Job |-> PhaseOf(j)] EXCEPT ![n] = "RUNNING"]
  BY <1>3, <1>4 DEF PhaseOf
<1>6. [j \in Job |-> TriesOf(j)]'
        = [[j \in Job |-> TriesOf(j)] EXCEPT ![n] = TriesOf(n) + 1]
  <2>1. \A j \in Job : TriesOf(j)' = IF j = n THEN TriesOf(n) + 1 ELSE TriesOf(j)
    BY <1>2, <1>3, <1>4 DEF TriesOf, IsWaiting
  <2>2. QED
    BY <2>1
<1>7. PhaseOf(n) = "PENDING" /\ TriesOf(n) <= MaxRetries
  BY <1>2 DEF PhaseOf, TriesOf, IsWaiting
<1>8. Promise!Start(n)
  BY <1>2, <1>5, <1>6, <1>7 DEF Promise!Start, Buried
<1>9. QED
  BY <1>8 DEF Promise!Next

LEMMA WriteOutcomePromise ==
  ASSUME IInv, NEW w \in Worker, WriteOutcome(w)
  PROVE  Promise!Next
<1>1. PICK n \in Job : n = held[w]
  BY DEF IInv, WorkerInv, WorkerOK, Busy, WriteOutcome
<1>2. /\ copy[w] \in Record
      /\ record[n] = Outcome(copy[w], "RUNNING")
      /\ copy[w].status \in {"SUCCEEDED", AfterFailure(copy[w])}
      /\ record' = [record EXCEPT ![n] = copy[w]]
      /\ UNCHANGED deadLetter
  BY <1>1 DEF IInv, WorkerInv, WorkerOK, TypeOK, WriteOutcome
<1>3. record[n] # NoRecord /\ copy[w] # NoRecord
  BY <1>2, NoRecordAssumption DEF Outcome, Record, Status
<1>4. /\ record[n].status = "RUNNING"
      /\ record[n].attempts = copy[w].attempts
      /\ record'[n] = copy[w]
      /\ \A j \in Job \ {n} : record'[j] = record[j]
  BY <1>2 DEF Outcome, IInv, TypeOK
<1>5. /\ [j \in Job |-> PhaseOf(j)]'
           = [[j \in Job |-> PhaseOf(j)] EXCEPT ![n] = copy[w].status]
      /\ [j \in Job |-> TriesOf(j)]' = [j \in Job |-> TriesOf(j)]
      /\ UNCHANGED {j \in Job : Buried(j)}
  <2>1. \A j \in Job : PhaseOf(j)' = IF j = n THEN copy[w].status ELSE PhaseOf(j)
    BY <1>3, <1>4 DEF PhaseOf
  <2>2. \A j \in Job : TriesOf(j)' = TriesOf(j)
    BY <1>3, <1>4 DEF TriesOf
  <2>3. UNCHANGED {j \in Job : Buried(j)}
    BY <1>2 DEF Buried
  <2>4. QED
    BY <2>1, <2>2, <2>3
<1>6. PhaseOf(n) = "RUNNING" /\ TriesOf(n) = copy[w].attempts
  BY <1>3, <1>4 DEF PhaseOf, TriesOf
<1>7. CASE copy[w].status = "SUCCEEDED"
  <2>1. Promise!Succeed(n)
    BY <1>5, <1>6, <1>7 DEF Promise!Succeed
  <2>2. QED
    BY <2>1 DEF Promise!Next
<1>8. CASE copy[w].status = "PENDING"
  <2>1. copy[w].attempts <= MaxRetries
    BY <1>2, <1>8 DEF AfterFailure
  <2>2. Promise!Retry(n)
    BY <1>5, <1>6, <1>8, <2>1 DEF Promise!Retry
  <2>3. QED
    BY <2>2 DEF Promise!Next
<1>9. CASE copy[w].status = "FAILED"
  <2>1. copy[w].attempts = MaxRetries + 1
    BY <1>2, <1>9, MaxRetriesAssumption DEF AfterFailure, Record
  <2>2. Promise!GiveUp(n)
    BY <1>5, <1>6, <1>9, <2>1 DEF Promise!GiveUp
  <2>3. QED
    BY <2>2 DEF Promise!Next
<1>10. QED
  BY <1>2, <1>7, <1>8, <1>9 DEF AfterFailure

LEMMA BuryPromise ==
  ASSUME IInv, NEW w \in Worker, Bury(w)
  PROVE  Promise!Next
<1>1. PICK n \in Job : n = held[w]
  BY DEF IInv, WorkerInv, WorkerOK, Busy, Bury
<1>2. IsExhausted(n) /\ ~Buried(n)
  BY <1>1 DEF IInv, WorkerInv, WorkerOK, Bury
<1>3. \A j \in Job : Buried(j)' <=> Buried(j) \/ j = n
  BY <1>1, <1>2, PushFacts DEF Buried, Bury, IInv, TypeOK, DeadInv
<1>4. Promise!Report(n)
  BY <1>2, <1>3 DEF Promise!Report, Bury, IsExhausted, PhaseOf, TriesOf
<1>5. QED
  BY <1>4 DEF Promise!Next

LEMMA NextPromise == IInv /\ [NextF]_vars => [Promise!Next]_(Promise!vars)
<1> SUFFICES ASSUME IInv, [NextF]_vars
             PROVE  Promise!Next \/ UNCHANGED Promise!vars
  OBVIOUS
<1>1. CASE UNCHANGED <<record, deadLetter>>
  BY <1>1, SilentStep
<1>2. ASSUME NEW c \in Client,
             ClientStep(c) \/ ClientFails(c) \/ \E k \in Key \union {NoKey} : Enqueue(c, k)
      PROVE  WriteRecord(c) \/ UNCHANGED <<record, deadLetter>>
  BY <1>2 DEF ClientStep, CheckExisting, SetKey, Push, ClientFails, Enqueue, redisVars
<1>3. ASSUME NEW w \in Worker,
             WorkerStep(w) \/ Stop(w) \/ Restart(w) \/ WorkerFails(w)
      PROVE  \/ MarkRunning(w) \/ WriteOutcome(w) \/ Bury(w)
             \/ UNCHANGED <<record, deadLetter>>
  BY <1>3 DEF WorkerStep, Pop, ReadRecord, HandlerReturns, HandlerRaises, Requeue,
     Stop, Restart, WorkerFails, redisVars
<1>4. ASSUME NEW k \in Key, KeyExpires(k)
      PROVE  UNCHANGED <<record, deadLetter>>
  BY <1>4 DEF KeyExpires
<1>5. \/ \E c \in Client : WriteRecord(c)
      \/ \E w \in Worker : MarkRunning(w) \/ WriteOutcome(w) \/ Bury(w)
      \/ UNCHANGED <<record, deadLetter>>
  BY <1>2, <1>3, <1>4 DEF NextF, Next, vars
<1>6. QED
  BY <1>1, <1>5, WriteRecordPromise, MarkRunningPromise, WriteOutcomePromise, BuryPromise

(* Whatever interleaves, crashes or expires, a poller of GET /jobs/{id} and  *)
(* GET /jobs/dead-letter only ever sees what JobService allows.              *)
THEOREM Refinement == SpecF => ImplementsJobService
<1>1. Promise!Init /\ [][Promise!Next]_(Promise!vars) => ImplementsJobService
  BY DEF ImplementsJobService, Promise!Spec
<1>2. QED
  BY <1>1, InitPromise, NextPromise, Invariance, PTL DEF SpecF

-----------------------------------------------------------------------------
(* Without failures nothing is forgotten.                                    *)

Remembered == NoJobStranded /\ DeadLetterComplete

LEMMA ClientRemembers ==
  ASSUME IInv, Remembered, NEW c \in Client,
         ClientStep(c) \/ \E k \in Key \union {NoKey} : Enqueue(c, k)
  PROVE  Remembered'
<1> USE DEF Remembered, Unfinished
<1>1. \A w \in Worker, j \in Job : Holds(w, j) => Holds(w, j)'
  BY DEF Holds, ClientStep, CheckExisting, WriteRecord, SetKey, Push, Enqueue, workerVars
<1>2. \A d \in Client \ {c}, j \in Job : Carries(d, j) => Carries(d, j)'
  BY DEF Carries, ClientStep, CheckExisting, WriteRecord, SetKey, Push, Enqueue, Leave,
     IInv, TypeOK
<1>3. \A j \in Job : Buried(j) => Buried(j)'
  BY DEF Buried, ClientStep, CheckExisting, WriteRecord, SetKey, Push, Enqueue, redisVars
<1>4. CASE Push(c)
  <2>1. cjob[c] \in Job /\ IsInjective(queue) /\ ~Queued(cjob[c])
    BY <1>4 DEF Push, IInv, ClientInv, ClientOK, OnePlacePerJob, Carries
  <2>2. \A j \in Job : Queued(j)' <=> Queued(j) \/ j = cjob[c]
    BY <1>4, <2>1, PushFacts DEF Push, Queued, IInv, TypeOK
  <2>3. record' = record /\ \A j \in Job : Carries(c, j) => j = cjob[c]
    BY <1>4 DEF Push, Carries
  <2>4. QED
    BY <1>1, <1>2, <1>3, <2>2, <2>3 DEF NoJobStranded, DeadLetterComplete
<1>5. CASE WriteRecord(c)
  <2>1. PICK n \in Job :
          /\ record[n] = NoRecord
          /\ record' = [record EXCEPT ![n] =
                          [status |-> "PENDING", attempts |-> 0, key |-> asked[c]]]
          /\ cjob' = [cjob EXCEPT ![c] = n]
    BY <1>5 DEF WriteRecord
  <2>2. Carries(c, n)' /\ \A j \in Job : ~Carries(c, j)
    BY <1>5, <2>1 DEF WriteRecord, Carries, IInv, TypeOK
  <2>3. queue' = queue /\ record'[n].status = "PENDING"
    BY <1>5, <2>1 DEF WriteRecord, IInv, TypeOK
  <2>4. \A j \in Job \ {n} : record'[j] = record[j]
    BY <2>1 DEF IInv, TypeOK
  <2>5. QED
    BY <1>1, <1>2, <1>3, <2>2, <2>3, <2>4 DEF NoJobStranded, DeadLetterComplete, Queued
<1>6. CASE CheckExisting(c) \/ SetKey(c) \/ \E k \in Key \union {NoKey} : Enqueue(c, k)
  <2>1. record' = record /\ queue' = queue
    BY <1>6 DEF CheckExisting, SetKey, Enqueue, redisVars
  <2>2. \A j \in Job : Carries(c, j) => Carries(c, j)'
    BY <1>6 DEF CheckExisting, SetKey, Enqueue, Carries, IInv, TypeOK
  <2>3. QED
    BY <1>1, <1>2, <1>3, <2>1, <2>2 DEF NoJobStranded, DeadLetterComplete, Queued
<1>7. QED
  BY <1>4, <1>5, <1>6 DEF ClientStep

LEMMA WorkerRemembers ==
  ASSUME IInv, Remembered, NEW w \in Worker, WorkerStep(w) \/ Stop(w) \/ Restart(w)
  PROVE  Remembered'
<1> USE DEF Remembered, Unfinished
<1>1. \A c \in Client, j \in Job : Carries(c, j) => Carries(c, j)'
  BY DEF Carries, WorkerStep, Pop, ReadRecord, MarkRunning, HandlerReturns,
     HandlerRaises, WriteOutcome, Requeue, Bury, Stop, Restart, clientVars
<1>2. \A v \in Worker \ {w}, j \in Job : Holds(v, j) => Holds(v, j)'
  BY DEF Holds, WorkerStep, Pop, ReadRecord, MarkRunning, HandlerReturns,
     HandlerRaises, WriteOutcome, Requeue, Bury, Stop, Restart, Release, IInv, TypeOK
<1>3. CASE Pop(w)
  <2>1. queue \in Seq(Job) /\ queue # <<>> /\ IsInjective(queue)
    BY <1>3 DEF Pop, IInv, TypeOK, OnePlacePerJob
  <2>2. \A j \in Job : Queued(j)' <=> Queued(j) /\ j # Head(queue)
    BY <1>3, <2>1, PopFacts DEF Pop, Queued
  <2>3. \A j \in Job : ~Holds(w, j)
    BY <1>3 DEF Pop, Holds
  <2>4. record' = record /\ deadLetter' = deadLetter
    BY <1>3 DEF Pop
  <2>5. \A j \in Job : j = Head(queue) => Holds(w, j)'
    BY <1>3 DEF Pop, Holds, IInv, TypeOK
  <2>6. QED
    BY <1>1, <1>2, <2>2, <2>3, <2>4, <2>5 DEF NoJobStranded, DeadLetterComplete, Buried
<1>4. CASE ReadRecord(w) \/ HandlerReturns(w) \/ HandlerRaises(w)
  <2>1. record' = record /\ queue' = queue /\ deadLetter' = deadLetter
    BY <1>4 DEF ReadRecord, HandlerReturns, HandlerRaises, redisVars
  <2>2. wpc[w] = "read" => record[held[w]] # NoRecord
    BY DEF IInv, WorkerInv, WorkerOK, IsWaiting
  <2>3. \A j \in Job : Holds(w, j) => Holds(w, j)'
    BY <1>4, <2>2 DEF ReadRecord, HandlerReturns, HandlerRaises, Holds, IInv, TypeOK
  <2>4. QED
    BY <1>1, <1>2, <2>1, <2>3 DEF NoJobStranded, DeadLetterComplete, Queued, Buried
<1>5. CASE MarkRunning(w) \/ WriteOutcome(w)
  <2>1. held[w] \in Job /\ copy[w] # NoRecord
    <3>1. WorkerOK(w) /\ wpc[w] \in {"mark", "write"}
      BY <1>5 DEF IInv, WorkerInv, MarkRunning, WriteOutcome
    <3>2. held[w] \in Job /\ record[held[w]] \in Record
      BY <3>1, Exclusive DEF Busy
    <3>3. CASE wpc[w] = "mark"
      <4>1. copy[w] = Attempt(record[held[w]]) /\ record[held[w]].attempts <= MaxRetries
        BY <3>1, <3>3 DEF WorkerOK, IsWaiting
      <4>2. copy[w] \in Record
        BY <3>2, <4>1, MaxRetriesAssumption DEF Attempt, Record, Status
      <4>3. QED
        BY <3>2, <4>2, NoRecordAssumption
    <3>4. CASE wpc[w] = "write"
      BY <3>1, <3>2, <3>4 DEF WorkerOK
    <3>5. QED
      BY <3>1, <3>3, <3>4
  <2>2. /\ queue' = queue /\ deadLetter' = deadLetter
        /\ record'[held[w]] = copy[w]
        /\ \A j \in Job \ {held[w]} : record'[j] = record[j]
    BY <1>5, <2>1 DEF MarkRunning, WriteOutcome, IInv, TypeOK
  <2>3. \/ copy[w].status = "SUCCEEDED"
        \/ \A j \in Job : Holds(w, j) => Holds(w, j)'
    BY <1>5 DEF MarkRunning, WriteOutcome, Holds, IInv, TypeOK
  <2>4. \A j \in Job : Holds(w, j) <=> j = held[w]
    BY <1>5 DEF MarkRunning, WriteOutcome, Holds
  <2>5. QED
    BY <1>1, <1>2, <2>1, <2>2, <2>3, <2>4
       DEF NoJobStranded, DeadLetterComplete, Queued, Buried, Active
<1>6. CASE Requeue(w)
  <2>1. /\ held[w] \in Job /\ IsInjective(queue) /\ ~Queued(held[w])
        /\ record[held[w]].status = "PENDING"
    BY <1>6, Exclusive DEF Requeue, IInv, WorkerInv, WorkerOK, Busy, OnePlacePerJob, IsWaiting
  <2>2. \A j \in Job : Queued(j)' <=> Queued(j) \/ j = held[w]
    BY <1>6, <2>1, PushFacts DEF Requeue, Queued, IInv, TypeOK
  <2>3. record' = record /\ deadLetter' = deadLetter
    BY <1>6 DEF Requeue
  <2>4. \A j \in Job : Holds(w, j) => j = held[w]
    BY DEF Holds
  <2>5. QED
    BY <1>1, <1>2, <2>1, <2>2, <2>3, <2>4 DEF NoJobStranded, DeadLetterComplete, Buried
<1>7. CASE Bury(w)
  <2>1. held[w] \in Job /\ IsExhausted(held[w]) /\ ~Buried(held[w])
    BY <1>7 DEF Bury, IInv, WorkerInv, WorkerOK, Busy
  <2>2. \A j \in Job : Buried(j)' <=> Buried(j) \/ j = held[w]
    BY <1>7, <2>1, PushFacts DEF Bury, Buried, IInv, TypeOK, DeadInv
  <2>3. record' = record /\ queue' = queue
    BY <1>7 DEF Bury
  <2>4. \A j \in Job : Holds(w, j) => j = held[w]
    BY DEF Holds
  <2>5. QED
    BY <1>1, <1>2, <2>1, <2>2, <2>3, <2>4
       DEF NoJobStranded, DeadLetterComplete, Queued, IsExhausted, Active
<1>8. CASE Stop(w) \/ Restart(w)
  <2>1. record' = record /\ queue' = queue /\ deadLetter' = deadLetter
    BY <1>8 DEF Stop, Restart, redisVars
  <2>2. \A j \in Job : ~Holds(w, j)
    BY <1>8 DEF Stop, Restart, Holds
  <2>3. QED
    BY <1>1, <1>2, <2>1, <2>2 DEF NoJobStranded, DeadLetterComplete, Queued, Buried
<1>9. QED
  BY <1>3, <1>4, <1>5, <1>6, <1>7, <1>8 DEF WorkerStep

LEMMA AlwaysRemembered == Spec => []Remembered
<1>1. Init => Remembered
  BY DEF Init, Remembered, NoJobStranded, DeadLetterComplete, Unfinished
<1>2. IInv /\ Remembered /\ [Next]_vars => Remembered'
  <2>1. UNCHANGED vars /\ Remembered => Remembered'
    BY DEF vars, Remembered, NoJobStranded, DeadLetterComplete, Unfinished, Queued,
       Buried, Holds, Carries
  <2>2. QED
    BY <2>1, ClientRemembers, WorkerRemembers DEF Next
<1>3. [Next]_vars => [NextF]_vars
  BY DEF NextF
<1>4. QED
  BY <1>1, <1>2, <1>3, InitIInv, NextIInv, PTL DEF Spec

(* Redeploys that let the worker finish its job strand no job: the           *)
(* stop_event test of run_forever.                                           *)
THEOREM NothingForgotten == Spec => []NoJobStranded
<1>1. Remembered => NoJobStranded
  BY DEF Remembered
<1>2. QED
  BY <1>1, AlwaysRemembered, PTL

(* Nor do they lose a dead letter: a job that failed for good is listed, or  *)
(* its worker is about to list it (_run: SET, then LPUSH).                   *)
THEOREM DeadLettersAreListed == Spec => []DeadLetterComplete
<1>1. Remembered => DeadLetterComplete
  BY DEF Remembered
<1>2. QED
  BY <1>1, AlwaysRemembered, PTL

-----------------------------------------------------------------------------
(* One caller, and no failures: the key leads to the one job in progress.    *)

OneCaller == \A c, d \in Client : c = d

Wanted(j, k) == Unfinished(j) /\ record[j].key = k

(* From where the caller has read or set the key to where it sets it, no     *)
(* unfinished job has it that the caller does not know of.                   *)
KeyInv ==
  /\ \A j \in Job, k \in Key : Wanted(j, k) =>
       idem[k] = j \/ \E c \in Client : cpc[c] = "setkey" /\ cjob[c] = j
  /\ \A c \in Client :
       /\ cpc[c] = "check" => asked[c] \in Key /\ cjob[c] = idem[asked[c]]
       /\ cpc[c] = "write" => \A j \in Job, k \in Key : asked[c] = k => ~Wanted(j, k)
       /\ cpc[c] = "setkey" => \A j \in Job : Wanted(j, asked[c]) => j = cjob[c]

LEMMA KeyInvFacts == OneCaller /\ IInv /\ KeyInv => OneActiveJobPerKey
<1> SUFFICES ASSUME OneCaller, IInv, KeyInv, NEW i \in Job, NEW j \in Job,
                    Unfinished(i), Unfinished(j),
                    record[i].key = record[j].key, record[i].key # NoKey
             PROVE  i = j
  BY DEF OneActiveJobPerKey
<1>1. PICK k \in Key : Wanted(i, k) /\ Wanted(j, k)
  <2>1. record[i] \in Record
    BY DEF Unfinished, IInv, TypeOK
  <2>2. record[i].key \in Key
    BY <2>1 DEF Record
  <2>3. QED
    BY <2>2 DEF Wanted
<1>2. ASSUME NEW c \in Client, cpc[c] = "setkey", cjob[c] = i \/ cjob[c] = j
      PROVE  i = j
  <2>1. asked[c] = k
    BY <1>1, <1>2 DEF Wanted, IInv, ClientInv, ClientOK
  <2>2. QED
    BY <1>1, <1>2, <2>1 DEF KeyInv
<1>3. CASE idem[k] = i /\ idem[k] = j
  BY <1>3
<1>4. QED
  BY <1>1, <1>2, <1>3 DEF KeyInv

(* What a worker writes for its job keeps the key and does not bring the     *)
(* job back to life.                                                         *)
LEMMA WorkerKeeps ==
  ASSUME IInv, NEW w \in Worker, WorkerStep(w) \/ Stop(w) \/ Restart(w)
  PROVE  /\ \A j \in Job, k \in Key : Wanted(j, k)' => Wanted(j, k)
         /\ UNCHANGED <<idem, cpc, asked, cjob>>
<1>1. UNCHANGED <<idem, cpc, asked, cjob>>
  BY DEF WorkerStep, Pop, ReadRecord, MarkRunning, HandlerReturns, HandlerRaises,
     WriteOutcome, Requeue, Bury, Stop, Restart, redisVars, clientVars
<1>2. CASE MarkRunning(w) \/ WriteOutcome(w)
  <2>1. /\ WorkerOK(w) /\ wpc[w] \in {"mark", "write"}
        /\ record' = [record EXCEPT ![held[w]] = copy[w]]
    BY <1>2 DEF MarkRunning, WriteOutcome, IInv, WorkerInv
  <2>2. held[w] \in Job /\ record[held[w]] # NoRecord
        /\ record[held[w]].status \in Active /\ copy[w].key = record[held[w]].key
    <3>1. held[w] \in Job /\ record[held[w]] \in Record
      BY <2>1, Exclusive DEF Busy
    <3>2. CASE wpc[w] = "mark"
      BY <2>1, <3>1, <3>2, NoRecordAssumption DEF WorkerOK, IsWaiting, Attempt, Active
    <3>3. CASE wpc[w] = "write"
      BY <2>1, <3>1, <3>3, NoRecordAssumption DEF WorkerOK, Outcome, Active
    <3>4. QED
      BY <2>1, <3>2, <3>3
  <2>3. record'[held[w]] = copy[w] /\ \A j \in Job \ {held[w]} : record'[j] = record[j]
    BY <2>1, <2>2 DEF IInv, TypeOK
  <2>4. QED
    BY <1>1, <2>2, <2>3 DEF Wanted, Unfinished
<1>3. CASE record' = record
  BY <1>1, <1>3 DEF Wanted, Unfinished
<1>4. QED
  BY <1>2, <1>3 DEF WorkerStep, Pop, ReadRecord, HandlerReturns, HandlerRaises,
     Requeue, Bury, Stop, Restart, redisVars

LEMMA KeyStep ==
  ASSUME OneCaller, IInv, KeyInv, [Next]_vars
  PROVE  KeyInv'
<1>1. ASSUME NEW c \in Client, NEW k \in Key \union {NoKey}, Enqueue(c, k)
      PROVE  KeyInv'
  <2>1. /\ cpc[c] = "idle" /\ asked' = [asked EXCEPT ![c] = k]
        /\ UNCHANGED <<record, idem>>
    BY <1>1 DEF Enqueue, redisVars
  <2>2. \A d \in Client : d = c
    BY DEF OneCaller
  <2>3. asked'[c] = k /\ (k \in Key => idem[k] \in Job \union {NoJob})
    BY <2>1 DEF IInv, TypeOK
  <2>4. \A j \in Job, x \in Key : Wanted(j, x)' = Wanted(j, x)
    BY <2>1 DEF Wanted, Unfinished
  <2>5. \A j \in Job, x \in Key : Wanted(j, x) => idem[x] = j
    BY <2>1, <2>2 DEF KeyInv
  <2>6. CASE k \in Key /\ idem[k] # NoJob
    <3>1. cjob'[c] = idem[k] /\ cpc'[c] = "check"
      BY <1>1, <2>6 DEF Enqueue, IInv, TypeOK
    <3>2. QED
      BY <2>1, <2>2, <2>3, <2>4, <2>5, <2>6, <3>1 DEF KeyInv
  <2>7. CASE ~(k \in Key /\ idem[k] # NoJob)
    <3>1. cpc'[c] = "write"
      BY <1>1, <2>7 DEF Enqueue, IInv, TypeOK
    <3>2. \A j \in Job, x \in Key : k = x => ~Wanted(j, x)
      BY <2>5, <2>7, NoneAssumption
    <3>3. QED
      BY <2>1, <2>2, <2>3, <2>4, <2>5, <3>1, <3>2 DEF KeyInv
  <2>8. QED
    BY <2>6, <2>7
<1>2. ASSUME NEW c \in Client, CheckExisting(c) PROVE KeyInv'
  <2>1. cpc[c] = "check" /\ UNCHANGED <<record, idem>>
    BY <1>2 DEF CheckExisting, redisVars
  <2>2. \A d \in Client : d = c
    BY DEF OneCaller
  <2>3. \A j \in Job, x \in Key : Wanted(j, x)' = Wanted(j, x)
    BY <2>1 DEF Wanted, Unfinished
  <2>4. \A j \in Job, x \in Key : Wanted(j, x) => idem[x] = j
    BY <2>1, <2>2 DEF KeyInv
  <2>5. asked[c] \in Key /\ cjob[c] = idem[asked[c]]
    BY <2>1 DEF KeyInv
  <2>6. CASE IsActive(cjob[c])
    <3>1. cpc'[c] = "idle"
      BY <1>2, <2>6 DEF CheckExisting, Leave, IInv, TypeOK
    <3>2. QED
      BY <2>1, <2>2, <2>3, <2>4, <3>1 DEF KeyInv
  <2>7. CASE ~IsActive(cjob[c])
    <3>1. cpc'[c] = "write" /\ asked' = asked
      BY <1>2, <2>7 DEF CheckExisting, IInv, TypeOK
    <3>2. \A j \in Job : ~Wanted(j, asked[c])
      BY <2>4, <2>5, <2>7 DEF Wanted, Unfinished, IsActive
    <3>3. QED
      BY <2>1, <2>2, <2>3, <2>4, <3>1, <3>2 DEF KeyInv
  <2>8. QED
    BY <2>6, <2>7
<1>3. ASSUME NEW c \in Client, WriteRecord(c) PROVE KeyInv'
  <2>1. PICK n \in Job :
          /\ record[n] = NoRecord
          /\ record' = [record EXCEPT ![n] =
                          [status |-> "PENDING", attempts |-> 0, key |-> asked[c]]]
          /\ cjob' = [cjob EXCEPT ![c] = n]
    BY <1>3 DEF WriteRecord
  <2>2. \A d \in Client : d = c
    BY DEF OneCaller
  <2>3. /\ cpc[c] = "write" /\ UNCHANGED <<idem, asked>>
        /\ cpc'[c] = (IF asked[c] = NoKey THEN "push" ELSE "setkey")
        /\ cjob'[c] = n
    BY <1>3, <2>1 DEF WriteRecord, IInv, TypeOK
  <2>4. /\ record'[n].key = asked[c]
        /\ \A j \in Job \ {n} : record'[j] = record[j]
    BY <2>1 DEF IInv, TypeOK
  <2>5. \A j \in Job \ {n}, x \in Key : Wanted(j, x)' = Wanted(j, x)
    BY <2>4 DEF Wanted, Unfinished
  <2>6. \A x \in Key : Wanted(n, x)' => x = asked[c]
    BY <2>4 DEF Wanted
  <2>7. \A j \in Job, x \in Key : Wanted(j, x) => idem[x] = j
    BY <2>2, <2>3 DEF KeyInv
  <2>8. asked[c] \in Key \union {NoKey}
    BY DEF IInv, TypeOK
  <2>9. CASE asked[c] = NoKey
    <3>1. \A x \in Key : x # asked[c]
      BY <2>9, NoneAssumption
    <3>2. QED
      BY <2>2, <2>3, <2>5, <2>6, <2>7, <2>9, <3>1 DEF KeyInv
  <2>10. CASE asked[c] # NoKey
    <3>1. \A j \in Job : ~Wanted(j, asked[c])
      BY <2>3, <2>8, <2>10 DEF KeyInv
    <3>2. \A j \in Job, x \in Key : Wanted(j, x)' => idem'[x] = j \/ j = n
      BY <2>3, <2>5, <2>7
    <3>3. \A j \in Job : Wanted(j, asked[c])' => j = n
      BY <2>3, <2>5, <2>8, <2>10, <3>1
    <3>4. cpc'[c] = "setkey"
      BY <2>3, <2>10
    <3>5. QED
      BY <2>2, <2>3, <3>2, <3>3, <3>4 DEF KeyInv
  <2>11. QED
    BY <2>9, <2>10
<1>4. ASSUME NEW c \in Client, SetKey(c) PROVE KeyInv'
  <2>1. /\ cpc[c] = "setkey" /\ UNCHANGED <<record, asked, cjob>>
        /\ idem' = [idem EXCEPT ![asked[c]] = cjob[c]]
        /\ cpc'[c] = "push"
    BY <1>4 DEF SetKey, IInv, TypeOK
  <2>2. \A d \in Client : d = c
    BY DEF OneCaller
  <2>3. asked[c] \in Key /\ record[cjob[c]].key = asked[c]
    BY <2>1 DEF IInv, ClientInv, ClientOK
  <2>4. idem'[asked[c]] = cjob[c] /\ \A x \in Key \ {asked[c]} : idem'[x] = idem[x]
    BY <2>1, <2>3 DEF IInv, TypeOK
  <2>5. \A j \in Job, x \in Key : Wanted(j, x)' = Wanted(j, x)
    BY <2>1 DEF Wanted, Unfinished
  <2>6. \A j \in Job, x \in Key : Wanted(j, x) => idem'[x] = j
    <3> SUFFICES ASSUME NEW j \in Job, NEW x \in Key, Wanted(j, x) PROVE idem'[x] = j
      OBVIOUS
    <3>1. CASE x = asked[c]
      BY <2>1, <2>4, <3>1 DEF KeyInv
    <3>2. CASE x # asked[c]
      <4>1. j # cjob[c]
        BY <2>3, <3>2 DEF Wanted
      <4>2. QED
        BY <2>2, <2>4, <3>2, <4>1 DEF KeyInv
    <3>3. QED
      BY <3>1, <3>2
  <2>7. QED
    BY <2>1, <2>2, <2>5, <2>6 DEF KeyInv
<1>5. ASSUME NEW c \in Client, Push(c) PROVE KeyInv'
  <2>1. cpc[c] = "push" /\ UNCHANGED <<record, idem>> /\ cpc'[c] = "idle"
    BY <1>5 DEF Push, Leave, IInv, TypeOK
  <2>2. \A d \in Client : d = c
    BY DEF OneCaller
  <2>3. \A j \in Job, x \in Key : Wanted(j, x)' = Wanted(j, x)
    BY <2>1 DEF Wanted, Unfinished
  <2>4. QED
    BY <2>1, <2>2, <2>3 DEF KeyInv
<1>6. ASSUME NEW w \in Worker, WorkerStep(w) \/ Stop(w) \/ Restart(w) PROVE KeyInv'
  <2>1. /\ \A j \in Job, k \in Key : Wanted(j, k)' => Wanted(j, k)
        /\ UNCHANGED <<idem, cpc, asked, cjob>>
    BY <1>6, WorkerKeeps
  <2>2. \A c \in Client : cpc[c] = "setkey" => asked[c] \in Key
    BY DEF IInv, ClientInv, ClientOK
  <2>3. QED
    BY <2>1, <2>2 DEF KeyInv
<1>7. CASE UNCHANGED vars
  BY <1>7 DEF vars, KeyInv, Wanted, Unfinished
<1>8. QED
  BY <1>1, <1>2, <1>3, <1>4, <1>5, <1>6, <1>7 DEF Next, ClientStep

(* A caller that finds no job in progress under its key leaves one, and only *)
(* one, however many workers run, retry and restart meanwhile - as long as   *)
(* there is one caller at a time and nothing fails (enqueue).                *)
THEOREM KeysDeduplicate == OneCaller /\ Spec => []OneActiveJobPerKey
<1>1. Init => KeyInv
  BY DEF Init, KeyInv, Wanted, Unfinished
<1>2. [Next]_vars => [NextF]_vars
  BY DEF NextF
<1>3. CASE OneCaller
  <2>1. IInv /\ KeyInv /\ [Next]_vars => KeyInv'
    BY <1>3, KeyStep
  <2>2. IInv /\ KeyInv => OneActiveJobPerKey
    BY <1>3, KeyInvFacts
  <2>3. QED
    BY <1>1, <1>2, <2>1, <2>2, InitIInv, NextIInv, PTL DEF Spec
<1>4. QED
  BY <1>3
=============================================================================
