-------------------------- MODULE ReadThroughCache --------------------------
(***************************************************************************)
(* One key of the Redis cache (app/services/cache.py) as the endpoints of   *)
(* app/api/main.py use it: GET /predictions/{fixture} against POST          *)
(* /forecast, and GET /competitions against the four ways to run a sync.    *)
(* What the database would answer is a version number that every commit     *)
(* which changes the answer increases.  Redis and database commands are     *)
(* separate steps, Redis may fail at any of them, and time passes.          *)
(***************************************************************************)
EXTENDS Naturals

CONSTANTS
  Reader,       \* requests that read through the cache
  Writer,       \* requests and jobs that commit, then delete the key
  Scheduled,    \* run_scheduled_sync: commits and does not delete the key
  Ttl,          \* settings.cache_default_ttl_seconds
  Delay,        \* longest time between a reader's query and its SET
  MaxVersion,   \* bound on commits
  MaxTime       \* bound on time

ASSUME TimeAssumption ==
  /\ Ttl \in Nat \ {0}
  /\ Delay \in Nat
  /\ MaxVersion \in Nat
  /\ MaxTime \in Nat
ASSUME WriterAssumption == Writer \intersect Scheduled = {}

Committer == Writer \union Scheduled
Version == 0..MaxVersion
Time == 0..MaxTime
Entry == [val : Version, exp : Nat]
NoEntry == [val |-> MaxVersion + 1, exp |-> 0]

VARIABLES
  now,          \* the clock Redis expires keys by
  db,           \* the version the database holds
  replacedAt,   \* when a version stopped being the current one
  cache,        \* the key's entry, or NoEntry
  finished,     \* the newest version some writer has reported as done
  rpc,          \* where each reader is
  val,          \* the version it is about to cache or to answer with
  readAt,       \* when it queried the database
  need,         \* `finished` when its request came in
  wpc,          \* where each committer is
  wrote         \* the version of its last commit, or 0

dbVars == <<db, replacedAt, finished>>
readerVars == <<rpc, val, readAt, need>>
writerVars == <<wpc, wrote>>
vars == <<now, db, replacedAt, cache, finished, rpc, val, readAt, need, wpc, wrote>>

Init ==
  /\ now = 0
  /\ db = 0
  /\ replacedAt = [v \in Version |-> 0]
  /\ cache = NoEntry
  /\ finished = 0
  /\ rpc = [r \in Reader |-> "idle"]
  /\ val = [r \in Reader |-> 0]
  /\ readAt = [r \in Reader |-> 0]
  /\ need = [r \in Reader |-> 0]
  /\ wpc = [w \in Committer |-> "idle"]
  /\ wrote = [w \in Committer |-> 0]

-----------------------------------------------------------------------------
(* The cached value decides: answer with it, or go on to the database.       *)
(* A Redis error (ok = FALSE) counts as a miss.                              *)
Lookup(r, ok) ==
  /\ rpc[r] = "idle"
  /\ need' = [need EXCEPT ![r] = finished]
  /\ IF ok /\ cache # NoEntry
       THEN /\ val' = [val EXCEPT ![r] = cache.val]
            /\ rpc' = [rpc EXCEPT ![r] = "answer"]
       ELSE /\ rpc' = [rpc EXCEPT ![r] = "query"]
            /\ UNCHANGED val
  /\ UNCHANGED <<now, dbVars, cache, readAt, writerVars>>

Query(r) ==
  /\ rpc[r] = "query"
  /\ val' = [val EXCEPT ![r] = db]
  /\ readAt' = [readAt EXCEPT ![r] = now]
  /\ rpc' = [rpc EXCEPT ![r] = "fill"]
  /\ UNCHANGED <<now, dbVars, cache, need, writerVars>>

(* Mutant: SET without ex, so the entry stays.                               *)
FillForever(r, ok) ==
  /\ rpc[r] = "fill"
  /\ cache' = IF ok THEN [val |-> val[r], exp |-> MaxTime + 1] ELSE cache
  /\ rpc' = [rpc EXCEPT ![r] = "answer"]
  /\ readAt' = [readAt EXCEPT ![r] = 0]
  /\ UNCHANGED <<now, dbVars, val, need, writerVars>>

(* set_json; its Redis error is swallowed.                                   *)
Fill(r, ok) ==
  /\ rpc[r] = "fill"
  /\ cache' = IF ok THEN [val |-> val[r], exp |-> now + Ttl] ELSE cache
  /\ rpc' = [rpc EXCEPT ![r] = "answer"]
  /\ readAt' = [readAt EXCEPT ![r] = 0]
  /\ UNCHANGED <<now, dbVars, val, need, writerVars>>

(* The response is sent.                                                     *)
Answer(r) ==
  /\ rpc[r] = "answer"
  /\ rpc' = [rpc EXCEPT ![r] = "idle"]
  /\ val' = [val EXCEPT ![r] = 0]
  /\ need' = [need EXCEPT ![r] = 0]
  /\ UNCHANGED <<now, dbVars, cache, readAt, writerVars>>

-----------------------------------------------------------------------------
(* A forecast or a sync begins.                                              *)
StartWrite(w) ==
  /\ wpc[w] = "idle"
  /\ wpc' = [wpc EXCEPT ![w] = "writing"]
  /\ wrote' = [wrote EXCEPT ![w] = 0]
  /\ UNCHANGED <<now, dbVars, cache, readerVars>>

(* A commit that changes the answer.  A forecast makes one, or none when it  *)
(* finds no model; a sync makes as many as there are competitions to change. *)
Commit(w) ==
  /\ wpc[w] = "writing"
  /\ db < MaxVersion
  /\ db' = db + 1
  /\ replacedAt' = [replacedAt EXCEPT ![db] = now]
  /\ wrote' = [wrote EXCEPT ![w] = db + 1]
  /\ UNCHANGED <<now, cache, finished, readerVars, wpc>>

(* The caller is told: what w wrote is there for everybody.                  *)
Report(w) ==
  /\ finished' = IF wrote[w] > finished THEN wrote[w] ELSE finished
  /\ wpc' = [wpc EXCEPT ![w] = "idle"]
  /\ wrote' = [wrote EXCEPT ![w] = 0]

(* Mutant: the deletion is left out.                                         *)
FinishBare(w, ok) ==
  /\ w \in Writer
  /\ wpc[w] = "writing"
  /\ Report(w)
  /\ UNCHANGED <<now, db, replacedAt, cache, readerVars>>

(* delete after the last commit; its Redis error is swallowed.               *)
Finish(w, ok) ==
  /\ w \in Writer
  /\ wpc[w] = "writing"
  /\ cache' = IF ok THEN NoEntry ELSE cache
  /\ Report(w)
  /\ UNCHANGED <<now, db, replacedAt, readerVars>>

(* run_scheduled_sync logs its report and returns.                           *)
FinishScheduled(w) ==
  /\ w \in Scheduled
  /\ wpc[w] = "writing"
  /\ Report(w)
  /\ UNCHANGED <<now, db, replacedAt, cache, readerVars>>

(* The work raises after some of its commits, or its process dies: nobody    *)
(* gets as far as the deletion, and nobody is told it is done.               *)
WriteFails(w) ==
  /\ wpc[w] = "writing"
  /\ wpc' = [wpc EXCEPT ![w] = "idle"]
  /\ wrote' = [wrote EXCEPT ![w] = 0]
  /\ UNCHANGED <<now, dbVars, cache, readerVars>>

-----------------------------------------------------------------------------
(* Redis drops the entry when its time is over.  No reader sits on a value   *)
(* for longer than Delay.                                                    *)
Tick ==
  /\ now < MaxTime
  /\ \A r \in Reader : rpc[r] = "fill" => now < readAt[r] + Delay
  /\ now' = now + 1
  /\ cache' = IF cache.exp <= now + 1 THEN NoEntry ELSE cache
  /\ UNCHANGED <<dbVars, readerVars, writerVars>>

ReaderStep(r) ==
  \/ Lookup(r, TRUE)
  \/ Query(r)
  \/ Fill(r, TRUE)
  \/ Answer(r)

WriterStep(w) ==
  \/ StartWrite(w)
  \/ Commit(w)
  \/ Finish(w, TRUE)

Next ==
  \/ Tick
  \/ \E r \in Reader : ReaderStep(r)
  \/ \E w \in Committer : WriterStep(w) \/ FinishScheduled(w)

NextF ==
  \/ Next
  \/ \E r \in Reader : Lookup(r, FALSE) \/ Fill(r, FALSE)
  \/ \E w \in Committer : Finish(w, FALSE) \/ WriteFails(w)

(* One request at a time: the others are idle while one is under way.        *)
ReadersIdle == \A r \in Reader : rpc[r] = "idle"
WritersIdle == \A w \in Committer : wpc[w] = "idle"

NextSerial ==
  \/ Tick
  \/ \E r \in Reader :
       /\ WritersIdle
       /\ \A q \in Reader : rpc[q] # "idle" => q = r
       /\ ReaderStep(r)
  \/ \E w \in Committer :
       /\ ReadersIdle
       /\ \A u \in Committer : wpc[u] # "idle" => u = w
       /\ WriterStep(w) \/ FinishScheduled(w)

Spec == Init /\ [][Next]_vars
SpecF == Init /\ [][NextF]_vars
SpecSerial == Init /\ [][NextSerial]_vars

-----------------------------------------------------------------------------
TypeOK ==
  /\ now \in Time
  /\ db \in Version
  /\ replacedAt \in [Version -> Time]
  /\ cache \in Entry \union {NoEntry}
  /\ finished \in Version
  /\ rpc \in [Reader -> {"idle", "query", "fill", "answer"}]
  /\ val \in [Reader -> Version]
  /\ readAt \in [Reader -> Time]
  /\ need \in [Reader -> Version]
  /\ wpc \in [Committer -> {"idle", "writing"}]
  /\ wrote \in [Committer -> Version]

-----------------------------------------------------------------------------
(* "Never the source of truth: every cached value is a TTL'd copy": whatever *)
(* fails and whoever forgets to invalidate, an entry outlives the version it *)
(* copies by less than its time to live and the time its reader sat on it.   *)
BoundedStaleness ==
  cache # NoEntry /\ cache.val # db => now < replacedAt[cache.val] + Delay + Ttl

(* "Invalidated the moment a sync could have changed one" and "by POST       *)
(* /forecast, not left to expire stale": a request that comes in after a     *)
(* writer has reported is answered with what that writer wrote, or newer.    *)
ReadsSeeFinishedWrites ==
  \A r \in Reader : rpc[r] = "answer" => val[r] >= need[r]
=============================================================================
