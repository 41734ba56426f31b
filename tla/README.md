# Noeo Sports: models, checks and proofs

TLA+ specifications of the Noeo Sports backend (`src/app`), the TLC
configurations that check them on small instances, and TLAPS proofs of the
main results for every value of the constants. Paths below are relative to the
repository, with the prefix `src/`.

Contents: [the system](#1-the-system), [modules](#2-modules),
[job queue](#3-job-queue), [model registry](#4-model-registry),
[read-through cache](#5-read-through-cache), [forecasting](#6-forecasting),
[full sync](#7-full-sync), [season data and movements](#8-season-data-and-movements),
[access](#9-access), [evaluation and simulation](#10-evaluation-and-simulation),
[runs](#11-runs), [proofs](#12-proofs), [findings](#13-findings),
[not modelled](#14-not-modelled), [plan](#15-plan),
[how to run it](#16-how-to-run-it).

## 1. The system

The backend is one FastAPI application (`app/api/main.py`) over SQLAlchemy
sessions and Redis. Three things make it concurrent. Request handlers are
plain functions that run in a thread pool, each with a session of its own.
Every API process starts one background worker task (`lifespan`). And a full
sync can be started in four ways that know nothing of each other: `POST /sync`
in the request, `POST /jobs/sync` through the queue, the scheduler process
(`app/services/scheduler.py`) and `scripts/run_sync.py`. No lock, `SELECT ...
FOR UPDATE` or version column protects any row; one operation is usually
several commits.

### Components, their state and operations

| Component | State | Operations | What is hard about it |
|---|---|---|---|
| Async job queue (`services/job_queue.py`, `job_handlers.py`) | Redis list `jobs:queue`, a JSON record per job, an idempotency key per deduplicated request, dead-letter list | `enqueue`, `process_next`, `_run`, `run_forever`, shutdown | competing workers and callers, each operation several Redis commands, death between any two, retries |
| Model version registry (`model_version_registry.py`) and champion/challenger gate (`champion_challenger.py`) | `model_versions` rows: status, disabled reason, training window; events and audit entries | `stage_challenger`, `promote`, `reject_challenger`, `persist_goal_fit`, `record_disabled`, rollback | the champion is read, models are fitted for seconds, then rows change in several commits; two syncs and an administrator may do so at once |
| Redis read-through cache (`cache.py`, its uses in `main.py`) | one key per fixture, one for the competition list | look up, query and fill; commit and delete | fill against invalidation, Redis errors that are swallowed, writers that do not invalidate |
| Forecast generation (`forecast_service.py`), prediction registry, ensemble weights (`ensemble.py`) | `predictions` and their snapshots, `model_weights` | `generate`, `POST /forecast`, `learn_weights` | models are promoted, rejected and rolled back between the reads that make one forecast |
| Model training (`model_training.py`, `market_models.py`, `xg_model.py`) | writes the registry | one cycle per model and sync, in a fixed order | see registry; order matters to the ensemble |
| Full sync (`sync_orchestrator.py`, `sync_report.py`, `scheduler.py`) | everything below it, plus the report and a `SystemEvent` | `run`, `_sync_competition` | exceptions on a shared session, concurrent triggers, a report that must be honest |
| Discovery, season detection, lifecycle (`competition_discovery.py`, `season_detection.py`, `data_quality.py`) | `competitions`, `seasons`, quality status, lifecycle state | `run`, `evaluate` | two services write one state machine; the last season evaluated wins |
| Fixture, result and team sync (`fixture_sync.py`, `team_mapping.py`) | `fixtures`, `results`, statistics, `teams`, aliases | `sync`, `sync_teams` | provider errors half-way, results of fixtures that change status |
| Movement detection (`movement_detection.py`) | promotion and relegation events | `detect` | set algebra over rosters of two seasons that may be stored in part |
| Backtesting (`backtesting.py`) | metric rows per version | `run`, `run_gbdt` | expanding windows, skipped folds, the row goes to whatever is live by then |
| Calibration and conformal intervals (`calibration.py`, `conformal_calibration.py`) | rows per champion version | fit and upsert, in several commits | tied to a version that may be replaced in between |
| Drift, OOD and shock flags (`drift_detection.py`, `ood_detection.py`, `shock_detection.py`) | monitoring rows, alarms | thresholds over stored numbers | rows and alarms are separate commits; which version is "the previous one" |
| Accounts (`auth.py`, `api_keys.py`, `audit.py`, `rate_limiter.py`, endpoints in `main.py`) | users, API keys, audit log, attempts in memory | login, authenticate, create, update, revoke | sessions that write what they read earlier, the sliding window's boundary, a limiter shared by threads |
| Simulation and scenarios (`simulation.py`, `scenario_engine.py`) | runs with their standings | Monte Carlo over a season that a sync is updating | fixtures and results read at different moments; tie-breaks and cutoffs |
| Goal models and score matrix (`app/models`, `app/forecasting`) | none | fitting, convolution | floating point |
| Providers (`app/data/providers`) | none | I/O, retries, a mock schedule | external data |
| API reads, schemas, logging, database declarations, frontend, scripts | none of their own | queries and presentation | |

### How they interact

    POST /jobs/sync ──> job queue ──┐
    POST /sync ─────────────────────┤
    scheduler, script ──────────────┴─> full sync
        full sync ─> discovery ─> teams, fixtures, quality ─> training ─> registry + gate
                  ─> markets, backtest ─> ensemble weights ─> calibration, drift
    POST /forecast ──> reads registry, weights, quality ─> stores a prediction ─> deletes its cache key
    GET /predictions, GET /competitions ──> cache ──> database
    POST /model-versions/{id}/rollback ──> registry, audit log

Everything is called synchronously. What crosses threads and processes is the
database, committed step by step, and Redis, command by command; the step of
the models is therefore one Redis command, one SELECT whose result is used
later, or one commit.

### What makes each component correct

* Job queue: a job is worked on by one worker at a time, tried at most
  `job_max_retries + 1` times, never forgotten while nothing crashes, finished
  in the end; the dead-letter list tells the truth; a key leads to its own
  job and an active key to one job.
* Registry: at most one live version and one challenger per slot; the gate
  replaces what it compared with; a rejection leaves the live version alone; a
  trained slot does not go dark; decisions and rollbacks leave their trace.
* Cache: staleness is bounded whatever fails; without failures a finished
  write is seen by every later request.
* Forecasting: a forecast that passed validation has not learned from its own
  result, names the model it used, and is not answered with an older one.
* Full sync: what is not stored is in the report, but for fixtures whose teams
  are not named; with the same exception OK is true and stays true; what is
  derived belongs to what is stored, one competition cannot stop the others.
* Season data: the state of a competition and its quality never contradict each
  other; nothing is ACTIVE without data; one season is current; no name is lost;
  a movement that is recorded happened, and one that happened is recorded.
* Access: the audit log tells what the rows are; uses are counted; a revoked key
  stays revoked; the limiter lets no more through than it says.
* Evaluation: no prediction has seen what it predicts; a version's intervals are
  of one backtest; alarms and monitoring rows agree; a simulated table is a
  league table.

`PROJECT.json` lists the hazards behind these, each at its line, with the
properties that cover it or the reason why none does.

## 2. Modules

| Module | Content |
|---|---|
| `JobService` | what the queue promises about one job |
| `JobQueue` | the Redis protocol; implements `JobService` |
| `JobQueueProofs` | its invariants and the refinement, proved |
| `ModelRegistry`, `ModelRegistryProofs` | one (model, competition) slot of `model_versions` |
| `ReadThroughCache`, `ReadThroughCacheProofs` | one cache key with its readers and writers |
| `Forecasting`, `ForecastingProofs` | the forecasts of one competition against its syncs and rollbacks |
| `FullSync`, `FullSyncProofs` | the runs of the whole pipeline: calls, sessions, commits, the report |
| `SeasonData` | the rows of one competition: seasons, fixtures, a team's names, quality, lifecycle |
| `Movement` | promotion and relegation between the seasons stored |
| `SeasonDataProofs` | both: names, the current season, state and quality, the movements |
| `Access`, `AccessProofs` | accounts, tokens, API keys, the limiter, the audit log |
| `Evaluation` | backtest, calibration, intervals and drift of the live version |
| `Simulation` | one iteration of a season simulation while a sync goes on |
| `EvaluationProofs` | both: folds, intervals and alarms; the table |
| `MC...` | instances for TLC: symmetry sets; where one run looks at several parts that do not read each other, a variable `focus` chosen at the start says at which, so that their state spaces add up instead of multiplying |

Every module carries its failures as separate next-state relations (`NextF`)
so that a property is claimed under exactly the failures it survives, and
proofs are never about a weaker system than the runs. Small wrong versions of
single actions, marked "Mutant" and used by no specification, sit next to the
action they distort; replacing the action by its mutant makes TLC refute the
property named in `PROJECT.json`, which shows that the property depends on
that piece of code.

## 3. Job queue

`JobQueue` is `app/services/job_queue.py` with `Client` callers of `enqueue`
and `Worker` tasks of `run_forever`, one worker per API process.

| Model | Code |
|---|---|
| `queue`, `record`, `idem`, `deadLetter` | `jobs:queue` (LPUSH/BRPOP), `jobs:status:<id>`, `jobs:idempotency:<key>`, `jobs:dead_letter` |
| `cpc`, `asked`, `cjob` | where a caller is in `enqueue`, its key, its job id |
| `wpc`, `held`, `copy` | where a worker is, the id it popped, its local `record` dict |
| `Enqueue`, `CheckExisting` | the GET of the key, the GET of the record it leads to |
| `WriteRecord`, `SetKey`, `Push` | the three writes of a new job |
| `Pop`, `ReadRecord`, `MarkRunning` | BRPOP, GET, SET with the attempt counted |
| `HandlerReturns`, `HandlerRaises` | the handler's outcome, computed into the local dict |
| `WriteOutcome`, `Requeue`, `Bury` | SET of the outcome, LPUSH for a retry or onto the dead-letter list |
| `Stop`, `Restart` | `stop_event` (looked at between two jobs), `lifespan` |
| `ClientFails`, `WorkerFails` | the process dies, or Redis raises (neither `enqueue` nor `run_forever` catches it) |
| `KeyExpires` | the key's TTL |

A record keeps the status, the attempt count and the key; payload, result,
error and timestamps decide nothing. Job ids are never reused, so the finite
set `Job` bounds the number of enqueues. Records are written without a TTL
(`_write`), so none vanishes under a queued id; only keys expire.

`JobService` states the promise of the module's docstring about one job:
submitted once, started at most `MaxRetries + 1` times, never twice at once,
`SUCCEEDED` or `FAILED` for good, a dead letter at most once and only after the
last try. `JobQueue` maps `phase` and `tries` to the record and `dead` to the
list; the refinement holds with every failure.

Fairness (`Fairness`): weak fairness of each caller's and each worker's own
steps, and of `Restart`. Threads that can run do run, and `run_forever` comes
back to BRPOP after every job. That a process stopped gracefully is started
again is an assumption about the operator: with it a redeploy is a `Stop` and a
`Restart`, and `lifespan` starts a worker with every process; without it a
queue nobody serves stays as it is.
`HandlerReturns` and `HandlerRaises` share one fairness condition, so a handler
ends but nothing says how. `EveryJobFinishes` is conditional on the number of
graceful stops being finite: a worker that is stopped the moment it comes back
never works, and the code cannot help that.

## 4. Model registry

`ModelRegistry` is the `model_versions` rows of one slot. `Trainer` are the
syncs that may train it at the same time, `Admin` the administrators.

| Model | Code |
|---|---|
| `status`, `reason`, `cutoff` | `ModelVersion.status`, `disabled_reason`, `training_window_end` as the number of completed matches it was fitted on |
| `event`, `audited` | the decision's `SystemEvent`, the rollback's audit entry |
| `champ`, `seen`, `sel`, `mine`, `goal` | what a process has read and not yet used |
| `Begin` | reading the matches and the eligibility test |
| `ReadChampion`, `FitFails` | `get_champion` before fitting; a boosting library that raises |
| `StageSelect`, `Stage` | `stage_challenger`'s SELECT and commit, then the gate's verdict (`Verdicts`) |
| `SelectLive`, `Retire` | `retire_active`'s SELECT and commit |
| `Promote`, `Reject`, `Persist`, `Disable` | the second commit of `promote`, `reject_challenger`, `persist_goal_fit`, `record_disabled` |
| `LogDecision`, `Rollback`, `RecordAudit` | `_log_decision`; `rollback_model` with its audit entry |
| `Fails` | an exception or a death between two commits |

`Gated = TRUE` is a goal model (`model_training.py`: the gate decides);
`FALSE` is a corners, cards, first-half or xG model, promoted by every retrain.
Which of two log losses is smaller is data, so a comparison with enough evidence
has either verdict; the branches before it are the code's. NULLs of
`trained_at` sort differently in SQLite and PostgreSQL: `Champions` allows
both.

Four specifications: `Spec` (everybody at once), `SpecSerial` (one operation
at a time: the scheduler runs in at most one replica, as `README.md:865` asks,
nothing else syncs meanwhile, and administrators wait for it), and `F` for each with failures. The code promises
nothing that would make the serial case hold; it is the deployment under which
the docstrings are true, and the runs say which of them survive without it.

## 5. Read-through cache

`ReadThroughCache` is one key. A database state is a version number that every
commit which changes the answer increases. `Reader` are `GET
/predictions/{fixture}` or `GET /competitions`; `Writer` are `POST /forecast`,
or `POST /sync`, `POST /competitions/discover` and the queued sync; `Scheduled`
is `run_scheduled_sync`, which commits and deletes nothing.

| Model | Code |
|---|---|
| `Lookup`, `Query`, `Fill`, `Answer` | `get_json`, the query, `set_json` with `ex`, the response |
| `StartWrite`, `Commit`, `Finish` | the work, its commits, `delete` and the response |
| `FinishScheduled`, `WriteFails` | the scheduler's return; work that raises or dies before the deletion |
| the `ok` parameter | `RedisError` at a command, swallowed by `cache.py` |
| `Tick` | time; Redis drops expired entries |

`finished` is the newest version some caller has been told of and `need` what
a reader may therefore expect. `Delay` bounds how long a reader sits between
query and SET; without such a bound no staleness bound exists. The bound
proved is `Ttl + Delay`, so the reader's own time is part of the claim.

## 6. Forecasting

`Forecasting` composes what a forecast reads with what a sync and a rollback
write, for one competition with `Models` goal models. It uses the registry's
slot as its live version, so it has one sync or rollback at a time; what two of
them do to one slot is `ModelRegistry`'s subject.

| Model | Code |
|---|---|
| `live`, `fitted`, `window` | ENABLED version, stored versions, training window of each sync's fits |
| `weights` | `model_weights` rows |
| `BeginSync`, `Promotes`, `Rejects`, `Disables`, `Swap`, `Enable` | `train()` in its order: dixon_coles, the other goal models, then gradient boosting; `promote`'s two commits |
| `ClearWeights`, `LearnWeights` | `ensemble.py` |
| `Rollback`, `JobFails` | the endpoint; a sync that dies |
| `Receive`, `Gate`, `Blend`, `Save`, `Respond` | `generate`: `predicted_at`, the dixon_coles champion and the gate, the pooled members, the commit; the endpoint's lookup |

Assumptions: matches complete in kickoff order and do not go away, so a
training window is a number; a sync is named by its number. Scores,
calibration and diagnostics only annotate a forecast and are left out.
`SpecAtomic` keeps a sync's commits out of the gap between a forecast's two
reads; `Spec` does not.

## 7. Full sync

`FullSync` is `FullSyncService.run` with the services it calls, for any number
of runs at a time, each with its session. Contents are version numbers: the
provider's grow, `stored` has for each competition some version of its teams,
fixtures and results, and `derived` remembers which stored matches a product
was computed from. A run that does not succeed entirely leaves older versions
in places, and the properties are about how they relate.

| Model | Code |
|---|---|
| `offered`, `listing`, `stored`, `derived` | the provider; competitions and seasons; teams, fixtures, results; quality, league parameters, models, ensemble weights |
| `pc`, `stage`, `comp`, `todo` | where a run is in `run`, `_sync_competition` and the service it has called |
| `want`, `saw` | rows changed in the session and not committed, and what was stored when they were looked up |
| `errs`, `lost`, `report` | what is noted by competition: "listed" and "exception" are in the report's lists (`InReport`), "skipped" is a warning in the log only; a failed `competitions()`; `system_status` |
| `Undrawn` | versions of a competition in which the provider does not name the teams of some fixture |
| `Begin`, `Discover`, `DiscoveryFails`, `Announce` | `CompetitionDiscoveryService.run`: its calls, then its commit; `broken` are the competitions whose `seasons()` fails |
| `Pick`, `AllPicked`, `Finish` | the loop, the movements, the last event and commit |
| `LoadTeams`, `LoadFixtures`, `LoadResults`, `Commit` | `sync_teams` and `FixtureSyncService.sync`: rows changed in the session, then one commit |
| `TeamsFail`, `FixturesFail` | a provider call that fails and is listed; the season goes on |
| `Compute`, `Store`, `Look` | each derived product read and committed; drift, which only reports |
| `Raises` | any other exception, caught at line 116; the session keeps what was prepared, and the next commit writes it |
| `Aborts`, `AnnounceCollides`, `FinishCollides` | a unique constraint fails the flush, inside and outside that handler |
| `Dies` | a database that cannot be reached, an exception outside the loop, the end of the process |

A failed flush leaves the session's transaction inactive until `rollback()`,
which nothing calls, and expires what it has loaded; the handler's own access
to the competition (line 117) therefore raises `PendingRollbackError`, and the
run ends. That is SQLAlchemy's behaviour, not this repository's, and the only
external fact the module uses.

`Overtaken` and `Taken` say when a constraint *may* fail, by versions: an
insertion and an update are not told apart, so a commit may also succeed where
they hold.

`_upsert_fixture` leaves a fixture out when one of its teams is not stored
(`fixture_sync.py:103-106`). There are two ways to come to that. The stored
teams may be behind the provider's fixtures, for instance because `teams()`
failed: `Storable` is what the fixtures can then be stored at, the whole of
what the provider sends or the part whose teams are known. Or the provider does
not name the teams, as football-data.org for a tie that is not drawn
(`football_data_org.py:179-180` makes it the id `None`): `Undrawn`, and then no
success of `teams()` helps. Either way the fixture's id goes to
`skipped_missing_team`, which `sync_orchestrator.py:160-167` copies into none of
the lists `system_status` looks at: **the report of a run that left fixtures out
for this reason may be OK**. `NoSilentGap` and `HonestReport` therefore leave
fixtures without named teams out of what they promise: a version counts as
stored when all of it but those fixtures is (`UpToDate`), and `NoSilentGap`
requires no more than the log's warning for them (`Drawn`). Fixtures left out
because the stored teams are behind are not excepted: of those the properties
say that the failed `teams()` is in the report.

The two seasons of a competition that are synced (active and last finished) go
through the same steps one after the other; one stands for both.

`Spec` lets runs overlap. `SpecSerial` has one run at a time, as for the
registry, and only there the report is worth something: with two,
`SyncOverwritten.cfg` shows an OK report of a run that stored less than it says.

## 8. Season data and movements

`SeasonData` is what the runs of a full sync store about one competition;
`FullSync` has the failures and commits of a whole run over several
competitions, here are the rows.

| Model | Code |
|---|---|
| `season`, `dated` | `Season.status`, and whether it has dates |
| `row` | a `Fixture` with its season and status, and whether it has a `Result` |
| `name`, `alias`, `called` | `Team.current_name`, its `TeamAlias` rows, the names it has had |
| `status`, `quality` | `Competition.status`, `Competition.data_quality_status` |
| `expected` | `expected_fixture_count` of the competition's format; 0 when there is none (`UNKNOWN`, which is what football-data.org's competitions all are) |
| `found`, `known` | the rows a discovery, or `sync_teams`, has selected and not yet written |
| `Current`, `SeasonStatus` | `detect_season_window`, `infer_season_status` |
| `LoadCompetition`, `Discover`, `SeasonsFail`, `DiscoveryFails`, `Noticed` | `CompetitionDiscoveryService`: the queries; the commit of what differs from them, for a report with and without dates, as of a day in between; `seasons()` or `competitions()` that fails |
| `Pick` | `_relevant_seasons`: the active season, then the one finished last |
| `LoadTeam`, `SyncTeams`, `Rename`, `TeamsFail` | `_upsert_team`: the query, the commit |
| `SyncFixtures`, `Upserted`, `FixturesFail` | `_upsert_fixture`, `_upsert_result`: listed or not, with both teams known or not, goals plausible or not |
| `Metrics`, `Reaches`, `StatusForScore`, `Grade` | the five metrics, those without a basis left out; their mean against the thresholds, 0 when there is none; the commit of the season's own row |
| `LoadLifecycle`, `Moved`, `MoveLifecycle` | `_update_competition_lifecycle`: the read and the write |
| `Archive` | external: nothing in the repository archives a competition, discovery brings it back |

A season is one day of play with a day off before it, so that every position of
today relative to the seasons occurs. Freshness is 0, 50 or 100 per cent, and
100 after a fetch. Source reliability and team completeness are full marks for
what any provider in the repository can send. A metric without a basis is
dropped, as in `evaluate`: without results, without fixtures, without an
expected count. A season without fixtures of a format without such a count has
no metric at all, and its score is 0 (`data_quality.py:63`); the mutant
`ReachesVacuously` is a mean that is vacuously high.

Discovery, teams and the lifecycle select in one step and commit in another.
`SyncFixtures` and `Grade` are one step each, and discovery flushes the
competition's row before it reads the seasons, which a database that locks rows
turns into a wait. So nothing but types is claimed of runs that overlap: `Spec`
has them, for `TypeCorrect` and `SeasonMixed.cfg`; all else is about
`SpecSerial`, one run at a time, that may fail or die anywhere.

`Movement` is the detection that reads those rows. `place` is where a team
really plays each season; the code sees it only through stored fixtures
(`listed`) and the seasons the last discovery left `active` and `finished`.
`ReadRosters` is one competition of the loop; `Neighbours` are adjacent divisions
of a country; `Moves`, `Departures`, `Arrivals` and `Record` are the events and
their commit. They are recorded again by every sync; the model keeps the last.

* `MovesAreReal` compares each event with `place`; `MovesAreComplete` compares
  all events with `Truth`, which is written from the world's side.
* The code decides for each competition by itself which seasons it compares
  (`movement_detection.py:48-56`): the active one, and the finished one that ends
  last. So does `Begin`: `current` says in which season each competition is whose
  discovery succeeds, any season that has been reported and not an earlier one
  than before; `LatestFinished` is then the season before, or, when two or more
  lie ahead, the last of those, which `season_detection.py` calls FINISHED before
  it has begun. Seasons without dates are not modelled here.
* Neighbours that compare different years show moves that never were:
  `SeasonMixed.cfg` with `MovesAreReal` has a behaviour. `MovesAreReal` is
  therefore claimed of `SpecInStep`, where discovery fails for no competition,
  competitions of one country change seasons together, and at most one season
  lies ahead. `MovesAreComplete` has the same two seasons in its precondition
  and is claimed of `Spec`.
* With two divisions of one level in a country (levels 1, 2, 2)
  `MovesAreComplete` fails, because a division is only compared with the next
  one; hence `LevelsDistinct` in the theorem.

## 9. Access

`Access` is `auth.py`, `api_keys.py`, `rate_limiter.py`, `deps.py` and the
account endpoints, with `Caller` requests in the thread pool at a time.

| Model | Code |
|---|---|
| `users`, `keys`, `token` | rows; accounts holding a token that has not expired |
| `attempts` | `RateLimiter._attempts`, of both limiters: by host for logins, by key for requests |
| `task` | where a request is, with what its session has loaded |
| `told`, `keyTold` | what creation and the audit log say a row is |
| `Check`, `Store` | the two halves of `RateLimiter.check`: the list is copied, the copy is stored |
| `Login`, `LoginCounted`, `Password` | `POST /auth/token`; a success resets the host |
| `ByToken`, `ByKey`, `KeyCounted`, `Stamp` | `get_current_user`; a key's row is loaded first, its counter written last |
| `CreateUser`, `LoadUser`, `UpdateUser`, `CreateKey`, `LoadKey`, `UpdateKey` | the endpoints, each with its audit entry in the same commit |
| `CreateAdmin` | `scripts/create_admin.py` |
| `Restart` | the limiter's memory is gone |

SQLAlchemy writes only attributes whose value differs from the one the session
loaded (`Written`); that is why a request under way does not undo a revocation,
and why of two overlapping updates the log can name a change that no row ever
had. `stale` marks rows written while another session had read them to write
them, `raced` buckets in which two checks overlapped; the properties say what
holds without such an overlap, and `AccessRaced.cfg` shows what does not hold
with it.

## 10. Evaluation and simulation

`Evaluation` is what follows training in a full sync, around the question which
version each row goes to.

| Model | Code |
|---|---|
| `played`, `kickoff`, `Tied` | completed matches; which of them kick off together |
| `live`, `born`, `Train`, `Rollback` | the registry as seen from here: four outcomes of training, and an administrator at any moment |
| `Query`, `Fold`, `FinishBacktest` | `run`: the matches by kickoff, the folds, the row at the version live by then |
| `Calibrate` | `CalibrationService.train` |
| `ReadChampion`, `Store` | `ConformalCalibrationService.train`: the champion read once, four commits |
| `Detect`, `Report`, `Alarm` | `DriftDetectionService.run`, the rows' commit and the alarms' |
| `Dies` | the end of the process, or a query that raises |

A prediction is the index of a match and the length of the prefix its fit saw.
Two of the four drift checks stand for all: one that compares the live version
with the newest retired one, one that needs no version. The queries of one check
are one step.

`Simulation` is one iteration of `simulate`: fixtures are read once (`Simulate`),
their results when they are asked for (`AddResult`) while `Sync` may change
both, the rest is drawn (`Draw`), and `Rank` sorts and persists. A drawn score is
any; the iterations differ in nothing else.

## 11. Runs

Twelve runs, one question each. Counts are distinct states.

| Run | Specification | States | Checks | Shows |
|---|---|---|---|---|
| `queue_failures` | `JobQueue!SpecF` | 208,301 | `OnePlacePerJob`, `DeadLetterSound`, `KeyLeadsToItsJob`, `ImplementsJobService` | Two callers, two workers, two keys and two retries, with crashes, Redis errors and key expiry between any two commands: no job is worked on twice at once, the dead-letter list tells the truth, a key leads to its own job, and each job behaves as JobService promises. |
| `queue_good_day` | `JobQueue!FairSpec` | 248,184 | `NoJobStranded`, `DeadLetterComplete`, `OneActiveJobPerKey`, `EveryJobFinishes` | One caller, two workers that may be stopped gracefully and restarted, nothing crashes: no job is forgotten, every dead job is listed, a key has one active job, and with fair callers and workers every job that was recorded reaches SUCCEEDED or FAILED once the stops end. |
| `registry_serial_failures` | `ModelRegistry!SpecSerialF` | 1,526,917 | `AtMostOneLive`, `AtMostOneChallenger`, `GateReplacesWhatItCompared`, `RejectionKeepsTheLive` | One operation on a gated slot at a time, each of which may die between any two commits: there is one live version and one challenger, the gate only replaces the version it compared with, and a rejection changes nothing about what is live. |
| `registry_ungated` | `ModelRegistry!SpecSerial` | 8,057 | `NeverDark` | The corners, cards, first-half and xG slots, promoted on every retrain, one operation at a time with rollbacks: a slot that was ever trained stays explained (live, disabled, or in the middle of an exchange). |
| `registry_concurrent` | `ModelRegistry!Spec` | 1,615,126 | `LosersReturnAudited`, `EveryDecisionLogged` | Two syncs and an administrator at the same time: whatever else they do to each other, a challenger that lost the comparison is live only if an administrator put it there and the audit log says so or is about to, and every decision of the gate has its event. |
| `cache_failures` | `MCReadThroughCache!MCSpec` | 650,934 | `BoundedStaleness`, `CalmReadsSeeFinishedWrites` | Two readers, a writer that invalidates and the scheduler that does not, Redis errors at every command, work that raises, time: no entry outlives the version it copies by as much as the time to live plus the time its reader sat on it; in calm behaviours a request that comes in after a write has reported is answered with it, or newer. |
| `forecast_atomic` | `Forecasting!SpecAtomic` | 821,767 | `NoLeakage`, `SnapshotIsOfTheBlend`, `AnswerIsCurrent` | Two requests, two models, two syncs and rollbacks of the second model, with no commit of a sync between a forecast's two reads and dixon_coles promoted by every sync: what passes validation has not seen its own result, names the model it used, and is what its caller gets or older than what he gets. |
| `forecast_leak` | `Forecasting!SpecAtomic` | 8,119 | `NoLeakage` (violated) | A dixon_coles challenger is rejected while another model's is promoted; the gate tests the old window and the forecast pools a model that has learned from the fixture's own result. |
| `sync_serial` | `FullSync!SpecSerial` | 6,048,704 | `NoSilentGap`, `HonestReport`, `DerivedAgrees` | Two competitions, one of them a cup with ties that are not drawn, one run at a time, any call failing, any step raising or dying while the provider moves on: a competition that is not up to date is in the report, OK means that all of it but the undrawn ties is stored and stays so, and what is derived belongs to what is stored. |
| `season_data` | `MCSeasonData!MCSpecSerial` | 1,239,282 | `TypeOK`, `LifecycleMatchesQuality`, `ActiveIsEarned`, `OneSeasonIsCurrent`, `NamesKept`, `MovesAreReal`, `MovesAreComplete` | Syncs one after the other, any call failing and any run dying: state and quality never contradict each other, ACTIVE takes a stored fixture whether or not its format says how many there are, one season is current, a team is found by every name it had; every recorded promotion happened and, with complete rosters, each is recorded. |
| `access` | `MCAccess!MCSpec` | 853,786 | `TypeOK`, `AuditTellsTheRow`, `UsageCounted`, `AdmittedWithinLimit`, `RevocationSticks` | Two callers at the same time on accounts, on a key and on the limiter, with restarts: an account is what its log says unless two wrote it at once, uses are never over-counted and only lost to overlaps, the window holds where checks do not overlap, and a request in flight never revives a revoked key. |
| `evaluation` | `MCEvaluation!MCSpecSerial` | 1,011,442 | `TypeOK`, `WalksForward`, `IntervalsOfOneBacktest`, `AlarmsMatchRows`, `TableIsTrue` | One sync at a time, dying anywhere, with rollbacks and matches that come and go: predictions have seen nothing that kicks off later, a version's intervals are of one backtest, rows and alarms agree; and a season simulated while a sync updates it ends with a league table. |

### Bounds, and why they are enough

* Queue: two callers and two workers are the least that collide. Two jobs and
  two keys tell one's own job from another's; two retries tell the first, a
  middle and the last attempt apart. The run with liveness has one caller (two
  would violate `OneActiveJobPerKey`, see `JobQueueDuplicate.cfg`), three jobs so
  that a key is used again after a job has finished while another is still
  waiting, and no symmetry.
* Registry: four rows give a live one, a retired one, a challenger and one
  more, so that a second cycle meets what the first left behind. `MinNew = 1`
  and two matches reach all three branches of the gate. With several processes,
  three rows (two cycles and something to fight over).
  `RegistryConcurrent.cfg` turns the deadlock check off: when all rows are used
  and live there is nothing left to do; the code would insert another.
* Cache: two readers and two kinds of writer interleave; `MaxTime = 5` is more
  than `Ttl + Delay = 3`, so an entry can become too old if the code lets it; two
  commits make an entry older than one and than two. `MCReadThroughCache` has
  `calm` behaviours (requests do not overlap, nothing fails, all who write
  invalidate) and others; which, is chosen at the start.
* Forecasting: the second model stands for every model that is not
  dixon_coles; two syncs make an older and a newer version of each, two matches
  a known and an unknown result. The deadlock check is off: requests come once
  and syncs are bounded.
* Full sync: two competitions are what a failure needs to spread from one to
  the other, and leftovers of the first to be committed by the second; with one
  version of the provider they are absent or complete. That more
  of them make no difference, also for a run that meets stored rows of several
  earlier versions, is what the theorems say.
* Season data (`focus`: rows, names, moves): two seasons on four days give a day
  before, in, between and after them; two fixtures, of two expected or of a
  format that says nothing (`Expected = {0, 2}`), make a season empty, half or
  complete, and a result missing or not; two names suffice
  to rename and rename back. One run at a time; two are `SeasonMixed.cfg`.
  Movements: two neighbouring divisions and one of another country, two teams,
  two seasons: a team may rise, fall, leave, arrive, or change country; discovery
  succeeds for all (`NextInStep`). That `MovesAreComplete` does not need this is
  what the theorem says.
* Access (`focus`: accounts, keys, limits): two accounts and two callers are the
  least that overlap; one attempt in a window of two instants, with a third
  instant, puts an attempt on, inside and outside the boundary; lists hold two
  attempts, one more than the limit. A key is used once per behaviour
  (`MaxUse = 1`, with both callers under way), which is what a revocation, an
  overlapping update or a lost count needs.
* Evaluation (`focus`: folds, versions, table): five matches, an initial window
  of two and folds of two give a full fold and a short one, and with fewer
  matches the branch without a backtest; match 4 kicks off with match 3. Two
  cycles make two versions and a rollback; three clubs and two legs make ties
  in points and in goal difference, and a club that does not play. The deadlock
  check is off: a behaviour ends when its cycles are used and nothing else moves.
* Symmetry (callers, workers, jobs, keys; readers and writers; requests;
  accounts; fixtures and teams) is used in runs without
  liveness properties only. In `access` the one action property, `RevocationSticks`,
  is a formula over a single step and does not name a caller or an account.

### Further configurations

These answer questions a reader of the docstrings will have. Each makes TLC
print a behaviour of the code. They are not part of the list above.

| Configuration | Shows |
|---|---|
| `JobQueueDuplicate.cfg` | two callers with one key that both test before either sets it create two active jobs (`job_queue.py:10-12`: "returns the existing `job_id` instead of creating a duplicate") |
| `RegistryStaleGate.cfg` | two syncs: the gate retires a version it never compared with |
| `RegistryRollbackUnfitted.cfg` | a rollback to a DISABLED row, which has no fit |
| `RegistryTwoLive.cfg` | two syncs that both retire before either enables leave two live versions (`model_version_registry.py:160-161` promises one) |
| `CacheStaleFill.cfg` | a reader that queried before the commit fills after the deletion; the next one is answered with the old forecast (`main.py:1080-1082`: "not left to expire stale") |
| `CacheScheduler.cfg` | after a scheduled sync has finished the list of competitions is answered from the old copy |
| `ForecastUnstored.cfg` | no champion: nothing is stored and the endpoint answers with an earlier prediction or fails |
| `ForecastAnchor.cfg` | between the two commits of `promote`, or after a death there, other models are live and dixon_coles is not |
| `SyncAborted.cfg` | two runs: one inserts rows the other has looked up and not found, the other's flush fails, and its run ends in the handler that was to "keep one competition's failure from aborting the whole run" (`sync_orchestrator.py:116`) |
| `SyncOverwritten.cfg` | two syncs at a time: an OK report although not all is stored |
| `SeasonMixed.cfg` | two runs: state and quality of a competition from different runs. With `NamesKept` as the invariant instead: a name lost when one run writes what another has renamed meanwhile. With `MovesAreReal`: a promotion that never was, from neighbouring divisions compared over different years |
| `SeasonForgotten.cfg` | a provider that leaves out a season it reported: two seasons stay ACTIVE |
| `SeasonUnbegun.cfg` | a season that has not begun is stored as FINISHED (`season_detection.py:3-5`) |
| `AccessRaced.cfg` | two overlapping checks of one bucket: more attempts are let through than the limit |
| `AccessNoAdministrator.cfg` | the last administrator demotes himself |
| `EvaluationTied.cfg` | a prediction from a fit on a match that kicks off at the same moment (`backtesting.py:7-8`: "strictly earlier") |
| `EvaluationRowless.cfg` | an alarm without its monitoring row, when no version is live (`drift_detection.py:4`: "Every check is persisted") |
| `EvaluationBackwards.cfg` | after a rollback or a rejection the live version is compared with a later one (`drift_detection.py:15-17`: "the previous") |
| `EvaluationOverlap.cfg` | two runs store intervals of two backtests for one version |

What the models also show, without a configuration: a death between the FAILED
record and the dead-letter entry, between a rollback and its audit entry, or
between a decision and its event, loses the second for good; a rollback to the
challenger under evaluation that the gate then rejects leaves nothing live; a
sync that promotes between a forecast's two reads makes the snapshot name a
version that was not pooled.

## 12. Proofs

All theorems are for any values of the constants that satisfy the modules'
assumptions (`MaxRetries \in Nat`, disjoint process sets, none-values outside
their sets, bounds that are naturals). The bounds of the models are constants,
so a theorem also covers every larger instance.

| Theorem | Under | Statement |
|---|---|---|
| `JobQueueProofs!TypeCorrect` | `SpecF` | Every variable keeps its type, for any number of jobs, callers, workers, keys and retries, failures included. |
| `JobQueueProofs!NoDuplicatedWork` | `SpecF` | A job is in the queue once, or on its way there, or with one worker, and never in two of these, whatever crashes. |
| `JobQueueProofs!DeadLettersAreDead` | `SpecF` | A listed job is listed once, has used up its retries and never runs again. |
| `JobQueueProofs!KeysLeadHome` | `SpecF` | An idempotency key leads to a recorded job that was enqueued with it. |
| `JobQueueProofs!Refinement` | `SpecF` | The Redis protocol, with its failures, implements JobService: each step is a step of the promise or leaves it alone. |
| `JobQueueProofs!NothingForgotten` | `Spec` | Without crashes an unfinished job is queued or in somebody's hands, graceful restarts included. |
| `JobQueueProofs!DeadLettersAreListed` | `Spec` | Without crashes a job that failed for good is listed, or its worker is about to list it. |
| `JobQueueProofs!KeysDeduplicate` | `OneCaller /\ Spec` | With one caller and no failure a key has at most one job that is not finished, however many workers run, retry and restart. |
| `ModelRegistryProofs!TypeCorrect` | `SpecF` | Every variable keeps its type with any number of concurrent syncs and administrators, failures included. |
| `ModelRegistryProofs!OneLive` | `SpecSerialF` | One operation at a time, dying anywhere: never two live versions, gated or not. |
| `ModelRegistryProofs!OneChallenger` | `SpecSerialF` | One operation at a time, dying anywhere: never two challengers. |
| `ModelRegistryProofs!GateIsFair` | `SpecSerialF` | One operation at a time: a live version the gate retires is the one it compared with. |
| `ModelRegistryProofs!RejectionIsHarmless` | `SpecSerialF` | One operation at a time: a rejection does not change what is live. |
| `ModelRegistryProofs!StaysLit` | `SpecSerial` | Without deaths a slot that was ever trained does not end up with nothing live and nothing to say why. |
| `ModelRegistryProofs!LosersNeedAnAdmin` | `Spec` | Under every interleaving of syncs and administrators a rejected challenger is live only through an audited rollback. |
| `ModelRegistryProofs!DecisionsAreLogged` | `Spec` | Under every interleaving of syncs and administrators without deaths, every decision of the gate ends up with its event, and no later cycle overwrites it. |
| `ReadThroughCacheProofs!TypeCorrect` | `SpecF` | Every variable keeps its type, failures included. |
| `ReadThroughCacheProofs!StalenessIsBounded` | `SpecF` | For every number of readers and writers, time to live and delay, an entry is out of date for less than their sum. |
| `ReadThroughCacheProofs!SerialReadsAreFresh` | `SpecSerial` | Where requests do not overlap and every writer invalidates, no reader is answered with less than has been reported. |
| `ReadThroughCacheProofs!CalmReadsAreFresh` | `MCSpec` | The same of the calm behaviours of the run, whatever the others do. |
| `ForecastingProofs!TypeCorrect` | `SpecAtomic` | Every variable keeps its type, for any number of models, syncs, matches and requests. |
| `ForecastingProofs!SnapshotsAreFaithful` | `SpecAtomic` | Where no commit of a sync falls between a forecast's two reads, the version it names is the dixon_coles version it pooled. |
| `ForecastingProofs!AnswersAreCurrent` | `SpecAtomic` | A stored forecast is answered with itself or a later one of the same fixture, never an older one. |
| `ForecastingProofs!NoForecastLeaks` | `SpecAtomic` | If dixon_coles is neither rejected nor rolled back, the gate's test of its window covers every pooled model, because it is trained first in every sync. |
| `FullSyncProofs!TypeCorrect` | `Spec` | Every variable keeps its type, for any number of competitions, versions and runs at the same time, collisions included. |
| `FullSyncProofs!GapsAreReported` | `SpecSerial` | One run at a time: when a run is through, every competition is stored at least as the provider had it when the run began, or named in one of the report's lists, whatever failed or raised; only fixtures whose teams the provider does not name may be missing without that, and the log then has a warning. |
| `FullSyncProofs!ReportIsHonest` | `SpecSerial` | One run at a time: OK means that everything the provider had when the run began is stored, fixtures whose teams it does not name excepted, and no later run takes any of it back. |
| `FullSyncProofs!DerivedIsCurrent` | `SpecSerial` | One run at a time: when a run is through, the quality, parameters and models of a competition that raised nothing are made of the matches stored, wherever the provider failed and whatever another competition left in the session. |
| `SeasonDataProofs!TypeCorrect` | `Spec` | Every row, state and status keeps its type, however the steps of any number of runs that fail and die interleave. |
| `SeasonDataProofs!NamesAreKept` | `SpecSerial` | One run at a time, failing and dying anywhere: a team is found by each name it has had. |
| `SeasonDataProofs!CurrentSeasonIsOne` | `~Forgetful /\ SpecSerial` | One run at a time, failing and dying anywhere: where the provider keeps reporting the seasons it reported, at most one stored season is ACTIVE, and it has begun. |
| `SeasonDataProofs!StatusFollowsQuality` | `SpecSerial` | One run at a time, dying anywhere: ACTIVE and LIMITED_DATA are what the stored quality says. |
| `SeasonDataProofs!ActiveTakesFixtures` | `SpecSerial` | One run at a time, failing and dying anywhere, whatever number of fixtures the format expects, or none: a competition is ACTIVE only if a fixture of it is stored. |
| `SeasonDataProofs!RecordedMovesHappened` | `Moves!SpecInStep` | Over any number of dated seasons: where discovery fails for no competition, competitions of one country change seasons together and at most one season lies ahead, a recorded promotion or relegation happened. |
| `SeasonDataProofs!CompleteSeasonsAreTold` | `LevelsDistinct`, `Moves!Spec` | When every competition was read with the same two seasons, both stored completely, the events are exactly what the teams did, for any pyramids in which two divisions of a country never share a level. |
| `AccessProofs!TypeCorrect` | `Spec` | Every variable keeps its type, for any number of accounts, keys, hosts and overlapping requests. |
| `AccessProofs!AuditIsComplete` | `Spec` | An account and a key's state are what creation and the audit log make of them, unless two sessions had read the row to write it at the same time. |
| `AccessProofs!UsesAreCounted` | `Spec` | A key's counter never exceeds its uses and equals them where uses did not overlap. |
| `AccessProofs!RevocationsStick` | `Spec` | Only an update by its owner or an administrator makes a revoked key work again. |
| `AccessProofs!WindowHolds` | `Spec` | For any limit and window: where no two checks of a bucket overlapped, no window holds more admitted attempts than the limit. |
| `EvaluationProofs!TypeCorrect` | `Spec` | Every variable keeps its type, for any number of matches and overlapping runs. |
| `EvaluationProofs!PredictionsWalkForward` | `Spec` | However many runs overlap and whichever matches are completed or taken back meanwhile (kickoffs are fixed), a prediction comes from a fit that has seen no match that kicks off later, and no fewer than the initial window, and a match is predicted once. Of matches that kick off together the fit may have seen one (`EvaluationTied.cfg`). |
| `EvaluationProofs!AlarmsAgree` | `Spec` | With any number of runs, a monitoring row is breached exactly when its alarm was raised, unless the alarm is to come or its run was cut off; and an alarm about the parameters has its row. One about the score has none when no version is live (`EvaluationRowless.cfg`). |
| `EvaluationProofs!IntervalsComplete` | `SpecSerial` | One run at a time, dying anywhere, with rollbacks at any moment: the intervals of a version are of one backtest and one split, unless their run is still storing or was cut off. |
| `EvaluationProofs!SeasonsEndInATable` | `Table!Spec` | For any number of clubs, fixtures, scores and spots, a simulation ends in a league table whatever the sync does to the fixtures meanwhile. |

The arguments:

* **Job queue.** `OnePlacePerJob` is not inductive: after a crash nothing says
  that a popped job's record is still the one the worker knows. `IInv` adds
  what each place says about the record: a job on the queue, on its way there,
  or just popped is PENDING with a try left; a worker that runs it has the
  record in its local copy; one about to bury it holds a FAILED record with all
  tries used and not yet listed. A job with a fresh id is nowhere
  (`FreshIsNowhere`); only the holder changes a record, because a job is in one
  place (`Exclusive`, `WriteFrame`). The refinement then maps `WriteRecord` to
  `Submit`, `MarkRunning` to `Start`, `WriteOutcome` to `Succeed`, `Retry` or
  `GiveUp`, `Bury` to `Report`, and every other step to a stutter; `IInv`
  supplies the guards. `NothingForgotten` and `DeadLettersAreListed` need
  `IInv` for `Spec` and fail with crashes, as the code does. `KeyInv`: with one
  caller, an unfinished job of a key is the one the key leads to or the one the
  caller is about to set it to, and a caller that goes on to write a record has
  found no unfinished job of its key.
* **Registry, one operation at a time.** `SInv`: at most one process is busy,
  and what it has read is still so (`ProcOK`): the champion it read is the live
  version, the rows it selected are the challengers or the live ones, and
  nothing is live where it is about to enable. The action properties follow
  from `ProcOK` of the step's process. `LitInv` replaces "somebody is busy" in
  `NeverDark` by "somebody is between the commits of an exchange".
* **Registry, everybody at once.** `LoserInv` needs no `ProcOK`: two trainers
  never work on the same row, a trainer promotes only rows that were not
  rejected, and administrators only promote and then audit. `DecisionInv` adds
  that a row has no event as long as the cycle it belongs to has not logged, so
  no other cycle overwrites it.
* **Cache.** `AgeInv`: an entry for the current version has at most `Ttl` to
  go, one for an earlier version expires within `Delay + Ttl` of its
  replacement, because whoever filled it read before that moment and not longer
  than `Delay` ago. `FreshInv` (serial): when no writer is busy an entry is the
  current version, and readers and writers are never busy together; `CalmInv`
  claims this of the calm behaviours only, with idle schedulers.
* **Forecasting.** `SafeInv`: between the two reads the champion is still the
  live dixon_coles version and its window ends before the fixture. `WindowInv`:
  later syncs have seen at least as many matches. `LeadInv`: dixon_coles is
  trained first and moves on with every sync, so no other model's stored
  version is newer than its live one. From these `LeakInv`: all pooled windows
  end before the fixture. The theorem assumes `AnchorMovesOn` (dixon_coles is
  neither rejected nor rolled back); `forecast_leak` shows that the code needs
  it.
* **Full sync.** `TypeInv` adds what a run must have in hand where it uses it.
  `SerialInv`: at most one run is under way; what it prepared is newer than what
  is stored, which is still what it saw (`InSession`); and a competition that
  the provider had when the run began and the report does not excuse is still
  to come, or as far stored or prepared as its stage says, or stored
  (`Progress`); and once it has looked at fixtures of which some are not drawn, the
  warning is noted. A commit then never makes anything older (`FlushFacts`), so an
  OK of an earlier run stays true; `OneRun` reduces each step to the run that
  takes it, `InHandStep` to its competition.
  `DerivedIsCurrent` has to follow each product through the stages. `DerivedInv`
  adds to `SerialInv`: a competition without seasons has no matches and nothing
  made of them (`Seasonless`); the competition in hand is committed before anything
  is computed, and what the stages before the present one make of it is made of
  what is stored (`InMaking`); one that is done, and did not raise, has left
  nothing in the session that a later commit would store behind its products
  (`Made`).
* **Season data.** `RunInv`: with one run at a time, what a run has selected is
  still so when it writes (`StillSo`): the seasons and their dates, the name of
  the team, the competition's state. Then `NamesKept` is inductive once nobody is
  called like a row that is not there. `OneSeasonIsCurrent` rests on
  `CurrentFacts`: whatever is reported, on whatever day, `Current` is at most one
  season, and one with dates has begun; a report that covers every stored season
  then leaves no second one, and days only move forward. `StatusFollowsQuality`:
  the two columns are written from the same pair. `ActiveTakesFixtures`:
  `EarnedInv` says that whoever holds a grade that makes ACTIVE, or has read
  ACTIVE, was preceded by a stored row; rows are not deleted; and a season without
  rows has the one metric 0, or, where nothing is expected, no metric and so the
  score 0 (`NoRowsNoScore`).
* **Movements.** `MoveInv`: what a detection under way has collected is what the
  rosters of the two stored seasons say, since neither changes while it reads.
  `RealInv` adds that, of `SpecInStep`, the competitions of one country are
  compared over the same two consecutive seasons, so that a team gone from one
  roster and new in another of that country did move. For `CompleteSeasonsAreTold`
  the rosters are complete, and the event follows from the levels of the two
  divisions; two divisions of one country at the same level would make it
  ambiguous, hence `LevelsDistinct`.
* **Access.** `IInv` says of everything a request has read that it is still there
  and, unless the row counts as overtaken (`stale`), still so (`TaskOK`). What
  a session writes is then what the payload says, and what the log says; a
  counter that is written back is one more than the counter stored. The limiter
  plays no part there: which requests it refuses does not matter to the rows.
  `RevocationsStick` needs from `IInv` only that keys in use exist.
* **The limiter.** The code keeps a list of attempts, of which it drops those
  outside the window when it stores the next one; a login that succeeds clears
  it. `LimitInv` relates that list to everything admitted: from now on no more
  of what was admitted is recent than of what is kept (`Outnumbered`), and a copy
  about to be stored already counts what was admitted before it (`Checking`).
  Time only makes attempts older, which keeps the relation; a check that is
  admitted has counted at most `MaxAttempts`. This rests on what filtering a list
  returns for a list of any length (`RecentAppend`, `RecentFacts`): the recursive
  function is shown to exist and to be unique for every length (`FilterExists`,
  `FilterUnique`), and facts about all lists follow by induction on the set of
  lengths that have them (`InductiveSet`, from the well-foundedness of `<` on the
  naturals).
* **Evaluation.** `IInv` holds with overlapping runs: a run's matches, once
  queried, are its own (`RunsOK`), folds follow one another (`FoldsOK`: everything
  predicted lies between the initial window and the next fold), and for each row of
  drift its alarm is stored or still in the hands of a run. With one run at a
  time, what it has stored of the intervals is all of its own split
  (`StoringOK`). Overlapping runs refute that one, see `EvaluationOverlap.cfg`.
* **Simulation.** `TableInv`: no match is both given and drawn, and none of these
  has been counted yet (`CountedOnce`); a club's points are three for each match won and one
  for each shared (`PointsInv`), by counting finite sets; positions are one plus
  the number of clubs ahead, and since points, goal difference and the lots order
  the clubs strictly, they are the numbers from one (`PositionInv`).

Theorems and runs do not always state the same. `SerialReadsAreFresh` proves
`ReadsSeeFinishedWrites` for `SpecSerial`; the run checks it of calm behaviours
(`CalmReadsAreFresh`). `KeysDeduplicate` is for `Spec` with one caller, the run
for the same with fairness. The type invariants of the first five modules are
proved for all constants and not run any more. Where a theorem has a hypothesis
(`OneCaller`, `~Forgetful`, `LevelsDistinct`, `AnchorMovesOn`) the constants of
the run that checks its property satisfy it. `ReadThroughCacheProofs`, `SeasonDataProofs`
and `EvaluationProofs` extend the MC modules, which leave all constants open, so
that `CalmReadsSeeFinishedWrites`, `MovesAreReal`, `MovesAreComplete` and
`TableIsTrue` are the very formulas the runs check.

Only model-checked: `EveryJobFinishes`, because liveness under fairness is outside
the prover. Every other property of a passing run is stated by a theorem. That
`NoLeakage` fails without the theorem's hypothesis, and the further
configurations, are TLC's.

## 13. Findings

* `forecast_leak` refutes `NoLeakage` (`app/services/forecast_service.py:157`). README.md:404-406 says "the fixture's kickoff must be *after* the model's training window ends (otherwise it's flagged as a possible leakage case)" and 408-409 "Any failure sets `FORECAST STATUS = FAILED_VALIDATION` — never silently published"; the gate (lines 157-168) tests only the dixon_coles champion's window and _build_ensemble_score (340-345) pools every weighted ENABLED model, so when a dixon_coles challenger was rejected and another model's promoted, that model's window may include the fixture.

Other disagreements between a doc and the code are in the table of
[further configurations](#further-configurations), each with the text it is
about.

## 14. Not modelled

See `PROJECT.json` for each component. In short:

* Numerical code (goal models, score matrix, sampling, drift statistics, league
  parameters and shrinkage) computes on floating point and has no control to
  check. The averages of a simulation over its iterations belong here.
* Providers, schemas, read endpoints, logging, migrations, the frontend and
  scripts are I/O, declarations and presentation; the constraints and columns
  that matter appear in the modules that use them.
* Password hashing and tokens are library calls: right or wrong, valid or not.
* The scenario engine recomputes one match's probabilities and writes one row;
  OOD and shock flags and eligibility are thresholds over stored numbers.
* Match statistics and xG rows are stored like results and read by market models
  only. A kickoff that moves is not modelled: matches are numbered by kickoff.

Simplifications worth knowing: one season stands for both in `FullSync` (both are
in `SeasonData`); seasons have dates in `Movement` (with and without in
`SeasonData`); matches complete in kickoff order in `Forecasting` (in any order
in `Evaluation`); the champion that calibration and drift look for is one slot's.

## 15. Plan

What is left, in this order.

1. `RegistrySlot`: the registry's promise as an abstract specification (one live
   version, exchanged atomically or visibly absent), shown implemented by the
   serial registry, and used as the slot of `Forecasting` and `Evaluation`.
2. The second quality row two runs may insert (`data_quality.py:153`), with the
   readers of that table.
3. Match statistics and the market models that read them; the scenario engine.
4. Pure helpers: round-robin schedule of the mock provider, the score matrix's
   expansion loop, the retry policy.

## 16. How to run it

    tlc -workers 2 -config JobQueueFailures.cfg MCJobQueue
    tlapm JobQueueProofs.tla

The module of each run is in `PROJECT.json`; a configuration's name starts like its module's (`Access...` is `MCAccess`, `Cache...` is
`MCReadThroughCache`, `Evaluation...` is `MCEvaluation`, `Forecast...` is
`MCForecasting`, `JobQueue...` is `MCJobQueue`, `Registry...` is
`MCModelRegistry`, `Season...` is `MCSeasonData`, `Sync...` is `MCFullSync`).
TLC takes seconds to about three minutes per run.
