---------------------------- MODULE Forecasting ----------------------------
(***************************************************************************)
(* One competition's forecasts while its models change underneath them:     *)
(* ForecastService.generate and POST /forecast (forecast_service.py,        *)
(* main.py), the order in which a sync trains the goal models               *)
(* (model_training.py) and then learns the ensemble weights (ensemble.py),  *)
(* and rollbacks.  Every step is one query whose result is kept or one      *)
(* commit.  A slot of the registry is its live version here, so one sync or *)
(* rollback runs at a time (ModelRegistry says what two of them do).        *)
(***************************************************************************)
EXTENDS Naturals, FiniteSets

CONSTANTS
  Models,       \* goal models of the ensemble, in training order
  Boosted,      \* the gradient-boosting ones: each can be DISABLED alone
  Rejectable,   \* models whose challenger the gate may reject
  Revertible,   \* models an administrator may roll back
  Request,      \* POST /forecast requests
  NoRequest,    \* no prediction found
  MinMatches,   \* matches below which no model is trained
  MaxMatches,   \* bound on matches of the competition
  MaxSyncs      \* bound on syncs

Model == 1..Models
Anchor == 1             \* dixon_coles, which train() trains first

ASSUME BoundAssumption ==
  /\ Models \in Nat \ {0}
  /\ MinMatches \in Nat
  /\ MaxMatches \in Nat
  /\ MaxSyncs \in Nat
ASSUME RequestAssumption == IsFiniteSet(Request) /\ NoRequest \notin Request
ASSUME ModelAssumption ==
  /\ Boosted \subseteq Model \ {Anchor}
  /\ Rejectable \subseteq Model
  /\ Revertible \subseteq Model

(* A version is the number of the sync that fitted it.  Fixture k kicks off  *)
(* after fixture k - 1 has been completed.                                   *)
Version == 1..MaxSyncs
None == 0
Fixture == 1..MaxMatches
Row == Model \X Version

JobPC == {"idle", "train", "swap", "enable", "clear", "weigh"}
RequestPC == {"idle", "champion", "weights", "save", "respond", "done"}
ForecastStatus == {"none", "FAILED_VALIDATION", "LIMITED", "ACTIVE"}

VARIABLES
  played,       \* completed matches
  syncs,        \* syncs begun
  window,       \* training_window_end of a sync's fits, as a fixture
  fitted,       \* versions of each model that have been stored
  live,         \* each model's ENABLED version, or None
  weights,      \* model_weights rows: <<model, version>>
  job,          \* what the sync or rollback under way does next
  jobModel,     \* the model it is about
  jobVersion,   \* the version it is about to enable
  syncing,      \* it is a sync, not a rollback
  rpc,          \* where each request is
  fixture,      \* what it forecasts
  at,           \* its predicted_at; 0 before it has come in
  champ,        \* the dixon_coles version it read
  blend,        \* the weight rows it pools
  status,       \* its forecast_status
  saved,        \* its Prediction row has been committed
  answer        \* the request whose row it was answered with

modelVars == <<syncs, window, fitted, live, weights>>
jobVars == <<job, jobModel, jobVersion, syncing>>
requestVars == <<rpc, fixture, at, champ, blend, status, saved, answer>>
vars == <<played, syncs, window, fitted, live, weights, job, jobModel, jobVersion, syncing,
          rpc, fixture, at, champ, blend, status, saved, answer>>

Init ==
  /\ played = 0
  /\ syncs = 0
  /\ window = [v \in Version |-> 0]
  /\ fitted = [m \in Model |-> {}]
  /\ live = [m \in Model |-> None]
  /\ weights = {}
  /\ job = "idle" /\ jobModel = Anchor /\ jobVersion = None /\ syncing = FALSE
  /\ rpc = [r \in Request |-> "idle"]
  /\ fixture = [r \in Request |-> 0]
  /\ at = [r \in Request |-> 0]
  /\ champ = [r \in Request |-> None]
  /\ blend = [r \in Request |-> {}]
  /\ status = [r \in Request |-> "none"]
  /\ saved = {}
  /\ answer = [r \in Request |-> NoRequest]

-----------------------------------------------------------------------------
MatchCompletes ==
  /\ played < MaxMatches
  /\ played' = played + 1
  /\ UNCHANGED <<modelVars, jobVars, requestVars>>

Rest ==
  /\ job' = "idle"
  /\ jobModel' = Anchor
  /\ jobVersion' = None
  /\ syncing' = FALSE

(* A sync goes on to the model after m, or to the ensemble.                  *)
Following(m) ==
  /\ job' = IF m < Models THEN "train" ELSE "clear"
  /\ jobModel' = IF m < Models THEN m + 1 ELSE Anchor
  /\ jobVersion' = None
  /\ UNCHANGED syncing

(* train() reads the completed matches.  With too few, no model is trained   *)
(* (none has been live before: matches do not go away).                      *)
BeginSync ==
  /\ job = "idle"
  /\ syncs < MaxSyncs
  /\ syncs' = syncs + 1
  /\ window' = [window EXCEPT ![syncs + 1] = played]
  /\ syncing' = TRUE
  /\ job' = IF played < MinMatches THEN "clear" ELSE "train"
  /\ UNCHANGED <<played, fitted, live, weights, jobModel, jobVersion, requestVars>>

(* Mutant: the models are trained in the opposite order.                     *)
TurnBackwards == Models + 1 - jobModel

(* Which model it is the turn of.                                            *)
Turn == jobModel

(* The challenger of the model whose turn it is is stored and promoted, ...  *)
Promotes ==
  /\ job = "train"
  /\ fitted' = [fitted EXCEPT ![Turn] = @ \union {syncs}]
  /\ jobVersion' = syncs
  /\ job' = IF live[Turn] = None THEN "enable" ELSE "swap"
  /\ UNCHANGED <<played, syncs, window, live, weights, jobModel, syncing, requestVars>>

(* ... or rejected, which takes a champion and matches it has not seen, ...  *)
Rejects ==
  /\ job = "train"
  /\ Turn \in Rejectable
  /\ live[Turn] # None
  /\ window[live[Turn]] < window[syncs]
  /\ fitted' = [fitted EXCEPT ![Turn] = @ \union {syncs}]
  /\ Following(jobModel)
  /\ UNCHANGED <<played, syncs, window, live, weights, requestVars>>

(* ... or, for gradient boosting, there is none: record_disabled.            *)
Disables ==
  /\ job = "train"
  /\ Turn \in Boosted
  /\ live' = [live EXCEPT ![Turn] = None]
  /\ Following(jobModel)
  /\ UNCHANGED <<played, syncs, window, fitted, weights, requestVars>>

(* The two commits of promote: retire_active, then the new status.           *)
Swap ==
  /\ job = "swap"
  /\ live' = [live EXCEPT ![Turn] = None]
  /\ job' = "enable"
  /\ UNCHANGED <<played, syncs, window, fitted, weights, jobModel, jobVersion, syncing, requestVars>>

Enable ==
  /\ job = "enable"
  /\ live' = [live EXCEPT ![Turn] = jobVersion]
  /\ IF syncing THEN Following(jobModel) ELSE Rest
  /\ UNCHANGED <<played, syncs, window, fitted, weights, requestVars>>

(* _clear_weights and its commit.                                            *)
ClearWeights ==
  /\ job = "clear"
  /\ weights' = {}
  /\ job' = "weigh"
  /\ UNCHANGED <<played, syncs, window, fitted, live, jobModel, jobVersion, syncing, requestVars>>

(* _persist_weights: a row for every candidate that has enough walk-forward  *)
(* predictions and a live version; none when there is no such candidate.     *)
LearnWeights ==
  /\ job = "weigh"
  /\ \E candidates \in SUBSET Model :
       weights' = {<<m, live[m]>> : m \in {c \in candidates : live[c] # None}}
  /\ Rest
  /\ UNCHANGED <<played, syncs, window, fitted, live, requestVars>>

(* An administrator picks a stored version that is not the live one.         *)
Rollback(m, v) ==
  /\ job = "idle"
  /\ m \in Revertible
  /\ v \in fitted[m] \ {live[m]}
  /\ jobModel' = m
  /\ jobVersion' = v
  /\ job' = IF live[m] = None THEN "enable" ELSE "swap"
  /\ UNCHANGED <<played, modelVars, syncing, requestVars>>

(* The sync raises or its process dies between two commits.                  *)
JobFails ==
  /\ job # "idle"
  /\ Rest
  /\ UNCHANGED <<played, modelVars, requestVars>>

-----------------------------------------------------------------------------
(* A request comes in; generate() takes the time first.                      *)
Receive(r, k) ==
  /\ rpc[r] = "idle"
  /\ rpc' = [rpc EXCEPT ![r] = "champion"]
  /\ fixture' = [fixture EXCEPT ![r] = k]
  /\ at' = [at EXCEPT ![r] = Cardinality({q \in Request : at[q] > 0}) + 1]
  /\ UNCHANGED <<played, modelVars, jobVars, champ, blend, status, saved, answer>>

(* The gate's test on kickoff and training_window_end.                       *)
Leaks(v, k) == k <= window[v]

(* The dixon_coles version and the gate.  `quality` stands for the checks    *)
(* that only read data: convergence, the data-quality status, both teams in  *)
(* the fit.                                                                  *)
Gate(r, quality) ==
  /\ rpc[r] = "champion"
  /\ champ' = [champ EXCEPT ![r] = live[Anchor]]
  /\ LET verdict == IF live[Anchor] = None THEN "respond"
                    ELSE IF quality = "bad" \/ Leaks(live[Anchor], fixture[r]) THEN "save"
                    ELSE "weights"
     IN /\ rpc' = [rpc EXCEPT ![r] = verdict]
        /\ status' = [status EXCEPT ![r] =
             IF verdict = "weights" /\ quality = "good" THEN "ACTIVE"
             ELSE IF verdict = "weights" THEN "LIMITED"
             ELSE "FAILED_VALIDATION"]
  /\ UNCHANGED <<played, modelVars, jobVars, fixture, at, blend, saved, answer>>

(* Mutant: weights count whatever has become of their version.               *)
MembersEver == weights

(* model_weights joined with the ENABLED versions.                           *)
Members == {row \in weights : live[row[1]] = row[2]}

(* _build_ensemble_score: members whose fit knows both teams, or the         *)
(* champion alone; fewer than two make the forecast LIMITED.  The pooled     *)
(* matrix may not pass check_consistency.                                    *)
Blend(r, unknown) ==
  /\ rpc[r] = "weights"
  /\ <<Anchor, champ[r]>> \notin unknown
  /\ LET pool == Members \ unknown
         used == IF pool = {} THEN {<<Anchor, champ[r]>>} ELSE pool
     IN /\ blend' = [blend EXCEPT ![r] = used]
        /\ \E verdict \in {"FAILED_VALIDATION", IF Cardinality(used) < 2 THEN "LIMITED" ELSE status[r]} :
             status' = [status EXCEPT ![r] = verdict]
  /\ rpc' = [rpc EXCEPT ![r] = "save"]
  /\ UNCHANGED <<played, modelVars, jobVars, fixture, at, champ, saved, answer>>

(* _finalize: the Prediction and its snapshot in one commit.                 *)
Save(r) ==
  /\ rpc[r] = "save"
  /\ saved' = saved \union {r}
  /\ rpc' = [rpc EXCEPT ![r] = "respond"]
  /\ UNCHANGED <<played, modelVars, jobVars, fixture, at, champ, blend, status, answer>>

Rows(k) == {q \in saved : fixture[q] = k}

(* Mutant: the oldest first.                                                 *)
LatestAscending(k) ==
  IF Rows(k) = {} THEN {NoRequest} ELSE {q \in Rows(k) : \A p \in Rows(k) : at[q] <= at[p]}

(* The latest prediction of a fixture, by predicted_at.                      *)
Latest(k) ==
  IF Rows(k) = {} THEN {NoRequest} ELSE {q \in Rows(k) : \A p \in Rows(k) : at[p] <= at[q]}

(* The endpoint looks the answer up; where there is none it raises.          *)
Respond(r) ==
  /\ rpc[r] = "respond"
  /\ \E q \in Latest(fixture[r]) : answer' = [answer EXCEPT ![r] = q]
  /\ rpc' = [rpc EXCEPT ![r] = "done"]
  /\ UNCHANGED <<played, modelVars, jobVars, fixture, at, champ, blend, status, saved>>

-----------------------------------------------------------------------------
JobStep ==
  \/ BeginSync
  \/ Promotes \/ Rejects \/ Disables
  \/ Swap \/ Enable
  \/ ClearWeights \/ LearnWeights
  \/ \E m \in Model, v \in Version : Rollback(m, v)
  \/ JobFails

RequestStep(r) ==
  \/ \E k \in Fixture : Receive(r, k)
  \/ \E quality \in {"good", "limited", "bad"} : Gate(r, quality)
  \/ \E unknown \in SUBSET Members : Blend(r, unknown)
  \/ Save(r)
  \/ Respond(r)

(* No request is between the champion it read and the blend it builds.       *)
NoneBlending == \A r \in Request : rpc[r] # "weights"

Next == MatchCompletes \/ JobStep \/ \E r \in Request : RequestStep(r)

(* Forecasts in the middle of a sync, but no commit of the sync in the       *)
(* middle of a forecast's reads.                                             *)
NextAtomic ==
  \/ MatchCompletes
  \/ NoneBlending /\ JobStep
  \/ \E r \in Request : RequestStep(r)

Spec == Init /\ [][Next]_vars
SpecAtomic == Init /\ [][NextAtomic]_vars

-----------------------------------------------------------------------------
TypeOK ==
  /\ played \in 0..MaxMatches
  /\ syncs \in 0..MaxSyncs
  /\ window \in [Version -> 0..MaxMatches]
  /\ fitted \in [Model -> SUBSET Version]
  /\ live \in [Model -> Version \union {None}]
  /\ weights \subseteq Row
  /\ job \in JobPC
  /\ jobModel \in Model
  /\ jobVersion \in Version \union {None}
  /\ syncing \in BOOLEAN
  /\ rpc \in [Request -> RequestPC]
  /\ fixture \in [Request -> Fixture \union {0}]
  /\ at \in [Request -> Nat]
  /\ champ \in [Request -> Version \union {None}]
  /\ blend \in [Request -> SUBSET Row]
  /\ status \in [Request -> ForecastStatus]
  /\ saved \subseteq Request
  /\ answer \in [Request -> Request \union {NoRequest}]

-----------------------------------------------------------------------------
(* "The fixture's kickoff must be after the model's training window ends":   *)
(* no model that had the fixture's own result to learn from has a part in a  *)
(* forecast that passed validation.                                          *)
NoLeakage ==
  \A r \in saved : status[r] # "FAILED_VALIDATION" =>
    \A row \in blend[r] : window[row[2]] < fixture[r]

(* The row names and snapshots the dixon_coles version that was pooled: "a   *)
(* forecast can always be reproduced or audited later".                      *)
SnapshotIsOfTheBlend ==
  \A r \in saved : \A row \in blend[r] : row[1] = Anchor => row[2] = champ[r]

(* A forecast that was stored is answered with itself or with one that       *)
(* started later and was stored before the answer, never with an older one.  *)
AnswerIsCurrent ==
  \A r \in saved : rpc[r] = "done" =>
    /\ answer[r] \in saved
    /\ fixture[answer[r]] = fixture[r]
    /\ at[answer[r]] >= at[r]

(* "This always creates a new Prediction row."                               *)
EveryForecastStored == \A r \in Request : rpc[r] = "done" => r \in saved

(* dixon_coles is "guaranteed to exist whenever any goal model does".        *)
AnchorExists == (\E m \in Model : live[m] # None) => live[Anchor] # None
=============================================================================
