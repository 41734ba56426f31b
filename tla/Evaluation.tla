----------------------------- MODULE Evaluation -----------------------------
(***************************************************************************)
(* What a full sync does with the dixon_coles version it left live: the     *)
(* walk-forward backtest (app/services/backtesting.py), the calibration map *)
(* (calibration.py), the four conformal intervals                           *)
(* (conformal_calibration.py) and the drift alarms (drift_detection.py).    *)
(* Each is attached to whichever version is live when it looks, and stored  *)
(* in commits of its own.  How versions come and go is ModelRegistry's;     *)
(* here a sync ends with one of four outcomes of its training, and an       *)
(* administrator may roll back at any moment.                               *)
(***************************************************************************)
EXTENDS Naturals, Sequences, FiniteSets

CONSTANTS
  Matches,      \* matches are 1..Matches, by kickoff
  Tied,         \* those that kick off together with the one before them
  Run,          \* runs of the full sync
  InitialTrain, \* settings.backtest_initial_train_matches
  FoldSize,     \* settings.backtest_fold_size
  MinCalibrate, \* settings.calibration_min_validation_matches
  MinConformal, \* settings.conformal_min_predictions
  MaxCycles     \* bound on the runs that are begun, and so on versions

ASSUME SettingsAssumption ==
  /\ Matches \in Nat /\ MaxCycles \in Nat
  /\ Tied \subseteq 2..Matches
  /\ InitialTrain \in Nat \ {0} /\ FoldSize \in Nat \ {0}
  /\ MinCalibrate \in Nat \ {0} /\ MinConformal \in Nat \ {0}

Match == 1..Matches
Version == 1..MaxCycles
None == 0                       \* no version; no row
Target == {"home_goals", "away_goals", "total_goals", "outcome"}
Metric == {"parameters", "scoring"}
Outcome == {"promoted", "rejected", "disabled", "unchanged"}
NoEvidence == [cycle |-> None, n |-> 0]
NoInterval == [cycle |-> None, calibration |-> 0, test |-> 0]

(* Fixture.kickoff_utc: two matches may start together.                      *)
kickoff == [m \in Match |-> m - Cardinality(Tied \intersect 1..m)]

VARIABLES
  played,       \* completed matches
  cycles,       \* runs begun
  live,         \* the ENABLED version, or None
  born,         \* the run that trained each version, or None
  backtest,     \* the run whose walk_forward_backtest row each version has
  calibrated,   \* its outcome_probabilities row: the run, how many predictions
  interval,     \* the ConformalCalibration rows of each version
  cut,          \* runs that died
  monitoring,   \* ModelMonitoring rows
  events,       \* MODEL_DRIFT_DETECTED events: <<run, metric>>
  pc,           \* where each run is
  cycle,        \* its number
  rows,         \* the matches its backtest queried, in order
  start,        \* how many of them the next fold trains on
  pred,         \* predictions: <<index of the match, length of the training prefix>>
  champ,        \* the version its intervals go to
  left,         \* targets still to store
  found         \* drift findings still to be reported

modelVars == <<live, born>>
rowVars == <<backtest, calibrated, interval>>
foldVars == <<rows, start, pred>>
storeVars == <<champ, left>>
driftVars == <<monitoring, events, found, cut>>
vars == <<played, cycles, live, born, backtest, calibrated, interval, cut, monitoring, events,
          pc, cycle, rows, start, pred, champ, left, found>>

Init ==
  /\ played = {}
  /\ cycles = 0
  /\ live = None
  /\ born = [v \in Version |-> None]
  /\ backtest = [v \in Version |-> None]
  /\ calibrated = [v \in Version |-> NoEvidence]
  /\ interval = [v \in Version |-> [t \in Target |-> NoInterval]]
  /\ cut = {}
  /\ monitoring = {}
  /\ events = {}
  /\ pc = [r \in Run |-> "idle"]
  /\ cycle = [r \in Run |-> None]
  /\ rows = [r \in Run |-> <<>>]
  /\ start = [r \in Run |-> 0]
  /\ pred = [r \in Run |-> {}]
  /\ champ = [r \in Run |-> None]
  /\ left = [r \in Run |-> {}]
  /\ found = [r \in Run |-> {}]

GoTo(r, p) == pc' = [pc EXCEPT ![r] = p]

-----------------------------------------------------------------------------
(* The provider completes a match, in whatever order, or takes it back.      *)
MatchChanges(m) ==
  /\ played' = IF m \in played THEN played \ {m} ELSE played \union {m}
  /\ UNCHANGED <<cycles, modelVars, rowVars, pc, cycle, foldVars, storeVars, driftVars>>

Begin(r) ==
  /\ pc[r] = "idle"
  /\ cycles < MaxCycles
  /\ cycles' = cycles + 1
  /\ cycle' = [cycle EXCEPT ![r] = cycles + 1]
  /\ GoTo(r, "train")
  /\ UNCHANGED <<played, modelVars, rowVars, foldVars, storeVars, driftVars>>

(* Training ends with a challenger of this run promoted (the former live     *)
(* version is RETIRED) or, beside a live version, rejected (it is RETIRED),  *)
(* with the model disabled, or with nothing changed.                         *)
Train(r, outcome) ==
  /\ pc[r] = "train"
  /\ outcome = "rejected" => live # None
  /\ live' = CASE outcome = "promoted" -> cycle[r]
               [] outcome = "disabled" -> None
               [] OTHER -> live
  /\ born' = IF outcome \in {"promoted", "rejected"}
               THEN [born EXCEPT ![cycle[r]] = cycle[r]] ELSE born
  /\ GoTo(r, "query")
  /\ UNCHANGED <<played, cycles, rowVars, cycle, foldVars, storeVars, driftVars>>

(* An administrator's rollback, to any version that is not live; between its *)
(* two commits nothing is live.                                              *)
Rollback(v) ==
  /\ v # live
  /\ v # None => born[v] # None
  /\ live' = v
  /\ UNCHANGED <<played, cycles, born, rowVars, pc, cycle, foldVars, storeVars, driftVars>>

(* S in increasing order.                                                    *)
Ordered(S) ==
  [i \in 1..Cardinality(S) |->
     CHOOSE m \in S : Cardinality({n \in S : n < m}) = i - 1]

(* Mutant: no minimum for a backtest.                                        *)
QueryAlways(r) ==
  /\ pc[r] = "query"
  /\ rows' = [rows EXCEPT ![r] = Ordered(played)]
  /\ start' = [start EXCEPT ![r] = InitialTrain]
  /\ GoTo(r, "fold")
  /\ UNCHANGED <<played, cycles, modelVars, rowVars, cycle, pred, storeVars, driftVars>>

(* run: the completed matches by kickoff; too few, and there is no backtest. *)
Query(r) ==
  /\ pc[r] = "query"
  /\ IF Cardinality(played) < InitialTrain + FoldSize
       THEN /\ GoTo(r, "calibrate")
            /\ UNCHANGED <<rows, start>>
       ELSE /\ rows' = [rows EXCEPT ![r] = Ordered(played)]
            /\ start' = [start EXCEPT ![r] = InitialTrain]
            /\ GoTo(r, "fold")
  /\ UNCHANGED <<played, cycles, modelVars, rowVars, cycle, pred, storeVars, driftVars>>

Least(a, b) == IF a <= b THEN a ELSE b
FoldEnd(r) == Least(start[r] + FoldSize, Len(rows[r]))

(* Mutant: the fold's own matches are trained on as well.                    *)
FoldLeaks(r, fits) ==
  /\ pc[r] = "fold"
  /\ start[r] < Len(rows[r])
  /\ pred' = IF fits
               THEN [pred EXCEPT ![r] = @ \union ((start[r] + 1)..FoldEnd(r)) \X {FoldEnd(r)}]
               ELSE pred
  /\ start' = [start EXCEPT ![r] = FoldEnd(r)]
  /\ UNCHANGED <<played, cycles, modelVars, rowVars, pc, cycle, rows, storeVars, driftVars>>

(* One fold: fitted on everything before it, it predicts its matches; a fold *)
(* whose fit raises is left out.  The fit rates every team of the            *)
(* competition, so that no match of a fitted fold is left out.               *)
Fold(r, fits) ==
  /\ pc[r] = "fold"
  /\ start[r] < Len(rows[r])
  /\ pred' = IF fits
               THEN [pred EXCEPT ![r] = @ \union ((start[r] + 1)..FoldEnd(r)) \X {start[r]}]
               ELSE pred
  /\ start' = [start EXCEPT ![r] = FoldEnd(r)]
  /\ UNCHANGED <<played, cycles, modelVars, rowVars, pc, cycle, rows, storeVars, driftVars>>

(* _finalize_report and _persist: with a prediction and a live version there *)
(* is a row.                                                                 *)
FinishBacktest(r) ==
  /\ pc[r] = "fold"
  /\ start[r] >= Len(rows[r])
  /\ backtest' = IF pred[r] # {} /\ live # None
                   THEN [backtest EXCEPT ![live] = cycle[r]] ELSE backtest
  /\ GoTo(r, "calibrate")
  /\ UNCHANGED <<played, cycles, modelVars, calibrated, interval, cycle, foldVars, storeVars, driftVars>>

(* CalibrationService.train: skipped without a live version or with too few  *)
(* predictions.                                                              *)
Calibrate(r) ==
  /\ pc[r] = "calibrate"
  /\ LET n == Cardinality(pred[r]) IN
       calibrated' = IF live # None /\ n >= MinCalibrate
                       THEN [calibrated EXCEPT ![live] = [cycle |-> cycle[r], n |-> n]]
                       ELSE calibrated
  /\ GoTo(r, "conformal")
  /\ UNCHANGED <<played, cycles, modelVars, backtest, interval, cycle, foldVars, storeVars, driftVars>>

(* ConformalCalibrationService.train: the champion is read once.             *)
ReadChampion(r) ==
  /\ pc[r] = "conformal"
  /\ IF live # None /\ Cardinality(pred[r]) >= MinConformal
       THEN /\ champ' = [champ EXCEPT ![r] = live]
            /\ left' = [left EXCEPT ![r] = Target]
            /\ GoTo(r, "store")
       ELSE /\ GoTo(r, "drift")
            /\ UNCHANGED storeVars
  /\ UNCHANGED <<played, cycles, modelVars, rowVars, cycle, foldVars, driftVars>>

(* The targets in the order they are stored in.                              *)
Order == <<"home_goals", "away_goals", "total_goals", "outcome">>
NextTarget(r) == Order[CHOOSE i \in 1..4 : /\ Order[i] \in left[r]
                                           /\ \A j \in 1..(i - 1) : Order[j] \notin left[r]]

(* The earlier half of the predictions calibrates, the later half tests.     *)
Split(r) ==
  LET n == Cardinality(pred[r])
      half == IF n < 2 THEN 1 ELSE n \div 2 IN
  [cycle |-> cycle[r], calibration |-> half, test |-> n - half]

Stored(r) ==
  /\ left' = [left EXCEPT ![r] = @ \ {NextTarget(r)}]
  /\ IF Cardinality(left[r]) = 1
       THEN /\ champ' = [champ EXCEPT ![r] = None]
            /\ GoTo(r, "drift")
       ELSE UNCHANGED <<champ, pc>>
  /\ UNCHANGED <<played, cycles, modelVars, backtest, calibrated, cycle, foldVars, driftVars>>

(* Mutant: every commit looks for the champion again.                        *)
StoreAtLive(r) ==
  /\ pc[r] = "store"
  /\ interval' = IF live = None THEN interval
                   ELSE [interval EXCEPT ![live][NextTarget(r)] = Split(r)]
  /\ Stored(r)

(* _persist: one target, one commit.                                         *)
Store(r) ==
  /\ pc[r] = "store"
  /\ interval' = [interval EXCEPT ![champ[r]][NextTarget(r)] = Split(r)]
  /\ Stored(r)

-----------------------------------------------------------------------------
Retired == {v \in Version : born[v] # None /\ v # live}
Newest(S) == CHOOSE v \in S : \A u \in S : u <= v

(* DriftDetectionService.run: the live version against the newest RETIRED    *)
(* one ("parameters"; the drift of its probabilities looks for the same two  *)
(* versions), and the season against the last ("scoring"; like that of the   *)
(* teams' strengths it needs no dixon_coles version and falls back to the    *)
(* live one); each breaches its threshold or does not.                       *)
Detect(r, metrics, breached) ==
  /\ pc[r] = "drift"
  /\ "parameters" \in metrics <=> live # None /\ Retired # {}
  /\ breached \subseteq metrics
  /\ found' = [found EXCEPT ![r] =
                 {[metric |-> m, version |-> live, breached |-> m \in breached,
                   against |-> IF m = "parameters" THEN Newest(Retired) ELSE None] : m \in metrics}]
  /\ GoTo(r, "report")
  /\ UNCHANGED <<played, cycles, modelVars, rowVars, cycle, foldVars, storeVars, monitoring, events, cut>>

(* _persist, its first commit: a row for each finding with a version, its    *)
(* own or the one that is live by now.                                       *)
Report(r) ==
  /\ pc[r] = "report"
  /\ LET versionOf(f) == IF f.version # None THEN f.version ELSE live
         rowOf(f) == [cycle |-> cycle[r], metric |-> f.metric, version |-> versionOf(f),
                      against |-> f.against, breached |-> f.breached] IN
       monitoring' = monitoring \union {rowOf(f) : f \in {g \in found[r] : versionOf(g) # None}}
  /\ GoTo(r, "alarm")
  /\ UNCHANGED <<played, cycles, modelVars, rowVars, cycle, foldVars, storeVars, found, events, cut>>

Breached(r) == {f \in found[r] : f.breached}

Forget(r) ==
  /\ GoTo(r, "idle")
  /\ cycle' = [cycle EXCEPT ![r] = None]
  /\ rows' = [rows EXCEPT ![r] = <<>>]
  /\ start' = [start EXCEPT ![r] = 0]
  /\ pred' = [pred EXCEPT ![r] = {}]
  /\ champ' = [champ EXCEPT ![r] = None]
  /\ left' = [left EXCEPT ![r] = {}]
  /\ found' = [found EXCEPT ![r] = {}]
  /\ UNCHANGED <<played, cycles, modelVars, rowVars, monitoring>>

(* Mutant: every finding raises an alarm.                                    *)
AlarmAll(r) ==
  /\ pc[r] = "alarm"
  /\ events' = events \union {<<cycle[r], f.metric>> : f \in found[r]}
  /\ Forget(r)
  /\ UNCHANGED cut

(* Its second commit: an event for each breach.  The run is over.            *)
Alarm(r) ==
  /\ pc[r] = "alarm"
  /\ events' = events \union {<<cycle[r], f.metric>> : f \in Breached(r)}
  /\ Forget(r)
  /\ UNCHANGED cut

(* The process ends, or a query raises and the job fails.                    *)
Dies(r) ==
  /\ pc[r] # "idle"
  /\ cut' = cut \union {cycle[r]}
  /\ Forget(r)
  /\ UNCHANGED events

-----------------------------------------------------------------------------
Step(r) ==
  \/ \E outcome \in Outcome : Train(r, outcome)
  \/ Query(r)
  \/ \E fits \in BOOLEAN : Fold(r, fits)
  \/ FinishBacktest(r)
  \/ Calibrate(r)
  \/ ReadChampion(r)
  \/ Store(r)
  \/ \E metrics, breached \in SUBSET Metric : Detect(r, metrics, breached)
  \/ Report(r)
  \/ Alarm(r)
  \/ Dies(r)

World ==
  \/ \E m \in Match : MatchChanges(m)
  \/ \E v \in Version \union {None} : Rollback(v)

Quiet == \A r \in Run : pc[r] = "idle"

(* Runs overlap, as two keys of the job queue allow.                         *)
Next ==
  \/ \E r \in Run : Begin(r) \/ Step(r)
  \/ World

(* One run at a time.                                                        *)
NextSerial ==
  \/ \E r \in Run : (Quiet /\ Begin(r)) \/ Step(r)
  \/ World

Spec == Init /\ [][Next]_vars
SpecSerial == Init /\ [][NextSerial]_vars

-----------------------------------------------------------------------------
TypeOK ==
  /\ played \subseteq Match
  /\ cycles \in 0..MaxCycles
  /\ live \in Version \union {None}
  /\ \A v \in Version :
       /\ born[v] \in {None, v}
       /\ backtest[v] \in 0..cycles
       /\ calibrated[v] \in [cycle : 0..cycles, n : 0..Matches]
       /\ interval[v] \in [Target -> [cycle : 0..cycles, calibration : 0..Matches, test : 0..Matches]]
  /\ cut \subseteq 1..cycles
  /\ monitoring \subseteq [cycle : 1..cycles, metric : Metric, version : Version,
                           against : Version \union {None}, breached : BOOLEAN]
  /\ events \subseteq (1..cycles) \X Metric
  /\ \A r \in Run :
       /\ pc[r] \in {"idle", "train", "query", "fold", "calibrate", "conformal", "store",
                     "drift", "report", "alarm"}
       /\ cycle[r] \in 0..cycles /\ (cycle[r] = None <=> pc[r] = "idle")
       /\ Len(rows[r]) <= Matches /\ \A i \in 1..Len(rows[r]) : rows[r][i] \in Match
       /\ start[r] \in 0..Len(rows[r])
       /\ pred[r] \subseteq (1..Len(rows[r])) \X (1..Len(rows[r]))
       /\ left[r] \subseteq Target /\ champ[r] \in Version \union {None}
       /\ (pc[r] = "store" <=> left[r] # {}) /\ (pc[r] = "store" <=> champ[r] # None)

(* Walk-forward: a prediction comes from a fit on matches none of which is   *)
(* the one predicted or kicks off after it, on no fewer than the initial     *)
(* window, and no match is predicted twice (backtesting.py, run and          *)
(* run_gbdt: the fold boundaries).                                           *)
WalksForward ==
  \A r \in Run : \A p \in pred[r] :
    /\ p[2] >= InitialTrain
    /\ \A j \in 1..p[2] : rows[r][j] # rows[r][p[1]] /\ kickoff[rows[r][j]] <= kickoff[rows[r][p[1]]]
    /\ \A q \in pred[r] : q[1] = p[1] => q = p

(* The four intervals a forecast is given come of one backtest, split the    *)
(* same way, with something to calibrate on - except while they are being    *)
(* stored, or when the run that stored the last of them was cut off          *)
(* (conformal_calibration.py: four commits at a champion read before them).  *)
IntervalsOfOneBacktest ==
  \A v \in Version :
    LET row == interval[v]
        last == Newest({row[t].cycle : t \in Target}) IN
    \/ \A t \in Target : row[t] = NoInterval
    \/ \A t, u \in Target : row[t] = row[u] /\ row[t].calibration >= 1
                                            /\ row[t].calibration + row[t].test >= MinConformal
    \/ last \in cut
    \/ \E r \in Run : pc[r] = "store" /\ champ[r] = v /\ cycle[r] = last

(* A monitoring row is breached exactly when its alarm was raised, unless    *)
(* the alarm is still to come or its run was cut off; an alarm about the     *)
(* parameters has its row (drift_detection.py: rows first, events after).    *)
AlarmsMatchRows ==
  /\ \A m \in monitoring :
       \/ m.breached <=> <<m.cycle, m.metric>> \in events
       \/ m.cycle \in cut
       \/ \E r \in Run : pc[r] = "alarm" /\ cycle[r] = m.cycle
  /\ \A e \in events : e[2] = "parameters" =>
       \E m \in monitoring : m.cycle = e[1] /\ m.metric = e[2]

(* "Every recorded prediction was made using strictly earlier data than the  *)
(* match it predicts" (backtesting.py:7-8).                                  *)
StrictlyEarlier ==
  \A r \in Run : \A p \in pred[r] :
    \A j \in 1..p[2] : kickoff[rows[r][j]] < kickoff[rows[r][p[1]]]

(* "Every check is persisted as a ModelMonitoring row"                       *)
(* (drift_detection.py:4): every alarm has its row.                          *)
EveryAlarmHasItsRow ==
  \A e \in events : \E m \in monitoring : m.cycle = e[1] /\ m.metric = e[2]

(* Parameters drift "between the previous (RETIRED) and current (ENABLED)"   *)
(* fit (drift_detection.py:15-17).                                           *)
ComparedWithPrevious ==
  \A m \in monitoring : m.metric = "parameters" => m.against < m.version
=============================================================================
