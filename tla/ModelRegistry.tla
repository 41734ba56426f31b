--------------------------- MODULE ModelRegistry ---------------------------
(***************************************************************************)
(* The model_versions rows of one (model_name, competition) slot:           *)
(* app/services/model_version_registry.py, the champion/challenger gate of  *)
(* champion_challenger.py, the training cycles that drive them              *)
(* (model_training.py for a gated model, market_models.py and xg_model.py   *)
(* for one that is not) and the rollback endpoint of app/api/main.py.       *)
(* Every step of a process is one SELECT whose result is used later, or one *)
(* commit, so all interleavings of syncs and administrators are behaviours. *)
(***************************************************************************)
EXTENDS Naturals, FiniteSets

CONSTANTS
  Trainer,      \* syncs that may train this slot at the same time
  Admin,        \* administrators that may roll it back
  Gated,        \* TRUE: the gate decides; FALSE: promoted on every retrain
  MinMatches,   \* matches below which the model is not eligible
  MinNew,       \* settings.champion_challenger_min_new_matches
  MaxMatches,   \* bound on completed matches
  MaxVersions   \* bound on model_versions rows

ASSUME GatedAssumption == Gated \in BOOLEAN
ASSUME BoundsAssumption ==
  /\ MinMatches \in Nat
  /\ MinNew \in Nat
  /\ MaxMatches \in Nat
  /\ MaxVersions \in Nat \ {0}
ASSUME ProcessAssumption == Trainer \intersect Admin = {}

Process == Trainer \union Admin

(* Rows in the order of their insertion, which is that of trained_at.        *)
Version == 1..MaxVersions
NoVersion == 0

(* training_window_end: the number of completed matches, in kickoff order,   *)
(* the version was fitted on; a row with no fit has none.                    *)
Cutoff == 0..MaxMatches
NoCutoff == MaxMatches + 1

Status == {"NONE", "ENABLED", "DISABLED", "CHALLENGER", "RETIRED"}
Reason == {"none", "superseded", "rejected", "ineligible"}
Event  == {"none", "MODEL_PROMOTED", "MODEL_CHALLENGER_REJECTED"}
PC == {"idle", "champion", "fit", "stage", "select", "retire",
       "promote", "persist", "disable", "reject", "log"}
Goal == {"none", "promote", "persist", "disable", "reject"}

VARIABLES
  played,       \* completed matches with a result
  status,       \* ModelVersion.status; "NONE" for a row not inserted yet
  reason,       \* ModelVersion.disabled_reason
  cutoff,       \* ModelVersion.training_window_end
  event,        \* the SystemEvent of the decision on a version
  audited,      \* versions with a ROLLBACK_MODEL_VERSION audit entry
  pc,           \* where each process is
  goal,         \* what it does once the live version is retired
  mine,         \* the version it stages, decides on or rolls back to
  champ,        \* the champion it read
  seen,         \* the completed matches it read
  sel           \* the rows its last SELECT returned

rowVars == <<status, reason, cutoff>>
logVars == <<event, audited>>
procVars == <<pc, goal, mine, champ, seen, sel>>
vars == <<played, status, reason, cutoff, event, audited, pc, goal, mine, champ, seen, sel>>

Init ==
  /\ played = 0
  /\ status = [v \in Version |-> "NONE"]
  /\ reason = [v \in Version |-> "none"]
  /\ cutoff = [v \in Version |-> NoCutoff]
  /\ event = [v \in Version |-> "none"]
  /\ audited = {}
  /\ pc = [p \in Process |-> "idle"]
  /\ goal = [p \in Process |-> "none"]
  /\ mine = [p \in Process |-> NoVersion]
  /\ champ = [p \in Process |-> NoVersion]
  /\ seen = [p \in Process |-> 0]
  /\ sel = [p \in Process |-> {}]

-----------------------------------------------------------------------------
WithStatus(s) == {v \in Version : status[v] = s}
Live == WithStatus("ENABLED")
Fitted(v) == cutoff[v] # NoCutoff

(* The next row an INSERT makes.                                             *)
IsFresh(v) == status[v] = "NONE" /\ \A u \in Version : u < v => status[u] # "NONE"

(* Mutant: the newest fit that was ever live, whatever its status is now.    *)
ChampionsEver ==
  LET ever == {v \in Version : status[v] \in {"ENABLED", "RETIRED"}} IN
  IF ever = {} THEN {NoVersion} ELSE {v \in ever : \A u \in ever : u <= v}

(* get_champion: ENABLED, latest trained_at first.  A row without a fit has  *)
(* no trained_at, and databases disagree on where NULL sorts.                *)
Champions ==
  IF Live = {}
    THEN {NoVersion}
    ELSE {v \in Live : \A u \in Live : Fitted(u) /\ Fitted(v) => u <= v}

(* There is an eval fit (the champion saw matches, and there are newer ones) *)
(* and enough of those newer ones.                                           *)
HasEvidence(c, n) ==
  /\ Fitted(c)
  /\ cutoff[c] > 0
  /\ n > cutoff[c]
  /\ n >= cutoff[c] + MinNew

(* evaluate_and_promote's branches.  Which loss is smaller, and whether both *)
(* models can score a new match at all, is data.                             *)
Verdicts(c, n) ==
  CASE c = NoVersion       -> {"PROMOTED_NO_CHAMPION"}
    [] c # NoVersion /\ ~HasEvidence(c, n) -> {"PROMOTED_INSUFFICIENT_EVIDENCE"}
    [] OTHER -> {"PROMOTED_INSUFFICIENT_EVIDENCE", "PROMOTED", "REJECTED"}

GoTo(p, l) == pc' = [pc EXCEPT ![p] = l]
Aim(p, g)  == goal' = [goal EXCEPT ![p] = g]

(* The rows of a SELECT have been written back.                              *)
Forget(p) == sel' = [sel EXCEPT ![p] = {}]

(* The cycle or the request is over: its session and locals are gone.        *)
Done(p) ==
  /\ GoTo(p, "idle")
  /\ Aim(p, "none")
  /\ Forget(p)
  /\ mine' = [mine EXCEPT ![p] = NoVersion]
  /\ champ' = [champ EXCEPT ![p] = NoVersion]
  /\ seen' = [seen EXCEPT ![p] = 0]

-----------------------------------------------------------------------------
MatchCompletes ==
  /\ played < MaxMatches
  /\ played' = played + 1
  /\ UNCHANGED <<rowVars, logVars, procVars>>

(* There is room for the rows of the cycles under way and one more.          *)
HasRoom == Cardinality(WithStatus("NONE")) > Cardinality({t \in Trainer : pc[t] # "idle"})

(* A training cycle reads the completed matches and tests eligibility.       *)
Begin(t) ==
  /\ pc[t] = "idle"
  /\ HasRoom
  /\ seen' = [seen EXCEPT ![t] = played]
  /\ IF played < MinMatches
       THEN GoTo(t, "select") /\ Aim(t, "disable")
       ELSE IF Gated
              THEN GoTo(t, "champion") /\ Aim(t, "none")
              ELSE GoTo(t, "select") /\ Aim(t, "persist")
  /\ UNCHANGED <<played, rowVars, logVars, mine, champ, sel>>

ReadChampion(t) ==
  /\ pc[t] = "champion"
  /\ \E c \in Champions : champ' = [champ EXCEPT ![t] = c]
  /\ GoTo(t, "fit")
  /\ UNCHANGED <<played, rowVars, logVars, goal, mine, seen, sel>>

(* A gradient-boosting library raised: the model is recorded as DISABLED.    *)
FitFails(t) ==
  /\ pc[t] = "fit"
  /\ GoTo(t, "select")
  /\ Aim(t, "disable")
  /\ UNCHANGED <<played, rowVars, logVars, mine, champ, seen, sel>>

(* stage_challenger: the SELECT of earlier challengers ...                   *)
StageSelect(t) ==
  /\ pc[t] = "fit"
  /\ sel' = [sel EXCEPT ![t] = WithStatus("CHALLENGER")]
  /\ GoTo(t, "stage")
  /\ UNCHANGED <<played, rowVars, logVars, goal, mine, champ, seen>>

(* Where the gate goes with its verdict.                                     *)
Follow(t, verdict) ==
  IF verdict = "REJECTED"
    THEN GoTo(t, "reject") /\ Aim(t, "reject")
    ELSE GoTo(t, "select") /\ Aim(t, "promote")

(* Mutant: earlier challengers are left as they are.                         *)
StageKeeps(t) ==
  /\ pc[t] = "stage"
  /\ \E v \in Version :
       /\ IsFresh(v)
       /\ status' = [status EXCEPT ![v] = "CHALLENGER"]
       /\ cutoff' = [cutoff EXCEPT ![v] = seen[t]]
       /\ mine' = [mine EXCEPT ![t] = v]
  /\ \E verdict \in Verdicts(champ[t], seen[t]) : Follow(t, verdict)
  /\ Forget(t)
  /\ UNCHANGED <<played, reason, logVars, champ, seen>>

(* ... and the commit that retires them and adds the new one; then the gate  *)
(* decides from what it read before.                                         *)
Stage(t) ==
  /\ pc[t] = "stage"
  /\ \E v \in Version :
       /\ IsFresh(v)
       /\ status' = [u \in Version |->
            IF u = v THEN "CHALLENGER" ELSE IF u \in sel[t] THEN "RETIRED" ELSE status[u]]
       /\ cutoff' = [cutoff EXCEPT ![v] = seen[t]]
       /\ mine' = [mine EXCEPT ![t] = v]
  /\ reason' = [u \in Version |-> IF u \in sel[t] THEN "superseded" ELSE reason[u]]
  /\ \E verdict \in Verdicts(champ[t], seen[t]) : Follow(t, verdict)
  /\ Forget(t)
  /\ UNCHANGED <<played, logVars, champ, seen>>

(* retire_active: the SELECT of what is ENABLED ...                          *)
SelectLive(p) ==
  /\ pc[p] = "select"
  /\ sel' = [sel EXCEPT ![p] = Live]
  /\ GoTo(p, IF Live = {} THEN goal[p] ELSE "retire")
  /\ UNCHANGED <<played, rowVars, logVars, goal, mine, champ, seen>>

(* ... and, if there was any, its own commit.                                *)
Retire(p) ==
  /\ pc[p] = "retire"
  /\ status' = [v \in Version |-> IF v \in sel[p] THEN "RETIRED" ELSE status[v]]
  /\ GoTo(p, goal[p])
  /\ Forget(p)
  /\ UNCHANGED <<played, reason, cutoff, logVars, goal, mine, champ, seen>>

(* The second commit of promote.                                             *)
Promote(p) ==
  /\ pc[p] = "promote"
  /\ status' = [status EXCEPT ![mine[p]] = "ENABLED"]
  /\ GoTo(p, "log")
  /\ UNCHANGED <<played, reason, cutoff, logVars, goal, mine, champ, seen, sel>>

(* Mutant: the wrong row is retired.                                         *)
RejectChampion(t) ==
  /\ pc[t] = "reject"
  /\ status' = [status EXCEPT ![champ[t]] = "RETIRED"]
  /\ reason' = [reason EXCEPT ![champ[t]] = "rejected"]
  /\ GoTo(t, "log")
  /\ UNCHANGED <<played, cutoff, logVars, goal, mine, champ, seen, sel>>

(* reject_challenger.                                                        *)
Reject(t) ==
  /\ pc[t] = "reject"
  /\ status' = [status EXCEPT ![mine[t]] = "RETIRED"]
  /\ reason' = [reason EXCEPT ![mine[t]] = "rejected"]
  /\ GoTo(t, "log")
  /\ UNCHANGED <<played, cutoff, logVars, goal, mine, champ, seen, sel>>

(* Mutant: the new row is added before its status is set.                    *)
PersistStaged(t) ==
  /\ pc[t] = "persist"
  /\ \E v \in Version :
       /\ IsFresh(v)
       /\ status' = [status EXCEPT ![v] = "CHALLENGER"]
       /\ cutoff' = [cutoff EXCEPT ![v] = seen[t]]
  /\ Done(t)
  /\ UNCHANGED <<played, reason, logVars>>

(* persist_goal_fit after its retire_active.                                 *)
Persist(t) ==
  /\ pc[t] = "persist"
  /\ \E v \in Version :
       /\ IsFresh(v)
       /\ status' = [status EXCEPT ![v] = "ENABLED"]
       /\ cutoff' = [cutoff EXCEPT ![v] = seen[t]]
  /\ Done(t)
  /\ UNCHANGED <<played, reason, logVars>>

(* record_disabled after its retire_active: one DISABLED row, reused.        *)
Disable(t) ==
  /\ pc[t] = "disable"
  /\ IF WithStatus("DISABLED") # {}
       THEN UNCHANGED <<status, reason>>
       ELSE \E v \in Version :
              /\ IsFresh(v)
              /\ status' = [status EXCEPT ![v] = "DISABLED"]
              /\ reason' = [reason EXCEPT ![v] = "ineligible"]
  /\ Done(t)
  /\ UNCHANGED <<played, cutoff, logVars>>

(* Mutant: only promotions are logged.                                       *)
LogPromotions(t) ==
  /\ t \in Trainer
  /\ pc[t] = "log"
  /\ event' = IF goal[t] = "reject" THEN event
                ELSE [event EXCEPT ![mine[t]] = "MODEL_PROMOTED"]
  /\ Done(t)
  /\ UNCHANGED <<played, rowVars, audited>>

(* _log_decision.                                                            *)
LogDecision(t) ==
  /\ t \in Trainer
  /\ pc[t] = "log"
  /\ event' = [event EXCEPT ![mine[t]] =
                 IF goal[t] = "reject" THEN "MODEL_CHALLENGER_REJECTED" ELSE "MODEL_PROMOTED"]
  /\ Done(t)
  /\ UNCHANGED <<played, rowVars, audited>>

(* Mutant: a rollback promotes without retiring what is live.                *)
RollbackAtOnce(a, v) ==
  /\ pc[a] = "idle"
  /\ status[v] \notin {"NONE", "ENABLED"}
  /\ mine' = [mine EXCEPT ![a] = v]
  /\ GoTo(a, "promote")
  /\ Aim(a, "promote")
  /\ UNCHANGED <<played, rowVars, logVars, champ, seen, sel>>

(* rollback_model: any row that is not the live one will do.                 *)
Rollback(a, v) ==
  /\ pc[a] = "idle"
  /\ status[v] \notin {"NONE", "ENABLED"}
  /\ mine' = [mine EXCEPT ![a] = v]
  /\ GoTo(a, "select")
  /\ Aim(a, "promote")
  /\ UNCHANGED <<played, rowVars, logVars, champ, seen, sel>>

(* Mutant: the audit entry is added and never committed.                     *)
RecordAuditUncommitted(a) ==
  /\ a \in Admin
  /\ pc[a] = "log"
  /\ Done(a)
  /\ UNCHANGED <<played, rowVars, logVars>>

(* record_audit and the endpoint's own commit.                               *)
RecordAudit(a) ==
  /\ a \in Admin
  /\ pc[a] = "log"
  /\ audited' = audited \union {mine[a]}
  /\ Done(a)
  /\ UNCHANGED <<played, rowVars, event>>

(* An exception or the death of the process between two commits.             *)
Fails(p) ==
  /\ pc[p] # "idle"
  /\ Done(p)
  /\ UNCHANGED <<played, rowVars, logVars>>

-----------------------------------------------------------------------------
Start(p) ==
  \/ p \in Trainer /\ Begin(p)
  \/ p \in Admin /\ \E v \in Version : Rollback(p, v)

Step(p) ==
  \/ ReadChampion(p)
  \/ FitFails(p)
  \/ StageSelect(p)
  \/ Stage(p)
  \/ SelectLive(p)
  \/ Retire(p)
  \/ Promote(p)
  \/ Reject(p)
  \/ Persist(p)
  \/ Disable(p)
  \/ LogDecision(p)
  \/ RecordAudit(p)

Quiet == \A p \in Process : pc[p] = "idle"

(* Nothing in the code keeps two syncs, or a sync and a rollback, apart.     *)
Next == MatchCompletes \/ \E p \in Process : Start(p) \/ Step(p)

(* What one replica sees whose scheduler is the only one to sync and whose   *)
(* administrators wait for it: one operation at a time.                      *)
NextSerial ==
  \/ MatchCompletes
  \/ Quiet /\ \E p \in Process : Start(p)
  \/ \E p \in Process : Step(p)

NextF == Next \/ \E p \in Process : Fails(p)
NextSerialF == NextSerial \/ \E p \in Process : Fails(p)

Spec == Init /\ [][Next]_vars
SpecF == Init /\ [][NextF]_vars
SpecSerial == Init /\ [][NextSerial]_vars
SpecSerialF == Init /\ [][NextSerialF]_vars

-----------------------------------------------------------------------------
TypeOK ==
  /\ played \in 0..MaxMatches
  /\ status \in [Version -> Status]
  /\ reason \in [Version -> Reason]
  /\ cutoff \in [Version -> Cutoff \union {NoCutoff}]
  /\ event \in [Version -> Event]
  /\ audited \subseteq Version
  /\ pc \in [Process -> PC]
  /\ goal \in [Process -> Goal]
  /\ mine \in [Process -> Version \union {NoVersion}]
  /\ champ \in [Process -> Version \union {NoVersion}]
  /\ seen \in [Process -> 0..MaxMatches]
  /\ sel \in [Process -> SUBSET Version]

-----------------------------------------------------------------------------
(* promote "retires whatever is currently ENABLED (if anything) and promotes *)
(* `version`": a slot never has two live versions.                           *)
AtMostOneLive == \A u, v \in Live : u = v

(* "Any previous, never-promoted CHALLENGER is retired first": the one a     *)
(* dead cycle left behind does not pile up with later ones.                  *)
AtMostOneChallenger == \A u, v \in WithStatus("CHALLENGER") : u = v

(* A challenger is "only promoted over the current champion if it doesn't    *)
(* meaningfully regress": a live version the gate retires is the one whose   *)
(* evidence it looked at.                                                    *)
GateReplacesWhatItCompared ==
  [][\A v \in Version : status[v] = "ENABLED" /\ status'[v] = "RETIRED" =>
       \A t \in Trainer : pc[t] = "retire" /\ pc'[t] = "promote" => champ[t] = v]_vars

(* "Otherwise it's REJECTED - the champion stays live": turning a challenger *)
(* down changes nothing about what is live.                                  *)
RejectionKeepsTheLive ==
  [][\A t \in Trainer : pc[t] = "reject" /\ pc'[t] = "log" => Live' = Live]_vars

(* A slot that has been trained does not go dark: a version is live, or a    *)
(* DISABLED row says why none is, or somebody is between the commits that    *)
(* exchange one live version for another.                                    *)
NeverDark ==
  (\E v \in Version : Fitted(v)) =>
    \/ Live # {}
    \/ WithStatus("DISABLED") # {}
    \/ ~Quiet

(* "Every decision logs a MODEL_PROMOTED or MODEL_CHALLENGER_REJECTED":      *)
(* once the process that turned a version down or made it live has moved on, *)
(* the matching event is there, unless an administrator made it live: then   *)
(* the audit log says so.  A version another cycle superseded first is not   *)
(* told apart any more.                                                      *)
EveryDecisionLogged ==
  Gated => \A v \in Version :
    \/ \E p \in Process : pc[p] = "log" /\ mine[p] = v
    \/ /\ reason[v] = "rejected" => event[v] = "MODEL_CHALLENGER_REJECTED"
       /\ status[v] = "ENABLED" /\ reason[v] = "none"
            => event[v] = "MODEL_PROMOTED" \/ v \in audited

(* A challenger that lost is live only because an administrator said so, and *)
(* the audit log names it (rollback is "always audit-logged").               *)
LosersReturnAudited ==
  \A v \in Version : status[v] = "ENABLED" /\ reason[v] = "rejected" =>
    \/ v \in audited
    \/ \E a \in Admin : pc[a] = "log" /\ mine[a] = v

(* Rollback "promotes a specific, previously-trained version": what is live  *)
(* can score a match.                                                        *)
LiveIsFitted == \A v \in Live : Fitted(v)
=============================================================================
