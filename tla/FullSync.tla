------------------------------ MODULE FullSync ------------------------------
(***************************************************************************)
(* FullSyncService.run (app/services/sync_orchestrator.py) with the services *)
(* it calls: discovery, teams, fixtures and results of every competition,   *)
(* then what is derived from them, on one session per run.  Contents are    *)
(* versions: the provider's grow, what is stored is some version of it, and *)
(* what is derived remembers the match data it was computed from.  A run    *)
(* reads, prepares rows and commits in separate steps; nothing keeps two    *)
(* runs apart (POST /sync, the job worker, the scheduler, the script).      *)
(* One season per competition stands for the active and the last finished   *)
(* one, which are synced alike, one after the other.                        *)
(***************************************************************************)
EXTENDS Naturals

CONSTANTS
  Comp,         \* competitions
  Run,          \* runs that may be under way at the same time
  NoComp,       \* no competition in hand
  MaxVersion,   \* bound on the provider's versions
  Undrawn       \* <<competition, version>>: fixtures whose teams are not named

ASSUME VersionAssumption == MaxVersion \in Nat \ {0}
ASSUME CompAssumption == NoComp \notin Comp

Version == 0..MaxVersion
ASSUME UndrawnAssumption == Undrawn \subseteq Comp \X (Version \ {0})

(* What is copied from the provider, and what is computed from the copy.     *)
Source == {"teams", "fixtures", "results"}
Product == {"quality", "params", "models", "weights"}
Stage == Source \union Product \union {"drift"}
Data == [fixtures : Version, results : Version]
NoData == [fixtures |-> 0, results |-> 0]
Nothing == [x \in Comp \X Source |-> 0]
Unlisted == [c \in Comp |-> "none"]

(* A competition's own rows: none, the row alone, the row and its seasons.   *)
Listing == {"none", "row", "seasons"}

(* What a run leaves behind about a competition: an error or a rejection in  *)
(* one of the report's lists, an exception in the first of them, or only a   *)
(* warning in the log, for a fixture without known teams.                    *)
Kind == {"listed", "exception", "skipped"}
InReport == {"listed", "exception"}
Report == {"none", "OK", "DEGRADED", "ERROR", "RAISED", "ABORTED"}
PC == {"idle", "discover", "announce", "pick", "load", "commit", "store", "finish"}

VARIABLES
  offered,      \* the provider's version of each competition; 0: not listed
  listing,      \* competitions and seasons
  stored,       \* teams, fixtures (those with teams) and results
  derived,      \* the match data each product was computed from
  pc,           \* where each run is
  stage,        \* the stage of the competition it is about
  comp,         \* the competition it is about
  todo,         \* the competitions still to come
  found,        \* what discovery will write
  knew,         \* the listing that was read for it
  want,         \* the copies in the session, committed or not
  saw,          \* what was stored when they were prepared
  basis,        \* the match data a product is computed from
  was,          \* what the product's row was computed from
  errs,         \* what was noted about each competition: provider and validation
                \* errors, models to review; exceptions; skipped fixtures
  lost,         \* competitions() failed
  since,        \* `offered` when the run began
  report        \* system_status of the last run, or how it ended

dbVars == <<listing, stored, derived>>
discoveryVars == <<found, knew>>
sessionVars == <<want, saw>>
productVars == <<basis, was>>
reportVars == <<errs, lost, since, report>>
vars == <<offered, listing, stored, derived, pc, stage, comp, todo, found, knew,
          want, saw, basis, was, errs, lost, since, report>>

Init ==
  /\ offered = [c \in Comp |-> 0]
  /\ listing = Unlisted
  /\ stored = Nothing
  /\ derived = [x \in Comp \X Product |-> NoData]
  /\ pc = [r \in Run |-> "idle"]
  /\ stage = [r \in Run |-> "teams"]
  /\ comp = [r \in Run |-> NoComp]
  /\ todo = [r \in Run |-> {}]
  /\ found = [r \in Run |-> Unlisted]
  /\ knew = [r \in Run |-> Unlisted]
  /\ want = [r \in Run |-> Nothing]
  /\ saw = [r \in Run |-> Nothing]
  /\ basis = [r \in Run |-> NoData]
  /\ was = [r \in Run |-> NoData]
  /\ errs = [r \in Run |-> {}]
  /\ lost = [r \in Run |-> FALSE]
  /\ since = [r \in Run |-> [c \in Comp |-> 0]]
  /\ report = [r \in Run |-> "none"]

-----------------------------------------------------------------------------
GoTo(r, l) == pc' = [pc EXCEPT ![r] = l]
TurnTo(r, s) == stage' = [stage EXCEPT ![r] = s]
Note(r, kinds) == errs' = [errs EXCEPT ![r] = @ \union ({comp[r]} \X kinds)]

(* The locals of a run that is over.                                         *)
CloseSession(r) ==
  /\ want' = [want EXCEPT ![r] = Nothing]
  /\ saw' = [saw EXCEPT ![r] = Nothing]

Over(r, how) ==
  /\ GoTo(r, "idle")
  /\ TurnTo(r, "teams")
  /\ comp' = [comp EXCEPT ![r] = NoComp]
  /\ todo' = [todo EXCEPT ![r] = {}]
  /\ found' = [found EXCEPT ![r] = Unlisted]
  /\ knew' = [knew EXCEPT ![r] = Unlisted]
  /\ basis' = [basis EXCEPT ![r] = NoData]
  /\ was' = [was EXCEPT ![r] = NoData]
  /\ errs' = [errs EXCEPT ![r] = {}]
  /\ lost' = [lost EXCEPT ![r] = FALSE]
  /\ report' = [report EXCEPT ![r] = how]
  /\ since' = IF how = "OK" THEN since ELSE [since EXCEPT ![r] = [c \in Comp |-> 0]]

ProviderMoves(c) ==
  /\ offered[c] < MaxVersion
  /\ offered' = [offered EXCEPT ![c] = @ + 1]
  /\ UNCHANGED <<dbVars, pc, stage, comp, todo, discoveryVars, sessionVars, productVars, reportVars>>

-----------------------------------------------------------------------------
Begin(r) ==
  /\ pc[r] = "idle"
  /\ GoTo(r, "discover")
  /\ since' = [since EXCEPT ![r] = offered]
  /\ report' = [report EXCEPT ![r] = "none"]
  /\ UNCHANGED <<offered, dbVars, stage, comp, todo, discoveryVars, sessionVars, productVars,
                 errs, lost>>

Known == {c \in Comp : listing[c] # "none"}
Listed == {c \in Comp : offered[c] > 0}

(* competitions() failed: the run goes on with the competitions it has.      *)
DiscoveryFails(r) ==
  /\ pc[r] = "discover"
  /\ lost' = [lost EXCEPT ![r] = TRUE]
  /\ todo' = [todo EXCEPT ![r] = Known]
  /\ GoTo(r, "pick")
  /\ UNCHANGED <<offered, dbVars, stage, comp, discoveryVars, sessionVars, productVars,
                 errs, since, report>>

(* _discover_one for each of them; seasons() fails for those in `broken`,    *)
(* whose row is written all the same.                                        *)
Discover(r, broken) ==
  /\ pc[r] = "discover"
  /\ found' = [found EXCEPT ![r] = [c \in Comp |->
                 IF c \in Listed \ broken THEN "seasons"
                 ELSE IF c \in broken /\ listing[c] = "none" THEN "row"
                 ELSE listing[c]]]
  /\ knew' = [knew EXCEPT ![r] = listing]
  /\ errs' = [errs EXCEPT ![r] = broken \X {"listed"}]
  /\ GoTo(r, "announce")
  /\ UNCHANGED <<offered, dbVars, stage, comp, todo, sessionVars, productVars,
                 lost, since, report>>

(* The commit, and the query for all competitions.                           *)
Announce(r) ==
  /\ pc[r] = "announce"
  /\ listing' = [c \in Comp |-> IF found[r][c] # knew[r][c] THEN found[r][c] ELSE listing[c]]
  /\ todo' = [todo EXCEPT ![r] = {c \in Comp : listing'[c] # "none"}]
  /\ found' = [found EXCEPT ![r] = Unlisted]
  /\ knew' = [knew EXCEPT ![r] = Unlisted]
  /\ GoTo(r, "pick")
  /\ UNCHANGED <<offered, stored, derived, stage, comp, sessionVars, productVars, reportVars>>

(* Rows another run has inserted since: nothing in run() catches this.       *)
AnnounceCollides(r) ==
  /\ pc[r] = "announce"
  /\ \E c \in Comp : found[r][c] # knew[r][c] /\ listing[c] # knew[r][c]
  /\ Over(r, "RAISED")
  /\ CloseSession(r)
  /\ UNCHANGED <<offered, dbVars>>

-----------------------------------------------------------------------------
(* The competitions, one after the other; without a season only the models   *)
(* are trained.                                                              *)
Pick(r, c) ==
  /\ pc[r] = "pick"
  /\ c \in todo[r]
  /\ comp' = [comp EXCEPT ![r] = c]
  /\ todo' = [todo EXCEPT ![r] = @ \ {c}]
  /\ TurnTo(r, IF listing[c] = "seasons" THEN "teams" ELSE "models")
  /\ GoTo(r, "load")
  /\ UNCHANGED <<offered, dbVars, discoveryVars, sessionVars, productVars, reportVars>>

(* The rows of a source are looked up and changed in the session.            *)
Prepare(r, s, v) ==
  /\ want' = [want EXCEPT ![r] = [want[r] EXCEPT ![<<comp[r], s>>] = v]]
  /\ saw' = [saw EXCEPT ![r] = [saw[r] EXCEPT ![<<comp[r], s>>] = stored[<<comp[r], s>>]]]

(* sync_teams: when teams() fails nothing is written and the season goes on. *)
LoadTeams(r) ==
  /\ pc[r] = "load" /\ stage[r] = "teams"
  /\ Prepare(r, "teams", offered[comp[r]])
  /\ GoTo(r, "commit")
  /\ UNCHANGED <<offered, dbVars, stage, comp, todo, discoveryVars, productVars, reportVars>>

TeamsFail(r) ==
  /\ pc[r] = "load" /\ stage[r] = "teams"
  /\ Note(r, {"listed"})
  /\ TurnTo(r, "fixtures")
  /\ UNCHANGED <<offered, dbVars, pc, comp, todo, discoveryVars, sessionVars, productVars,
                 lost, since, report>>

(* A fixture of a team that is not stored is left out: the stored teams are  *)
(* older than the fixtures.                                                  *)
Storable(c) ==
  {offered[c]} \union
    {v \in {stored[<<c, "teams">>], stored[<<c, "fixtures">>]} :
       /\ stored[<<c, "teams">>] < offered[c]
       /\ v >= stored[<<c, "teams">>]
       /\ v >= stored[<<c, "fixtures">>]}

(* Or the provider does not say yet who plays (a tie that is not drawn).     *)
(* Either way it goes to skipped_missing_team, which no list takes over.     *)
LoadFixtures(r) ==
  /\ pc[r] = "load" /\ stage[r] = "fixtures"
  /\ \E v \in Storable(comp[r]) :
       /\ Prepare(r, "fixtures", v)
       /\ Note(r, IF v < offered[comp[r]] \/ <<comp[r], offered[comp[r]]>> \in Undrawn
                    THEN {"skipped"} ELSE {})
  /\ TurnTo(r, "results")
  /\ UNCHANGED <<offered, dbVars, pc, comp, todo, discoveryVars, productVars,
                 lost, since, report>>

(* Mutant: without new fixtures the quality is not evaluated again.          *)
FixturesFailSkips(r) ==
  /\ pc[r] = "load" /\ stage[r] = "fixtures"
  /\ Note(r, {"listed"})
  /\ TurnTo(r, "params")
  /\ UNCHANGED <<offered, dbVars, pc, comp, todo, discoveryVars, sessionVars, productVars,
                 lost, since, report>>

(* fixtures() failed: sync returns before it asks for results.               *)
FixturesFail(r) ==
  /\ pc[r] = "load" /\ stage[r] = "fixtures"
  /\ Note(r, {"listed"})
  /\ TurnTo(r, "quality")
  /\ UNCHANGED <<offered, dbVars, pc, comp, todo, discoveryVars, sessionVars, productVars,
                 lost, since, report>>

(* What is not stored of the results has a reason in one of the lists: the   *)
(* call failed, a result's fixture is unknown, a score is implausible.       *)
LoadResults(r, kinds) ==
  /\ pc[r] = "load" /\ stage[r] = "results"
  /\ \E v \in {stored[<<comp[r], "results">>], offered[comp[r]]} :
       /\ v = offered[comp[r]] \/ kinds # {}
       /\ Prepare(r, "results", v)
  /\ Note(r, kinds)
  /\ GoTo(r, "commit")
  /\ UNCHANGED <<offered, dbVars, stage, comp, todo, discoveryVars, productVars,
                 lost, since, report>>

(* A commit writes whatever has changed in the session.                      *)
Flush(r) ==
  /\ stored' = [x \in Comp \X Source |->
                  IF want[r][x] # saw[r][x] THEN want[r][x] ELSE stored[x]]
  /\ CloseSession(r)

(* Rows that another run has inserted since they were looked up.             *)
Overtaken(r) ==
  \E x \in Comp \X Source : want[r][x] > saw[r][x] /\ stored[x] # saw[r][x]

(* The commits of sync_teams and of FixtureSyncService.sync.                 *)
Commit(r) ==
  /\ pc[r] = "commit"
  /\ Flush(r)
  /\ TurnTo(r, IF stage[r] = "teams" THEN "fixtures" ELSE "quality")
  /\ GoTo(r, "load")
  /\ UNCHANGED <<offered, listing, derived, comp, todo, discoveryVars, productVars, reportVars>>

Matches(c) == [fixtures |-> stored[<<c, "fixtures">>], results |-> stored[<<c, "results">>]]

(* Data quality, league parameters, models, then the ensemble's weights:     *)
(* each reads the stored matches ...                                         *)
Compute(r) ==
  /\ pc[r] = "load" /\ stage[r] \in Product
  /\ basis' = [basis EXCEPT ![r] = Matches(comp[r])]
  /\ was' = [was EXCEPT ![r] = derived[<<comp[r], stage[r]>>]]
  /\ GoTo(r, "store")
  /\ UNCHANGED <<offered, dbVars, stage, comp, todo, discoveryVars, sessionVars, reportVars>>

After(p) ==
  CASE p = "quality" -> "params"
    [] p = "params"  -> "models"
    [] p = "models"  -> "weights"
    [] OTHER         -> "drift"

(* ... and commits what it makes of them.                                    *)
Store(r) ==
  /\ pc[r] = "store"
  /\ derived' = [derived EXCEPT ![<<comp[r], stage[r]>>] = basis[r]]
  /\ Flush(r)
  /\ TurnTo(r, After(stage[r]))
  /\ basis' = [basis EXCEPT ![r] = NoData]
  /\ was' = [was EXCEPT ![r] = NoData]
  /\ GoTo(r, "load")
  /\ UNCHANGED <<offered, listing, comp, todo, discoveryVars, reportVars>>

(* Parameters have one row per season, weights one per live model; nothing   *)
(* keeps a second quality row out, and a retrained model makes its own.      *)
Taken(r) ==
  /\ derived[<<comp[r], stage[r]>>] # was[r]
  /\ stage[r] = "weights" \/ (stage[r] = "params" /\ was[r] = NoData)

(* Drift and the activation lines only look for what a human should see.     *)
Look(r) ==
  /\ pc[r] = "load" /\ stage[r] = "drift"
  /\ \E kinds \in SUBSET {"listed"} : Note(r, kinds)
  /\ GoTo(r, "pick")
  /\ UNCHANGED <<offered, dbVars, stage, comp, todo, discoveryVars, sessionVars, productVars,
                 lost, since, report>>

-----------------------------------------------------------------------------
InCompetition(r) == pc[r] \in {"load", "commit", "store"}

(* Mutant: no exception boundary around the rest of the competitions.        *)
RaisesOut(r) ==
  /\ InCompetition(r)
  /\ Note(r, {"exception"})
  /\ todo' = [todo EXCEPT ![r] = {}]
  /\ basis' = [basis EXCEPT ![r] = NoData]
  /\ was' = [was EXCEPT ![r] = NoData]
  /\ GoTo(r, "pick")
  /\ UNCHANGED <<offered, dbVars, stage, comp, discoveryVars, sessionVars,
                 lost, since, report>>

(* Anything but the database raises: the run lists it and goes on with the   *)
(* next competition; what is in the session stays there.                     *)
Raises(r) ==
  /\ InCompetition(r)
  /\ Note(r, {"exception"})
  /\ basis' = [basis EXCEPT ![r] = NoData]
  /\ was' = [was EXCEPT ![r] = NoData]
  /\ GoTo(r, "pick")
  /\ UNCHANGED <<offered, dbVars, stage, comp, todo, discoveryVars, sessionVars,
                 lost, since, report>>

(* A unique constraint may fail the flush, that of the fixtures before the   *)
(* results are asked for.  Nobody rolls the session back, so the handler     *)
(* that lists the error raises itself.                                       *)
Aborts(r) ==
  /\ \/ pc[r] = "commit" /\ Overtaken(r)
     \/ pc[r] = "load" /\ stage[r] = "results" /\ Overtaken(r)
     \/ pc[r] = "store" /\ (Overtaken(r) \/ Taken(r))
  /\ Over(r, "ABORTED")
  /\ CloseSession(r)
  /\ UNCHANGED <<offered, dbVars>>

(* The database cannot be reached, or the process dies.                      *)
Dies(r) ==
  /\ pc[r] # "idle"
  /\ Over(r, "RAISED")
  /\ CloseSession(r)
  /\ UNCHANGED <<offered, dbVars>>

(* Mutant: only exceptions make a run DEGRADED.                              *)
StatusOfExceptions(r) ==
  IF lost[r] THEN "ERROR"
  ELSE IF \E c \in Comp : <<c, "exception">> \in errs[r] THEN "DEGRADED" ELSE "OK"

Reported(r, c) == \E k \in InReport : <<c, k>> \in errs[r]

(* system_status.                                                            *)
SystemStatus(r) ==
  IF lost[r] THEN "ERROR"
  ELSE IF \E c \in Comp : Reported(r, c) THEN "DEGRADED" ELSE "OK"

(* The loop is over: movements are detected, and committed if there are any. *)
AllPicked(r) ==
  /\ pc[r] = "pick"
  /\ todo[r] = {}
  /\ Flush(r) \/ UNCHANGED <<stored, sessionVars>>
  /\ comp' = [comp EXCEPT ![r] = NoComp]
  /\ GoTo(r, "finish")
  /\ UNCHANGED <<offered, listing, derived, stage, todo, discoveryVars, productVars, reportVars>>

(* The FULL_SYNC_COMPLETED event, and the last commit.                       *)
Finish(r) ==
  /\ pc[r] = "finish"
  /\ Flush(r)
  /\ Over(r, SystemStatus(r))
  /\ UNCHANGED <<offered, listing, derived>>

FinishCollides(r) ==
  /\ pc[r] = "finish" \/ (pc[r] = "pick" /\ todo[r] = {})
  /\ Overtaken(r)
  /\ Over(r, "RAISED")
  /\ CloseSession(r)
  /\ UNCHANGED <<offered, dbVars>>

-----------------------------------------------------------------------------
(* What a run does when no other run gets in its way, ...                    *)
Step(r) ==
  \/ DiscoveryFails(r)
  \/ \E broken \in SUBSET Listed : Discover(r, broken)
  \/ Announce(r)
  \/ \E c \in Comp : Pick(r, c)
  \/ AllPicked(r)
  \/ LoadTeams(r) \/ TeamsFail(r)
  \/ LoadFixtures(r) \/ FixturesFail(r)
  \/ \E kinds \in SUBSET {"listed"} : LoadResults(r, kinds)
  \/ Commit(r)
  \/ Compute(r) \/ Store(r)
  \/ Look(r)
  \/ Raises(r) \/ Dies(r)
  \/ Finish(r)

(* ... and when one does.                                                    *)
Collides(r) == AnnounceCollides(r) \/ Aborts(r) \/ FinishCollides(r)

Quiet == \A r \in Run : pc[r] = "idle"

Next ==
  \/ \E c \in Comp : ProviderMoves(c)
  \/ \E r \in Run : Begin(r) \/ Step(r) \/ Collides(r)

(* One run at a time: rows are as they were when they were looked up.        *)
NextSerial ==
  \/ \E c \in Comp : ProviderMoves(c)
  \/ \E r \in Run : (Quiet /\ Begin(r)) \/ Step(r)

Spec == Init /\ [][Next]_vars
SpecSerial == Init /\ [][NextSerial]_vars

-----------------------------------------------------------------------------
TypeOK ==
  /\ offered \in [Comp -> Version]
  /\ listing \in [Comp -> Listing]
  /\ stored \in [Comp \X Source -> Version]
  /\ derived \in [Comp \X Product -> Data]
  /\ pc \in [Run -> PC]
  /\ stage \in [Run -> Stage]
  /\ comp \in [Run -> Comp \union {NoComp}]
  /\ todo \in [Run -> SUBSET Comp]
  /\ found \in [Run -> [Comp -> Listing]]
  /\ knew \in [Run -> [Comp -> Listing]]
  /\ want \in [Run -> [Comp \X Source -> Version]]
  /\ saw \in [Run -> [Comp \X Source -> Version]]
  /\ basis \in [Run -> Data]
  /\ was \in [Run -> Data]
  /\ errs \in [Run -> SUBSET (Comp \X Kind)]
  /\ lost \in [Run -> BOOLEAN]
  /\ since \in [Run -> [Comp -> Version]]
  /\ report \in [Run -> Report]

-----------------------------------------------------------------------------
(* Everything the provider had of a competition when the run began, but for  *)
(* fixtures it did not name the teams of ...                                 *)
UpToDate(r, c) ==
  since[r][c] > 0 =>
    /\ listing[c] = "seasons"
    /\ \A s \in Source : stored[<<c, s>>] >= since[r][c]

(* ... and those as well.                                                    *)
Drawn(r, c) ==
  <<c, since[r][c]>> \in Undrawn => <<c, stored[<<c, "fixtures">>]>> \notin Undrawn

(* "Keep one competition's failure from aborting the whole run": when a run  *)
(* is through its competitions, each of them is stored at least as the       *)
(* provider had it when the run began, unless its name is in one of the      *)
(* report's lists, whatever happened to the others; only fixtures without    *)
(* teams may be missing beyond that, and then the log has a warning.         *)
NoSilentGap ==
  \A r \in Run : pc[r] = "finish" /\ ~lost[r] =>
    \A c \in Comp :
      \/ Reported(r, c)
      \/ UpToDate(r, c) /\ (Drawn(r, c) \/ <<c, "skipped">> \in errs[r])

(* The system status is "derived from those [lists], never hand-set": a run  *)
(* that says OK has stored all the provider had when it began, the fixtures  *)
(* without teams excepted (no list has them), and no later run takes any of  *)
(* it back.                                                                  *)
HonestReport ==
  \A r \in Run : report[r] = "OK" => \A c \in Comp : UpToDate(r, c)

(* When a run is through, each competition's quality, parameters, models and *)
(* weights are those of its stored matches, also where the provider failed   *)
(* or an earlier run was interrupted, unless its own sync raised.            *)
DerivedAgrees ==
  \A r \in Run : pc[r] = "finish" =>
    \A c \in Known : <<c, "exception">> \notin errs[r] =>
      \A p \in Product : derived[<<c, p>>] = Matches(c)

(* "Keep one competition's failure from aborting the whole run": no          *)
(* exception in a competition's sync ends the run.                           *)
FailuresAreContained == \A r \in Run : report[r] # "ABORTED"
=============================================================================
