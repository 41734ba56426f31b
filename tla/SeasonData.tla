----------------------------- MODULE SeasonData -----------------------------
(***************************************************************************)
(* What the runs of the full sync store about one competition: its seasons  *)
(* and which of them is current (app/services/season_detection.py,          *)
(* competition_discovery.py), its fixtures and their results                *)
(* (fixture_sync.py), a team and its names (team_mapping.py), the quality   *)
(* of each season and the lifecycle state that follows (data_quality.py).   *)
(* FullSync has the failures and commits of a whole run; here are the rows. *)
(***************************************************************************)
EXTENDS Naturals, FiniteSets, Sequences

CONSTANTS
  Seasons,      \* seasons are 1..Seasons, in the order they are played
  Fixture,      \* fixtures, by canonical id
  Name,         \* names a team may have
  FirstName,    \* the one it is discovered with
  Run,          \* runs of the full sync
  Expected,     \* values of expected_fixture_count; 0 when there is none
  Forgetful,    \* the provider may leave out a season it reported before
  MaxDay,       \* bound on time
  NoRow         \* there is no such row

ASSUME SeasonAssumption == Seasons \in Nat /\ MaxDay \in Nat /\ Forgetful \in BOOLEAN
ASSUME ExpectedAssumption == Expected \subseteq Nat
ASSUME NameAssumption == FirstName \in Name

Season == 1..Seasons
Day == 0..MaxDay
Lifecycle == {"DISCOVERED", "VALIDATING", "ACTIVE", "LIMITED_DATA", "ARCHIVED"}
Quality == {"EXCELLENT", "GOOD", "LIMITED", "INSUFFICIENT"}
Row == [season : Season, completed : BOOLEAN, result : BOOLEAN]
ASSUME NoRowAssumption == NoRow \notin Row \union Lifecycle \union Quality \union Name

VARIABLES
  day,          \* dt.date.today()
  status,       \* Competition.status
  quality,      \* Competition.data_quality_status
  expected,     \* expected_fixture_count of its format, 0 when there is none
  season,       \* Season.status of each stored season
  dated,        \* stored seasons with a start and an end
  row,          \* Fixture and its Result
  name,         \* Team.current_name
  alias,        \* its TeamAlias rows
  called,       \* names it has had
  pc,           \* where each run is
  found,        \* the rows discovery has selected
  known,        \* the name of the team it has selected
  todo,         \* seasons it has still to sync, the current one first
  fetched,      \* whether its fixtures were just fetched
  grade,        \* the quality it has just stored
  seen          \* the lifecycle state it has read

compVars == <<status, quality, expected>>
seasonVars == <<season, dated>>
teamVars == <<name, alias, called>>
runVars == <<pc, found, known, todo, fetched, grade, seen>>
vars == <<day, status, quality, expected, season, dated, row, name, alias, called,
          pc, found, known, todo, fetched, grade, seen>>

(* A discovery that has selected nothing.                                    *)
NotFound == [status |-> NoRow, season |-> [s \in Season |-> NoRow], dated |-> {}, day |-> 0]

Init ==
  /\ day = 0
  /\ status = NoRow
  /\ quality = "INSUFFICIENT"
  /\ expected = 0
  /\ season = [s \in Season |-> NoRow]
  /\ dated = {}
  /\ row = [f \in Fixture |-> NoRow]
  /\ name = NoRow
  /\ alias = {}
  /\ called = {}
  /\ pc = [r \in Run |-> "idle"]
  /\ found = [r \in Run |-> NotFound]
  /\ known = [r \in Run |-> NoRow]
  /\ todo = [r \in Run |-> <<>>]
  /\ fetched = [r \in Run |-> FALSE]
  /\ grade = [r \in Run |-> "INSUFFICIENT"]
  /\ seen = [r \in Run |-> NoRow]

GoTo(r, p) == pc' = [pc EXCEPT ![r] = p]
Forget(r) ==
  /\ fetched' = [fetched EXCEPT ![r] = FALSE]
  /\ grade' = [grade EXCEPT ![r] = "INSUFFICIENT"]
  /\ seen' = [seen EXCEPT ![r] = NoRow]

-----------------------------------------------------------------------------
(* A season is played on one day, with a day off before each.                *)
Start(s) == 2 * s - 1
End(s) == 2 * s - 1

First(S) == {s \in S : \A u \in S : s <= u}
Last(S) == {s \in S : \A u \in S : u <= s}

(* detect_season_window: on a given day, the season under way; or the last   *)
(* that is over; or the first without dates.  Sets of at most one season.    *)
Current(with, without, today) ==
  LET playing == {s \in with : Start(s) <= today /\ today <= End(s)}
      over == {s \in with : End(s) < today}
  IN  IF playing # {} THEN First(playing)
      ELSE IF over # {} THEN Last(over)
      ELSE First(without)

NextSeason(with, without, today) ==
  LET c == Current(with, without, today) \intersect with
  IN  First({s \in with : \E u \in c : Start(s) > End(u)})

(* infer_season_status: whatever is neither is called FINISHED, a season     *)
(* that is still far away included.                                          *)
SeasonStatus(s, with, without, today) ==
  CASE s \in Current(with, without, today) -> "ACTIVE"
    [] s \in NextSeason(with, without, today) \ Current(with, without, today) -> "UPCOMING"
    [] OTHER -> "FINISHED"

(* CompetitionDiscoveryService selects a competition of the list and its     *)
(* seasons ...                                                               *)
LoadCompetition(r) ==
  /\ pc[r] = "idle"
  /\ found' = [found EXCEPT ![r] = [status |-> status, season |-> season, dated |-> dated, day |-> day]]
  /\ GoTo(r, "discover")
  /\ UNCHANGED <<day, compVars, seasonVars, row, teamVars, known, todo, fetched, grade, seen>>

(* ... and commits what is not as it was.  The competition is new, comes     *)
(* back from the archive, or stays; its format is whatever is reported.      *)
Noticed(old) ==
  /\ old = NoRow => status = NoRow
  /\ status' = CASE old = NoRow -> "DISCOVERED"
                 [] old = "ARCHIVED" -> "VALIDATING"
                 [] OTHER -> status
  /\ quality' = IF old = NoRow THEN "INSUFFICIENT" ELSE quality
  /\ expected' \in Expected

(* Mutant: a season that is known keeps its status.                          *)
DiscoveredOnce(old, with, without, today) ==
  [s \in Season |->
     IF s \in with \union without /\ old.season[s] = NoRow
       THEN SeasonStatus(s, with, without, today) ELSE season[s]]

(* Every season of the report gets the status of today, no other one.        *)
Discovered(old, with, without, today) ==
  [s \in Season |->
     IF s \in with \union without /\ SeasonStatus(s, with, without, today) # old.season[s]
       THEN SeasonStatus(s, with, without, today) ELSE season[s]]

(* With the seasons the provider reports, looked at on a day since.  A row   *)
(* that another run has inserted meanwhile fails the flush: Dies.            *)
Discover(r, with, without, today) ==
  LET old == found[r]
  IN  /\ pc[r] = "discover"
      /\ with \intersect without = {}
      /\ old.day <= today /\ today <= day
      /\ Forgetful \/ {s \in Season : season[s] # NoRow} \subseteq with \union without
      /\ \A s \in with \union without : old.season[s] = NoRow => season[s] = NoRow
      /\ Noticed(old.status)
      /\ season' = Discovered(old, with, without, today)
      /\ dated' = (dated \ (without \intersect old.dated)) \union (with \ old.dated)
      /\ found' = [found EXCEPT ![r] = NotFound]
      /\ GoTo(r, "pick")
      /\ UNCHANGED <<day, row, teamVars, known, todo, fetched, grade, seen>>

(* seasons() raises after the competition's own row was flushed.             *)
SeasonsFail(r) ==
  /\ pc[r] = "discover"
  /\ Noticed(found[r].status)
  /\ found' = [found EXCEPT ![r] = NotFound]
  /\ GoTo(r, "pick")
  /\ UNCHANGED <<day, seasonVars, row, teamVars, known, todo, fetched, grade, seen>>

(* The provider answers nothing: the run goes on with what is stored.        *)
DiscoveryFails(r) ==
  /\ pc[r] = "idle"
  /\ status # NoRow
  /\ GoTo(r, "pick")
  /\ UNCHANGED <<day, compVars, seasonVars, row, teamVars, found, known, todo, fetched, grade, seen>>

-----------------------------------------------------------------------------
(* _relevant_seasons: the current season and the one finished last.          *)
Latest(S) == IF S \intersect dated # {} THEN Last(S \intersect dated) ELSE S
Heads(S) == IF S = {} THEN {<<>>} ELSE {<<s>> : s \in Latest(S)}
WithStatus(x) == {s \in Season : season[s] = x}

Pick(r) ==
  /\ pc[r] = "pick"
  /\ \E a \in Heads(WithStatus("ACTIVE")), f \in Heads(WithStatus("FINISHED")) :
       /\ todo' = [todo EXCEPT ![r] = a \o f]
       /\ GoTo(r, IF a \o f = <<>> THEN "idle" ELSE "teams")
  /\ UNCHANGED <<day, compVars, seasonVars, row, teamVars, found, known, fetched, grade, seen>>

(* Mutant: a team that is new is taken for one that was renamed.             *)
RenameNew(old, n) ==
  /\ alias' = IF old = n THEN alias ELSE alias \union {old}
  /\ name' = n
  /\ called' = called \union {n}

(* Mutant: the new name replaces the old one.                                *)
RenameForgets(old, n) ==
  /\ name' = n
  /\ called' = called \union {n}
  /\ UNCHANGED alias

(* _upsert_team: the name a team had becomes an alias, once; the row is      *)
(* written where it is not as it was read.  A team or an alias that another  *)
(* run has inserted since it was looked for fails the flush: Dies.           *)
Rename(old, n) ==
  /\ old = NoRow => name = NoRow
  /\ alias' = IF old \in {NoRow, n} THEN alias ELSE alias \union {old}
  /\ name' = IF old = n THEN name ELSE n
  /\ called' = called \union {name'}

LoadTeam(r) ==
  /\ pc[r] = "teams"
  /\ known' = [known EXCEPT ![r] = name]
  /\ GoTo(r, "rename")
  /\ UNCHANGED <<day, compVars, seasonVars, row, teamVars, found, todo, fetched, grade, seen>>

SyncTeams(r, n) ==
  /\ pc[r] = "rename"
  /\ known[r] = NoRow => n = FirstName
  /\ Rename(known[r], n)
  /\ known' = [known EXCEPT ![r] = NoRow]
  /\ GoTo(r, "fixtures")
  /\ UNCHANGED <<day, compVars, seasonVars, row, found, todo, fetched, grade, seen>>

TeamsFail(r) ==
  /\ pc[r] = "teams"
  /\ GoTo(r, "fixtures")
  /\ UNCHANGED <<day, compVars, seasonVars, row, teamVars, found, known, todo, fetched, grade, seen>>

(* What the provider says of a fixture: "absent" also when one of its teams  *)
(* is not known.  Whether it has a plausible result is said apart from that. *)
Said == {"absent", "open", "completed"}

(* _upsert_fixture and _upsert_result: a fixture that is listed, with both   *)
(* teams known, is stored under the season it was first stored under; its    *)
(* result is looked at whatever its status, and kept unless a plausible one  *)
(* replaces it.                                                              *)
Upserted(old, s, f, plausible) ==
  IF f = "absent" THEN old
  ELSE [season |-> IF old = NoRow THEN s ELSE old.season,
        completed |-> f = "completed",
        result |-> plausible \/ (old # NoRow /\ old.result)]

(* results() may fail: then no fixture has goals.                            *)
SyncFixtures(r, said, goals) ==
  /\ pc[r] = "fixtures"
  /\ row' = [f \in Fixture |-> Upserted(row[f], Head(todo[r]), said[f], f \in goals)]
  /\ fetched' = [fetched EXCEPT ![r] = \E f \in Fixture :
                   said[f] # "absent" /\ row'[f].season = Head(todo[r])]
  /\ GoTo(r, "grade")
  /\ UNCHANGED <<day, compVars, seasonVars, teamVars, found, known, todo, grade, seen>>

FixturesFail(r) ==
  /\ pc[r] = "fixtures"
  /\ fetched' = [fetched EXCEPT ![r] = FALSE]
  /\ GoTo(r, "grade")
  /\ UNCHANGED <<day, compVars, seasonVars, row, teamVars, found, known, todo, grade, seen>>

-----------------------------------------------------------------------------
(* The metrics of a season, in per cent; one without a basis is left out.    *)
(* The source is reliable (validation_status is VALID for every row) and the *)
(* teams of one fixture are all teams, so that both are full marks as soon   *)
(* as there is a fixture.                                                    *)
Of(s) == {f \in Fixture : row[f] # NoRow /\ row[f].season = s}
Completed(s) == {f \in Of(s) : row[f].completed}
Scored(s) == {f \in Completed(s) : row[f].result}
Percent(a, b) == IF a >= b THEN 100 ELSE (100 * a) \div b

Metrics(s, fresh) ==
  (IF Completed(s) = {} THEN <<>>
     ELSE <<Percent(Cardinality(Scored(s)), Cardinality(Completed(s)))>>)
    \o (IF Of(s) = {} THEN <<>> ELSE <<fresh, 100, 100>>)
    \o (IF expected = 0 THEN <<>> ELSE <<Percent(Cardinality(Of(s)), expected)>>)

Total(m) == LET sum[i \in 0..Len(m)] == IF i = 0 THEN 0 ELSE sum[i - 1] + m[i]
            IN  sum[Len(m)]

(* Mutant: nothing to measure is nothing wrong.                              *)
ReachesVacuously(m, bound) == Total(m) >= bound * Len(m)

(* The mean of the metrics; without any the score is 0.                      *)
Reaches(m, bound) == m # <<>> /\ Total(m) >= bound * Len(m)

(* _status_for_score, with the thresholds of the settings.                   *)
StatusForScore(m) ==
  CASE Reaches(m, 90) -> "EXCELLENT"
    [] ~Reaches(m, 90) /\ Reaches(m, 75) -> "GOOD"
    [] ~Reaches(m, 75) /\ Reaches(m, 40) -> "LIMITED"
    [] OTHER -> "INSUFFICIENT"

(* evaluate, and _persist's commit of the season's own row, which nothing    *)
(* here reads.  Data that was not just fetched may be of any age.            *)
Grade(r, fresh) ==
  LET s == Head(todo[r])
  IN  /\ pc[r] = "grade"
      /\ fetched[r] => fresh = 100
      /\ grade' = [grade EXCEPT ![r] = StatusForScore(Metrics(s, fresh))]
      /\ GoTo(r, "load")
      /\ UNCHANGED <<day, compVars, seasonVars, row, teamVars, found, known, todo, fetched, seen>>

(* _update_competition_lifecycle reads the state that commit expired ...     *)
LoadLifecycle(r) ==
  /\ pc[r] = "load"
  /\ seen' = [seen EXCEPT ![r] = status]
  /\ GoTo(r, "move")
  /\ UNCHANGED <<day, compVars, seasonVars, row, teamVars, found, known, todo, fetched, grade>>

Movable == {"DISCOVERED", "VALIDATING", "ACTIVE", "LIMITED_DATA"}

(* Mutant: quality that is not good enough leaves the state alone.           *)
MovedUpOnly(old, g) ==
  IF old \in Movable /\ g \in {"EXCELLENT", "GOOD"} THEN "ACTIVE" ELSE old

Moved(old, g) ==
  CASE old \notin Movable -> old
    [] old \in Movable /\ g \in {"EXCELLENT", "GOOD"} -> "ACTIVE"
    [] old = "DISCOVERED" /\ g = "INSUFFICIENT" -> "VALIDATING"
    [] OTHER -> "LIMITED_DATA"

(* ... and writes the quality, and the state if it is another than it read.  *)
MoveLifecycle(r) ==
  LET new == Moved(seen[r], grade[r])
      rest == Tail(todo[r])
  IN  /\ pc[r] = "move"
      /\ quality' = grade[r]
      /\ status' = IF new # seen[r] THEN new ELSE status
      /\ todo' = [todo EXCEPT ![r] = rest]
      /\ GoTo(r, IF rest = <<>> THEN "idle" ELSE "teams")
      /\ Forget(r)
      /\ UNCHANGED <<day, expected, seasonVars, row, teamVars, found, known>>

(* An exception, or the death of the process, between two commits.           *)
Dies(r) ==
  /\ pc[r] # "idle"
  /\ found' = [found EXCEPT ![r] = NotFound]
  /\ known' = [known EXCEPT ![r] = NoRow]
  /\ todo' = [todo EXCEPT ![r] = <<>>]
  /\ GoTo(r, "idle")
  /\ Forget(r)
  /\ UNCHANGED <<day, compVars, seasonVars, row, teamVars>>

(* Nothing under src/ archives a competition: somebody does so in the        *)
(* database.                                                                 *)
Archive ==
  /\ status # NoRow
  /\ status' = "ARCHIVED"
  /\ UNCHANGED <<day, quality, expected, seasonVars, row, teamVars, runVars>>

Tomorrow ==
  /\ day < MaxDay
  /\ day' = day + 1
  /\ UNCHANGED <<compVars, seasonVars, row, teamVars, runVars>>

-----------------------------------------------------------------------------
Work(r) ==
  \/ LoadCompetition(r)
  \/ \E with, without \in SUBSET Season, today \in Day : Discover(r, with, without, today)
  \/ SeasonsFail(r)
  \/ DiscoveryFails(r)
  \/ Pick(r)
  \/ LoadTeam(r)
  \/ \E n \in Name : SyncTeams(r, n)
  \/ TeamsFail(r)
  \/ \E said \in [Fixture -> Said], goals \in SUBSET Fixture : SyncFixtures(r, said, goals)
  \/ FixturesFail(r)
  \/ \E fresh \in {0, 50, 100} : Grade(r, fresh)
  \/ LoadLifecycle(r)
  \/ MoveLifecycle(r)
  \/ Dies(r)

Quiet == \A r \in Run : pc[r] = "idle"

Next == Archive \/ Tomorrow \/ \E r \in Run : Work(r)

(* One run at a time, and nobody archives what is being synced.              *)
NextSerial ==
  \/ Quiet /\ Archive
  \/ Tomorrow
  \/ \E r \in Run : (\A u \in Run : pc[u] # "idle" => u = r) /\ Work(r)

Spec == Init /\ [][Next]_vars
SpecSerial == Init /\ [][NextSerial]_vars

-----------------------------------------------------------------------------
SeasonRows == [Season -> {"UPCOMING", "ACTIVE", "FINISHED", NoRow}]
FoundRows == [status : Lifecycle \union {NoRow}, season : SeasonRows, dated : SUBSET Season, day : Day]

TypeOK ==
  /\ day \in Day
  /\ status \in Lifecycle \union {NoRow}
  /\ quality \in Quality
  /\ expected \in Nat
  /\ season \in SeasonRows
  /\ dated \subseteq Season
  /\ row \in [Fixture -> Row \union {NoRow}]
  /\ name \in Name \union {NoRow}
  /\ alias \subseteq Name
  /\ called \subseteq Name
  /\ pc \in [Run -> {"idle", "discover", "pick", "teams", "rename", "fixtures", "grade", "load", "move"}]
  /\ found \in [Run -> FoundRows]
  /\ known \in [Run -> Name \union {NoRow}]
  /\ todo \in [Run -> Seq(Season)]
  /\ fetched \in [Run -> BOOLEAN]
  /\ grade \in [Run -> Quality]
  /\ seen \in [Run -> Lifecycle \union {NoRow}]

-----------------------------------------------------------------------------
(* "Quality that's good enough promotes a competition toward ACTIVE, quality *)
(* that regresses demotes it": the two columns never contradict each other,  *)
(* whichever season was evaluated last.                                      *)
LifecycleMatchesQuality ==
  /\ status = "ACTIVE" => quality \in {"EXCELLENT", "GOOD"}
  /\ status = "LIMITED_DATA" => quality \in {"LIMITED", "INSUFFICIENT"}

(* "Never fabricates a missing metric": a competition is ACTIVE only if      *)
(* fixtures of it are stored, however the provider failed, for whatever      *)
(* seasons it was asked, and also where its format says nothing of how many  *)
(* there should be, so that a season without fixtures has no metric at all.  *)
ActiveIsEarned == status = "ACTIVE" => \E f \in Fixture : row[f] # NoRow

(* Current-season and historical-season data "never get mixed": as days and  *)
(* reports go by, at most one stored season is ACTIVE, and it has begun.     *)
OneSeasonIsCurrent ==
  \A s \in WithStatus("ACTIVE") :
    /\ WithStatus("ACTIVE") = {s}
    /\ s \in dated => Start(s) <= day

(* "The old name is preserved as a TeamAlias": a team that is renamed, and   *)
(* renamed back, can be found by every name it has had.                      *)
NamesKept == called \subseteq alias \union {name}

(* A season called FINISHED is over: not what the code does, when the first  *)
(* season has not begun or two are still to come.                            *)
FinishedIsOver ==
  \A s \in WithStatus("FINISHED") \intersect dated : End(s) < day
=============================================================================
