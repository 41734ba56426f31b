-------------------------- MODULE SeasonDataProofs --------------------------
(***************************************************************************)
(* What SeasonData keeps true of a competition's stored rows, for any       *)
(* number of seasons, fixtures, names and runs that follow one another: its  *)
(* names are kept, one of its seasons is the current one, its two status     *)
(* columns agree and are earned; and what Movement records of the teams, for *)
(* any pyramids.                                                            *)
(***************************************************************************)
EXTENDS MCSeasonData, FiniteSetTheorems, TLAPS

(* One disjunct per action.                                                  *)
AnyWork(r) ==
  \/ LoadCompetition(r)
  \/ \E with, without \in SUBSET Season, today \in Day : Discover(r, with, without, today)
  \/ SeasonsFail(r) \/ DiscoveryFails(r) \/ Pick(r)
  \/ LoadTeam(r)
  \/ \E n \in Name : SyncTeams(r, n)
  \/ TeamsFail(r)
  \/ \E said \in [Fixture -> Said], goals \in SUBSET Fixture : SyncFixtures(r, said, goals)
  \/ FixturesFail(r)
  \/ \E fresh \in {0, 50, 100} : Grade(r, fresh)
  \/ LoadLifecycle(r) \/ MoveLifecycle(r) \/ Dies(r)

LEMMA AnyWorkIsWork == ASSUME NEW r \in Run, Work(r) PROVE AnyWork(r)
BY DEF Work, AnyWork

LEMMA SerialIsNext == [NextSerial]_vars => [Next]_vars
BY DEF NextSerial, Next

-----------------------------------------------------------------------------
(* One run at a time: what it has read is still so when it writes, because   *)
(* nobody else writes meanwhile.                                             *)
StillSo(r) ==
  /\ pc[r] = "discover" =>
       /\ found[r].season = season /\ found[r].dated = dated
       /\ found[r].day \in Nat /\ found[r].day <= day
  /\ pc[r] = "rename" => known[r] = name
  /\ pc[r] = "move" => seen[r] = status

Indexed ==
  /\ found = [r \in Run |-> found[r]]
  /\ known = [r \in Run |-> known[r]]
  /\ seen = [r \in Run |-> seen[r]]
  /\ grade \in [Run -> Quality]

RunInv ==
  /\ day \in Nat
  /\ pc = [r \in Run |-> pc[r]]
  /\ Indexed
  /\ \A r, u \in Run : pc[r] # "idle" /\ pc[u] # "idle" => r = u
  /\ \A r \in Run : StillSo(r)

Alone(r) == \A u \in Run : pc[u] # "idle" => u = r

LEMMA GradeFacts == \A m : StatusForScore(m) \in Quality
<1> SUFFICES ASSUME NEW m PROVE StatusForScore(m) \in Quality
  OBVIOUS
<1>1. \/ StatusForScore(m) = "EXCELLENT" \/ StatusForScore(m) = "GOOD"
      \/ StatusForScore(m) = "LIMITED" \/ StatusForScore(m) = "INSUFFICIENT"
  BY DEF StatusForScore
<1> QED BY <1>1 DEF Quality

(* Whatever a run does to where it is, another run is still idle.            *)
LEMMA Advance ==
  ASSUME RunInv, NEW r \in Run, Alone(r), NEW p, GoTo(r, p), Indexed', day' = day, StillSo(r)'
  PROVE  RunInv'
<1>1. \A u \in Run : u # r => pc'[u] = "idle"
  BY DEF RunInv, Alone, GoTo
<1>2. pc' = [u \in Run |-> pc'[u]]
  BY DEF RunInv, GoTo
<1>3. \A u \in Run : StillSo(u)'
  BY <1>1 DEF StillSo
<1> QED BY <1>1, <1>2, <1>3 DEF RunInv

LEMMA AdvanceUnread ==
  ASSUME RunInv, NEW r \in Run, Alone(r), NEW p, GoTo(r, p), Indexed', day' = day,
         p \notin {"discover", "rename", "move"}
  PROVE  RunInv'
<1>1. pc'[r] = p
  BY DEF RunInv, GoTo
<1>2. StillSo(r)'
  BY <1>1 DEF StillSo
<1> QED BY <1>2, Advance

LEMMA RunStep ==
  ASSUME RunInv, NEW r \in Run, Alone(r), AnyWork(r)
  PROVE  RunInv'
<1>0. Indexed /\ pc = [u \in Run |-> pc[u]] /\ day \in Nat
  BY DEF RunInv
<1>1. ASSUME NEW p, GoTo(r, p), p \notin {"discover", "rename", "move"}, day' = day,
             UNCHANGED <<grade, seen>>,
             found' = found \/ found' = [found EXCEPT ![r] = NotFound],
             known' = known \/ known' = [known EXCEPT ![r] = NoRow]
      PROVE  RunInv'
  <2>1. Indexed'
    BY <1>0, <1>1 DEF Indexed
  <2> QED BY <1>1, <2>1, AdvanceUnread
<1>2. CASE LoadCompetition(r)
  <2>1. /\ GoTo(r, "discover") /\ UNCHANGED <<day, season, dated, known, grade, seen>>
        /\ found' = [found EXCEPT ![r] = [status |-> status, season |-> season, dated |-> dated, day |-> day]]
    BY <1>2 DEF LoadCompetition, seasonVars
  <2>2. Indexed'
    BY <1>0, <2>1 DEF Indexed
  <2>3. found'[r] = [status |-> status, season |-> season, dated |-> dated, day |-> day]
    BY <1>0, <2>1 DEF Indexed
  <2>4. pc'[r] = "discover"
    BY <1>0, <2>1 DEF GoTo
  <2>5. StillSo(r)'
    BY <1>0, <2>1, <2>3, <2>4 DEF StillSo
  <2> QED BY <2>1, <2>2, <2>5, Advance
<1>3. ASSUME NEW with \in SUBSET Season, NEW without \in SUBSET Season, NEW today \in Day,
             Discover(r, with, without, today)
      PROVE  RunInv'
  BY <1>1, <1>3 DEF Discover
<1>4. CASE SeasonsFail(r) \/ DiscoveryFails(r)
  BY <1>1, <1>4 DEF SeasonsFail, DiscoveryFails
<1>5. CASE Pick(r)
  <2>1. \E p : GoTo(r, p) /\ p \notin {"discover", "rename", "move"}
    BY <1>5 DEF Pick
  <2> QED BY <1>1, <1>5, <2>1 DEF Pick
<1>6. CASE LoadTeam(r)
  <2>1. /\ GoTo(r, "rename") /\ UNCHANGED <<day, name, found, grade, seen>>
        /\ known' = [known EXCEPT ![r] = name]
    BY <1>6 DEF LoadTeam, teamVars
  <2>2. Indexed' /\ known'[r] = name /\ pc'[r] = "rename"
    BY <1>0, <2>1 DEF Indexed, GoTo
  <2>3. StillSo(r)'
    BY <2>1, <2>2 DEF StillSo
  <2> QED BY <2>1, <2>2, <2>3, Advance
<1>7. ASSUME NEW n \in Name, SyncTeams(r, n) PROVE RunInv'
  BY <1>1, <1>7 DEF SyncTeams
<1>8. CASE TeamsFail(r) \/ FixturesFail(r)
  BY <1>1, <1>8 DEF TeamsFail, FixturesFail
<1>9. ASSUME NEW said \in [Fixture -> Said], NEW goals \in SUBSET Fixture,
             SyncFixtures(r, said, goals)
      PROVE  RunInv'
  BY <1>1, <1>9 DEF SyncFixtures
<1>10. ASSUME NEW fresh \in {0, 50, 100}, Grade(r, fresh) PROVE RunInv'
  <2>1. /\ GoTo(r, "load") /\ UNCHANGED <<day, found, known, seen>>
        /\ grade' = [grade EXCEPT ![r] = StatusForScore(Metrics(Head(todo[r]), fresh))]
    BY <1>10 DEF Grade
  <2>2. Indexed'
    BY <1>0, <2>1, GradeFacts DEF Indexed
  <2> QED BY <2>1, <2>2, AdvanceUnread
<1>11. CASE LoadLifecycle(r)
  <2>1. /\ GoTo(r, "move") /\ UNCHANGED <<day, status, found, known, grade>>
        /\ seen' = [seen EXCEPT ![r] = status]
    BY <1>11 DEF LoadLifecycle, compVars
  <2>2. Indexed' /\ seen'[r] = status /\ pc'[r] = "move"
    BY <1>0, <2>1 DEF Indexed, GoTo
  <2>3. StillSo(r)'
    BY <2>1, <2>2 DEF StillSo
  <2> QED BY <2>1, <2>2, <2>3, Advance
<1>12. CASE MoveLifecycle(r) \/ Dies(r)
  <2>1. Indexed'
    BY <1>0, <1>12 DEF Indexed, MoveLifecycle, Dies, Forget, Quality
  <2>2. \E p : GoTo(r, p) /\ p \notin {"discover", "rename", "move"}
    BY <1>12 DEF MoveLifecycle, Dies
  <2>3. day' = day
    BY <1>12 DEF MoveLifecycle, Dies
  <2> QED BY <2>1, <2>2, <2>3, AdvanceUnread
<1> QED BY <1>2, <1>3, <1>4, <1>5, <1>6, <1>7, <1>8, <1>9, <1>10, <1>11, <1>12 DEF AnyWork

LEMMA RunNext == RunInv /\ [NextSerial]_vars => RunInv'
<1> SUFFICES ASSUME RunInv, [NextSerial]_vars PROVE RunInv'
  OBVIOUS
<1>1. ASSUME NEW r \in Run, Alone(r), Work(r) PROVE RunInv'
  BY <1>1, RunStep, AnyWorkIsWork
<1>2. CASE Quiet /\ Archive
  <2>1. /\ UNCHANGED <<day, pc, found, known, grade, seen>>
        /\ \A r \in Run : pc[r] = "idle"
    BY <1>2 DEF Quiet, Archive, runVars
  <2> QED BY <2>1 DEF RunInv, Indexed, StillSo
<1>3. CASE Tomorrow \/ UNCHANGED vars
  <2>1. UNCHANGED <<status, season, dated, name, pc, found, known, grade, seen>>
    BY <1>3 DEF Tomorrow, compVars, seasonVars, teamVars, runVars, vars
  <2>2. day' \in Nat /\ day <= day'
    BY <1>3 DEF Tomorrow, RunInv, vars
  <2>3. \A r \in Run : StillSo(r)'
    <3> SUFFICES ASSUME NEW r \in Run PROVE StillSo(r)'
      OBVIOUS
    <3>1. StillSo(r)
      BY DEF RunInv
    <3>2. found[r].day \in Nat /\ found[r].day <= day => found[r].day <= day'
      BY <2>2 DEF RunInv
    <3> QED BY <2>1, <3>1, <3>2 DEF StillSo
  <2> QED BY <2>1, <2>2, <2>3 DEF RunInv, Indexed
<1> QED BY <1>1, <1>2, <1>3 DEF NextSerial, Alone

LEMMA RunInit == Init => RunInv
BY DEF Init, RunInv, Indexed, StillSo, Quality

-----------------------------------------------------------------------------
(* A team without a row has no name yet, and nobody is called like one.      *)
NameInv ==
  /\ RunInv
  /\ called \subseteq Name
  /\ NamesKept

LEMMA NameStep == NameInv /\ [NextSerial]_vars => NameInv'
<1> SUFFICES ASSUME NameInv, [NextSerial]_vars PROVE NameInv'
  OBVIOUS
<1>0. RunInv'
  BY RunNext DEF NameInv
<1>1. CASE UNCHANGED teamVars
  BY <1>0, <1>1 DEF NameInv, NamesKept, teamVars
<1>2. ASSUME NEW r \in Run, NEW n \in Name, SyncTeams(r, n) PROVE NameInv'
  <2>1. known[r] = name
    BY <1>2 DEF SyncTeams, NameInv, RunInv, StillSo
  <2>2. NoRow \notin called
    BY NoRowAssumption DEF NameInv
  <2>3. /\ name' = IF name = n THEN name ELSE n
        /\ called' = called \union {name'}
        /\ alias' = IF name \in {NoRow, n} THEN alias ELSE alias \union {name}
    BY <1>2, <2>1 DEF SyncTeams, Rename
  <2>4. name' = n
    BY <2>3
  <2>5. called \subseteq alias' \union {n}
    BY <2>2, <2>3 DEF NameInv, NamesKept
  <2> QED BY <1>0, <2>3, <2>4, <2>5 DEF NameInv, NamesKept
<1>3. ASSUME NEW r \in Run, AnyWork(r) PROVE NameInv'
  <2>1. \/ UNCHANGED teamVars
        \/ \E n \in Name : SyncTeams(r, n)
    BY <1>3 DEF AnyWork, LoadCompetition, Discover, SeasonsFail, DiscoveryFails, Pick, LoadTeam, TeamsFail,
                SyncFixtures, FixturesFail, Grade, LoadLifecycle, MoveLifecycle, Dies
  <2> QED BY <1>1, <1>2, <2>1
<1>4. CASE Archive \/ Tomorrow \/ UNCHANGED vars
  BY <1>1, <1>4 DEF Archive, Tomorrow, vars, teamVars
<1> QED BY <1>3, <1>4, AnyWorkIsWork, SerialIsNext DEF Next

(* One run at a time, which may die between the SELECT and the commit: a     *)
(* team that is renamed any number of times is found by each name it has had *)
(* (team_mapping.py: _upsert_team).                                          *)
THEOREM NamesAreKept == SpecSerial => []NamesKept
<1>1. Init => NameInv
  BY RunInit DEF Init, NameInv, NamesKept
<1>2. NameInv => NamesKept
  BY DEF NameInv
<1> QED BY <1>1, <1>2, NameStep, PTL DEF SpecSerial

-----------------------------------------------------------------------------
LEMMA CurrentFacts ==
  ASSUME NEW with \in SUBSET Season, NEW without \in SUBSET Season, NEW today \in Nat
  PROVE  /\ \A s, u \in Current(with, without, today) : s = u
         /\ \A s \in Current(with, without, today) :
              s \in with \union without /\ (s \in with \ without => Start(s) <= today)
<1> DEFINE playing == {s \in with : Start(s) <= today /\ today <= End(s)}
           over == {s \in with : End(s) < today}
<1>1. Season \subseteq Nat \ {0}
  BY SeasonAssumption DEF Season
<1>2. \A s \in Season : Start(s) \in Nat /\ End(s) = Start(s)
  BY <1>1 DEF Start, End
<1>3. ASSUME NEW S \in SUBSET Season, NEW s \in First(S) \union Last(S)
      PROVE  s \in S
  BY <1>3 DEF First, Last
<1>4. ASSUME NEW S \in SUBSET Season
      PROVE  \A s, u \in First(S) : s = u
  BY <1>1 DEF First
<1>5. ASSUME NEW S \in SUBSET Season
      PROVE  \A s, u \in Last(S) : s = u
  BY <1>1 DEF Last
<1>6. /\ playing \subseteq with /\ \A s \in playing : Start(s) <= today
      /\ over \subseteq with /\ \A s \in over : Start(s) <= today
  BY <1>1, <1>2
<1>7. \/ Current(with, without, today) = First(playing)
      \/ Current(with, without, today) = Last(over)
      \/ Current(with, without, today) = First(without)
  BY DEF Current
<1> HIDE DEF playing, over
<1>8. CASE Current(with, without, today) = First(playing)
  BY <1>3, <1>4, <1>6, <1>8
<1>9. CASE Current(with, without, today) = Last(over)
  BY <1>3, <1>5, <1>6, <1>9
<1>10. CASE Current(with, without, today) = First(without)
  BY <1>3, <1>4, <1>10
<1> QED BY <1>7, <1>8, <1>9, <1>10

CurrentInv ==
  /\ RunInv
  /\ season = [s \in Season |-> season[s]]
  /\ dated \subseteq Season
  /\ OneSeasonIsCurrent

LEMMA CurrentStep == ~Forgetful /\ CurrentInv /\ [NextSerial]_vars => CurrentInv'
<1> SUFFICES ASSUME ~Forgetful, CurrentInv, [NextSerial]_vars PROVE CurrentInv'
  OBVIOUS
<1>0. RunInv /\ RunInv' /\ day \in Nat
  BY RunNext DEF CurrentInv, RunInv
<1>1. CASE UNCHANGED <<day, season, dated>>
  BY <1>0, <1>1 DEF CurrentInv, OneSeasonIsCurrent, WithStatus
<1>2. ASSUME NEW r \in Run, NEW with \in SUBSET Season, NEW without \in SUBSET Season, NEW today \in Day,
             Discover(r, with, without, today)
      PROVE  CurrentInv'
  <2>1. /\ pc[r] = "discover"
        /\ with \intersect without = {}
        /\ today <= day /\ day' = day
        /\ {s \in Season : season[s] # NoRow} \subseteq with \union without
        /\ season' = Discovered(found[r], with, without, today)
        /\ dated' = (dated \ (without \intersect found[r].dated)) \union (with \ found[r].dated)
    BY <1>2 DEF Discover
  <2>2. found[r].season = season /\ found[r].dated = dated
    BY <1>0, <2>1 DEF RunInv, StillSo
  <2>3. today \in Nat
    BY SeasonAssumption DEF Day
  <2>4. season' = [s \in Season |-> IF s \in with \union without
                                     THEN SeasonStatus(s, with, without, today) ELSE season[s]]
    BY <2>1, <2>2 DEF Discovered
  <2>5. dated' = (dated \ without) \union with
    BY <2>1, <2>2
  <2>6. ASSUME NEW s \in Season, season'[s] = "ACTIVE" PROVE s \in Current(with, without, today)
    <3>1. CASE s \in with \union without
      <4>1. SeasonStatus(s, with, without, today) = "ACTIVE"
        BY <2>4, <2>6, <3>1
      <4> QED BY <4>1, Zenon DEF SeasonStatus
    <3>2. CASE s \notin with \union without
      BY <2>1, <2>4, <2>6, <3>2, NoRowAssumption DEF Lifecycle
    <3> QED BY <3>1, <3>2
  <2>7. \A s \in WithStatus("ACTIVE")' : s \in Season /\ s \in Current(with, without, today)
    BY <2>6 DEF WithStatus
  <2>8. \A s \in Season : s \in dated' /\ s \in with \union without => s \in with \ without
    BY <2>1, <2>5
  <2>9. \A s \in Season : Start(s) \in Nat
    BY SeasonAssumption DEF Start, Season
  <2>10. \A s \in Current(with, without, today) : s \in with \ without => Start(s) <= today
    BY <2>3, CurrentFacts
  <2>11. \A s \in WithStatus("ACTIVE")' : s \in dated' => Start(s) <= day'
    <3> SUFFICES ASSUME NEW s \in WithStatus("ACTIVE")', s \in dated' PROVE Start(s) <= day'
      OBVIOUS
    <3>1. s \in Season /\ s \in Current(with, without, today) /\ s \in with \union without
      BY <2>3, <2>7, CurrentFacts
    <3>2. Start(s) <= today
      BY <2>8, <2>10, <3>1
    <3> QED BY <1>0, <2>1, <2>3, <2>9, <3>1, <3>2
  <2>12. \A s, u \in WithStatus("ACTIVE")' : s = u
    BY <2>3, <2>7, CurrentFacts
  <2>13. OneSeasonIsCurrent'
    BY <2>11, <2>12 DEF OneSeasonIsCurrent, Start
  <2>14. season' = [s \in Season |-> season'[s]] /\ dated' \subseteq Season
    BY <2>4, <2>5 DEF CurrentInv
  <2> QED BY <1>0, <2>13, <2>14 DEF CurrentInv
<1>3. CASE Tomorrow
  <2>1. day' = day + 1 /\ season' = season /\ dated' = dated
    BY <1>3 DEF Tomorrow, seasonVars
  <2>2. \A s \in Season : Start(s) \in Nat
    BY SeasonAssumption DEF Start, Season
  <2>3. \A s \in Season : Start(s) <= day => Start(s) <= day'
    BY <1>0, <2>1, <2>2
  <2>4. WithStatus("ACTIVE")' = WithStatus("ACTIVE") /\ WithStatus("ACTIVE") \subseteq Season
    BY <2>1 DEF WithStatus
  <2>5. OneSeasonIsCurrent'
    BY <2>1, <2>3, <2>4 DEF CurrentInv, OneSeasonIsCurrent, Start
  <2> QED BY <1>0, <2>1, <2>5 DEF CurrentInv
<1>4. ASSUME NEW r \in Run, AnyWork(r) PROVE CurrentInv'
  <2>1. \/ UNCHANGED <<day, season, dated>>
        \/ \E with, without \in SUBSET Season, today \in Day : Discover(r, with, without, today)
    BY <1>4 DEF AnyWork, LoadCompetition, SeasonsFail, DiscoveryFails, Pick, LoadTeam, SyncTeams, TeamsFail,
                SyncFixtures, FixturesFail, Grade, LoadLifecycle, MoveLifecycle, Dies, seasonVars
  <2> QED BY <1>1, <1>2, <2>1
<1>5. CASE Archive \/ UNCHANGED vars
  BY <1>1, <1>5 DEF Archive, vars, seasonVars
<1> QED BY <1>3, <1>4, <1>5, AnyWorkIsWork, SerialIsNext DEF Next

(* One run at a time, and a provider that goes on reporting the seasons it   *)
(* once reported: one stored season at most is ACTIVE, and it has begun,     *)
(* whatever the reports and the days, and also when midnight passes between  *)
(* the SELECT and the commit (season_detection.py, competition_discovery.py).*)
THEOREM CurrentSeasonIsOne == ~Forgetful /\ SpecSerial => []OneSeasonIsCurrent
<1>1. Init => CurrentInv
  BY RunInit, NoRowAssumption DEF Init, CurrentInv, OneSeasonIsCurrent, WithStatus, Lifecycle
<1>2. CurrentInv => OneSeasonIsCurrent
  BY DEF CurrentInv
<1>3. CASE ~Forgetful
  <2>1. CurrentInv /\ [NextSerial]_vars => CurrentInv'
    BY <1>3, CurrentStep
  <2> QED BY <1>1, <1>2, <2>1, PTL DEF SpecSerial
<1> QED BY <1>3

-----------------------------------------------------------------------------
(* The state a run has read is the state it replaces.                        *)
LifecycleInv == RunInv /\ LifecycleMatchesQuality

LEMMA LifecycleStep ==
  ASSUME LifecycleInv, NEW r \in Run, AnyWork(r)
  PROVE  LifecycleMatchesQuality'
<1>0. RunInv /\ LifecycleMatchesQuality
  BY DEF LifecycleInv
<1>1. CASE UNCHANGED <<status, quality>>
  BY <1>0, <1>1 DEF LifecycleMatchesQuality
<1>2. ASSUME NEW old, Noticed(old) PROVE LifecycleMatchesQuality'
  BY <1>0, <1>2 DEF LifecycleMatchesQuality, Noticed
<1>3. CASE MoveLifecycle(r)
  <2>1. seen[r] = status /\ grade[r] \in Quality
    BY <1>0, <1>3 DEF RunInv, StillSo, Indexed, MoveLifecycle
  <2>2. status' = Moved(status, grade[r]) /\ quality' = grade[r]
    BY <1>3, <2>1 DEF MoveLifecycle
  <2>3. /\ Moved(status, grade[r]) = "ACTIVE" => grade[r] \in {"EXCELLENT", "GOOD"}
        /\ Moved(status, grade[r]) = "LIMITED_DATA" => grade[r] \in {"LIMITED", "INSUFFICIENT"}
    BY <2>1 DEF Moved, Movable, Quality
  <2> QED BY <2>2, <2>3 DEF LifecycleMatchesQuality
<1>4. \/ UNCHANGED <<status, quality>>
      \/ \E old : Noticed(old)
      \/ MoveLifecycle(r)
  BY DEF AnyWork, LoadCompetition, Discover, SeasonsFail, DiscoveryFails, Pick, LoadTeam, SyncTeams, TeamsFail,
         SyncFixtures, FixturesFail, Grade, LoadLifecycle, Dies, compVars
<1> QED BY <1>1, <1>2, <1>3, <1>4

LEMMA LifecycleNext == LifecycleInv /\ [NextSerial]_vars => LifecycleInv'
<1> SUFFICES ASSUME LifecycleInv, [NextSerial]_vars PROVE LifecycleInv'
  OBVIOUS
<1>0. RunInv'
  BY RunNext DEF LifecycleInv
<1>1. ASSUME NEW r \in Run, Work(r) PROVE LifecycleMatchesQuality'
  BY <1>1, LifecycleStep, AnyWorkIsWork
<1>2. CASE Quiet /\ Archive
  BY <1>0, <1>2 DEF Archive, LifecycleInv, LifecycleMatchesQuality
<1>3. CASE Tomorrow \/ UNCHANGED vars
  BY <1>0, <1>3 DEF Tomorrow, LifecycleInv, LifecycleMatchesQuality, compVars, vars
<1> QED BY <1>0, <1>1, <1>2, <1>3 DEF NextSerial, LifecycleInv

(* One run at a time, which may die between any two commits: a competition   *)
(* is ACTIVE or LIMITED_DATA as its quality says, whichever of its seasons   *)
(* was evaluated last and however often it was archived and came back        *)
(* (data_quality.py: _update_competition_lifecycle; competition_discovery.py).*)
THEOREM StatusFollowsQuality == SpecSerial => []LifecycleMatchesQuality
<1>1. Init => LifecycleInv
  BY RunInit, NoRowAssumption DEF Init, LifecycleInv, LifecycleMatchesQuality, Lifecycle
<1>2. LifecycleInv => LifecycleMatchesQuality
  BY DEF LifecycleInv
<1> QED BY <1>1, <1>2, LifecycleNext, PTL DEF SpecSerial

-----------------------------------------------------------------------------
(* A run that is past its choice of seasons has one to work on.              *)
TodoInv == \A r \in Run : pc[r] \notin {"idle", "discover", "pick"} => todo[r] # <<>>

(* A team that has been read stays.                                          *)
TeamInv == \A r \in Run : known[r] # NoRow => name # NoRow

RowsInv == TypeOK /\ TodoInv /\ TeamInv

LEMMA StatusFacts ==
  ASSUME NEW with, NEW without, NEW today, NEW s
  PROVE  SeasonStatus(s, with, without, today) \in {"UPCOMING", "ACTIVE", "FINISHED"}
BY Zenon DEF SeasonStatus

(* A fixture that is stored stays stored, under the season it was first      *)
(* stored under.                                                             *)
LEMMA UpsertFacts ==
  ASSUME NEW old \in Row \union {NoRow}, NEW s \in Season, NEW f, NEW g \in BOOLEAN
  PROVE  /\ Upserted(old, s, f, g) \in Row \union {NoRow}
         /\ old # NoRow => Upserted(old, s, f, g) # NoRow
<1>1. CASE f = "absent"
  BY <1>1 DEF Upserted
<1>2. CASE f # "absent"
  <2> DEFINE new == [season |-> IF old = NoRow THEN s ELSE old.season,
                     completed |-> f = "completed",
                     result |-> g \/ (old # NoRow /\ old.result)]
  <2>1. Upserted(old, s, f, g) = new
    BY <1>2 DEF Upserted
  <2>2. (IF old = NoRow THEN s ELSE old.season) \in Season
    BY DEF Row
  <2>3. new \in Row
    BY <2>2 DEF Row
  <2> QED BY <2>1, <2>3, NoRowAssumption
<1> QED BY <1>1, <1>2

LEMMA HeadsFacts == ASSUME NEW S \in SUBSET Season PROVE Heads(S) \subseteq Seq(Season)
<1>1. Latest(S) \subseteq Season
  BY DEF Latest, Last
<1>2. ASSUME NEW h \in Heads(S) PROVE h \in Seq(Season)
  <2>1. CASE h = <<>>
    BY <2>1
  <2>2. ASSUME NEW s \in Season, h = <<s>> PROVE h \in Seq(Season)
    BY <2>2
  <2> QED BY <1>1, <1>2, <2>1, <2>2 DEF Heads
<1> QED BY <1>2

LEMMA HeadTail ==
  ASSUME NEW q \in Seq(Season), q # <<>>
  PROVE  Head(q) \in Season /\ Tail(q) \in Seq(Season)
OBVIOUS

LEMMA NoticedFacts ==
  ASSUME status \in Lifecycle \union {NoRow}, quality \in Quality, NEW old, Noticed(old)
  PROVE  status' \in Lifecycle \union {NoRow} /\ quality' \in Quality /\ expected' \in Nat
BY ExpectedAssumption DEF Noticed, Lifecycle, Quality

LEMMA MovedFacts ==
  ASSUME NEW old \in Lifecycle \union {NoRow}, NEW g
  PROVE  /\ Moved(old, g) \in Lifecycle \union {NoRow}
         /\ Moved(old, g) = "ACTIVE" => g \in {"EXCELLENT", "GOOD"}
<1>1. \/ old \notin Movable /\ Moved(old, g) = old
      \/ g \in {"EXCELLENT", "GOOD"} /\ Moved(old, g) = "ACTIVE"
      \/ Moved(old, g) = "VALIDATING" \/ Moved(old, g) = "LIMITED_DATA"
  BY DEF Moved
<1> QED BY <1>1 DEF Movable, Lifecycle

LEMMA RowsStep == RowsInv /\ [Next]_vars => RowsInv'
<1> SUFFICES ASSUME RowsInv, [Next]_vars PROVE RowsInv'
  OBVIOUS
<1>0. NotFound \in FoundRows
  BY SeasonAssumption DEF NotFound, FoundRows, SeasonRows, Day
<1> USE DEF RowsInv, TypeOK, TodoInv, TeamInv
<1>17. ASSUME NEW r \in Run, LoadCompetition(r) PROVE RowsInv'
  <2>1. found' \in [Run -> FoundRows]
    BY <1>17 DEF LoadCompetition, FoundRows
  <2> QED BY <1>17, <2>1 DEF LoadCompetition, GoTo, compVars, seasonVars, teamVars
<1>1. ASSUME NEW r \in Run, NEW with \in SUBSET Season, NEW without \in SUBSET Season, NEW today \in Day,
             Discover(r, with, without, today)
      PROVE  RowsInv'
  <2>1. status' \in Lifecycle \union {NoRow} /\ quality' \in Quality /\ expected' \in Nat
    BY <1>1, NoticedFacts DEF Discover
  <2>2. season' \in SeasonRows
    BY <1>1, StatusFacts DEF Discover, Discovered, SeasonRows
  <2>3. dated' \subseteq Season
    BY <1>1 DEF Discover
  <2>4. found' \in [Run -> FoundRows]
    BY <1>0, <1>1 DEF Discover
  <2> QED BY <1>1, <2>1, <2>2, <2>3, <2>4 DEF Discover, GoTo, teamVars
<1>2. ASSUME NEW r \in Run, SeasonsFail(r) PROVE RowsInv'
  <2>1. status' \in Lifecycle \union {NoRow} /\ quality' \in Quality /\ expected' \in Nat
    BY <1>2, NoticedFacts DEF SeasonsFail
  <2>2. found' \in [Run -> FoundRows]
    BY <1>0, <1>2 DEF SeasonsFail
  <2> QED BY <1>2, <2>1, <2>2 DEF SeasonsFail, GoTo, seasonVars, teamVars
<1>3. ASSUME NEW r \in Run, DiscoveryFails(r) PROVE RowsInv'
  BY <1>3 DEF DiscoveryFails, GoTo, compVars, seasonVars, teamVars
<1>4. ASSUME NEW r \in Run, Pick(r) PROVE RowsInv'
  <2>1. PICK a \in Heads(WithStatus("ACTIVE")), f \in Heads(WithStatus("FINISHED")) :
          /\ todo' = [todo EXCEPT ![r] = a \o f]
          /\ GoTo(r, IF a \o f = <<>> THEN "idle" ELSE "teams")
    BY <1>4 DEF Pick
  <2>2. WithStatus("ACTIVE") \in SUBSET Season /\ WithStatus("FINISHED") \in SUBSET Season
    BY DEF WithStatus
  <2>3. a \o f \in Seq(Season)
    BY SMTT(30), <2>2, HeadsFacts
  <2> DEFINE picked == a \o f
  <2>4. /\ todo' = [todo EXCEPT ![r] = picked] /\ picked \in Seq(Season)
        /\ pc' = [pc EXCEPT ![r] = IF picked = <<>> THEN "idle" ELSE "teams"]
    BY <2>1, <2>3 DEF GoTo
  <2> HIDE DEF picked
  <2> QED BY <1>4, <2>4 DEF Pick, compVars, seasonVars, teamVars
<1>18. ASSUME NEW r \in Run, LoadTeam(r) PROVE RowsInv'
  <2>1. known' \in [Run -> Name \union {NoRow}]
    BY <1>18 DEF LoadTeam
  <2> QED BY <1>18, <2>1 DEF LoadTeam, GoTo, compVars, seasonVars, teamVars
<1>5. ASSUME NEW r \in Run, NEW n \in Name, SyncTeams(r, n) PROVE RowsInv'
  <2> DEFINE old == known[r]
  <2>1. /\ old \in Name \union {NoRow} /\ (old = NoRow => name = NoRow) /\ (old # NoRow => name # NoRow)
        /\ alias' = IF old \in {NoRow, n} THEN alias ELSE alias \union {old}
        /\ name' = IF old = n THEN name ELSE n
        /\ called' = called \union {name'}
    BY <1>5 DEF SyncTeams, Rename
  <2>2. known' \in [Run -> Name \union {NoRow}]
    BY <1>5 DEF SyncTeams
  <2>5. UNCHANGED <<day, compVars, seasonVars, row, found, todo, fetched, grade, seen>>
        /\ pc[r] = "rename" /\ pc' = [pc EXCEPT ![r] = "fixtures"]
    BY <1>5 DEF SyncTeams, GoTo
  <2> HIDE DEF old
  <2>3. name' \in Name /\ alias' \subseteq Name
    BY <2>1, NoRowAssumption
  <2>4. called' \subseteq Name
    BY <2>1, <2>3
  <2>6. name' # NoRow
    BY <2>3, NoRowAssumption
  <2>7. TypeOK'
    BY <2>2, <2>3, <2>4, <2>5 DEF compVars, seasonVars
  <2>8. TodoInv' /\ TeamInv'
    BY <2>5, <2>6
  <2> QED BY <2>7, <2>8
<1>6. ASSUME NEW r \in Run, TeamsFail(r) PROVE RowsInv'
  BY <1>6 DEF TeamsFail, GoTo, compVars, seasonVars, teamVars
<1>7. ASSUME NEW r \in Run, NEW said \in [Fixture -> Said], NEW goals \in SUBSET Fixture,
             SyncFixtures(r, said, goals)
      PROVE  RowsInv'
  <2>1. Head(todo[r]) \in Season
    <3>1. todo[r] \in Seq(Season) /\ todo[r] # <<>>
      BY <1>7 DEF SyncFixtures
    <3> QED BY <3>1, HeadTail
  <2>2. row' \in [Fixture -> Row \union {NoRow}]
    <3>1. row' = [f \in Fixture |-> Upserted(row[f], Head(todo[r]), said[f], f \in goals)]
      BY <1>7 DEF SyncFixtures
    <3>2. \A f \in Fixture : (f \in goals) \in BOOLEAN
      OBVIOUS
    <3>3. \A f \in Fixture : Upserted(row[f], Head(todo[r]), said[f], f \in goals) \in Row \union {NoRow}
      BY <2>1, <3>2, UpsertFacts, Zenon
    <3> QED BY <3>1, <3>3
  <2>3. fetched' \in [Run -> BOOLEAN]
    BY <1>7 DEF SyncFixtures
  <2> QED BY <1>7, <2>2, <2>3 DEF SyncFixtures, GoTo, compVars, seasonVars, teamVars
<1>8. ASSUME NEW r \in Run, FixturesFail(r) PROVE RowsInv'
  BY <1>8 DEF FixturesFail, GoTo, compVars, seasonVars, teamVars
<1>9. ASSUME NEW r \in Run, NEW fresh \in {0, 50, 100}, Grade(r, fresh) PROVE RowsInv'
  <2>1. grade' \in [Run -> Quality]
    BY <1>9, GradeFacts DEF Grade
  <2>2. /\ pc[r] = "grade" /\ pc' = [pc EXCEPT ![r] = "load"]
        /\ UNCHANGED <<day, compVars, seasonVars, row, teamVars, found, known, todo, fetched, seen>>
    BY <1>9 DEF Grade, GoTo
  <2>3. TodoInv'
    <3>1. \A u \in Run : pc'[u] = IF u = r THEN "load" ELSE pc[u]
      BY <2>2
    <3> QED BY <2>2, <3>1
  <2>4. TeamInv'
    BY <2>2 DEF teamVars
  <2>5. TypeOK'
    BY <2>1, <2>2 DEF compVars, seasonVars, teamVars
  <2> QED BY <2>3, <2>4, <2>5
<1>10. ASSUME NEW r \in Run, LoadLifecycle(r) PROVE RowsInv'
  BY <1>10 DEF LoadLifecycle, GoTo, compVars, seasonVars, teamVars
<1>11. ASSUME NEW r \in Run, MoveLifecycle(r) PROVE RowsInv'
  <2> DEFINE rest == Tail(todo[r])
  <2>1. rest \in Seq(Season)
    <3>1. todo[r] \in Seq(Season) /\ todo[r] # <<>>
      BY <1>11 DEF MoveLifecycle
    <3> QED BY <3>1, HeadTail
  <2>2. Moved(seen[r], grade[r]) \in Lifecycle \union {NoRow}
    BY MovedFacts
  <2>3. status' \in Lifecycle \union {NoRow} /\ quality' \in Quality
    BY <1>11, <2>2 DEF MoveLifecycle
  <2>4. /\ todo' = [todo EXCEPT ![r] = rest]
        /\ pc' = [pc EXCEPT ![r] = IF rest = <<>> THEN "idle" ELSE "teams"]
    BY <1>11 DEF MoveLifecycle, GoTo
  <2> HIDE DEF rest
  <2>5. fetched' \in [Run -> BOOLEAN] /\ grade' \in [Run -> Quality] /\ seen' \in [Run -> Lifecycle \union {NoRow}]
    BY <1>11 DEF MoveLifecycle, Forget, Quality
  <2>6. UNCHANGED <<day, expected, seasonVars, row, teamVars, found, known>>
    BY <1>11 DEF MoveLifecycle
  <2>7. todo' \in [Run -> Seq(Season)]
    BY <2>1, <2>4
  <2>8. TypeOK'
    BY <2>3, <2>4, <2>5, <2>6, <2>7 DEF seasonVars, teamVars
  <2>9. TodoInv'
    BY <2>4, <2>6
  <2>10. TeamInv'
    BY <2>6 DEF teamVars
  <2> QED BY <2>8, <2>9, <2>10
<1>12. ASSUME NEW r \in Run, Dies(r) PROVE RowsInv'
  <2>1. found' \in [Run -> FoundRows] /\ known' \in [Run -> Name \union {NoRow}]
    BY <1>0, <1>12 DEF Dies
  <2> QED BY <1>12, <2>1 DEF Dies, GoTo, Forget, Quality, compVars, seasonVars, teamVars
<1>13. CASE Archive
  BY <1>13 DEF Archive, Lifecycle, seasonVars, teamVars, runVars
<1>14. CASE Tomorrow
  BY <1>14, SeasonAssumption DEF Tomorrow, Day, compVars, seasonVars, teamVars, runVars
<1>15. CASE UNCHANGED vars
  BY <1>15 DEF vars
<1> HIDE DEF RowsInv, TypeOK, TodoInv, TeamInv
<1>16. ASSUME NEW r \in Run, AnyWork(r) PROVE RowsInv'
  BY <1>1, <1>2, <1>3, <1>4, <1>5, <1>6, <1>7, <1>8, <1>9, <1>10, <1>11, <1>12, <1>16, <1>17, <1>18 DEF AnyWork
<1> QED BY <1>13, <1>14, <1>15, <1>16, AnyWorkIsWork DEF Next

LEMMA RowsInit == Init => RowsInv
BY SeasonAssumption DEF Init, RowsInv, TypeOK, TodoInv, TeamInv, Day, Quality, NotFound, FoundRows, SeasonRows

(* Every row, state and status keeps its type, however the steps of any      *)
(* number of runs that fail and die anywhere are interleaved: no step works  *)
(* on a season when its run has none left (sync_orchestrator.py;             *)
(* fixture_sync.py).                                                         *)
THEOREM TypeCorrect == Spec => []TypeOK
<1>1. RowsInv => TypeOK
  BY DEF RowsInv
<1> QED BY <1>1, RowsInit, RowsStep, PTL DEF Spec

-----------------------------------------------------------------------------
(* Quality is earned: without a stored fixture every season scores nothing,   *)
(* be it that the fixtures that are expected are missing or that nothing is.  *)
HasRows == \E f \in Fixture : row[f] # NoRow

EarnedInv ==
  /\ RowsInv
  /\ status = "ACTIVE" => HasRows
  /\ \A r \in Run : grade[r] \in {"EXCELLENT", "GOOD"} \/ seen[r] = "ACTIVE" => HasRows

LEMMA TotalOfNothing == Total(<<0>>) = 0
<1> DEFINE IsSum(f) == f = [i \in 0..1 |-> IF i = 0 THEN 0 ELSE f[i - 1] + <<0>>[i]]
           zero == [i \in 0..1 |-> 0]
<1>1. IsSum(zero)
  <2>1. \A i \in 0..1 : (IF i = 0 THEN 0 ELSE zero[i - 1] + <<0>>[i]) = 0
    <3>1. zero[0] = 0 /\ <<0>>[1] = 0
      OBVIOUS
    <3>2. \A i \in 0..1 : i = 0 \/ (i = 1 /\ i - 1 = 0)
      OBVIOUS
    <3> QED BY <3>1, <3>2
  <2> QED BY <2>1
<1>2. IsSum(CHOOSE f : IsSum(f))
  BY <1>1, Zenon
<1>3. Total(<<0>>) = (CHOOSE f : IsSum(f))[1]
  <2>1. Len(<<0>>) = 1
    OBVIOUS
  <2> QED BY <2>1 DEF Total
<1> DEFINE sum == CHOOSE f : IsSum(f)
<1>4. sum = [i \in 0..1 |-> IF i = 0 THEN 0 ELSE sum[i - 1] + <<0>>[i]]
  BY <1>2
<1> HIDE DEF sum
<1>5. sum[0] = 0
  BY <1>4
<1>6. sum[1] = sum[0] + <<0>>[1]
  BY <1>4
<1> QED BY <1>3, <1>5, <1>6 DEF sum

LEMMA NoRowsNoScore ==
  ASSUME TypeOK, ~HasRows, NEW s, NEW fresh
  PROVE  StatusForScore(Metrics(s, fresh)) = "INSUFFICIENT"
<1>1. Of(s) = {} /\ Completed(s) = {}
  BY DEF HasRows, Of, Completed
<1>2. CASE expected = 0
  <2>1. Metrics(s, fresh) = <<>>
    BY <1>1, <1>2 DEF Metrics
  <2> QED BY <2>1 DEF StatusForScore, Reaches
<1>3. CASE expected # 0
  <2>1. expected \in Nat \ {0}
    BY <1>3 DEF TypeOK
  <2>2. Percent(Cardinality({}), expected) = 0
    BY <2>1, FS_EmptySet DEF Percent
  <2>3. Metrics(s, fresh) = <<0>>
    BY <1>1, <1>3, <2>2 DEF Metrics
  <2>4. Total(<<0>>) = 0 /\ Len(<<0>>) = 1
    BY TotalOfNothing
  <2>5. ~(0 >= 90 * 1) /\ ~(0 >= 75 * 1) /\ ~(0 >= 40 * 1)
    OBVIOUS
  <2>6. ~Reaches(<<0>>, 90) /\ ~Reaches(<<0>>, 75) /\ ~Reaches(<<0>>, 40)
    BY <2>4, <2>5 DEF Reaches
  <2> QED BY <2>3, <2>6 DEF StatusForScore
<1> QED BY <1>2, <1>3

LEMMA RowsStay == RowsInv /\ [Next]_vars /\ HasRows => HasRows'
<1> SUFFICES ASSUME RowsInv, [Next]_vars, HasRows PROVE HasRows'
  OBVIOUS
<1>1. ASSUME NEW r \in Run, NEW said \in [Fixture -> Said], NEW goals \in SUBSET Fixture,
             SyncFixtures(r, said, goals)
      PROVE  HasRows'
  <2>1. Head(todo[r]) \in Season
    <3>1. todo[r] \in Seq(Season) /\ todo[r] # <<>>
      BY <1>1 DEF SyncFixtures, RowsInv, TypeOK, TodoInv
    <3> QED BY <3>1, HeadTail
  <2>2. \A f \in Fixture : row[f] # NoRow => row'[f] # NoRow
    <3>1. row' = [f \in Fixture |-> Upserted(row[f], Head(todo[r]), said[f], f \in goals)]
      BY <1>1 DEF SyncFixtures
    <3>2. \A f \in Fixture : row[f] \in Row \union {NoRow} /\ (f \in goals) \in BOOLEAN
      BY DEF RowsInv, TypeOK
    <3>3. \A f \in Fixture :
            row[f] # NoRow => Upserted(row[f], Head(todo[r]), said[f], f \in goals) # NoRow
      BY <2>1, <3>2, UpsertFacts, Zenon
    <3> QED BY <3>1, <3>3
  <2> QED BY <2>2 DEF HasRows
<1>2. CASE UNCHANGED row
  BY <1>2 DEF HasRows
<1>3. ASSUME NEW r \in Run, AnyWork(r) PROVE HasRows'
  <2>1. \/ UNCHANGED row
        \/ \E said \in [Fixture -> Said], goals \in SUBSET Fixture : SyncFixtures(r, said, goals)
    BY <1>3 DEF AnyWork, LoadCompetition, Discover, SeasonsFail, DiscoveryFails, Pick, LoadTeam, SyncTeams,
                TeamsFail, FixturesFail, Grade, LoadLifecycle, MoveLifecycle, Dies
  <2> QED BY <1>1, <1>2, <2>1
<1> QED BY <1>2, <1>3, AnyWorkIsWork DEF Next, Archive, Tomorrow, vars

LEMMA EarnedStep == EarnedInv /\ [Next]_vars => EarnedInv'
<1> SUFFICES ASSUME EarnedInv, [Next]_vars PROVE EarnedInv'
  OBVIOUS
<1>1. RowsInv /\ RowsInv' /\ (HasRows => HasRows')
  BY RowsStep, RowsStay DEF EarnedInv
<1>2. TypeOK
  BY <1>1 DEF RowsInv
<1>3. CASE UNCHANGED <<status, grade, seen>>
  BY <1>1, <1>3 DEF EarnedInv
<1>4. ASSUME NEW old, Noticed(old), UNCHANGED <<grade, seen>> PROVE EarnedInv'
  BY <1>1, <1>4 DEF EarnedInv, Noticed
<1>5. ASSUME NEW r \in Run, NEW fresh \in {0, 50, 100}, Grade(r, fresh) PROVE EarnedInv'
  <2>1. UNCHANGED <<status, seen, row>>
    BY <1>5 DEF Grade, compVars
  <2>2. grade' = [grade EXCEPT ![r] = StatusForScore(Metrics(Head(todo[r]), fresh))]
    BY <1>5 DEF Grade
  <2>3. grade'[r] \in {"EXCELLENT", "GOOD"} => HasRows
    BY <1>2, <2>2, NoRowsNoScore DEF TypeOK
  <2>4. \A u \in Run \ {r} : grade'[u] = grade[u]
    BY <1>2, <2>2 DEF TypeOK
  <2> QED BY <1>1, <2>1, <2>3, <2>4 DEF EarnedInv
<1>6. ASSUME NEW r \in Run, LoadLifecycle(r) PROVE EarnedInv'
  BY <1>1, <1>2, <1>6 DEF LoadLifecycle, EarnedInv, TypeOK, compVars
<1>7. ASSUME NEW r \in Run, MoveLifecycle(r) PROVE EarnedInv'
  <2>1. status' = "ACTIVE" => HasRows
    <3>1. Moved(seen[r], grade[r]) = "ACTIVE" => HasRows
      BY <1>2, MovedFacts DEF EarnedInv, TypeOK
    <3> QED BY <1>7, <3>1 DEF MoveLifecycle, EarnedInv
  <2>2. /\ grade' = [grade EXCEPT ![r] = "INSUFFICIENT"]
        /\ seen' = [seen EXCEPT ![r] = NoRow]
    BY <1>7 DEF MoveLifecycle, Forget
  <2>3. NoRow # "ACTIVE"
    BY NoRowAssumption DEF Lifecycle
  <2> QED BY <1>1, <1>2, <2>1, <2>2, <2>3 DEF EarnedInv, TypeOK
<1>8. ASSUME NEW r \in Run, Dies(r) PROVE EarnedInv'
  <2>1. NoRow # "ACTIVE"
    BY NoRowAssumption DEF Lifecycle
  <2> QED BY <1>1, <1>2, <1>8, <2>1 DEF Dies, Forget, EarnedInv, TypeOK, compVars
<1>9. ASSUME NEW r \in Run, AnyWork(r) PROVE EarnedInv'
  <2>1. \/ UNCHANGED <<status, grade, seen>>
        \/ (\E old : Noticed(old)) /\ UNCHANGED <<grade, seen>>
        \/ \E fresh \in {0, 50, 100} : Grade(r, fresh)
        \/ LoadLifecycle(r) \/ MoveLifecycle(r) \/ Dies(r)
    BY <1>9 DEF AnyWork, LoadCompetition, Discover, SeasonsFail, DiscoveryFails, Pick, LoadTeam, SyncTeams,
                TeamsFail, SyncFixtures, FixturesFail, compVars
  <2> QED BY <1>3, <1>4, <1>5, <1>6, <1>7, <1>8, <2>1
<1>10. CASE Archive
  BY <1>1, <1>10 DEF Archive, EarnedInv, runVars
<1> QED BY <1>3, <1>9, <1>10, AnyWorkIsWork DEF Next, Tomorrow, compVars, runVars, vars

(* "Never fabricates a missing metric": one run at a time, however the       *)
(* provider fails, whatever the format of the competition and whichever      *)
(* seasons are evaluated, a competition is ACTIVE only if a fixture of it is *)
(* stored (data_quality.py: evaluate, _update_competition_lifecycle).        *)
THEOREM ActiveTakesFixtures == SpecSerial => []ActiveIsEarned
<1>1. Init => EarnedInv
  BY RowsInit, NoRowAssumption DEF Init, EarnedInv, Lifecycle
<1>2. EarnedInv => ActiveIsEarned
  BY DEF EarnedInv, ActiveIsEarned, HasRows
<1>3. EarnedInv /\ [NextSerial]_vars => EarnedInv'
  BY EarnedStep, SerialIsNext
<1> QED BY <1>1, <1>2, <1>3, PTL DEF SpecSerial

-----------------------------------------------------------------------------
(* Promotion and relegation (Movement), for any teams, pyramids and years.   *)

Away(c) == Moves!Roster(c, finished[c]) \ Moves!Roster(c, active[c])
Arrived(c) == Moves!Roster(c, active[c]) \ Moves!Roster(c, finished[c])

(* Both seasons of a competition are there, so that it can be compared.      *)
Comparable(c) == active[c] # Moves!None /\ finished[c] # Moves!None

WorldInv ==
  /\ year \in Moves!Year
  /\ place \in [Moves!Year -> [Team -> Moves!Competition \union {Moves!None}]]
  /\ active \in [Moves!Competition -> 0..year]
  /\ finished \in [Moves!Competition -> 0..year]
  /\ departed = [c \in Moves!Competition |-> departed[c]]
  /\ arrived = [c \in Moves!Competition |-> arrived[c]]

(* What a detection under way has collected is what the rosters say now:     *)
(* neither they nor the two seasons change while it reads them.              *)
RostersInv ==
  at = "rosters" =>
    \A c \in Moves!Competition :
      IF c \in unread \/ ~Comparable(c)
        THEN departed[c] = {} /\ arrived[c] = {}
        ELSE departed[c] = Away(c) /\ arrived[c] = Arrived(c)

MoveInv == WorldInv /\ RostersInv

LEMMA YearFacts ==
  ASSUME Moves!ConstantsOK
  PROVE  /\ \A y \in Moves!Year : 0..y \subseteq Nat /\ \A z \in 0..y : z # Moves!None => z \in Moves!Year
         /\ 1 \in Moves!Year
BY DEF Moves!ConstantsOK, Moves!Year, Moves!None

(* The next season is not one any competition has stored.                    *)
LEMMA NewYearFrame ==
  ASSUME Moves!ConstantsOK, MoveInv, Moves!NewYear
  PROVE  /\ WorldInv'
         /\ \A y \in Moves!Year : y <= year => place'[y] = place[y]
         /\ year' = year + 1 /\ UNCHANGED <<listed, active, finished, at, unread, departed, arrived, events>>
<1>1. /\ year \in Nat /\ year' = year + 1 /\ year' \in Moves!Year
      /\ UNCHANGED <<listed, active, finished, at, unread, departed, arrived, events>>
  BY DEF Moves!ConstantsOK, MoveInv, WorldInv, Moves!NewYear, Moves!Year, Moves!dataVars, Moves!syncVars
<1>2. PICK where \in [Team -> Moves!Competition \union {Moves!None}] :
        place' = [place EXCEPT ![year + 1] = where]
  BY DEF Moves!NewYear
<1>3. place' \in [Moves!Year -> [Team -> Moves!Competition \union {Moves!None}]]
  BY <1>2 DEF MoveInv, WorldInv
<1>4. \A y \in Moves!Year : y <= year => place'[y] = place[y]
  BY <1>1, <1>2 DEF MoveInv, WorldInv, Moves!Year
<1>5. active' \in [Moves!Competition -> 0..year'] /\ finished' \in [Moves!Competition -> 0..year']
  <2>1. \A x \in 0..year : x \in 0..year'
    BY <1>1
  <2> QED BY <1>1, <2>1 DEF MoveInv, WorldInv
<1> QED BY <1>1, <1>3, <1>4, <1>5 DEF MoveInv, WorldInv

LEMMA MoveStep ==
  ASSUME Moves!ConstantsOK, MoveInv, [Moves!Next]_Moves!moveVars
  PROVE  MoveInv'
<1>0. WorldInv /\ RostersInv
  BY DEF MoveInv
<1>1. CASE Moves!NewYear
  <2>1. /\ WorldInv'
        /\ \A y \in Moves!Year : y <= year => place'[y] = place[y]
        /\ UNCHANGED <<listed, active, finished, at, unread, departed, arrived>>
    BY <1>1, NewYearFrame
  <2>2. \A c \in Moves!Competition : Comparable(c) =>
          place'[active[c]] = place[active[c]] /\ place'[finished[c]] = place[finished[c]]
    <3> SUFFICES ASSUME NEW c \in Moves!Competition, Comparable(c)
                 PROVE  /\ place'[active[c]] = place[active[c]]
                        /\ place'[finished[c]] = place[finished[c]]
      OBVIOUS
    <3>1. active[c] \in 0..year /\ finished[c] \in 0..year /\ year \in Moves!Year
      BY <1>0 DEF WorldInv
    <3>2. /\ active[c] \in Moves!Year /\ finished[c] \in Moves!Year
          /\ active[c] <= year /\ finished[c] <= year
      BY <3>1, YearFacts DEF Comparable
    <3> QED BY <2>1, <3>2
  <2>3. \A c \in Moves!Competition :
          Comparable(c)' = Comparable(c) /\ (Comparable(c) => Away(c)' = Away(c) /\ Arrived(c)' = Arrived(c))
    BY <2>1, <2>2 DEF Comparable, Away, Arrived, Moves!Roster
  <2> QED BY <1>0, <2>1, <2>3 DEF MoveInv, RostersInv
<1>2. ASSUME NEW ok \in SUBSET Moves!Competition, NEW current \in [ok -> 1..year], Moves!Begin(current)
      PROVE  MoveInv'
  <2>0. year \in Nat /\ year' = year /\ DOMAIN current = ok
    BY <1>0, <1>2 DEF WorldInv, Moves!Year, Moves!ConstantsOK, Moves!Begin, Moves!worldVars
  <2>1. \A s \in 1..year : s \in 0..year /\ Moves!LatestFinished(s) \in 0..year
    BY <2>0 DEF Moves!LatestFinished
  <2>2. /\ active' \in [Moves!Competition -> 0..year'] /\ finished' \in [Moves!Competition -> 0..year']
    BY <1>0, <1>2, <2>0, <2>1 DEF WorldInv, Moves!Begin
  <2> QED BY <1>0, <1>2, <2>2 DEF MoveInv, WorldInv, RostersInv, Moves!Begin, Moves!worldVars
<1>3. ASSUME NEW t \in Team, NEW c \in Moves!Competition, Moves!List(t, c) PROVE MoveInv'
  BY <1>0, <1>3 DEF MoveInv, WorldInv, RostersInv, Moves!List, Moves!worldVars, Moves!syncVars
<1>4. CASE Moves!Detect
  BY <1>0, <1>4 DEF MoveInv, WorldInv, RostersInv, Moves!Detect, Moves!worldVars, Moves!dataVars
<1>5. ASSUME NEW c \in Moves!Competition, Moves!ReadRosters(c) PROVE MoveInv'
  <2>1. /\ at = "rosters" /\ at' = at /\ c \in unread /\ unread' = unread \ {c}
        /\ UNCHANGED <<year, place, listed, active, finished, events>>
    BY <1>5 DEF Moves!ReadRosters, Moves!worldVars, Moves!dataVars
  <2>2. \A d \in Moves!Competition :
          Comparable(d)' = Comparable(d) /\ Away(d)' = Away(d) /\ Arrived(d)' = Arrived(d)
    BY <2>1 DEF Comparable, Away, Arrived, Moves!Roster
  <2>3. CASE ~Comparable(c)
    <3>1. UNCHANGED <<departed, arrived>>
      BY <1>5, <2>3 DEF Moves!ReadRosters, Comparable
    <3> QED BY <1>0, <2>1, <2>2, <2>3, <3>1 DEF MoveInv, WorldInv, RostersInv
  <2>4. CASE Comparable(c)
    <3>1. /\ departed' = [departed EXCEPT ![c] = Away(c)]
          /\ arrived' = [arrived EXCEPT ![c] = Arrived(c)]
      BY <1>5, <2>4 DEF Moves!ReadRosters, Comparable, Away, Arrived
    <3>2. WorldInv'
      BY <1>0, <2>1, <3>1 DEF WorldInv
    <3>3. departed'[c] = Away(c) /\ arrived'[c] = Arrived(c)
      BY <1>0, <3>1 DEF WorldInv
    <3>4. \A d \in Moves!Competition \ {c} : departed'[d] = departed[d] /\ arrived'[d] = arrived[d]
      BY <1>0, <3>1 DEF WorldInv
    <3>5. \A d \in Moves!Competition \ {c} : d \in unread' <=> d \in unread
      BY <2>1
    <3> HIDE DEF WorldInv
    <3>6. RostersInv'
      BY <1>0, <2>1, <2>2, <2>4, <3>3, <3>4, <3>5 DEF RostersInv
    <3> QED BY <3>2, <3>6 DEF MoveInv
  <2> QED BY <2>3, <2>4
<1>6. CASE Moves!Record
  BY <1>0, <1>6 DEF MoveInv, WorldInv, RostersInv, Moves!Record, Moves!worldVars, Moves!dataVars
<1>7. CASE Moves!Dies
  BY <1>0, <1>7 DEF MoveInv, WorldInv, RostersInv, Moves!Dies, Moves!worldVars, Moves!dataVars
<1>8. CASE UNCHANGED Moves!moveVars
  BY <1>0, <1>8 DEF MoveInv, WorldInv, RostersInv, Moves!moveVars, Comparable, Away, Arrived, Moves!Roster
<1> QED BY <1>1, <1>2, <1>3, <1>4, <1>5, <1>6, <1>7, <1>8 DEF Moves!Next, Moves!NextOf

LEMMA MoveInit == Moves!ConstantsOK /\ Moves!Init => MoveInv
BY YearFacts DEF Moves!Init, MoveInv, WorldInv, RostersInv, Moves!None, Moves!Year, Moves!ConstantsOK

(* The competitions of a country are compared over the same two seasons, of  *)
(* which one follows the other.                                              *)
SameSeason ==
  /\ \A c \in Moves!Competition :
       \/ active[c] = Moves!None /\ finished[c] = Moves!None
       \/ active[c] # Moves!None /\ finished[c] = active[c] - 1
  /\ \A c, d \in Moves!Competition : Country[c] = Country[d] => active[c] = active[d]

RealInv == MoveInv /\ SameSeason /\ Moves!MovesAreReal

LEMMA InStepFacts ==
  ASSUME Moves!ConstantsOK, WorldInv, NEW current \in Moves!InStep
  PROVE  /\ current \in [Moves!Competition -> 1..year]
         /\ \A c \in Moves!Competition : Moves!LatestFinished(current[c]) = current[c] - 1
         /\ \A c, d \in Moves!Competition : Country[c] = Country[d] => current[c] = current[d]
<1>1. year \in Nat \ {0}
  BY DEF WorldInv, Moves!Year, Moves!ConstantsOK
<1>2. current \in [Moves!Competition -> {year - 1, year} \ {0}]
  BY DEF Moves!InStep, Moves!None
<1>3. \A s \in {year - 1, year} \ {0} : s \in 1..year /\ Moves!LatestFinished(s) = s - 1
  BY <1>1 DEF Moves!LatestFinished
<1>4. \A c, d \in Moves!Competition : Country[c] = Country[d] => current[c] = current[d]
  BY DEF Moves!InStep
<1> QED BY <1>2, <1>3, <1>4

LEMMA InStepIsNext ==
  Moves!ConstantsOK /\ WorldInv /\ [Moves!NextInStep]_Moves!moveVars => [Moves!Next]_Moves!moveVars
<1> SUFFICES ASSUME Moves!ConstantsOK, WorldInv, [Moves!NextInStep]_Moves!moveVars
             PROVE  [Moves!Next]_Moves!moveVars
  OBVIOUS
<1> DEFINE all == UNION {[ok -> 1..year] : ok \in SUBSET Moves!Competition}
<1>1. \A current \in Moves!InStep : current \in all
  BY InStepFacts
<1> HIDE DEF all
<1>2. Moves!Next <=> Moves!NextOf(all)
  BY DEF Moves!Next, all
<1> QED BY <1>1, <1>2 DEF Moves!NextInStep, Moves!NextOf

LEMMA SameStep ==
  ASSUME Moves!ConstantsOK, MoveInv, SameSeason, [Moves!NextInStep]_Moves!moveVars
  PROVE  SameSeason'
<1>1. ASSUME NEW current \in Moves!InStep, Moves!Begin(current) PROVE SameSeason'
  <2>1. /\ current \in [Moves!Competition -> 1..year]
        /\ \A c \in Moves!Competition : Moves!LatestFinished(current[c]) = current[c] - 1
        /\ \A c, d \in Moves!Competition : Country[c] = Country[d] => current[c] = current[d]
    BY InStepFacts DEF MoveInv
  <2>2. /\ active' = [c \in Moves!Competition |-> current[c]]
        /\ finished' = [c \in Moves!Competition |-> current[c] - 1]
    BY <1>1, <2>1 DEF Moves!Begin
  <2>3. \A c \in Moves!Competition : current[c] # Moves!None
    BY <2>1 DEF Moves!None
  <2> QED BY <2>1, <2>2, <2>3 DEF SameSeason
<1>2. CASE UNCHANGED <<active, finished>>
  BY <1>2 DEF SameSeason
<1>3. \/ \E current \in Moves!InStep : Moves!Begin(current)
      \/ UNCHANGED <<active, finished>>
  BY DEF Moves!NextInStep, Moves!NextOf, Moves!NewYear, Moves!List, Moves!Detect, Moves!ReadRosters,
         Moves!Record, Moves!Dies, Moves!dataVars, Moves!moveVars
<1> QED BY <1>1, <1>2, <1>3

(* What a detection that has read every roster finds in two competitions of  *)
(* one country.                                                              *)
LEMMA FoundIsReal ==
  ASSUME Moves!ConstantsOK, MoveInv, SameSeason, at = "rosters", unread = {},
         NEW c \in Moves!Competition, NEW d \in Moves!Competition, Country[c] = Country[d],
         NEW t \in departed[c], t \in arrived[d]
  PROVE  \E y \in 2..year : place[y - 1][t] = c /\ place[y][t] = d
<1>1. /\ Comparable(c) /\ departed[c] = Away(c)
      /\ Comparable(d) /\ arrived[d] = Arrived(d)
  BY DEF MoveInv, RostersInv
<1>2. place[finished[c]][t] = c /\ place[active[d]][t] = d
  BY <1>1 DEF Away, Arrived, Moves!Roster
<1>3. active[c] = active[d] /\ finished[c] = active[d] - 1 /\ active[d] \in 0..year /\ finished[c] \in 0..year
  BY <1>1 DEF SameSeason, Comparable, MoveInv, WorldInv
<1>4. active[d] \in 2..year
  BY <1>1, <1>3 DEF Comparable, Moves!None, MoveInv, WorldInv, Moves!Year, Moves!ConstantsOK
<1> QED BY <1>2, <1>3, <1>4

LEMMA RealStep ==
  ASSUME Moves!ConstantsOK, RealInv, [Moves!NextInStep]_Moves!moveVars
  PROVE  RealInv'
<1>0. MoveInv /\ SameSeason /\ Moves!MovesAreReal
  BY DEF RealInv
<1>1. MoveInv' /\ SameSeason'
  BY <1>0, InStepIsNext, MoveStep, SameStep DEF MoveInv
<1>2. CASE UNCHANGED <<year, place, events>>
  <2>1. Moves!MovesAreReal'
    BY <1>0, <1>2 DEF Moves!MovesAreReal
  <2> QED BY <1>1, <2>1 DEF RealInv
<1>3. CASE Moves!NewYear
  <2>1. /\ \A y \in Moves!Year : y <= year => place'[y] = place[y]
        /\ year' = year + 1 /\ events' = events
    BY <1>0, <1>3, NewYearFrame
  <2>2. \A y \in 2..year : y \in 2..year' /\ place'[y] = place[y] /\ place'[y - 1] = place[y - 1]
    <3>1. year \in Moves!Year
      BY <1>0 DEF MoveInv, WorldInv
    <3>2. \A y \in 2..year : y \in Moves!Year /\ y - 1 \in Moves!Year /\ y <= year /\ y - 1 <= year
                             /\ y \in 2..(year + 1)
      BY <3>1 DEF Moves!Year, Moves!ConstantsOK
    <3> QED BY <2>1, <3>2
  <2>3. Moves!MovesAreReal'
    BY <1>0, <2>1, <2>2 DEF Moves!MovesAreReal
  <2> QED BY <1>1, <2>3 DEF RealInv
<1>4. CASE Moves!Record
  <2>1. /\ at = "rosters" /\ unread = {} /\ UNCHANGED <<year, place>>
        /\ events' = Moves!Moves \union Moves!Departures \union Moves!Arrivals
    BY <1>4 DEF Moves!Record, Moves!worldVars
  <2>2. \A e \in Moves!Departures \union Moves!Arrivals : e.kind \notin {"TEAM_PROMOTED", "TEAM_RELEGATED"}
    BY DEF Moves!Departures, Moves!Arrivals, Moves!Event
  <2>3. ASSUME NEW e \in Moves!Moves
        PROVE  \E y \in 2..year :
                 /\ place[y - 1][e.team] = e.from /\ place[y][e.team] = e.to
                 /\ Country[e.from] = Country[e.to]
                 /\ e.kind = "TEAM_RELEGATED" => Level[e.to] = Level[e.from] + 1
                 /\ e.kind = "TEAM_PROMOTED" => Level[e.from] = Level[e.to] + 1
    <3>1. CASE \E m \in Moves!Relegated : e = Moves!Event("TEAM_RELEGATED", m[1], m[2][1], m[2][2])
      <4>1. PICK m \in Moves!Relegated : e = Moves!Event("TEAM_RELEGATED", m[1], m[2][1], m[2][2])
        BY <3>1
      <4>2. /\ m[2] \in Moves!Neighbours /\ m[1] \in departed[m[2][1]] /\ m[1] \in arrived[m[2][2]]
        BY DEF Moves!Relegated
      <4>3. /\ m[2][1] \in Moves!Competition /\ m[2][2] \in Moves!Competition
            /\ Country[m[2][1]] = Country[m[2][2]] /\ Level[m[2][2]] = Level[m[2][1]] + 1
        BY <4>2 DEF Moves!Neighbours, Moves!Above
      <4>4. \E y \in 2..year : place[y - 1][m[1]] = m[2][1] /\ place[y][m[1]] = m[2][2]
        BY <1>0, <2>1, <4>2, <4>3, FoundIsReal
      <4>5. e.kind = "TEAM_RELEGATED" /\ e.team = m[1] /\ e.from = m[2][1] /\ e.to = m[2][2]
        BY <4>1 DEF Moves!Event
      <4> QED BY <4>3, <4>4, <4>5
    <3>2. CASE \E m \in Moves!Promoted : e = Moves!Event("TEAM_PROMOTED", m[1], m[2][2], m[2][1])
      <4>1. PICK m \in Moves!Promoted : e = Moves!Event("TEAM_PROMOTED", m[1], m[2][2], m[2][1])
        BY <3>2
      <4>2. /\ m[2] \in Moves!Neighbours /\ m[1] \in departed[m[2][2]] /\ m[1] \in arrived[m[2][1]]
        BY DEF Moves!Promoted
      <4>3. /\ m[2][1] \in Moves!Competition /\ m[2][2] \in Moves!Competition
            /\ Country[m[2][1]] = Country[m[2][2]] /\ Level[m[2][2]] = Level[m[2][1]] + 1
        BY <4>2 DEF Moves!Neighbours, Moves!Above
      <4>4. \E y \in 2..year : place[y - 1][m[1]] = m[2][2] /\ place[y][m[1]] = m[2][1]
        BY <1>0, <2>1, <4>2, <4>3, FoundIsReal
      <4>5. e.kind = "TEAM_PROMOTED" /\ e.team = m[1] /\ e.from = m[2][2] /\ e.to = m[2][1]
        BY <4>1 DEF Moves!Event
      <4> QED BY <4>3, <4>4, <4>5
    <3> QED BY <3>1, <3>2 DEF Moves!Moves
  <2>4. Moves!MovesAreReal'
    BY <2>1, <2>2, <2>3 DEF Moves!MovesAreReal
  <2> QED BY <1>1, <2>4 DEF RealInv
<1>5. \/ UNCHANGED <<year, place, events>>
      \/ Moves!NewYear \/ Moves!Record
  BY DEF Moves!NextInStep, Moves!NextOf, Moves!Begin, Moves!List, Moves!Detect, Moves!ReadRosters,
         Moves!Dies, Moves!worldVars, Moves!moveVars
<1> QED BY <1>2, <1>3, <1>4, <1>5

(* Where discovery fails for no competition, the competitions of a country   *)
(* change seasons together and seasons are published one ahead at most, a    *)
(* promotion or a relegation that is recorded happened: in whatever order    *)
(* fixtures are stored and syncs run or die, and however few fixtures there  *)
(* are (movement_detection.py).                                              *)
THEOREM RecordedMovesHappened == Moves!SpecInStep => []MovesAreReal
<1>1. Moves!Init => RealInv
  BY MoveInit, MovesAssumption DEF RealInv, Moves!Init, SameSeason, Moves!MovesAreReal, Moves!None
<1>2. RealInv /\ [Moves!NextInStep]_Moves!moveVars => RealInv'
  BY RealStep, MovesAssumption
<1>3. RealInv => MovesAreReal
  BY DEF RealInv, MovesAreReal
<1> QED BY <1>1, <1>2, <1>3, PTL DEF Moves!SpecInStep

-----------------------------------------------------------------------------
(* No two divisions of one country have the same level.                      *)
LevelsDistinct ==
  \A c, d \in Moves!Competition :
    c # d /\ Country[c] = Country[d] /\ Level[c] # NoLevel /\ Level[d] # NoLevel => Level[c] # Level[d]

LEMMA NeighboursAre ==
  ASSUME Moves!ConstantsOK, LevelsDistinct,
         NEW c \in Moves!Competition, NEW d \in Moves!Competition
  PROVE  <<c, d>> \in Moves!Neighbours <=>
           /\ Country[c] = Country[d] /\ Level[c] # NoLevel /\ Level[d] # NoLevel
           /\ Level[d] = Level[c] + 1
<1>1. \A x \in Moves!Competition : Level[x] # NoLevel => Level[x] \in Nat
  BY DEF Moves!ConstantsOK, Moves!Competition
<1>2. ASSUME Country[c] = Country[d], Level[c] # NoLevel, Level[d] # NoLevel, Level[d] = Level[c] + 1,
             NEW x \in Moves!Competition, Moves!Above(c, x), Moves!Above(x, d)
      PROVE  FALSE
  <2>1. /\ Country[c] = Country[x] /\ Level[x] # NoLevel /\ Level[x] \in Nat /\ Level[c] \in Nat
        /\ Level[c] <= Level[x] /\ Level[x] <= Level[d]
    BY <1>1, <1>2 DEF Moves!Above
  <2>2. Level[x] = Level[c] \/ Level[x] = Level[d]
    BY <1>2, <2>1
  <2>3. x = c \/ x = d
    BY <1>2, <2>1, <2>2 DEF LevelsDistinct
  <2>4. x \in Nat
    BY DEF Moves!Competition
  <2> QED BY <1>1, <1>2, <2>3, <2>4 DEF Moves!Above
<1>3. ASSUME Country[c] = Country[d], Level[c] # NoLevel, Level[d] # NoLevel, Level[d] = Level[c] + 1
      PROVE  <<c, d>> \in Moves!Neighbours
  <2>1. Moves!Above(c, d)
    BY <1>1, <1>3 DEF Moves!Above
  <2> QED BY <1>2, <1>3, <2>1 DEF Moves!Neighbours
<1>4. ASSUME <<c, d>> \in Moves!Neighbours
      PROVE  /\ Country[c] = Country[d] /\ Level[c] # NoLevel /\ Level[d] # NoLevel
             /\ Level[d] = Level[c] + 1
  BY <1>4 DEF Moves!Neighbours, Moves!Above
<1> QED BY <1>3, <1>4

(* When detection has read both seasons of every competition, and both are   *)
(* stored completely.                                                        *)
AllRead(y) ==
  /\ at = "rosters" /\ unread = {}
  /\ \A c \in Moves!Competition : active[c] = y /\ finished[c] = y - 1
  /\ Moves!Complete(y)

LEMMA CollectedFacts ==
  ASSUME Moves!ConstantsOK, MoveInv, NEW y \in 2..year, AllRead(y)
  PROVE  \A c \in Moves!Competition :
           /\ departed[c] = {t \in Team : place[y - 1][t] = c /\ place[y][t] # c}
           /\ arrived[c] = {t \in Team : place[y][t] = c /\ place[y - 1][t] # c}
<1> SUFFICES ASSUME NEW c \in Moves!Competition
             PROVE  /\ departed[c] = {t \in Team : place[y - 1][t] = c /\ place[y][t] # c}
                    /\ arrived[c] = {t \in Team : place[y][t] = c /\ place[y - 1][t] # c}
  OBVIOUS
<1>1. y # Moves!None /\ y - 1 # Moves!None /\ c # Moves!None
  BY DEF MoveInv, WorldInv, Moves!Year, Moves!None, Moves!Competition, Moves!ConstantsOK
<1>2. departed[c] = Away(c) /\ arrived[c] = Arrived(c)
  BY <1>1 DEF MoveInv, RostersInv, AllRead, Comparable
<1>3. /\ Moves!Roster(c, y) = {t \in Team : place[y][t] = c}
      /\ Moves!Roster(c, y - 1) = {t \in Team : place[y - 1][t] = c}
  BY <1>1 DEF AllRead, Moves!Complete, Moves!Roster
<1> QED BY <1>2, <1>3 DEF Away, Arrived, AllRead

(* A recognised move, by what the team did.                                  *)
LEMMA MovesFacts ==
  ASSUME Moves!ConstantsOK, LevelsDistinct, MoveInv, NEW y \in 2..year, AllRead(y), NEW e
  PROVE  e \in Moves!Moves <=>
           \E t \in Team :
             /\ place[y - 1][t] # Moves!None /\ place[y][t] # Moves!None
             /\ Moves!OneLevelApart(place[y - 1][t], place[y][t])
             /\ e = Moves!Event(IF Level[place[y - 1][t]] < Level[place[y][t]]
                                  THEN "TEAM_RELEGATED" ELSE "TEAM_PROMOTED",
                                t, place[y - 1][t], place[y][t])
<1> DEFINE told(t) ==
      /\ place[y - 1][t] # Moves!None /\ place[y][t] # Moves!None
      /\ Moves!OneLevelApart(place[y - 1][t], place[y][t])
      /\ e = Moves!Event(IF Level[place[y - 1][t]] < Level[place[y][t]]
                           THEN "TEAM_RELEGATED" ELSE "TEAM_PROMOTED",
                         t, place[y - 1][t], place[y][t])
<1>1. \A x \in Moves!Competition : (Level[x] # NoLevel => Level[x] \in Nat) /\ x # Moves!None
  BY DEF Moves!ConstantsOK, Moves!Competition, Moves!None
<1>2. y \in Moves!Year /\ y - 1 \in Moves!Year
  BY DEF MoveInv, WorldInv, Moves!Year, Moves!ConstantsOK
<1>3. \A t \in Team : /\ place[y][t] \in Moves!Competition \union {Moves!None}
                      /\ place[y - 1][t] \in Moves!Competition \union {Moves!None}
  BY <1>2 DEF MoveInv, WorldInv
<1>4. ASSUME NEW m \in Moves!Relegated, e = Moves!Event("TEAM_RELEGATED", m[1], m[2][1], m[2][2])
      PROVE  m[1] \in Team /\ told(m[1])
  <2>1. /\ m[1] \in Team /\ m[2] \in Moves!Neighbours /\ m[1] \in departed[m[2][1]] /\ m[1] \in arrived[m[2][2]]
    BY DEF Moves!Relegated
  <2>2. PICK c \in Moves!Competition, d \in Moves!Competition : m[2] = <<c, d>>
    BY <2>1 DEF Moves!Neighbours
  <2>3. m[2][1] = c /\ m[2][2] = d
    BY <2>2
  <2>4. place[y - 1][m[1]] = c /\ place[y][m[1]] = d
    BY <2>1, <2>3, CollectedFacts
  <2>5. Country[c] = Country[d] /\ Level[c] # NoLevel /\ Level[d] # NoLevel /\ Level[d] = Level[c] + 1
    BY <2>1, <2>2, NeighboursAre
  <2>6. Level[c] < Level[d]
    BY <1>1, <2>5
  <2> QED BY <1>1, <1>4, <2>1, <2>3, <2>4, <2>5, <2>6 DEF Moves!OneLevelApart
<1>5. ASSUME NEW m \in Moves!Promoted, e = Moves!Event("TEAM_PROMOTED", m[1], m[2][2], m[2][1])
      PROVE  m[1] \in Team /\ told(m[1])
  <2>1. /\ m[1] \in Team /\ m[2] \in Moves!Neighbours /\ m[1] \in departed[m[2][2]] /\ m[1] \in arrived[m[2][1]]
    BY DEF Moves!Promoted
  <2>2. PICK c \in Moves!Competition, d \in Moves!Competition : m[2] = <<c, d>>
    BY <2>1 DEF Moves!Neighbours
  <2>3. m[2][1] = c /\ m[2][2] = d
    BY <2>2
  <2>4. place[y - 1][m[1]] = d /\ place[y][m[1]] = c
    BY <2>1, <2>3, CollectedFacts
  <2>5. Country[c] = Country[d] /\ Level[c] # NoLevel /\ Level[d] # NoLevel /\ Level[d] = Level[c] + 1
    BY <2>1, <2>2, NeighboursAre
  <2>6. ~(Level[d] < Level[c])
    BY <1>1, <2>5
  <2> QED BY <1>1, <1>5, <2>1, <2>3, <2>4, <2>5, <2>6 DEF Moves!OneLevelApart
<1>6. ASSUME NEW t \in Team, told(t) PROVE e \in Moves!Moves
  <2> DEFINE c == place[y - 1][t]
             d == place[y][t]
  <2>1. c \in Moves!Competition /\ d \in Moves!Competition
    BY <1>3, <1>6
  <2>2. /\ Country[c] = Country[d] /\ Level[c] # NoLevel /\ Level[d] # NoLevel
        /\ Level[d] = Level[c] + 1 \/ Level[c] = Level[d] + 1
    BY <1>6 DEF Moves!OneLevelApart
  <2>3. Level[c] \in Nat /\ Level[d] \in Nat
    BY <1>1, <2>1, <2>2
  <2>4. t \in departed[c] /\ t \in arrived[d]
    <3>1. c # d
      BY <2>2, <2>3
    <3> QED BY <2>1, <3>1, CollectedFacts
  <2>5. CASE Level[d] = Level[c] + 1
    <3>1. <<c, d>> \in Moves!Neighbours
      BY <2>1, <2>2, <2>5, NeighboursAre
    <3>2. <<t, <<c, d>>>> \in Moves!Relegated
      BY <2>4, <3>1 DEF Moves!Relegated
    <3>3. e = Moves!Event("TEAM_RELEGATED", t, c, d)
      BY <1>6, <2>3, <2>5
    <3> QED BY <3>2, <3>3 DEF Moves!Moves
  <2>6. CASE Level[c] = Level[d] + 1
    <3>1. <<d, c>> \in Moves!Neighbours
      BY <2>1, <2>2, <2>6, NeighboursAre
    <3>2. <<t, <<d, c>>>> \in Moves!Promoted
      BY <2>4, <3>1 DEF Moves!Promoted
    <3>3. e = Moves!Event("TEAM_PROMOTED", t, c, d)
      BY <1>6, <2>3, <2>6
    <3> QED BY <3>2, <3>3 DEF Moves!Moves
  <2> QED BY <2>2, <2>5, <2>6
<1>7. e \in Moves!Moves => \E t \in Team : told(t)
  BY <1>4, <1>5 DEF Moves!Moves
<1> QED BY <1>6, <1>7

(* What is told of one team.                                                 *)
TruthOf(y, t) ==
  LET from == place[y - 1][t]
      to == place[y][t] IN
  IF from = to THEN {}
  ELSE IF from # Moves!None /\ to # Moves!None /\ Moves!OneLevelApart(from, to)
    THEN {Moves!Event(IF Level[from] < Level[to] THEN "TEAM_RELEGATED" ELSE "TEAM_PROMOTED", t, from, to)}
    ELSE (IF from = Moves!None THEN {} ELSE {Moves!Event("TEAM_DEPARTED_COMPETITION", t, from, Moves!None)})
         \union (IF to = Moves!None THEN {} ELSE {Moves!Event("TEAM_NEW_TO_COMPETITION", t, Moves!None, to)})

LEMMA TruthIs == \A y : Moves!Truth(y) = UNION {TruthOf(y, t) : t \in Team}
BY DEF Moves!Truth, TruthOf

(* The team moved to or from a division one level away.                      *)
Recognised(y, t) ==
  /\ place[y - 1][t] # Moves!None /\ place[y][t] # Moves!None
  /\ Moves!OneLevelApart(place[y - 1][t], place[y][t])

LEMMA UnaccountedFacts ==
  ASSUME Moves!ConstantsOK, LevelsDistinct, MoveInv, NEW y \in 2..year, AllRead(y), NEW e
  PROVE  /\ e \in Moves!Departures <=>
              \E t \in Team :
                /\ place[y - 1][t] # Moves!None /\ place[y - 1][t] # place[y][t] /\ ~Recognised(y, t)
                /\ e = Moves!Event("TEAM_DEPARTED_COMPETITION", t, place[y - 1][t], Moves!None)
         /\ e \in Moves!Arrivals <=>
              \E t \in Team :
                /\ place[y][t] # Moves!None /\ place[y - 1][t] # place[y][t] /\ ~Recognised(y, t)
                /\ e = Moves!Event("TEAM_NEW_TO_COMPETITION", t, Moves!None, place[y][t])
<1>1. y \in Moves!Year /\ y - 1 \in Moves!Year
  BY DEF MoveInv, WorldInv, Moves!Year, Moves!ConstantsOK
<1>2. \A t \in Team : /\ place[y][t] \in Moves!Competition \union {Moves!None}
                      /\ place[y - 1][t] \in Moves!Competition \union {Moves!None}
  BY <1>1 DEF MoveInv, WorldInv
<1>3. \A c \in Moves!Competition : c # Moves!None
  BY DEF Moves!Competition, Moves!None
<1>4. ASSUME NEW c \in Moves!Competition, NEW t \in Team, place[y - 1][t] = c
      PROVE  t \in {x.team : x \in {m \in Moves!Moves : m.from = c}} <=> Recognised(y, t)
  <2>1. ASSUME NEW m \in Moves!Moves, m.from = c, m.team = t PROVE Recognised(y, t)
    <3>1. PICK u \in Team :
             /\ Recognised(y, u)
             /\ m = Moves!Event(IF Level[place[y - 1][u]] < Level[place[y][u]]
                                  THEN "TEAM_RELEGATED" ELSE "TEAM_PROMOTED",
                                u, place[y - 1][u], place[y][u])
      BY MovesFacts DEF Recognised
    <3>2. m.team = u
      BY <3>1 DEF Moves!Event
    <3> QED BY <2>1, <3>1, <3>2
  <2>2. ASSUME Recognised(y, t) PROVE \E m \in Moves!Moves : m.from = c /\ m.team = t
    <3> DEFINE m == Moves!Event(IF Level[place[y - 1][t]] < Level[place[y][t]]
                                  THEN "TEAM_RELEGATED" ELSE "TEAM_PROMOTED",
                                t, place[y - 1][t], place[y][t])
    <3>1. m \in Moves!Moves
      BY <2>2, MovesFacts DEF Recognised
    <3>2. m.from = c /\ m.team = t
      BY <1>4 DEF Moves!Event
    <3> HIDE DEF m
    <3> QED BY <3>1, <3>2
  <2> QED BY <2>1, <2>2
<1>5. ASSUME NEW c \in Moves!Competition, NEW t \in Team, place[y][t] = c
      PROVE  t \in {x.team : x \in {m \in Moves!Moves : m.to = c}} <=> Recognised(y, t)
  <2>1. ASSUME NEW m \in Moves!Moves, m.to = c, m.team = t PROVE Recognised(y, t)
    <3>1. PICK u \in Team :
             /\ Recognised(y, u)
             /\ m = Moves!Event(IF Level[place[y - 1][u]] < Level[place[y][u]]
                                  THEN "TEAM_RELEGATED" ELSE "TEAM_PROMOTED",
                                u, place[y - 1][u], place[y][u])
      BY MovesFacts DEF Recognised
    <3>2. m.team = u
      BY <3>1 DEF Moves!Event
    <3> QED BY <2>1, <3>1, <3>2
  <2>2. ASSUME Recognised(y, t) PROVE \E m \in Moves!Moves : m.to = c /\ m.team = t
    <3> DEFINE m == Moves!Event(IF Level[place[y - 1][t]] < Level[place[y][t]]
                                  THEN "TEAM_RELEGATED" ELSE "TEAM_PROMOTED",
                                t, place[y - 1][t], place[y][t])
    <3>1. m \in Moves!Moves
      BY <2>2, MovesFacts DEF Recognised
    <3>2. m.to = c /\ m.team = t
      BY <1>5 DEF Moves!Event
    <3> HIDE DEF m
    <3> QED BY <3>1, <3>2
  <2> QED BY <2>1, <2>2
<1>6. e \in Moves!Departures <=>
        \E c \in Moves!Competition :
          \E t \in departed[c] \ {x.team : x \in {m \in Moves!Moves : m.from = c}} :
            e = Moves!Event("TEAM_DEPARTED_COMPETITION", t, c, Moves!None)
  BY DEF Moves!Departures
<1>7. e \in Moves!Arrivals <=>
        \E c \in Moves!Competition :
          \E t \in arrived[c] \ {x.team : x \in {m \in Moves!Moves : m.to = c}} :
            e = Moves!Event("TEAM_NEW_TO_COMPETITION", t, Moves!None, c)
  BY DEF Moves!Arrivals
<1>8. ASSUME NEW c \in Moves!Competition, NEW t
      PROVE  t \in departed[c] \ {x.team : x \in {m \in Moves!Moves : m.from = c}} <=>
               t \in Team /\ place[y - 1][t] = c /\ place[y][t] # c /\ ~Recognised(y, t)
  BY <1>4, CollectedFacts
<1>9. ASSUME NEW c \in Moves!Competition, NEW t
      PROVE  t \in arrived[c] \ {x.team : x \in {m \in Moves!Moves : m.to = c}} <=>
               t \in Team /\ place[y][t] = c /\ place[y - 1][t] # c /\ ~Recognised(y, t)
  BY <1>5, CollectedFacts
<1>10. e \in Moves!Departures <=>
         \E t \in Team :
           /\ place[y - 1][t] # Moves!None /\ place[y - 1][t] # place[y][t] /\ ~Recognised(y, t)
           /\ e = Moves!Event("TEAM_DEPARTED_COMPETITION", t, place[y - 1][t], Moves!None)
  BY <1>2, <1>3, <1>6, <1>8
<1>11. e \in Moves!Arrivals <=>
         \E t \in Team :
           /\ place[y][t] # Moves!None /\ place[y - 1][t] # place[y][t] /\ ~Recognised(y, t)
           /\ e = Moves!Event("TEAM_NEW_TO_COMPETITION", t, Moves!None, place[y][t])
  BY <1>2, <1>3, <1>7, <1>9
<1> QED BY <1>10, <1>11

LEMMA CompleteFacts ==
  ASSUME Moves!ConstantsOK, LevelsDistinct, MoveInv, NEW y \in 2..year, AllRead(y)
  PROVE  Moves!Moves \union Moves!Departures \union Moves!Arrivals = Moves!Truth(y)
<1> SUFFICES ASSUME NEW e
             PROVE  e \in Moves!Moves \union Moves!Departures \union Moves!Arrivals
                      <=> \E t \in Team : e \in TruthOf(y, t)
  BY TruthIs
<1> DEFINE told(t) == Moves!Event(IF Level[place[y - 1][t]] < Level[place[y][t]]
                                    THEN "TEAM_RELEGATED" ELSE "TEAM_PROMOTED",
                                  t, place[y - 1][t], place[y][t])
           left(t) == Moves!Event("TEAM_DEPARTED_COMPETITION", t, place[y - 1][t], Moves!None)
           came(t) == Moves!Event("TEAM_NEW_TO_COMPETITION", t, Moves!None, place[y][t])
<1>1. \A c \in Moves!Competition : Level[c] # NoLevel => Level[c] \in Nat
  BY DEF Moves!ConstantsOK, Moves!Competition
<1>2. y \in Moves!Year /\ y - 1 \in Moves!Year
  BY DEF MoveInv, WorldInv, Moves!Year, Moves!ConstantsOK
<1>3. \A t \in Team : Recognised(y, t) => place[y - 1][t] # place[y][t]
  <2> SUFFICES ASSUME NEW t \in Team, Recognised(y, t), place[y - 1][t] = place[y][t] PROVE FALSE
    OBVIOUS
  <2>1. place[y][t] \in Moves!Competition
    BY <1>2 DEF Recognised, MoveInv, WorldInv
  <2>2. Level[place[y][t]] \in Nat
    BY <1>1, <2>1 DEF Recognised, Moves!OneLevelApart
  <2> QED BY <2>2 DEF Recognised, Moves!OneLevelApart
<1>4. e \in Moves!Moves <=> \E t \in Team : Recognised(y, t) /\ e = told(t)
  BY MovesFacts DEF Recognised
<1>5. /\ e \in Moves!Departures <=>
           \E t \in Team : /\ place[y - 1][t] # Moves!None /\ place[y - 1][t] # place[y][t] /\ ~Recognised(y, t)
                           /\ e = left(t)
      /\ e \in Moves!Arrivals <=>
           \E t \in Team : /\ place[y][t] # Moves!None /\ place[y - 1][t] # place[y][t] /\ ~Recognised(y, t)
                           /\ e = came(t)
  BY UnaccountedFacts
<1>6. \A t \in Team :
        e \in TruthOf(y, t) <=>
          /\ place[y - 1][t] # place[y][t]
          /\ \/ Recognised(y, t) /\ e = told(t)
             \/ ~Recognised(y, t) /\ place[y - 1][t] # Moves!None /\ e = left(t)
             \/ ~Recognised(y, t) /\ place[y][t] # Moves!None /\ e = came(t)
  <2> HIDE DEF told, left, came
  <2>1. \A t \in Team :
          TruthOf(y, t) =
            IF place[y - 1][t] = place[y][t] THEN {}
            ELSE IF Recognised(y, t) THEN {told(t)}
            ELSE (IF place[y - 1][t] = Moves!None THEN {} ELSE {left(t)})
                 \union (IF place[y][t] = Moves!None THEN {} ELSE {came(t)})
    BY DEF TruthOf, Recognised, told, left, came
  <2> QED BY <2>1
<1> HIDE DEF told, left, came
<1> QED BY <1>3, <1>4, <1>5, <1>6

(* When every competition was read with the same two seasons, both stored    *)
(* completely, the events are exactly what the teams did - for any pyramids  *)
(* in which no two divisions of a country have the same level, whatever      *)
(* failed before and whoever plays where (movement_detection.py, detect).    *)
THEOREM CompleteSeasonsAreTold ==
  ASSUME LevelsDistinct
  PROVE  Moves!Spec => []MovesAreComplete
<1>1. Moves!Init => MoveInv
  BY MoveInit, MovesAssumption
<1>2. MoveInv /\ [Moves!Next]_Moves!moveVars => MoveInv'
  BY MoveStep, MovesAssumption
<1>3. MoveInv => MovesAreComplete
  BY CompleteFacts, MovesAssumption DEF MovesAreComplete, Moves!MovesAreComplete, AllRead
<1> QED BY <1>1, <1>2, <1>3, PTL DEF Moves!Spec
=============================================================================
