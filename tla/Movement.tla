------------------------------ MODULE Movement ------------------------------
(***************************************************************************)
(* Promotion and relegation as a full sync detects them                     *)
(* (app/services/movement_detection.py), over the seasons discovery left    *)
(* ACTIVE and FINISHED and the rosters the fixtures stored so far make up.  *)
(* What the teams really do is the world's: place, which the code never     *)
(* sees but through fixtures.                                               *)
(***************************************************************************)
EXTENDS Naturals, FiniteSets

CONSTANTS
  Team,         \* canonical team ids
  Competitions, \* competitions are 1..Competitions, by their row ids
  Level,        \* division_level of each, or NoLevel
  Country,      \* country and region of each
  NoLevel,      \* not in a pyramid
  MaxYear       \* bound on seasons

(* What an instance has to be like; it assumes it.                            *)
ConstantsOK ==
  /\ Competitions \in Nat /\ MaxYear \in Nat \ {0}
  /\ \A c \in 1..Competitions : Level[c] = NoLevel \/ Level[c] \in Nat \ {NoLevel}

Competition == 1..Competitions
Year == 1..MaxYear
None == 0                       \* no competition; no season
Kind == {"TEAM_PROMOTED", "TEAM_RELEGATED", "TEAM_NEW_TO_COMPETITION", "TEAM_DEPARTED_COMPETITION"}

VARIABLES
  year,         \* the last season there are fixtures of
  place,        \* where each team plays in each season
  listed,       \* fixtures stored: <<season, team>>
  active,       \* the ACTIVE season of each competition
  finished,     \* its FINISHED season that ends last
  at,           \* where the sync is
  unread,       \* competitions whose rosters are still to be read
  departed,     \* teams only in the finished season's roster
  arrived,      \* teams only in the active season's
  events        \* SystemEvents of the last detection

worldVars == <<year, place>>
dataVars == <<listed, active, finished>>
syncVars == <<at, unread, departed, arrived>>
moveVars == <<year, place, listed, active, finished, at, unread, departed, arrived, events>>

Init ==
  /\ year = 1
  /\ place \in [Year -> [Team -> Competition \union {None}]]
  /\ \A y \in Year : y > 1 => place[y] = [t \in Team |-> None]
  /\ listed = {}
  /\ active = [c \in Competition |-> None]
  /\ finished = [c \in Competition |-> None]
  /\ at = "idle"
  /\ unread = {}
  /\ departed = [c \in Competition |-> {}]
  /\ arrived = [c \in Competition |-> {}]
  /\ events = {}

-----------------------------------------------------------------------------
(* The fixtures of another season: teams move, appear and disappear.         *)
NewYear ==
  /\ year < MaxYear
  /\ year' = year + 1
  /\ \E where \in [Team -> Competition \union {None}] : place' = [place EXCEPT ![year + 1] = where]
  /\ UNCHANGED <<dataVars, syncVars, events>>

(* With the season s current, s - 1 is FINISHED, s + 1 UPCOMING; seasons     *)
(* further ahead are called FINISHED as well, and end later.                 *)
LatestFinished(s) == IF year >= s + 2 THEN year ELSE s - 1

(* Discovery stores the status of every season of the competitions it        *)
(* succeeds for; in which season each of them is depends on its own dates.   *)
Begin(current) ==
  /\ at = "idle"
  /\ \A c \in DOMAIN current : active[c] <= current[c]
  /\ active' = [c \in Competition |-> IF c \in DOMAIN current THEN current[c] ELSE active[c]]
  /\ finished' = [c \in Competition |->
                    IF c \in DOMAIN current THEN LatestFinished(current[c]) ELSE finished[c]]
  /\ at' = "fixtures"
  /\ UNCHANGED <<worldVars, listed, unread, departed, arrived, events>>

(* A fixture of the team in one of the two seasons, the first, is stored.    *)
List(t, c) ==
  /\ at = "fixtures"
  /\ \E y \in {active[c], finished[c]} \ {None} :
       /\ place[y][t] = c
       /\ listed' = listed \union {<<y, t>>}
  /\ UNCHANGED <<worldVars, active, finished, syncVars, events>>

Detect ==
  /\ at = "fixtures"
  /\ at' = "rosters"
  /\ unread' = Competition
  /\ departed' = [c \in Competition |-> {}]
  /\ arrived' = [c \in Competition |-> {}]
  /\ UNCHANGED <<worldVars, dataVars, events>>

Roster(c, y) == {t \in Team : place[y][t] = c /\ <<y, t>> \in listed}

(* Mutant: the rosters are subtracted the wrong way round.                   *)
ReadRostersCrossed(c) ==
  /\ at = "rosters"
  /\ c \in unread /\ \A d \in unread : c <= d
  /\ unread' = unread \ {c}
  /\ IF active[c] = None \/ finished[c] = None
       THEN UNCHANGED <<departed, arrived>>
       ELSE LET now == Roster(c, active[c])
                before == Roster(c, finished[c]) IN
            /\ departed' = [departed EXCEPT ![c] = now \ before]
            /\ arrived' = [arrived EXCEPT ![c] = before \ now]
  /\ UNCHANGED <<worldVars, dataVars, at, events>>

(* One competition after the other; it needs both seasons.                   *)
ReadRosters(c) ==
  /\ at = "rosters"
  /\ c \in unread /\ \A d \in unread : c <= d
  /\ unread' = unread \ {c}
  /\ IF active[c] = None \/ finished[c] = None
       THEN UNCHANGED <<departed, arrived>>
       ELSE LET now == Roster(c, active[c])
                before == Roster(c, finished[c]) IN
            /\ departed' = [departed EXCEPT ![c] = before \ now]
            /\ arrived' = [arrived EXCEPT ![c] = now \ before]
  /\ UNCHANGED <<worldVars, dataVars, at, events>>

-----------------------------------------------------------------------------
(* The competitions of a country that have a level are sorted by it ...      *)
Above(c, d) ==
  /\ Country[c] = Country[d]
  /\ Level[c] # NoLevel /\ Level[d] # NoLevel
  /\ Level[c] < Level[d] \/ (Level[c] = Level[d] /\ c < d)

(* ... and each is compared with the next one, if that is a level below.     *)
Neighbours ==
  {p \in Competition \X Competition :
     /\ Above(p[1], p[2])
     /\ \A c \in Competition : ~(Above(p[1], c) /\ Above(c, p[2]))
     /\ Level[p[2]] = Level[p[1]] + 1}

Relegated == {m \in Team \X Neighbours : m[1] \in departed[m[2][1]] /\ m[1] \in arrived[m[2][2]]}
Promoted == {m \in Team \X Neighbours : m[1] \in departed[m[2][2]] /\ m[1] \in arrived[m[2][1]]}

Event(kind, t, from, to) == [kind |-> kind, team |-> t, from |-> from, to |-> to]
Moves == {Event("TEAM_RELEGATED", m[1], m[2][1], m[2][2]) : m \in Relegated}
         \union {Event("TEAM_PROMOTED", m[1], m[2][2], m[2][1]) : m \in Promoted}
(* Mutant: a team whose move was recognised is said to have left as well.    *)
DeparturesAll == UNION {{Event("TEAM_DEPARTED_COMPETITION", t, c, None) : t \in departed[c]} : c \in Competition}

(* What no move accounts for.                                                *)
Departures == UNION {{Event("TEAM_DEPARTED_COMPETITION", t, c, None) : t \in departed[c] \
                       {e.team : e \in {m \in Moves : m.from = c}}} : c \in Competition}
Arrivals == UNION {{Event("TEAM_NEW_TO_COMPETITION", t, None, c) : t \in arrived[c] \
                     {e.team : e \in {m \in Moves : m.to = c}}} : c \in Competition}

(* _record_events: everything in one commit.                                 *)
Record ==
  /\ at = "rosters"
  /\ unread = {}
  /\ events' = Moves \union Departures \union Arrivals
  /\ at' = "idle"
  /\ UNCHANGED <<worldVars, dataVars, unread, departed, arrived>>

Dies ==
  /\ at # "idle"
  /\ at' = "idle"
  /\ unread' = {}
  /\ UNCHANGED <<worldVars, dataVars, departed, arrived, events>>

-----------------------------------------------------------------------------
NextOf(Discoveries) ==
  \/ NewYear
  \/ \E current \in Discoveries : Begin(current)
  \/ \E t \in Team, c \in Competition : List(t, c)
  \/ Detect
  \/ \E c \in Competition : ReadRosters(c)
  \/ Record
  \/ Dies

(* Discovery may fail for any competition, and any may be in any season.     *)
Next == NextOf(UNION {[ok -> 1..year] : ok \in SUBSET Competition})

(* Discovery fails for none; the competitions of a country change seasons    *)
(* together, and there are fixtures of one season ahead at most.             *)
InStep == {current \in [Competition -> {year - 1, year} \ {None}] :
             \A c, d \in Competition : Country[c] = Country[d] => current[c] = current[d]}
NextInStep == NextOf(InStep)

Spec == Init /\ [][Next]_moveVars
SpecInStep == Init /\ [][NextInStep]_moveVars

-----------------------------------------------------------------------------
(* A promotion or a relegation that is recorded happened: the team played    *)
(* there in one season, plays here in the next, one level away in the same   *)
(* country - however much of either season is stored                         *)
(* (movement_detection.py: departures crossed with arrivals).  Claimed of    *)
(* NextInStep: the code decides for each competition alone which seasons it  *)
(* compares, and two neighbours compared over other years show moves that    *)
(* never were.                                                               *)
MovesAreReal ==
  \A e \in events : e.kind \in {"TEAM_PROMOTED", "TEAM_RELEGATED"} =>
    \E y \in 2..year :
      /\ place[y - 1][e.team] = e.from /\ place[y][e.team] = e.to
      /\ Country[e.from] = Country[e.to]
      /\ e.kind = "TEAM_RELEGATED" => Level[e.to] = Level[e.from] + 1
      /\ e.kind = "TEAM_PROMOTED" => Level[e.from] = Level[e.to] + 1

(* What the events say about two seasons that are stored completely.         *)
OneLevelApart(c, d) ==
  /\ Country[c] = Country[d]
  /\ Level[c] # NoLevel /\ Level[d] # NoLevel
  /\ Level[c] + 1 = Level[d] \/ Level[d] + 1 = Level[c]

Truth(y) ==
  UNION {LET from == place[y - 1][t]
             to == place[y][t] IN
         IF from = to THEN {}
         ELSE IF from # None /\ to # None /\ OneLevelApart(from, to)
           THEN {Event(IF Level[from] < Level[to] THEN "TEAM_RELEGATED" ELSE "TEAM_PROMOTED", t, from, to)}
           ELSE (IF from = None THEN {} ELSE {Event("TEAM_DEPARTED_COMPETITION", t, from, None)})
                \union (IF to = None THEN {} ELSE {Event("TEAM_NEW_TO_COMPETITION", t, None, to)})
         : t \in Team}

Complete(y) ==
  \A t \in Team, s \in {y - 1, y} : place[s][t] # None => <<s, t>> \in listed

(* When every competition was read with the same two seasons, both stored    *)
(* completely, every team that changed divisions is told exactly as it       *)
(* moved, and a team is "departed with no matching arrival elsewhere" only   *)
(* when there is none a level away (movement_detection.py, detect).          *)
MovesAreComplete ==
  \A y \in 2..year :
    (/\ at = "rosters" /\ unread = {}
     /\ \A c \in Competition : active[c] = y /\ finished[c] = y - 1
     /\ Complete(y))
    => Moves \union Departures \union Arrivals = Truth(y)
=============================================================================
