----------------------------- MODULE Simulation -----------------------------
(***************************************************************************)
(* One iteration of the Monte Carlo season simulation                       *)
(* (app/services/simulation.py) over fixtures that a sync may be updating:  *)
(* which of them are given, which are drawn, what they add up to and how    *)
(* the teams are ranked.  The n_simulations iterations of a run differ only *)
(* in what is drawn; a drawn score is any of those a match can end with.    *)
(***************************************************************************)
EXTENDS Integers, FiniteSets

CONSTANTS
  Club,         \* teams of the season
  Game,         \* its fixtures
  Home,         \* the home team of each
  Away,         \* and the away team
  Scores,       \* scores a match can have: <<home goals, away goals>>
  Relegation,   \* settings.simulation_relegation_spots
  NoScore       \* there is no Result row

(* What an instance has to be like; it assumes it.                            *)
ConstantsOK ==
  /\ IsFiniteSet(Club) /\ IsFiniteSet(Game)
  /\ \A g \in Game : Home[g] \in Club /\ Away[g] \in Club \ {Home[g]}
  /\ Scores \subseteq Nat \X Nat /\ NoScore \notin Scores
  /\ Relegation \in Nat

(* REMAINING_STATUSES also has POSTPONED and RESCHEDULED; ABANDONED is like  *)
(* CANCELLED.                                                                *)
Remaining == {"SCHEDULED", "IN_PLAY"}
GameStatus == Remaining \union {"COMPLETED", "CANCELLED"}

VARIABLES
  state,        \* Fixture.status
  result,       \* its Result
  rated,        \* teams in the live dixon_coles parameters
  step,         \* where the simulation is
  given,        \* fixtures it found COMPLETED, not added up yet
  drawn,        \* fixtures it found remaining, not drawn yet
  points,
  diff,         \* goal difference
  base,         \* points before anything was drawn
  counted,      \* the score each fixture entered the table with
  position      \* the standings that are stored; 1 is the champion

worldVars == <<state, result, rated>>
simVars == <<state, result, rated, step, given, drawn, points, diff, base, counted, position>>

Zero == [t \in Club |-> 0]

Init ==
  /\ state \in [Game -> {"SCHEDULED", "CANCELLED"}]
  /\ result = [g \in Game |-> NoScore]
  /\ rated \in SUBSET Club
  /\ step = "idle"
  /\ given = {}
  /\ drawn = {}
  /\ points = Zero
  /\ diff = Zero
  /\ base = Zero
  /\ counted = [g \in Game |-> NoScore]
  /\ position = Zero

-----------------------------------------------------------------------------
(* A sync stores what the provider says: a status and, with COMPLETED, a     *)
(* score or none; a score once stored stays until there is another.          *)
Sync(g, s, score) ==
  /\ state' = [state EXCEPT ![g] = s]
  /\ result' = IF s = "COMPLETED" /\ score # NoScore THEN [result EXCEPT ![g] = score] ELSE result
  /\ UNCHANGED <<rated, step, given, drawn, points, diff, base, counted, position>>

Cleared ==
  /\ points' = Zero /\ diff' = Zero /\ base' = Zero /\ position' = Zero
  /\ counted' = [g \in Game |-> NoScore]

(* Mutant: a match that is being played has its stored score added, too.     *)
SimulateInPlay ==
  /\ step = "idle"
  /\ \E g \in Game : state[g] \in Remaining
  /\ given' = {g \in Game : state[g] \in {"COMPLETED", "IN_PLAY"}}
  /\ drawn' = {g \in Game : state[g] \in Remaining}
  /\ step' = "results"
  /\ Cleared
  /\ UNCHANGED worldVars

(* simulate: one query for the fixtures; nothing to draw, nothing to do.     *)
Simulate ==
  /\ step = "idle"
  /\ \E g \in Game : state[g] \in Remaining
  /\ given' = {g \in Game : state[g] = "COMPLETED"}
  /\ drawn' = {g \in Game : state[g] \in Remaining}
  /\ step' = "results"
  /\ Cleared
  /\ UNCHANGED worldVars

(* Three points for a win, one for a draw.                                   *)
Earned(for, against) == IF for > against THEN 3 ELSE IF for = against THEN 1 ELSE 0

Play(g, score) ==
  /\ points' = [points EXCEPT ![Home[g]] = @ + Earned(score[1], score[2]),
                              ![Away[g]] = @ + Earned(score[2], score[1])]
  /\ diff' = [diff EXCEPT ![Home[g]] = @ + (score[1] - score[2]),
                          ![Away[g]] = @ + (score[2] - score[1])]
  /\ counted' = [counted EXCEPT ![g] = score]

(* f.result is loaded when it is asked for; one that is missing is left out. *)
AddResult(g) ==
  /\ step = "results"
  /\ g \in given
  /\ given' = given \ {g}
  /\ IF result[g] = NoScore
       THEN UNCHANGED <<points, diff, counted>>
       ELSE Play(g, result[g])
  /\ UNCHANGED <<worldVars, step, drawn, base, position>>

AllAdded ==
  /\ step = "results"
  /\ given = {}
  /\ step' = "draws"
  /\ base' = points
  /\ UNCHANGED <<worldVars, given, drawn, points, diff, counted, position>>

(* A fixture of a team the live model does not rate cannot be scored.        *)
Draw(g, score) ==
  /\ step = "draws"
  /\ g \in drawn
  /\ drawn' = drawn \ {g}
  /\ IF {Home[g], Away[g]} \subseteq rated
       THEN Play(g, score)
       ELSE UNCHANGED <<points, diff, counted>>
  /\ UNCHANGED <<worldVars, step, given, base, position>>

(* Mutant: goal difference decides before points.                            *)
AheadByGoals(t, u, lots) ==
  \/ diff[t] > diff[u]
  \/ diff[t] = diff[u] /\ points[t] > points[u]
  \/ diff[t] = diff[u] /\ points[t] = points[u] /\ lots[t] < lots[u]

(* By points, then goal difference, then a random tiebreak.                  *)
Ahead(t, u, lots) ==
  \/ points[t] > points[u]
  \/ points[t] = points[u] /\ diff[t] > diff[u]
  \/ points[t] = points[u] /\ diff[t] = diff[u] /\ lots[t] < lots[u]

Tiebreaks == {lots \in [Club -> 1..Cardinality(Club)] :
                \A t, u \in Club : lots[t] = lots[u] => t = u}

(* The ranking, and _persist: the run, the table it began with and the       *)
(* standings in one commit.                                                  *)
Rank ==
  /\ step = "draws"
  /\ drawn = {}
  /\ \E lots \in Tiebreaks :
       position' = [t \in Club |-> 1 + Cardinality({u \in Club : Ahead(u, t, lots)})]
  /\ step' = "idle"
  /\ UNCHANGED <<worldVars, given, drawn, points, diff, base, counted>>

(* An exception in the request or the job, or the end of the process: there  *)
(* is no run.                                                                *)
Dies ==
  /\ step # "idle"
  /\ step' = "idle"
  /\ given' = {} /\ drawn' = {}
  /\ Cleared
  /\ UNCHANGED worldVars

Next ==
  \/ \E g \in Game, s \in GameStatus, score \in Scores \union {NoScore} : Sync(g, s, score)
  \/ Simulate
  \/ \E g \in Game : AddResult(g)
  \/ AllAdded
  \/ \E g \in Game, score \in Scores : Draw(g, score)
  \/ Rank
  \/ Dies

Spec == Init /\ [][Next]_simVars

-----------------------------------------------------------------------------
(* The table by the book, from the matches that entered it, each once.       *)
Won(t) == {g \in Game : /\ counted[g] # NoScore
                        /\ \/ Home[g] = t /\ counted[g][1] > counted[g][2]
                           \/ Away[g] = t /\ counted[g][2] > counted[g][1]}
Shared(t) == {g \in Game : /\ counted[g] # NoScore
                           /\ t \in {Home[g], Away[g]}
                           /\ counted[g][1] = counted[g][2]}

Ranked == \A t \in Club : position[t] # 0
Relegated == {t \in Club : position[t] >= Cardinality(Club) - Relegation + 1}

(* What a simulation stores is a league table: every match counts once,      *)
(* whatever the sync does to it meanwhile, three points a win and one a      *)
(* draw; every position is taken once; nobody is above a team with more      *)
(* points, or with as many and a better goal difference; as many go down as  *)
(* there are spots; and nobody ends with fewer points than the table it      *)
(* began with gives him (simulation.py: base table, draws, ranking, cutoff). *)
TableIsTrue ==
  /\ \A t \in Club : Ranked => points[t] = 3 * Cardinality(Won(t)) + Cardinality(Shared(t))
  /\ Ranked =>
       /\ \A t \in Club : base[t] <= points[t]
       /\ {position[t] : t \in Club} = 1..Cardinality(Club)
       /\ \A t, u \in Club : position[t] < position[u] =>
            points[t] > points[u] \/ (points[t] = points[u] /\ diff[t] >= diff[u])
       /\ Relegation <= Cardinality(Club) => Cardinality(Relegated) = Relegation

(* Nobody wins the title and goes down: not so in a season with no more      *)
(* teams than relegation spots.                                              *)
ChampionStaysUp == Ranked => \A t \in Relegated : position[t] # 1

(* Every fixture that is over or still to come counts, unless it cannot be   *)
(* scored: not so for a COMPLETED one without a result.                      *)
NoMatchIsLost ==
  Ranked => \A g \in Game :
    counted[g] # NoScore \/ state[g] = "CANCELLED" \/ ~({Home[g], Away[g]} \subseteq rated)
=============================================================================
