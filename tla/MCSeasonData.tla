---------------------------- MODULE MCSeasonData ----------------------------
(* Instances of SeasonData and Movement for TLC: what is stored about a      *)
(* season, and the detection that reads it.  A behaviour looks at one part   *)
(* chosen at the start; nothing one part does is read by another:            *)
(*   rows     fixtures and seasons of SeasonData; the team keeps its name    *)
(*   names    its team; no fixture is listed                                 *)
(*   moves    Movement: two teams in two divisions of one country and a      *)
(*            third-level one of another                                     *)
(* Fixtures, runs and teams are interchangeable; seasons, days and           *)
(* competitions are numbers.                                                 *)
EXTENDS SeasonData, TLC

CONSTANTS Team, Competitions, Level, Country, NoLevel, MaxYear

VARIABLES
  focus,
  year, place, listed, active, finished, at, unread, departed, arrived, events

Moves == INSTANCE Movement

Divisions == <<1, 2, 3>>
Countries == <<"here", "here", "elsewhere">>

ASSUME MovesAssumption == Moves!ConstantsOK

moveVars == <<year, place, listed, active, finished, at, unread, departed, arrived, events>>
mcVars == <<vars, focus, moveVars>>

MCInit ==
  /\ focus \in {"rows", "names", "moves"}
  /\ Init
  /\ Moves!Init
  /\ focus # "moves" => \A t \in Team : place[1][t] = Moves!None

MCPart ==
  /\ focus \in {"rows", "names"}
  /\ focus = "rows" => name' \in {NoRow, FirstName}
  /\ focus = "names" => row' = row /\ expected' = 0
  /\ UNCHANGED <<focus, moveVars>>

MCMoves(next) == focus = "moves" /\ next /\ UNCHANGED <<vars, focus>>

MCNext == (Next /\ MCPart) \/ MCMoves(Moves!Next)
MCNextSerial == (NextSerial /\ MCPart) \/ MCMoves(Moves!NextInStep)

MCSpec == MCInit /\ [][MCNext]_mcVars
MCSpecSerial == MCInit /\ [][MCNextSerial]_mcVars

(* A recorded promotion or relegation happened.                              *)
MovesAreReal == Moves!MovesAreReal

(* With both seasons stored, every move between divisions is told as it was. *)
MovesAreComplete == Moves!MovesAreComplete

Symmetry == Permutations(Fixture) \union Permutations(Run) \union Permutations(Team)
=============================================================================
