---------------------------- MODULE MCEvaluation ----------------------------
(* Instances of Evaluation and Simulation for TLC: two uses of the live      *)
(* model.  A behaviour looks at one part chosen at the start; nothing one    *)
(* part does is read by another:                                             *)
(*   folds    one run of Evaluation, whatever matches come and go            *)
(*   versions MaxCycles runs of Evaluation over one set of matches           *)
(*   table    Simulation: two clubs, of which one may be unrated, in two     *)
(*            legs, and a third that does not play                           *)
EXTENDS Evaluation, TLC

CONSTANTS
  Club, Game, Home, Away, Scores, Relegation, NoScore,
  ClubA, ClubB, ClubC, Game1, Game2     \* those of the runs

VARIABLES
  focus,
  state, result, rated, step, given, drawn, points, diff, base, counted, position

Table == INSTANCE Simulation

Clubs == {ClubA, ClubB, ClubC}
TwoLegs == {Game1, Game2}
Hosts == (Game1 :> ClubA) @@ (Game2 :> ClubB)
Guests == (Game1 :> ClubB) @@ (Game2 :> ClubA)
FewScores == {<<0, 0>>, <<2, 0>>, <<1, 0>>, <<0, 1>>}

ASSUME TableAssumption == Table!ConstantsOK

tableVars == <<state, result, rated, step, given, drawn, points, diff, base, counted, position>>
mcVars == <<vars, focus, tableVars>>

MCInit ==
  /\ focus \in {"folds", "versions", "table"}
  /\ Init
  /\ Table!Init
  /\ {ClubA, ClubC} \subseteq rated
  /\ focus # "table" => ClubB \in rated /\ \A g \in Game : state[g] = "CANCELLED"

MCPart ==
  /\ \/ focus = "folds" /\ cycles' <= 1
     \/ /\ focus = "versions"
        /\ played' # played => cycles = 0 /\ \E n \in 0..Matches : played' = 1..n
        /\ cycles' > 0 => played = Match
  /\ UNCHANGED <<focus, tableVars>>

MCTable == focus = "table" /\ Table!Next /\ UNCHANGED <<vars, focus>>

MCNextSerial == (NextSerial /\ MCPart) \/ MCTable
MCNext == (Next /\ MCPart) \/ MCTable

MCSpecSerial == MCInit /\ [][MCNextSerial]_mcVars
MCSpec == MCInit /\ [][MCNext]_mcVars

(* A simulated season ends with a league table.                              *)
TableIsTrue == Table!TableIsTrue

(* Nobody wins the title and goes down.                                      *)
ChampionStaysUp == Table!ChampionStaysUp

(* Every fixture that is over or still to come counts, or cannot be scored.  *)
NoMatchIsLost == Table!NoMatchIsLost
=============================================================================
