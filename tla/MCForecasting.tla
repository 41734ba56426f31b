--------------------------- MODULE MCForecasting ---------------------------
(* Instances of Forecasting for TLC.  Model 1 is dixon_coles, the others     *)
(* stand for any other goal model, for gradient boosting where Boosted has   *)
(* them.                                                                     *)
EXTENDS Forecasting, TLC

Symmetry == Permutations(Request)
=============================================================================
