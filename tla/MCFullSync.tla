----------------------------- MODULE MCFullSync -----------------------------
(* Instances of FullSync for TLC.  One of the competitions is a cup with     *)
(* ties that are not drawn: fixtures whose teams the provider does not name. *)
EXTENDS FullSync, TLC

Cup == CHOOSE c \in Comp : TRUE
CupUndrawn == {Cup} \X (1..MaxVersion)
=============================================================================
