---------------------------- MODULE MCModelsPage ----------------------------
(* Instances of ModelsPage for model checking. *)
EXTENDS ModelsPage

CONSTANT f

\* Two moves of one file, one after the other.
TwoMoves == <<f, f>>
=============================================================================
