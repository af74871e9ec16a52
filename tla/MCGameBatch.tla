---------------------------- MODULE MCGameBatch ----------------------------
(* GameBatch for model checking: the configurations give the games and the *)
(* threads model values.  There is no symmetry, as they check liveness.    *)
EXTENDS GameBatch, TLC
=============================================================================
