------------------------------ MODULE MCTuiApp ------------------------------
(* Model-checking constants of module TuiApp.                              *)
EXTENDS TuiApp
=============================================================================
