------------------------- MODULE MCRuntimeEstimator -------------------------
(* Model checking of RuntimeEstimator: long enough for two runs.             *)
EXTENDS RuntimeEstimator
=============================================================================
