------------------------- MODULE MCBandwidthSamples -------------------------
(* Model checking of BandwidthSamples: two guests that come when they like   *)
(* and take turns as owner; the store has more slots than the queues.        *)
EXTENDS BandwidthSamples, TLC

\* The first guest has two vCPUs, of which the second may fail to be read.
MCLoads == (1 :> <<{0, 2}, {-2, 2}>>) @@ (2 :> <<{2}>>)
=============================================================================
