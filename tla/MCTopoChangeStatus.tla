------------------------- MODULE MCTopoChangeStatus -------------------------
(* Model checking of TopoChangeStatus: four nodes (changes by up to three),  *)
(* a second of three clock ticks, and a clock that runs over three seconds.  *)
EXTENDS TopoChangeStatus
=============================================================================
