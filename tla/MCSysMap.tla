------------------------------ MODULE MCSysMap ------------------------------
(* Model checking of SysMap: two guests that number the two physical nodes    *)
(* differently.                                                               *)
EXTENDS SysMapReads, TLC

MCPnodeOf == (1 :> <<1, 2>>) @@ (2 :> <<2, 1>>)

\* A node is on, off or, as among the scores, negative; no two sum up to -1.
MCData    == {-5, 0, 1}
MCScalars == {-5, 1}
=============================================================================
