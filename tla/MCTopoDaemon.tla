----------------------------- MODULE MCTopoDaemon ----------------------------
(* Model checking of TopoDaemon: two guests that number their nodes          *)
(* differently and contend for two of three physical nodes.                  *)
EXTENDS TopoDaemon, TLC

MCPnodeOf == (1 :> <<1, 2, 3>>) @@ (2 :> <<2, 3>>)

\* A guest is idle, or asks for a node, or asks for it urgently.
MCLoads ==
    { [running |-> FALSE, bw |-> "mid",  threads |-> FALSE, attr |-> FALSE],
      [running |-> TRUE,  bw |-> "mid",  threads |-> TRUE,  attr |-> FALSE],
      [running |-> TRUE,  bw |-> "high", threads |-> TRUE,  attr |-> FALSE] }
=============================================================================
