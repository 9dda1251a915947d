---------------------------- MODULE MCTopoPlanner ---------------------------
(* Model checking of TopoPlanner: instances and restricted initial states.   *)
EXTENDS TopoPlanner, TLC

\* Three guests on four physical nodes.  Guest 2 has no node on physical node 3,
\* guest 3 none on physical node 1, and the numbering of guest 3 is not that of
\* the host, so that a node id taken for that of another VM is seen.
MCPnodeOf ==
    (1 :> <<1, 2, 3, 4>>) @@ (2 :> (1 :> 1 @@ 2 :> 2 @@ 4 :> 4)) @@ (3 :> (1 :> 2 @@ 2 :> 3 @@ 3 :> 4))

\* Scores about -200, -100, 0 (or -100 and 50), 50, 100 and 150.
MCLoads ==
    { [running |-> FALSE, bw |-> "mid",  threads |-> FALSE, attr |-> FALSE],
      [running |-> TRUE,  bw |-> "mid",  threads |-> FALSE, attr |-> FALSE],
      [running |-> TRUE,  bw |-> "mid",  threads |-> TRUE,  attr |-> FALSE],
      [running |-> TRUE,  bw |-> "high", threads |-> TRUE,  attr |-> FALSE] }

\* The homes are on different physical nodes, as home_node_assignment leaves
\* them when there are as many physical nodes as guests; which guest has which
\* is left out, that guest 1 has all nodes and the others do not apart.  One
\* guest at most is changing or cooling down.
MCInit ==
    /\ topoSys \in [Vm -> (SUBSET Vnode) \ {{}}]
    /\ home \in [Vm -> Vnode]
    /\ \A vm \in Vm : home[vm] \in topoSys[vm] \cap VnodesOf(vm)
    /\ \A vm \in Vm : PnodeOf[vm][home[vm]] = vm
    /\ Init
    /\ Cardinality(undergo) <= 1

MCSpec == MCInit /\ [][Next]_vars /\ WF_vars(Next)
=============================================================================
