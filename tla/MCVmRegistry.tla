---------------------------- MODULE MCVmRegistry -----------------------------
(* Model checking of VmRegistry: two guests with two nodes each, on two      *)
(* physical nodes.                                                           *)
EXTENDS VmRegistry

MCPnodeOf == [v \in Vnode |-> v]
=============================================================================
