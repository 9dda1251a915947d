---------------------------- MODULE PlanContract ----------------------------
(***************************************************************************)
(* What the daemon may expect of a new topology, whatever the policy that  *)
(* computed it: a policy takes nodes from VMs and gives nodes to VMs, one  *)
(* at a time, and then settles.  No VM loses its home node or its last     *)
(* node, none gets more than one node, and none both loses and gets one,   *)
(* which would migrate its memory for nothing.                             *)
(* TopoPlanner, the policy of topo_sys_map_generator.cpp, implements it.   *)
(***************************************************************************)
CONSTANTS
    Vm,      \* the guests
    Nodes    \* Nodes[vm]: the virtual nodes of vm

VARIABLES
    topoSys, \* topoSys[vm]: the nodes vm runs on
    home,    \* home[vm]: the node reserved for vm
    plan,    \* plan[vm]: the nodes vm will run on
    settled  \* TRUE when the plan is final

vars == <<topoSys, home, plan, settled>>

Init ==
    /\ topoSys \in [Vm -> UNION {SUBSET Nodes[vm] : vm \in Vm}]
    /\ \A vm \in Vm : topoSys[vm] \subseteq Nodes[vm] /\ topoSys[vm] # {}
    /\ plan = topoSys
    /\ settled = FALSE

\* vm still has nothing that it did not have.
NotGrown(vm) == plan[vm] \subseteq topoSys[vm]

MayLose(vm, v) ==
    /\ NotGrown(vm)
    /\ v \in plan[vm] \ {home[vm]}
    /\ plan[vm] \ {v} # {}

MayGain(vm, v) ==
    /\ plan[vm] = topoSys[vm]
    /\ v \in Nodes[vm] \ plan[vm]

Take ==
    \E vm \in Vm : \E v \in Nodes[vm] :
        /\ MayLose(vm, v)
        /\ plan' = [plan EXCEPT ![vm] = @ \ {v}]
        /\ UNCHANGED settled

Give ==
    \E vm \in Vm : \E v \in Nodes[vm] :
        /\ MayGain(vm, v)
        /\ plan' = [plan EXCEPT ![vm] = @ \cup {v}]
        /\ UNCHANGED settled

Trade ==
    \E minus, plus \in Vm : \E v \in Nodes[minus], w \in Nodes[plus] :
        /\ minus # plus
        /\ MayLose(minus, v)
        /\ MayGain(plus, w)
        /\ plan' = [plan EXCEPT ![minus] = @ \ {v}, ![plus] = @ \cup {w}]
        /\ UNCHANGED settled

Settle == settled' = TRUE /\ UNCHANGED plan

Next ==
    /\ ~settled
    /\ Take \/ Give \/ Trade \/ Settle
    /\ UNCHANGED <<topoSys, home>>

Spec == Init /\ [][Next]_vars
=============================================================================
