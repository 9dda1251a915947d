----------------------------- MODULE SysMapReads -----------------------------
(***************************************************************************)
(* The sums of a system map, which the planner, the home nodes and the     *)
(* scores are computed from.  -1 stands for "no record"; a list of VMs     *)
(* sorted by their sums leaves out those that have none.                   *)
(***************************************************************************)
EXTENDS SysMap, Functions

\* vnode_list, vm_list_within_pnode
VnodeList(vm)        == {k[2] : k \in {j \in DOMAIN vmMap : j[1] = vm}}
VmListWithinPnode(p) == {k[2] : k \in {j \in DOMAIN pnodeMap : j[1] = p}}
VmList == {k[1] : k \in DOMAIN vmMap}

\* vm_sum; m is the set of nodes whose datum in the mask is not 0.
VmSum(vm, m) ==
    LET counted == {v \in VnodeList(vm) : <<vm, v>> \in m}
    IN  IF counted = {} THEN -1
        ELSE SumFunction([v \in counted |-> records[vmMap[<<vm, v>>]].data])

\* Mutant: the mask is not looked at.
PnodeSumUnmasked(p, m) ==
    LET counted == VmListWithinPnode(p)
    IN  IF counted = {} THEN -1
        ELSE SumFunction([vm \in counted |-> records[pnodeMap[<<p, vm>>]].data])

\* pnode_sum; m holds pairs of a physical node and a VM.
PnodeSum(p, m) ==
    LET counted == {vm \in VmListWithinPnode(p) : <<p, vm>> \in m}
    IN  IF counted = {} THEN -1
        ELSE SumFunction([vm \in counted |-> records[pnodeMap[<<p, vm>>]].data])

\* The VMs that sort_vm_by_sum_ascend lists.
Listed(m) == {vm \in VmList : VmSum(vm, m) # -1}
-----------------------------------------------------------------------------
\* Whichever index they go through, the sums are those of the nodes of a VM or
\* of a physical node, and a VM with a node in the mask is never left out of the
\* list because its sum looks like "no record" (sys_map.h).
SumOver(S) == IF S = {} THEN -1 ELSE SumFunction([k \in S |-> Held[k]])
SumsAgree ==
    \A nodes \in SUBSET DOMAIN vmMap :
        /\ \A vm \in VmList : VmSum(vm, nodes) = SumOver({k \in nodes : k[1] = vm})
        /\ \A p \in Pnode :
              PnodeSum(p, {<<Place(k), k[1]>> : k \in nodes})
                  = SumOver({k \in nodes : Place(k) = p})
        /\ Listed(nodes) = {k[1] : k \in nodes}
=============================================================================
