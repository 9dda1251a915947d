------------------------------ MODULE HomeNode ------------------------------
(***************************************************************************)
(* The home node of a VM (reserved_vnode_id): the one node it never gives  *)
(* up, so that node 0's kernel memory has a place to stay.                 *)
(* home_node_assignment of topo_change_engine.cpp runs before every plan:  *)
(* it keeps the homes while they are valid and complete and else searches  *)
(* new ones by backtracking.  VMs start and end between two plans, and     *)
(* plans change the topology (PlanContract says how).                      *)
(***************************************************************************)
EXTENDS Integers, FiniteSets, Sequences

CONSTANTS
    Vm,          \* the ids of the guests
    Vnode,       \* the ids of virtual nodes
    PnodeOf,     \* PnodeOf[vm][v]: the physical node of v, for each node v of vm
    DefaultHome  \* reserved_vnode_id of a VM nobody has assigned a home yet

VnodesOf(vm) == DOMAIN PnodeOf[vm]

ASSUME HomeVmAssumption == IsFiniteSet(Vm) /\ IsFiniteSet(Vnode) /\ DefaultHome \in Vnode
ASSUME HomeNodesAssumption ==
    /\ DOMAIN PnodeOf = Vm
    /\ \A vm \in Vm :
          /\ VnodesOf(vm) \subseteq Vnode /\ VnodesOf(vm) # {}
          /\ \A v, w \in VnodesOf(vm) : PnodeOf[vm][v] = PnodeOf[vm][w] => v = w

VARIABLES
    alive,    \* the VMs of the vm_map
    topo,     \* topo[vm]: the enabled nodes
    home,     \* home[vm]: reserved_vnode_id
    pc,       \* "crawl", "search" or "plan"
    order,    \* vm_list: the order of the search
    trial,    \* home_node_sys: trial[vm] is the set of nodes with data 1
    tried,    \* tried[i]: the nodes the i-th call of the helper has tried
    changed,  \* history: a VM started or ended since the homes were valid
    failed    \* history: the last search found nothing

search == <<order, trial, tried>>
vars   == <<alive, topo, home, pc, search, changed, failed>>

\* A map from VMs to sets of nodes (those with data 1), as the code reads it.
PnodesOf(vm, S) == {PnodeOf[vm][v] : v \in S}
PnodesIn(vms) == UNION {PnodesOf(vm, VnodesOf(vm)) : vm \in vms}
Hosts(h, p) == {vm \in DOMAIN h : p \in PnodesOf(vm, h[vm])}

Idle(h)    == {p \in PnodesIn(DOMAIN h) : Hosts(h, p) = {}}
Overlap(h) == {p \in PnodesIn(DOMAIN h) : Cardinality(Hosts(h, p)) > 1}

\* home_node_sys_is_valid: homes are not shared as long as there are nodes
\* without a home, no VM has two, and homes are enabled.
IsValid(h, t) ==
    /\ Idle(h) = {} \/ Overlap(h) = {}
    /\ \A vm \in DOMAIN h : Cardinality(h[vm]) <= 1 /\ h[vm] \subseteq t[vm]

\* home_node_sys_is_complete
IsComplete(h) == \A vm \in DOMAIN h : h[vm] # {}

\* HOME_NODE_SYS_MAP, from the reserved ids of the VMs.
HomeSys(vms) == [vm \in vms |-> {home[vm]} \cap VnodesOf(vm)]

Homed == IsValid(HomeSys(alive), topo) /\ IsComplete(HomeSys(alive))

-----------------------------------------------------------------------------
Init ==
    /\ alive = {}
    /\ topo = [vm \in Vm |-> {}]
    /\ home = [vm \in Vm |-> DefaultHome]
    /\ pc = "crawl"
    /\ order = <<>> /\ tried = <<>>
    /\ trial = [vm \in {} |-> {}]
    /\ changed = FALSE /\ failed = FALSE

\* update_vm_map meets a VM: all its nodes are taken to be enabled.
Arrive(vm) ==
    /\ pc = "crawl" /\ vm \notin alive
    /\ alive' = alive \cup {vm}
    /\ topo' = [topo EXCEPT ![vm] = VnodesOf(vm)]
    /\ home' = [home EXCEPT ![vm] = DefaultHome]
    /\ changed' = TRUE
    /\ UNCHANGED <<pc, search, failed>>

\* update_vm_map deletes a VM.
Leave(vm) ==
    /\ pc = "crawl" /\ vm \in alive
    /\ alive' = alive \ {vm}
    /\ topo' = [topo EXCEPT ![vm] = {}]
    /\ home' = [home EXCEPT ![vm] = DefaultHome]
    /\ changed' = TRUE
    /\ UNCHANGED <<pc, search, failed>>

Orders(S) == {s \in [1 .. Cardinality(S) -> S] :
                 \A i, j \in 1 .. Cardinality(S) : s[i] = s[j] => i = j}

Keep ==
    /\ pc = "crawl" /\ Homed
    /\ pc' = "plan"
    /\ changed' = FALSE /\ failed' = FALSE
    /\ UNCHANGED <<alive, topo, home, search>>

\* Mutant: valid homes are not kept.
StartSearchAlways ==
    /\ pc = "crawl"
    /\ pc' = "search"
    /\ order' \in Orders(alive)
    /\ trial' = [vm \in alive |-> {}]
    /\ tried' = <<{}>>
    /\ UNCHANGED <<alive, topo, home, changed, failed>>

StartSearch ==
    /\ pc = "crawl" /\ ~Homed
    /\ pc' = "search"
    /\ order' \in Orders(alive)
    /\ trial' = [vm \in alive |-> {}]
    /\ tried' = <<{}>>
    /\ UNCHANGED <<alive, topo, home, changed, failed>>

(* home_node_assignment_helper: one level of tried per call on the stack *)

Level == Len(tried)
Searching == pc = "search" /\ Level \in 1 .. Len(order)
Current == order[Level]

\* Mutant: a node is taken however many homes its physical node has.
AdmitsAll(v) == v \in topo[Current]

\* Mutant: a node need not be enabled.
AdmitsDisabled(v) == Hosts(trial, PnodeOf[Current][v]) # {} => Idle(trial) = {}

\* A node on a physical node that has a home is left out while another
\* physical node has none.
Admits(v) ==
    /\ v \in topo[Current]
    /\ Hosts(trial, PnodeOf[Current][v]) # {} => Idle(trial) = {}

\* Mutant: the loop over the nodes starts again after a failure.
TryNodeAgain ==
    /\ Searching
    /\ \E v \in VnodesOf(Current) :
          /\ Admits(v)
          /\ trial' = [trial EXCEPT ![Current] = @ \cup {v}]
          /\ tried' = Append(tried, {})
    /\ UNCHANGED <<alive, topo, home, pc, order, changed, failed>>

TryNode ==
    /\ Searching
    /\ \E v \in VnodesOf(Current) \ tried[Level] :
          /\ Admits(v)
          /\ trial' = [trial EXCEPT ![Current] = @ \cup {v}]
          /\ tried' = Append([tried EXCEPT ![Level] = @ \cup {v}], {})
    /\ UNCHANGED <<alive, topo, home, pc, order, changed, failed>>

\* The call returns false, and its caller resets the data of its node.
GiveUp ==
    /\ Searching
    /\ \A v \in VnodesOf(Current) \ tried[Level] : ~Admits(v)
    /\ Level > 1
    /\ trial' = [trial EXCEPT ![order[Level - 1]] = {}]
    /\ tried' = SubSeq(tried, 1, Level - 1)
    /\ UNCHANGED <<alive, topo, home, pc, order, changed, failed>>

\* Mutant: a failure is handed through to the first call.
FailAtOnce ==
    /\ Searching
    /\ \A v \in VnodesOf(Current) \ tried[Level] : ~Admits(v)
    /\ pc' = "plan"
    /\ failed' = TRUE
    /\ UNCHANGED <<alive, topo, home, search, changed>>

\* The first call returns false: the homes stay as they are.
Fail ==
    /\ Searching
    /\ \A v \in VnodesOf(Current) \ tried[Level] : ~Admits(v)
    /\ Level = 1
    /\ pc' = "plan"
    /\ failed' = TRUE
    /\ UNCHANGED <<alive, topo, home, search, changed>>

Found ==
    /\ pc = "search" /\ Level > Len(order)
    /\ home' = [vm \in Vm |-> IF vm \in alive THEN CHOOSE v \in trial[vm] : TRUE
                              ELSE home[vm]]
    /\ pc' = "plan"
    /\ changed' = FALSE /\ failed' = FALSE
    /\ UNCHANGED <<alive, topo, search>>

\* What a plan that implements PlanContract does to a VM.
MayBecome(vm, S) ==
    \/ /\ S \subseteq topo[vm] /\ S # {}
       /\ home[vm] \in topo[vm] => home[vm] \in S
    \/ \E v \in VnodesOf(vm) \ topo[vm] : S = topo[vm] \cup {v}

Plan ==
    /\ pc = "plan"
    /\ topo' \in [Vm -> SUBSET Vnode]
    /\ \A vm \in Vm : IF vm \in alive THEN MayBecome(vm, topo'[vm])
                      ELSE topo'[vm] = {}
    /\ pc' = "crawl"
    /\ order' = <<>> /\ tried' = <<>>
    /\ trial' = [vm \in {} |-> {}]
    /\ UNCHANGED <<alive, home, changed, failed>>

Search == TryNode \/ GiveUp \/ Fail \/ Found

Next ==
    \/ \E vm \in Vm : Arrive(vm) \/ Leave(vm)
    \/ Keep \/ StartSearch \/ Search
    \/ Plan

\* The search is plain code: it runs until it returns.
Spec == Init /\ [][Next]_vars /\ WF_vars(Search)
-----------------------------------------------------------------------------
\* The type invariant.
TypeOK ==
    /\ alive \subseteq Vm
    /\ topo \in [Vm -> SUBSET Vnode]
    /\ home \in [Vm -> Vnode]
    /\ pc \in {"crawl", "search", "plan"}
    /\ order \in Seq(alive)
    /\ tried \in Seq(SUBSET Vnode)
    /\ Level <= Len(order) + 1
    /\ trial \in [DOMAIN trial -> SUBSET Vnode]
    /\ changed \in BOOLEAN /\ failed \in BOOLEAN

\* home_node_sys_is_valid is said to accept a map that is half completed: all
\* the maps the search goes through, however it got there, are valid, and after
\* a search that was not given up the homes are valid and complete.
SearchValid ==
    /\ pc = "search" => IsValid(trial, topo)
    /\ (pc = "plan" /\ ~failed) => Homed

\* The search gives up only where it must, if no physical node has to be the
\* home of two VMs.  (If one has to, the order of the VMs decides.)
Assignments == {h \in [alive -> {{v} : v \in Vnode}] :
                   (\A vm \in alive : h[vm] \subseteq topo[vm]) /\ IsValid(h, topo)}
FailedMeansNone ==
    (pc = "plan" /\ failed /\ Cardinality(alive) <= Cardinality(PnodesIn(alive)))
        => Assignments = {}

\* The home node of a VM, assigned or the default, is enabled: no search that
\* fails half way and no plan leaves it pointing at a node the VM has lost.
HomeEnabled ==
    \A vm \in alive : home[vm] \in VnodesOf(vm) => home[vm] \in topo[vm]

\* As long as no VM starts or ends, homes that were valid once stay where they
\* are, whatever the plans do in between.
HomesStable ==
    [][\A vm \in alive \cap alive' : home'[vm] # home[vm] => changed]_vars

\* The search returns.
SearchEnds == pc = "search" ~> pc = "plan"
=============================================================================
