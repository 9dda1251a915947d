---------------------------- MODULE TopoPlanner -----------------------------
(***************************************************************************)
(* max_topo_change_net_gain_func of topo_sys_map_generator.cpp, the policy *)
(* that computes a new topology, with the system maps it reads             *)
(* (sys_map.cpp): one action per iteration of its loops.                   *)
(*                                                                         *)
(* A system map from (VM, virtual node) to 0 or 1 is a function from VMs   *)
(* to the set of nodes whose data is 1.  The hash maps of the code have no *)
(* order one can rely on, so every iteration order is a choice.            *)
(***************************************************************************)
EXTENDS Integers, FiniteSets, Sequences

CONSTANTS
    Vm,       \* the ids of the guests (domain 0 is none)
    Vnode,    \* the ids of virtual nodes
    Pnode,    \* the physical nodes
    PnodeOf,  \* PnodeOf[vm][v]: the physical node of v, for each node v of vm
    Loads     \* the loads a guest may show

VnodesOf(vm) == DOMAIN PnodeOf[vm]

\* What the samples of the last seconds say of a guest: its vCPUs are busy;
\* its memory bandwidth (low for a queue without samples, which averages to
\* -1, mid for a guest without a queue); it has fewer vCPUs than threads;
\* fewer than its workload asks for.
Load == [running : BOOLEAN, bw : {"low", "mid", "high"},
         threads : BOOLEAN, attr : BOOLEAN]

ASSUME VmAssumption    == Vm \subseteq Nat \ {0} /\ IsFiniteSet(Vm)
ASSUME NodeAssumption  == IsFiniteSet(Vnode) /\ IsFiniteSet(Pnode)
ASSUME LoadsAssumption == Loads \subseteq Load
\* pnode.vnode_map has one entry per VM: a VM has one node on a physical node.
ASSUME PnodeOfAssumption ==
    /\ DOMAIN PnodeOf = Vm
    /\ \A vm \in Vm :
          /\ VnodesOf(vm) \subseteq Vnode
          /\ PnodeOf[vm] \in [VnodesOf(vm) -> Pnode]
          /\ \A v, w \in VnodesOf(vm) : PnodeOf[vm][v] = PnodeOf[vm][w] => v = w

VARIABLES
    topoSys,  \* TOPO_SYS_MAP: topoSys[vm] is the set of enabled nodes
    undergo,  \* UNDERGO_TOPO_CHANGE_SYS_MAP: the VMs with data 1
    home,     \* home[vm]: reserved_vnode_id, not always a node of vm
    score,    \* TOPO_CHANGENESS_SYS_MAP: score[vm]
    rank,     \* SHRINK_NODE_RANK_SYS_MAP: rank[vm][v]
    newSys,   \* the map under construction
    freeQ,    \* free_pnode_q
    vmList,   \* vm_list, in ascending order of the scores
    lo, hi,   \* positions in vmList (from 1)
    phase     \* where the function is

inputs == <<topoSys, undergo, home>>
work   == <<score, rank, newSys, freeQ, vmList, lo, hi, phase>>
vars   == <<inputs, work>>

N == Cardinality(Vm)

-----------------------------------------------------------------------------
(* topo_changeness_sys_map_update *)

Abs(x) == IF x < 0 THEN -x ELSE x

BwScore == [low |-> -100, mid |-> 0, high |-> 100]

\* The score of a guest with n enabled nodes.
RawScore(l, n) ==
    (IF l.running THEN 0 ELSE -200) + (2 - n)
        + BwScore[l.bw]
        + (IF l.threads THEN 50 ELSE 0) + (IF l.attr THEN 50 ELSE 0)

Changeness(l, n) ==
    IF \/ Abs(RawScore(l, n)) <= 10
       \/ RawScore(l, n) < 0 /\ n <= 1
    THEN 0 ELSE RawScore(l, n)

\* Mutant: the heap holds the ids.
BeforeById(s, a, b) == a < b

\* sort_vm_by_sum_ascend: a heap of (-score, id), so equal scores come with
\* the larger id first.
Before(s, a, b) == s[a] < s[b] \/ (s[a] = s[b] /\ a > b)

Ascending(s, list) ==
    \A i, j \in 1 .. N : i < j => Before(s, list[i], list[j])

(* shrink_node_rank_sys_map_update *)

ActiveOn(p) == {vm \in Vm : \E v \in topoSys[vm] : PnodeOf[vm][v] = p}

\* The map is filled VM by VM, in some order, and each VM that may leave a
\* shared node is no longer counted there for the VMs after it.
ShareDegree(order, vm, v) ==
    LET p == PnodeOf[vm][v]
        gone == {u \in ActiveOn(p) : /\ order[u] < order[vm]
                                     /\ home[u] \in VnodesOf(u) => PnodeOf[u][home[u]] # p}
    IN  Cardinality(ActiveOn(p)) - Cardinality(gone)

\* Mutant: the home node is ranked like any other.
RankNoHome(order, vm, v) ==
    IF v \notin topoSys[vm] THEN -200
    ELSE LET d == ShareDegree(order, vm, v) IN IF d > 1 THEN 50 * d ELSE 0

RankOf(order, vm, v) ==
    IF v = home[vm] \/ v \notin topoSys[vm] THEN -200
    ELSE LET d == ShareDegree(order, vm, v) IN IF d > 1 THEN 50 * d ELSE 0

\* The orders in which the hash map can list the VMs.
VmOrders == {o \in [Vm -> 1 .. N] : \A a, b \in Vm : o[a] = o[b] => a = b}

\* max_vnode_in_vm: a node with the greatest rank, the first one listed.
MaxVnodes(vm) ==
    {v \in VnodesOf(vm) : \A w \in VnodesOf(vm) : rank[vm][w] <= rank[vm][v]}

\* pnode_to_vnode: the node of vm on p, if vm has one there.
PnodeToVnode(vm, p) == {v \in VnodesOf(vm) : PnodeOf[vm][v] = p}

\* Mutant: a VM may be preempted whatever its own score.
PreemptAny(plus, minus) == score[plus] > 50

\* can_preempt
CanPreempt(plus, minus) == score[plus] > 50 /\ score[plus] > 2 * score[minus]

-----------------------------------------------------------------------------
Init ==
    /\ topoSys \in [Vm -> SUBSET Vnode]
    /\ \A vm \in Vm : topoSys[vm] \subseteq VnodesOf(vm) /\ topoSys[vm] # {}
    /\ undergo \in SUBSET Vm
    /\ home \in [Vm -> Vnode]
    \* The home node is enabled, or names no node of the VM at all.
    /\ \A vm \in Vm : home[vm] \in VnodesOf(vm) => home[vm] \in topoSys[vm]
    /\ score = [vm \in Vm |-> 0]
    /\ rank = [vm \in Vm |-> [v \in Vnode |-> -200]]
    /\ newSys = [vm \in Vm |-> {}]
    /\ freeQ = <<>> /\ vmList = <<>>
    /\ lo = 0 /\ hi = 0
    /\ phase = "idle"

\* The free physical nodes, in the order the hash map lists them.
FreePnodes ==
    {p \in UNION {{PnodeOf[vm][v] : v \in VnodesOf(vm)} : vm \in Vm} : ActiveOn(p) = {}}

QueuesOf(S) == {q \in [1 .. Cardinality(S) -> S] :
                   \A i, j \in 1 .. Cardinality(S) : q[i] = q[j] => i = j}

Start ==
    /\ phase = "idle"
    /\ \E load \in [Vm -> Loads] :
          score' = [vm \in Vm |-> Changeness(load[vm], Cardinality(topoSys[vm]))]
    /\ \E order \in VmOrders :
          rank' = [vm \in Vm |-> [v \in Vnode |->
                      IF v \in VnodesOf(vm) THEN RankOf(order, vm, v) ELSE -200]]
    /\ newSys' = topoSys
    /\ freeQ' \in QueuesOf(FreePnodes)
    /\ vmList' \in {list \in [1 .. N -> Vm] : Ascending(score', list)}
    /\ lo' = 1 /\ hi' = N
    /\ phase' = "shrink"

\* Phase 1, shrinking: every VM with a negative score gives up one node.
ShrinkSkip ==
    /\ phase = "shrink" /\ lo <= N
    /\ vmList[lo] \in undergo
    /\ lo' = lo + 1
    /\ UNCHANGED <<score, rank, newSys, freeQ, vmList, hi, phase>>

ShrinkOne ==
    /\ phase = "shrink" /\ lo <= N
    /\ vmList[lo] \notin undergo
    /\ score[vmList[lo]] < 0
    /\ \E v \in MaxVnodes(vmList[lo]) :
          /\ rank' = [rank EXCEPT ![vmList[lo]][v] = -200]
          /\ newSys' = [newSys EXCEPT ![vmList[lo]] = @ \ {v}]
          /\ freeQ' = Append(freeQ, PnodeOf[vmList[lo]][v])
    /\ lo' = lo + 1
    /\ UNCHANGED <<score, vmList, hi, phase>>

\* Mutant: the expansion starts past the end of the list.
ShrinkEndPastList ==
    /\ phase = "shrink"
    /\ IF lo <= N THEN vmList[lo] \notin undergo /\ score[vmList[lo]] >= 0 ELSE TRUE
    /\ phase' = "expand"
    /\ lo' = 1 /\ hi' = N + 1
    /\ UNCHANGED <<score, rank, newSys, freeQ, vmList>>

ShrinkEnd ==
    /\ phase = "shrink"
    /\ IF lo <= N THEN vmList[lo] \notin undergo /\ score[vmList[lo]] >= 0 ELSE TRUE
    /\ phase' = "expand"
    /\ lo' = 1 /\ hi' = N
    /\ UNCHANGED <<score, rank, newSys, freeQ, vmList>>

\* Phase 1, expansion: the free nodes go to the VMs with the greatest scores.
ExpandSkip ==
    /\ phase = "expand" /\ hi >= 1
    /\ vmList[hi] \in undergo
    /\ hi' = hi - 1
    /\ UNCHANGED <<score, rank, newSys, freeQ, vmList, lo, phase>>

\* Mutant: a free node goes to a VM that does not ask for one.
MayExpandAny ==
    /\ phase = "expand" /\ hi >= 1
    /\ vmList[hi] \notin undergo
    /\ freeQ # <<>>

MayExpand ==
    /\ phase = "expand" /\ hi >= 1
    /\ vmList[hi] \notin undergo
    /\ freeQ # <<>>
    /\ score[vmList[hi]] > 0

ExpandOne ==
    /\ MayExpand
    /\ \E v \in PnodeToVnode(vmList[hi], Head(freeQ)) :
          newSys' = [newSys EXCEPT ![vmList[hi]] = @ \cup {v}]
    /\ freeQ' = Tail(freeQ)
    /\ hi' = hi - 1
    /\ UNCHANGED <<score, rank, vmList, lo, phase>>

\* vm_view of a record that does not exist: its assertion ends the daemon.
ExpandAbort ==
    /\ MayExpand
    /\ PnodeToVnode(vmList[hi], Head(freeQ)) = {}
    /\ phase' = "aborted"
    /\ UNCHANGED <<score, rank, newSys, freeQ, vmList, lo, hi>>

\* Mutant: a VM that is changing ends the loop.
ExpandEndBreak ==
    /\ phase = "expand"
    /\ IF hi = 0 THEN phase' = "done"
       ELSE \/ vmList[hi] \in undergo /\ phase' = "done"
            \/ freeQ = <<>> /\ phase' = "trade"
            \/ freeQ # <<>> /\ score[vmList[hi]] <= 0 /\ phase' = "done"
    /\ UNCHANGED <<score, rank, newSys, freeQ, vmList, lo, hi>>

ExpandEnd ==
    /\ phase = "expand"
    /\ IF hi = 0 THEN phase' = "done"
       ELSE /\ vmList[hi] \notin undergo
            /\ \/ freeQ = <<>> /\ phase' = "trade"
               \/ freeQ # <<>> /\ score[vmList[hi]] <= 0 /\ phase' = "done"
    /\ UNCHANGED <<score, rank, newSys, freeQ, vmList, lo, hi>>

\* Phase 2: a VM at the end of the list takes a node from one at its start.
\* The status of the two VMs is not looked at.
Trading == phase = "trade" /\ lo < hi /\ score[vmList[hi]] > 0

\* Mutant: the loop does not move on.
TradeSkipStays ==
    /\ Trading
    /\ Cardinality(newSys[vmList[lo]]) <= 1
    /\ UNCHANGED work

TradeSkip ==
    /\ Trading
    /\ Cardinality(newSys[vmList[lo]]) <= 1
    /\ lo' = lo + 1
    /\ UNCHANGED <<score, rank, newSys, freeQ, vmList, hi, phase>>

\* Mutant: the last node of a VM may be taken.
MayTradeLast ==
    /\ Trading
    /\ score[vmList[lo]] < 0 \/ CanPreempt(vmList[hi], vmList[lo])

MayTrade ==
    /\ Trading
    /\ Cardinality(newSys[vmList[lo]]) > 1
    /\ score[vmList[lo]] < 0 \/ CanPreempt(vmList[hi], vmList[lo])

TradeOne ==
    /\ MayTrade
    /\ \E v \in MaxVnodes(vmList[lo]) :
          \* the rank of node v of the VM that receives, not of the one that gives
          /\ v \in VnodesOf(vmList[hi])
          /\ rank' = [rank EXCEPT ![vmList[hi]][v] = -200]
          /\ \E w \in PnodeToVnode(vmList[hi], PnodeOf[vmList[lo]][v]) :
                newSys' = [newSys EXCEPT ![vmList[lo]] = @ \ {v},
                                         ![vmList[hi]] = @ \cup {w}]
    /\ hi' = hi - 1
    /\ UNCHANGED <<score, freeQ, vmList, lo, phase>>

TradeAbort ==
    /\ MayTrade
    /\ \E v \in MaxVnodes(vmList[lo]) :
          \/ v \notin VnodesOf(vmList[hi])
          \/ PnodeToVnode(vmList[hi], PnodeOf[vmList[lo]][v]) = {}
    /\ phase' = "aborted"
    /\ UNCHANGED <<score, rank, newSys, freeQ, vmList, lo, hi>>

\* The list is used up, the next VM wants no node, or may not take one.
\* Phase 3 computes a benefit and a cost and approves in any case.
TradeEnd ==
    /\ phase = "trade"
    /\ \/ lo >= hi
       \/ score[vmList[hi]] <= 0
       \/ /\ Cardinality(newSys[vmList[lo]]) > 1
          /\ score[vmList[lo]] >= 0
          /\ ~CanPreempt(vmList[hi], vmList[lo])
    /\ phase' = "done"
    /\ UNCHANGED <<score, rank, newSys, freeQ, vmList, lo, hi>>

Step ==
    \/ Start
    \/ ShrinkSkip \/ ShrinkOne \/ ShrinkEnd
    \/ ExpandSkip \/ ExpandOne \/ ExpandAbort \/ ExpandEnd
    \/ TradeSkip \/ TradeOne \/ TradeAbort \/ TradeEnd

Next == Step /\ UNCHANGED inputs

Spec == Init /\ [][Next]_vars /\ WF_vars(Next)
-----------------------------------------------------------------------------
Phases == {"idle", "shrink", "expand", "trade", "done", "aborted"}

\* The type invariant.
TypeOK ==
    /\ topoSys \in [Vm -> SUBSET Vnode]
    /\ undergo \subseteq Vm
    /\ home \in [Vm -> Vnode]
    /\ score \in [Vm -> Int]
    /\ rank \in [Vm -> [Vnode -> Int]]
    /\ newSys \in [Vm -> SUBSET Vnode]
    /\ \A vm \in Vm : newSys[vm] \subseteq VnodesOf(vm)
    /\ freeQ \in Seq(Pnode)
    /\ phase \in Phases
    /\ phase # "idle" => vmList \in [1 .. N -> Vm] /\ lo \in 1 .. N + 1 /\ hi \in 0 .. N

Planning == phase # "idle"

Grew(vm) == newSys[vm] \ topoSys[vm] # {}
Lost(vm) == topoSys[vm] \ newSys[vm] # {}

\* No VM is left without a node: phase 1 relies on the score being zeroed for
\* a VM with one node, phase 2 on the count, and a VM may go through both.
KeepsANode == Planning => \A vm \in Vm : newSys[vm] # {}

\* The home node is never taken away: nothing but its rank protects it, and
\* phase 2 lowers ranks as it goes.
HomeKept ==
    Planning => \A vm \in Vm : home[vm] \in topoSys[vm] => home[vm] \in newSys[vm]

\* No VM both loses and gets a node in one plan, although it may be met by
\* three loops.
NoChurn == Planning => \A vm \in Vm : ~(Grew(vm) /\ Lost(vm))

\* A VM loses a node only for a reason: a negative score, or another VM whose
\* score is over 50 and more than twice its own.
LoserJustified ==
    Planning => \A vm \in Vm : Lost(vm) =>
        \/ score[vm] < 0
        \/ \E plus \in Vm : score[plus] > 50 /\ score[plus] > 2 * score[vm]

\* A VM that shared a physical node may be "given" the node it already has.
SharedBefore(vm) ==
    \E v \in topoSys[vm] : Cardinality(ActiveOn(PnodeOf[vm][v])) > 1

\* Nodes go to the hungriest first: a VM that grows leaves no settled VM with
\* a greater score unserved.
PriorityOrder ==
    (Planning /\ phase # "aborted") =>
        \A a, b \in Vm :
            (Grew(a) /\ score[b] > score[a] /\ b \notin undergo)
                => Grew(b) \/ SharedBefore(b)

\* A plan leaves a physical node free only if every settled VM that asks for
\* one was served.
WorkConserving ==
    (phase = "done" /\ freeQ # <<>>) =>
        \A vm \in Vm \ undergo : score[vm] > 0 => Grew(vm) \/ SharedBefore(vm)

\* The policy implements the contract; before it starts, the plan is the
\* present topology.
Contract ==
    INSTANCE PlanContract
    WITH Nodes   <- [vm \in Vm |-> VnodesOf(vm)],
         plan    <- IF Planning THEN newSys ELSE topoSys,
         settled <- phase \in {"done", "aborted"}

ImplementsContract == Contract!Spec

\* Every call returns, or ends the daemon: the loops of phase 2 move two ends
\* towards each other.
Terminates == <>(phase \in {"done", "aborted"})

\* "vm_view" asserts that the record exists (sys_map.h): the VM that is given a
\* free node in phase 1 has a node there.
FreeNodeExists == MayExpand => PnodeToVnode(vmList[hi], Head(freeQ)) # {}

\* "extra trade": a VM gets a node because another gives it up, so that the
\* trade leaves the number of enabled nodes unchanged.
TradeBalanced ==
    [][TradeOne => \A vm \in Vm : Grew(vm)' /\ ~Grew(vm) =>
          \E minus \in Vm : newSys'[minus] # newSys[minus] /\ minus # vm]_vars
=============================================================================
