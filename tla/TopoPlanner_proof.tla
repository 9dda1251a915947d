------------------------- MODULE TopoPlanner_proof --------------------------
(***************************************************************************)
(* The safety of TopoPlanner for every set of guests, every placement of   *)
(* their nodes (each guest may lack some) and every load, and that it      *)
(* implements PlanContract.                                                *)
(***************************************************************************)
EXTENDS TopoPlanner, FiniteSetTheorems, TLAPS

\* A finite set with more than one element has two of them.
LEMMA TwoElements ==
    ASSUME NEW S, IsFiniteSet(S), Cardinality(S) > 1
    PROVE  \E a, b \in S : a # b
<1>0. S # {}
  <2>1. S = {} => Cardinality(S) = 0
    BY FS_EmptySet
  <2> QED
    BY <2>1
<1>1. PICK a \in S : TRUE
  BY <1>0
<1>2. CASE S = {a}
  <2>1. Cardinality({a}) = 1
    BY FS_Singleton
  <2> QED
    BY <1>2, <2>1
<1> QED
  BY <1>1, <1>2

\* The number of guests is a natural number: vmList and the loop bounds lo and
\* hi range over it.
LEMMA NType == N \in Nat
BY VmAssumption, FS_CardinalityType DEF N

\* The nodes of a VM are finite in number.
LEMMA FiniteNodes ==
    ASSUME NEW S \in SUBSET Vnode
    PROVE  IsFiniteSet(S) /\ Cardinality(S) \in Nat
BY NodeAssumption, FS_Subset, FS_CardinalityType

\* The nodes PnodeOf gives a VM are virtual nodes.
LEMMA NodesInVnode == \A vm \in Vm : VnodesOf(vm) \subseteq Vnode
BY PnodeOfAssumption

\* free_nodes is a sequence of physical nodes.
LEMMA QueueType ==
    ASSUME NEW q \in QueuesOf(FreePnodes)
    PROVE  q \in Seq(Pnode)
<1>1. FreePnodes \subseteq Pnode
  BY PnodeOfAssumption DEF FreePnodes
<1>2. Cardinality(FreePnodes) \in Nat
  BY <1>1, NodeAssumption, FS_Subset, FS_CardinalityType
<1> QED
  BY <1>1, <1>2 DEF QueuesOf

\* A changeness is an integer, and a negative one belongs to a VM with more than
\* one node: calculate_topo_changeness asks nobody for its last node.
LEMMA ScoreType ==
    ASSUME NEW l \in Loads, NEW n \in Nat
    PROVE  /\ Changeness(l, n) \in Int
           /\ Changeness(l, n) < 0 => n > 1
<1>1. l \in Load
  BY LoadsAssumption
<1>2. BwScore[l.bw] \in Int
  BY <1>1 DEF Load, BwScore
<1>3. RawScore(l, n) \in Int
  BY <1>2 DEF RawScore
<1> QED
  BY <1>3 DEF Changeness

-----------------------------------------------------------------------------
\* What the caller hands over.
LegalInputs ==
    \A vm \in Vm :
        /\ topoSys[vm] \subseteq VnodesOf(vm)
        /\ topoSys[vm] # {}
        /\ home[vm] \in VnodesOf(vm) => home[vm] \in topoSys[vm]

\* A VM is met once.
Distinct == \A i, j \in 1 .. N : vmList[i] = vmList[j] => i = j

\* Below hi nobody has grown, and the ranks of a VM tell its home node from
\* the other nodes it still has: this is what protects the home node, and it
\* survives the rank phase 2 lowers because that rank belongs to the VM at hi,
\* which is not met again.
Separated ==
    {vm \in Vm : /\ newSys[vm] \subseteq topoSys[vm]
                 /\ \A v \in newSys[vm] : v # home[vm] => rank[vm][v] >= 0
                 /\ home[vm] \in VnodesOf(vm) => rank[vm][home[vm]] < 0}

Untouched == {vm \in Vm : newSys[vm] = topoSys[vm]}

\* A VM lost nodes or grew, not both.
OneWay(vm) == newSys[vm] \subseteq topoSys[vm] \/ topoSys[vm] \subseteq newSys[vm]

Below ==
    /\ \A i \in 1 .. hi : vmList[i] \in Separated
    /\ phase = "shrink" =>
          /\ hi = N
          /\ \A i \in lo .. N :
                /\ vmList[i] \in Untouched
                /\ score[vmList[i]] < 0 => Cardinality(topoSys[vmList[i]]) > 1
    /\ phase \in {"shrink", "expand"} =>
          \A i \in 1 .. hi : score[vmList[i]] >= 0 => vmList[i] \in Untouched
    /\ phase = "trade" =>
          \A i \in 1 .. hi : (i > lo /\ score[vmList[i]] >= 0) => vmList[i] \in Untouched

PlanSafe ==
    \A vm \in Vm :
        /\ newSys[vm] # {}
        /\ home[vm] \in topoSys[vm] => home[vm] \in newSys[vm]
        /\ OneWay(vm)
        /\ Lost(vm) => \/ score[vm] < 0
                       \/ \E plus \in Vm : score[plus] > 50 /\ score[plus] > 2 * score[vm]

IInv ==
    /\ TypeOK
    /\ LegalInputs
    /\ Planning => Distinct /\ Below /\ PlanSafe

\* The node max_vnode_in_vm picks from a VM with two nodes or more is not the
\* home node, and not its only node.
LEMMA PickedNode ==
    ASSUME IInv, Planning, NEW vm \in Vm, vm \in Separated,
           Cardinality(newSys[vm]) > 1,
           NEW v \in MaxVnodes(vm)
    PROVE  /\ v \in VnodesOf(vm)
           /\ v # home[vm] /\ rank[vm][v] >= 0
           /\ newSys[vm] \ {v} # {}
<1> USE DEF IInv, TypeOK
<1>1. newSys[vm] \in SUBSET Vnode
  OBVIOUS
<1>2. PICK a, b \in newSys[vm] : a # b
  <2> HIDE DEF IInv, TypeOK
  <2>1. IsFiniteSet(newSys[vm])
    BY <1>1, FiniteNodes
  <2> QED
    BY <2>1, TwoElements
<1>3. PICK c \in newSys[vm] : c # home[vm]
  BY <1>2
<1>4. v \in VnodesOf(vm) /\ c \in VnodesOf(vm) /\ rank[vm][c] <= rank[vm][v]
  BY <1>3 DEF MaxVnodes
<1>5. v \in Vnode /\ c \in Vnode /\ rank[vm][c] \in Int /\ rank[vm][v] \in Int
  BY <1>4, NodesInVnode
<1>6. rank[vm][v] >= 0
  BY <1>3, <1>4, <1>5 DEF Separated
<1>7. v # home[vm]
  BY <1>4, <1>5, <1>6 DEF Separated
<1> QED
  BY <1>2, <1>4, <1>6, <1>7

-----------------------------------------------------------------------------
\* The invariant holds of what the engine hands the heuristic.
LEMMA InitInv == Init => IInv
BY DEF Init, IInv, TypeOK, LegalInputs, Planning, Phases

\* Scoring, ranking and sorting establish what phase 1 relies on.
LEMMA StartInv == IInv /\ Start /\ UNCHANGED inputs => IInv'
<1> SUFFICES ASSUME IInv, Start, UNCHANGED inputs PROVE IInv'
  OBVIOUS
<1> USE DEF IInv, inputs
<1>1. N \in Nat
  BY NType
<1>2. /\ score' \in [Vm -> Int]
      /\ \A vm \in Vm : score'[vm] < 0 => Cardinality(topoSys[vm]) > 1
  <2>1. PICK load \in [Vm -> Loads] :
            score' = [vm \in Vm |-> Changeness(load[vm], Cardinality(topoSys[vm]))]
    BY DEF Start
  <2>2. \A vm \in Vm : load[vm] \in Loads /\ Cardinality(topoSys[vm]) \in Nat
    BY <2>1, FiniteNodes DEF TypeOK
  <2> QED
    BY <2>1, <2>2, ScoreType
<1>3. /\ rank' \in [Vm -> [Vnode -> Int]]
      /\ \A vm \in Vm :
            /\ \A v \in topoSys[vm] : v # home[vm] => rank'[vm][v] >= 0
            /\ home[vm] \in VnodesOf(vm) => rank'[vm][home[vm]] < 0
  <2>1. PICK order \in VmOrders :
            rank' = [vm \in Vm |-> [v \in Vnode |->
                        IF v \in VnodesOf(vm) THEN RankOf(order, vm, v) ELSE -200]]
    BY DEF Start
  <2>2. \A vm \in Vm : \A v \in VnodesOf(vm) :
            /\ RankOf(order, vm, v) \in Int
            /\ v = home[vm] => RankOf(order, vm, v) < 0
            /\ v \in topoSys[vm] /\ v # home[vm] => RankOf(order, vm, v) >= 0
    <3> SUFFICES ASSUME NEW vm \in Vm, NEW v \in VnodesOf(vm)
                 PROVE  /\ RankOf(order, vm, v) \in Int
                        /\ v = home[vm] => RankOf(order, vm, v) < 0
                        /\ v \in topoSys[vm] /\ v # home[vm] => RankOf(order, vm, v) >= 0
      OBVIOUS
    <3>1. ShareDegree(order, vm, v) \in Int
      <4> DEFINE p == PnodeOf[vm][v]
                 gone == {u \in ActiveOn(p) :
                            /\ order[u] < order[vm]
                            /\ home[u] \in VnodesOf(u) => PnodeOf[u][home[u]] # p}
      <4>1. ActiveOn(p) \subseteq Vm /\ gone \subseteq Vm
        BY DEF ActiveOn
      <4>2. Cardinality(ActiveOn(p)) \in Nat /\ Cardinality(gone) \in Nat
        BY <4>1, VmAssumption, FS_Subset, FS_CardinalityType
      <4> HIDE DEF p, gone
      <4>3. Cardinality(ActiveOn(p)) - Cardinality(gone) \in Int
        BY <4>2
      <4> QED
        BY <4>3 DEF ShareDegree, p, gone
    <3> QED
      BY <3>1 DEF RankOf
  <2> HIDE DEF IInv
  <2>3. \A vm \in Vm : topoSys[vm] \subseteq VnodesOf(vm)
    BY DEF IInv, LegalInputs
  <2> QED
    BY <2>1, <2>2, <2>3, NodesInVnode
<1>4. /\ vmList' \in [1 .. N -> Vm]
      /\ Distinct'
  <2>1. vmList' \in [1 .. N -> Vm] /\ Ascending(score', vmList')
    BY DEF Start
  <2>2. ASSUME NEW i \in 1 .. N, NEW j \in 1 .. N, i < j
        PROVE  vmList'[i] # vmList'[j]
    <3> DEFINE a == vmList'[i]
    <3>0. a \in Vm
      BY <2>1
    <3> HIDE DEF a
    <3>1. score'[a] \in Int /\ a \in Int
      BY <1>2, <3>0, VmAssumption
    <3>2. Before(score', vmList'[i], vmList'[j])
      BY <2>1, <2>2 DEF Ascending
    <3> QED
      BY <3>1, <3>2 DEF Before, a
  <2> QED
    BY <1>1, <2>1, <2>2 DEF Distinct, N
<1>5. freeQ' \in Seq(Pnode)
  BY QueueType DEF Start
<1>6. newSys' = topoSys /\ lo' = 1 /\ hi' = N /\ phase' = "shrink"
  BY DEF Start
<1>7. TypeOK'
  BY <1>1, <1>2, <1>3, <1>4, <1>5, <1>6 DEF TypeOK, LegalInputs, Phases, N
<1>8. \A i \in 1 .. N : vmList'[i] \in Vm
  BY <1>4
<1>9. Below'
  BY <1>1, <1>2, <1>3, <1>6, <1>8 DEF Below, Separated, Untouched, N
<1>10. PlanSafe'
  BY <1>6 DEF PlanSafe, OneWay, Lost, LegalInputs
<1> QED
  BY <1>4, <1>7, <1>9, <1>10 DEF LegalInputs


-----------------------------------------------------------------------------
\* Steps that only move on: the plan and the ranks stay as they are.
LEMMA MoveInv ==
    ASSUME IInv, Planning, UNCHANGED inputs,
           UNCHANGED <<score, rank, newSys, vmList>>,
           freeQ' \in Seq(Pnode), phase' \in Phases \ {"idle"},
           lo' \in 1 .. N + 1, hi' \in 0 .. N, Below'
    PROVE  IInv'
BY DEF IInv, TypeOK, LegalInputs, Planning, Distinct, PlanSafe, OneWay, Lost, inputs, N

\* Every position of the list holds a VM.
LEMMA Listed ==
    ASSUME IInv, Planning
    PROVE  /\ N \in Nat /\ lo \in 1 .. N + 1 /\ hi \in 0 .. N
           /\ \A i \in 1 .. N : vmList[i] \in Vm /\ score[vmList[i]] \in Int
BY NType DEF IInv, TypeOK, Planning

Move ==
    \/ ShrinkSkip \/ ShrinkEnd
    \/ ExpandSkip \/ ExpandAbort \/ ExpandEnd
    \/ TradeSkip \/ TradeAbort \/ TradeEnd

\* The steps that only advance lo, hi or the phase keep the invariant.
LEMMA MovesInv == IInv /\ Move /\ UNCHANGED inputs => IInv'
<1> SUFFICES ASSUME IInv, Move, UNCHANGED inputs PROVE IInv'
  OBVIOUS
<1>1. /\ Planning
      /\ UNCHANGED <<topoSys, home, score, rank, newSys, freeQ, vmList>>
  BY DEF Move, ShrinkSkip, ShrinkEnd, ExpandSkip, ExpandAbort, ExpandEnd, MayExpand,
         TradeSkip, TradeAbort, TradeEnd, MayTrade, Trading, Planning, inputs
<1>2. Below /\ freeQ' \in Seq(Pnode)
  BY <1>1 DEF IInv, TypeOK
<1>3. /\ N \in Nat /\ lo \in 1 .. N + 1 /\ hi \in 0 .. N
      /\ \A i \in 1 .. N : vmList[i] \in Vm /\ score[vmList[i]] \in Int
  BY <1>1, Listed
<1>4. Separated' = Separated /\ Untouched' = Untouched
  BY <1>1 DEF Separated, Untouched
<1> SUFFICES /\ Below' /\ phase' \in Phases \ {"idle"}
             /\ lo' \in 1 .. N + 1 /\ hi' \in 0 .. N
  BY <1>1, <1>2, MoveInv
<1>5. CASE ShrinkSkip
  <2>1. lo \in 1 .. N /\ lo' = lo + 1 /\ UNCHANGED <<hi, phase>> /\ phase = "shrink"
    BY <1>3, <1>5 DEF ShrinkSkip
  <2> QED
    BY <1>1, <1>2, <1>3, <1>4, <2>1 DEF Below, Phases, N
<1>6. CASE ShrinkEnd
  <2>1. lo' = 1 /\ hi' = N /\ phase' = "expand" /\ phase = "shrink"
    BY <1>6 DEF ShrinkEnd
  <2> QED
    BY <1>1, <1>2, <1>3, <1>4, <2>1 DEF Below, Phases, N
<1>7. CASE ExpandSkip
  <2>1. hi \in 1 .. N /\ hi' = hi - 1 /\ UNCHANGED <<lo, phase>> /\ phase = "expand"
    BY <1>3, <1>7 DEF ExpandSkip
  <2> QED
    BY <1>1, <1>2, <1>3, <1>4, <2>1 DEF Below, Phases, N
<1>8. CASE ExpandAbort \/ TradeAbort \/ TradeEnd
  <2>1. phase' \in {"aborted", "done"} /\ UNCHANGED <<lo, hi>>
    BY <1>8 DEF ExpandAbort, TradeAbort, TradeEnd
  <2> QED
    BY <1>1, <1>2, <1>3, <1>4, <2>1 DEF Below, Phases, N
<1>9. CASE ExpandEnd
  <2>1. /\ phase = "expand" /\ phase' \in {"trade", "done"} /\ UNCHANGED <<lo, hi>>
    BY <1>9 DEF ExpandEnd
  <2> QED
    BY <1>1, <1>2, <1>3, <1>4, <2>1 DEF Below, Phases, N
<1>10. CASE TradeSkip
  <2>1. /\ lo \in 1 .. N /\ lo' = lo + 1 /\ UNCHANGED <<hi, phase>> /\ phase = "trade"
    BY <1>3, <1>10 DEF TradeSkip, Trading
  <2> QED
    BY <1>1, <1>2, <1>3, <1>4, <2>1 DEF Below, Phases, N
<1> QED
  BY <1>5, <1>6, <1>7, <1>8, <1>9, <1>10 DEF Move

-----------------------------------------------------------------------------
\* Phase 1 takes a node from a VM with a negative score, and it is neither the
\* home node nor the last one.
LEMMA ShrinkOneInv == IInv /\ ShrinkOne /\ UNCHANGED inputs => IInv'
<1> SUFFICES ASSUME IInv, ShrinkOne, UNCHANGED inputs PROVE IInv'
  OBVIOUS
<1> USE DEF inputs
<1>1. Planning /\ Below /\ Distinct /\ PlanSafe /\ TypeOK /\ LegalInputs
  BY DEF ShrinkOne, Planning, IInv
<1>2. /\ N \in Nat /\ lo \in 1 .. N /\ hi = N /\ phase = "shrink"
      /\ \A i \in 1 .. N : vmList[i] \in Vm /\ score[vmList[i]] \in Int
  BY <1>1, Listed DEF ShrinkOne, Below
<1> DEFINE vm == vmList[lo]
<1>3. vm \in Vm /\ score[vm] < 0
  BY <1>2 DEF ShrinkOne
<1>4. /\ vm \in Separated
      /\ newSys[vm] = topoSys[vm]
      /\ Cardinality(newSys[vm]) > 1
  BY <1>1, <1>2, <1>3 DEF Below, Untouched
<1>5. PICK v \in MaxVnodes(vm) :
          /\ rank' = [rank EXCEPT ![vm][v] = -200]
          /\ newSys' = [newSys EXCEPT ![vm] = @ \ {v}]
          /\ freeQ' = Append(freeQ, PnodeOf[vm][v])
  BY DEF ShrinkOne
<1>6. v \in VnodesOf(vm) /\ v # home[vm] /\ newSys[vm] \ {v} # {}
  BY <1>1, <1>3, <1>4, PickedNode
<1>7. lo' = lo + 1 /\ UNCHANGED <<score, vmList, hi, phase>>
  BY DEF ShrinkOne
<1> HIDE DEF vm
<1>8. v \in Vnode /\ PnodeOf[vm][v] \in Pnode
  BY <1>3, <1>6, NodesInVnode, PnodeOfAssumption
<1>9. /\ newSys'[vm] = newSys[vm] \ {v}
      /\ \A u \in Vm \ {vm} : newSys'[u] = newSys[u] /\ rank'[u] = rank[u]
      /\ \A w \in Vnode \ {v} : rank'[vm][w] = rank[vm][w]
  BY <1>1, <1>3, <1>5, <1>8 DEF TypeOK
<1>10. TypeOK'
  <2>1. rank' \in [Vm -> [Vnode -> Int]]
    BY <1>1, <1>3, <1>5, <1>8 DEF TypeOK
  <2>2. /\ newSys' \in [Vm -> SUBSET Vnode]
        /\ \A u \in Vm : newSys'[u] \subseteq VnodesOf(u)
    BY <1>1, <1>3, <1>5, <1>9 DEF TypeOK
  <2>3. freeQ' \in Seq(Pnode)
    BY <1>1, <1>5, <1>8 DEF TypeOK
  <2> QED
    BY <1>1, <1>2, <1>7, <2>1, <2>2, <2>3 DEF TypeOK
<1>11. \A i \in 1 .. N : vmList[i] = vm => i = lo
  BY <1>1, <1>2 DEF Distinct, vm
<1>12. vm \in Separated'
  <2>1. newSys[vm] \subseteq Vnode /\ newSys'[vm] \subseteq topoSys'[vm]
    BY <1>1, <1>3, <1>4, <1>9 DEF TypeOK
  <2>2. ASSUME NEW w \in newSys'[vm], w # home[vm] PROVE rank'[vm][w] >= 0
    BY <1>4, <1>9, <2>1, <2>2 DEF Separated
  <2>3. home[vm] \in VnodesOf(vm) => rank'[vm][home[vm]] < 0
    BY <1>3, <1>4, <1>6, <1>9, NodesInVnode DEF Separated
  <2> QED
    BY <1>3, <2>1, <2>2, <2>3 DEF Separated
<1>13. \A u \in Vm \ {vm} : /\ u \in Separated => u \in Separated'
                            /\ u \in Untouched => u \in Untouched'
  BY <1>9 DEF Separated, Untouched
<1>14. Below'
  <2>1. \A i \in 1 .. N : vmList[i] \in Separated'
    BY <1>1, <1>2, <1>7, <1>12, <1>13 DEF Below
  <2>2. \A i \in 1 .. N : i # lo /\ vmList[i] \in Untouched => vmList[i] \in Untouched'
    BY <1>1, <1>2, <1>7, <1>11, <1>13
  <2>3. \A i \in 1 .. N : score[vmList[i]] >= 0 => i # lo
    BY <1>2, <1>3 DEF vm
  <2> QED
    BY <1>1, <1>2, <1>7, <2>1, <2>2, <2>3 DEF Below
<1>15. PlanSafe'
  BY <1>1, <1>3, <1>4, <1>6, <1>7, <1>9 DEF PlanSafe, OneWay, Lost
<1> QED
  BY <1>1, <1>7, <1>10, <1>14, <1>15 DEF IInv, LegalInputs, Planning, Distinct

\* Phase 2 gives a free node to a VM nobody has taken a node from.
LEMMA ExpandOneInv == IInv /\ ExpandOne /\ UNCHANGED inputs => IInv'
<1> SUFFICES ASSUME IInv, ExpandOne, UNCHANGED inputs PROVE IInv'
  OBVIOUS
<1> USE DEF inputs
<1>1. Planning /\ Below /\ Distinct /\ PlanSafe /\ TypeOK /\ LegalInputs
  BY DEF ExpandOne, MayExpand, Planning, IInv
<1>2. /\ N \in Nat /\ lo \in 1 .. N + 1 /\ hi \in 1 .. N /\ phase = "expand"
      /\ \A i \in 1 .. N : vmList[i] \in Vm /\ score[vmList[i]] \in Int
  BY <1>1, Listed DEF ExpandOne, MayExpand
<1> DEFINE vm == vmList[hi]
<1>3. vm \in Vm /\ score[vm] > 0
  BY <1>2 DEF ExpandOne, MayExpand
<1>4. newSys[vm] = topoSys[vm]
  BY <1>1, <1>2, <1>3 DEF Below, Untouched
<1>5. PICK v \in PnodeToVnode(vm, Head(freeQ)) :
          newSys' = [newSys EXCEPT ![vm] = @ \cup {v}]
  BY DEF ExpandOne
<1>6. /\ freeQ' = Tail(freeQ) /\ hi' = hi - 1
      /\ UNCHANGED <<score, rank, vmList, lo, phase>>
  BY DEF ExpandOne
<1> HIDE DEF vm
<1>7. v \in VnodesOf(vm) /\ v \in Vnode
  BY <1>3, NodesInVnode DEF PnodeToVnode
<1>8. freeQ' \in Seq(Pnode)
  BY <1>1, <1>6 DEF TypeOK, ExpandOne, MayExpand
<1>9. /\ newSys'[vm] = newSys[vm] \cup {v}
      /\ \A u \in Vm \ {vm} : newSys'[u] = newSys[u]
  BY <1>1, <1>3, <1>5 DEF TypeOK
<1>10. TypeOK'
  <2>1. /\ newSys' \in [Vm -> SUBSET Vnode]
        /\ \A u \in Vm : newSys'[u] \subseteq VnodesOf(u)
    BY <1>1, <1>3, <1>5, <1>7, <1>9 DEF TypeOK
  <2> QED
    BY <1>1, <1>2, <1>6, <1>8, <2>1 DEF TypeOK
<1>11. \A i \in 1 .. hi' : i \in 1 .. N /\ i \in 1 .. hi /\ vmList[i] # vm
  BY <1>1, <1>2, <1>6 DEF Distinct, vm
<1>12. \A u \in Vm \ {vm} : /\ u \in Separated => u \in Separated'
                            /\ u \in Untouched => u \in Untouched'
  BY <1>6, <1>9 DEF Separated, Untouched
<1>13. Below'
  BY <1>1, <1>2, <1>6, <1>11, <1>12 DEF Below
<1>14. PlanSafe'
  BY <1>1, <1>3, <1>4, <1>6, <1>9 DEF PlanSafe, OneWay, Lost
<1> QED
  BY <1>1, <1>6, <1>10, <1>13, <1>14 DEF IInv, LegalInputs, Planning, Distinct

\* An extra trade takes from the VM at lo and gives to the VM at hi, in the same
\* place; the rank it lowers by mistake belongs to the VM at hi.
LEMMA TradeOneInv == IInv /\ TradeOne /\ UNCHANGED inputs => IInv'
<1> SUFFICES ASSUME IInv, TradeOne, UNCHANGED inputs PROVE IInv'
  OBVIOUS
<1> USE DEF inputs
<1>1. Planning /\ Below /\ Distinct /\ PlanSafe /\ TypeOK /\ LegalInputs
  BY DEF TradeOne, MayTrade, Trading, Planning, IInv
<1>2. /\ N \in Nat /\ lo \in 1 .. N /\ hi \in 1 .. N /\ lo < hi /\ phase = "trade"
      /\ \A i \in 1 .. N : vmList[i] \in Vm /\ score[vmList[i]] \in Int
  BY <1>1, Listed DEF TradeOne, MayTrade, Trading
<1> DEFINE minus == vmList[lo]
           plus  == vmList[hi]
<1>3. /\ minus \in Vm /\ plus \in Vm /\ minus # plus
      /\ score[plus] > 0
      /\ score[minus] < 0 \/ (score[plus] > 50 /\ score[plus] > 2 * score[minus])
      /\ Cardinality(newSys[minus]) > 1
  BY <1>1, <1>2 DEF TradeOne, MayTrade, Trading, CanPreempt, Distinct
<1>4. minus \in Separated /\ newSys[plus] = topoSys[plus]
  BY <1>1, <1>2, <1>3 DEF Below, Untouched
<1>5. PICK v \in MaxVnodes(minus) :
          /\ v \in VnodesOf(plus)
          /\ rank' = [rank EXCEPT ![plus][v] = -200]
          /\ \E w \in PnodeToVnode(plus, PnodeOf[minus][v]) :
                newSys' = [newSys EXCEPT ![minus] = @ \ {v},
                                         ![plus] = @ \cup {w}]
  BY DEF TradeOne
<1>6. PICK w \in PnodeToVnode(plus, PnodeOf[minus][v]) :
          newSys' = [newSys EXCEPT ![minus] = @ \ {v}, ![plus] = @ \cup {w}]
  BY <1>5
<1>7. v # home[minus] /\ newSys[minus] \ {v} # {}
  BY <1>1, <1>3, <1>4, PickedNode
<1>8. hi' = hi - 1 /\ UNCHANGED <<score, freeQ, vmList, lo, phase>>
  BY DEF TradeOne
<1> HIDE DEF minus, plus
<1>9. v \in Vnode /\ w \in VnodesOf(plus)
  BY <1>3, <1>5, NodesInVnode DEF PnodeToVnode
<1>10. /\ newSys'[minus] = newSys[minus] \ {v}
       /\ newSys'[plus] = newSys[plus] \cup {w}
       /\ \A u \in Vm \ {minus, plus} : newSys'[u] = newSys[u]
       /\ \A u \in Vm \ {plus} : rank'[u] = rank[u]
  BY <1>1, <1>3, <1>5, <1>6 DEF TypeOK
<1>11. TypeOK'
  <2>1. rank' \in [Vm -> [Vnode -> Int]]
    BY <1>1, <1>3, <1>5, <1>9 DEF TypeOK
  <2>2. w \in Vnode
    BY <1>3, <1>9, NodesInVnode
  <2>3. newSys' \in [Vm -> SUBSET Vnode]
    BY <1>1, <1>3, <1>6, <2>2 DEF TypeOK
  <2>4. \A u \in Vm : newSys'[u] \subseteq VnodesOf(u)
    BY <1>1, <1>3, <1>9, <1>10 DEF TypeOK
  <2> QED
    BY <1>1, <1>2, <1>8, <2>1, <2>3, <2>4 DEF TypeOK
<1>12. \A i \in 1 .. hi' : /\ i \in 1 .. N /\ i \in 1 .. hi /\ vmList[i] # plus
                           /\ vmList[i] = minus => i = lo
  BY <1>1, <1>2, <1>8 DEF Distinct, minus, plus
<1>13. \A u \in Vm \ {plus} : u \in Separated => u \in Separated'
  BY <1>3, <1>7, <1>10 DEF Separated
<1>14. \A u \in Vm \ {minus, plus} : u \in Untouched => u \in Untouched'
  BY <1>10 DEF Untouched
<1>15. Below'
  BY <1>1, <1>2, <1>8, <1>12, <1>13, <1>14 DEF Below
<1>16. PlanSafe'
  <2> SUFFICES ASSUME NEW u \in Vm
               PROVE  /\ newSys'[u] # {}
                      /\ home[u] \in topoSys[u] => home[u] \in newSys'[u]
                      /\ newSys'[u] \subseteq topoSys[u] \/ topoSys[u] \subseteq newSys'[u]
                      /\ topoSys[u] \ newSys'[u] # {} =>
                            \/ score[u] < 0
                            \/ \E p \in Vm : score[p] > 50 /\ score[p] > 2 * score[u]
    BY <1>8 DEF PlanSafe, OneWay, Lost
  <2>1. CASE u = minus
    BY <1>1, <1>3, <1>4, <1>7, <1>10, <2>1 DEF PlanSafe, Separated
  <2>2. CASE u = plus
    BY <1>1, <1>3, <1>4, <1>10, <2>2 DEF PlanSafe
  <2>3. CASE u \notin {minus, plus}
    BY <1>1, <1>10, <2>3 DEF PlanSafe, OneWay, Lost
  <2> QED
    BY <2>1, <2>2, <2>3
<1> QED
  BY <1>1, <1>8, <1>11, <1>15, <1>16 DEF IInv, LegalInputs, Planning, Distinct

-----------------------------------------------------------------------------
\* Every step of the heuristic keeps the invariant.
LEMMA NextInv == IInv /\ [Next]_vars => IInv'
<1> SUFFICES ASSUME IInv, [Next]_vars PROVE IInv'
  OBVIOUS
<1>1. CASE UNCHANGED vars
  BY <1>1 DEF vars, inputs, work, IInv, TypeOK, LegalInputs, Planning, Distinct, Below,
              Separated, Untouched, PlanSafe, OneWay, Lost, N
<1>2. CASE Next
  BY <1>2, StartInv, MovesInv, ShrinkOneInv, ExpandOneInv, TradeOneInv
  DEF Next, Step, Move
<1> QED
  BY <1>1, <1>2

\* The invariant contains the properties the runs check.
LEMMA InvConsequences == IInv => TypeOK /\ KeepsANode /\ HomeKept /\ NoChurn /\ LoserJustified
BY DEF IInv, PlanSafe, OneWay, Lost, Grew, KeepsANode, HomeKept, NoChurn, LoserJustified

\* What keeps a plan safe holds throughout the heuristic: the inductive
\* invariant every safety theorem below follows from.
THEOREM Invariant == Spec => []IInv
BY InitInv, NextInv, PTL DEF Spec

\* Type correctness.
THEOREM TypeCorrect == Spec => []TypeOK
BY Invariant, InvConsequences, PTL

\* No plan takes the last node of a VM.
THEOREM NodeSafe == Spec => []KeepsANode
BY Invariant, InvConsequences, PTL

\* No plan takes a home node, whatever the placement, the loads, the order of
\* the hash maps and the ties between ranks.
THEOREM HomeSafe == Spec => []HomeKept
BY Invariant, InvConsequences, PTL

\* No VM both loses and gets a node.
THEOREM ChurnSafe == Spec => []NoChurn
BY Invariant, InvConsequences, PTL

\* Nodes are only taken from VMs with a negative score and preempted ones.
THEOREM LoserSafe == Spec => []LoserJustified
BY Invariant, InvConsequences, PTL

-----------------------------------------------------------------------------
(* The policy implements its contract. *)

\* What the three steps that change the plan do, seen from outside.
LEMMA ShrinkOneStep ==
    ASSUME IInv, ShrinkOne
    PROVE  /\ Planning /\ Planning'
           /\ \E vm \in Vm : \E v \in VnodesOf(vm) :
                 /\ newSys[vm] \subseteq topoSys[vm] /\ v # home[vm]
                 /\ newSys[vm] \ {v} # {}
                 /\ newSys' = [newSys EXCEPT ![vm] = @ \ {v}]
<1>1. Planning /\ Planning' /\ Below
  BY DEF ShrinkOne, Planning, IInv
<1>2. /\ lo \in 1 .. N
      /\ \A i \in 1 .. N : vmList[i] \in Vm /\ score[vmList[i]] \in Int
  BY <1>1, Listed DEF ShrinkOne
<1> DEFINE vm == vmList[lo]
<1>3. /\ vm \in Vm /\ vm \in Separated /\ newSys[vm] \subseteq topoSys[vm]
      /\ Cardinality(newSys[vm]) > 1
  BY <1>1, <1>2 DEF ShrinkOne, Below, Untouched, Separated
<1>4. PICK v \in MaxVnodes(vm) : newSys' = [newSys EXCEPT ![vm] = @ \ {v}]
  BY DEF ShrinkOne
<1>5. v \in VnodesOf(vm) /\ v # home[vm] /\ newSys[vm] \ {v} # {}
  BY <1>1, <1>3, PickedNode
<1> QED
  BY <1>1, <1>3, <1>4, <1>5

\* Giving a free node away is a Give of the contract.
LEMMA ExpandOneStep ==
    ASSUME IInv, ExpandOne
    PROVE  /\ Planning /\ Planning'
           /\ \E vm \in Vm : \E v \in VnodesOf(vm) :
                 /\ newSys[vm] = topoSys[vm]
                 /\ newSys' = [newSys EXCEPT ![vm] = @ \cup {v}]
<1>1. Planning /\ Planning' /\ Below
  BY DEF ExpandOne, MayExpand, Planning, IInv
<1>2. /\ hi \in 1 .. N
      /\ \A i \in 1 .. N : vmList[i] \in Vm /\ score[vmList[i]] \in Int
  BY <1>1, Listed DEF ExpandOne, MayExpand
<1> DEFINE vm == vmList[hi]
<1>3. vm \in Vm /\ newSys[vm] = topoSys[vm]
  BY <1>1, <1>2 DEF ExpandOne, MayExpand, Below, Untouched
<1>4. PICK v \in VnodesOf(vm) : newSys' = [newSys EXCEPT ![vm] = @ \cup {v}]
  BY DEF ExpandOne, PnodeToVnode
<1> QED
  BY <1>1, <1>3, <1>4

\* An extra trade is a Trade of the contract.
LEMMA TradeOneStep ==
    ASSUME IInv, TradeOne
    PROVE  /\ Planning /\ Planning'
           /\ \E minus, plus \in Vm : \E v \in VnodesOf(minus), w \in VnodesOf(plus) :
                 /\ minus # plus
                 /\ newSys[minus] \subseteq topoSys[minus] /\ v # home[minus]
                 /\ newSys[minus] \ {v} # {}
                 /\ newSys[plus] = topoSys[plus]
                 /\ newSys' = [newSys EXCEPT ![minus] = @ \ {v}, ![plus] = @ \cup {w}]
<1>1. Planning /\ Planning' /\ Below /\ Distinct
  BY DEF TradeOne, MayTrade, Trading, Planning, IInv
<1>2. /\ N \in Nat /\ lo \in 1 .. N /\ hi \in 1 .. N /\ lo < hi /\ phase = "trade"
      /\ \A i \in 1 .. N : vmList[i] \in Vm /\ score[vmList[i]] \in Int
  BY <1>1, Listed DEF TradeOne, MayTrade, Trading
<1> DEFINE minus == vmList[lo]
           plus  == vmList[hi]
<1>3. /\ minus \in Vm /\ plus \in Vm /\ minus # plus /\ score[plus] > 0
      /\ Cardinality(newSys[minus]) > 1
  BY <1>1, <1>2 DEF TradeOne, MayTrade, Trading, Distinct
<1>4. /\ minus \in Separated /\ newSys[minus] \subseteq topoSys[minus]
      /\ newSys[plus] = topoSys[plus]
  BY <1>1, <1>2, <1>3 DEF Below, Untouched, Separated
<1>5. PICK v \in MaxVnodes(minus) :
          \E w \in VnodesOf(plus) :
              newSys' = [newSys EXCEPT ![minus] = @ \ {v}, ![plus] = @ \cup {w}]
  BY DEF TradeOne, PnodeToVnode
<1>6. v \in VnodesOf(minus) /\ v # home[minus] /\ newSys[minus] \ {v} # {}
  BY <1>1, <1>3, <1>4, PickedNode
<1>7. PICK w \in VnodesOf(plus) :
          newSys' = [newSys EXCEPT ![minus] = @ \ {v}, ![plus] = @ \cup {w}]
  BY <1>5
<1> HIDE DEF minus, plus
<1> QED
  BY <1>1, <1>3, <1>4, <1>6, <1>7

\* The heuristic starts where the contract does.
LEMMA InitRefines == Init => Contract!Init
BY NodesInVnode DEF Init, Contract!Init, Planning

\* Every step of the heuristic is a step of the contract or a stutter.
LEMMA StepRefines == IInv /\ [Next]_vars => [Contract!Next]_Contract!vars
<1> SUFFICES ASSUME IInv, [Next]_vars PROVE [Contract!Next]_Contract!vars
  OBVIOUS
<1> DEFINE plan    == IF Planning THEN newSys ELSE topoSys
           settled == phase \in {"done", "aborted"}
<1> USE DEF Contract!vars
<1>1. CASE UNCHANGED vars
  BY <1>1 DEF vars, inputs, work, Planning
<1>2. CASE Next
  <2>0. UNCHANGED <<topoSys, home>>
    BY <1>2 DEF Next, inputs
  <2>1. CASE Start
    BY <2>0, <2>1 DEF Start, Planning
  <2>2. CASE Move
    <3>1. Planning /\ Planning' /\ newSys' = newSys /\ ~settled
      BY <2>2 DEF Move, ShrinkSkip, ShrinkEnd, ExpandSkip, ExpandAbort, ExpandEnd, MayExpand,
                  TradeSkip, TradeAbort, TradeEnd, MayTrade, Trading, Planning
    <3>2. CASE settled'
      BY <2>0, <3>1, <3>2 DEF Contract!Next, Contract!Settle
    <3>3. CASE ~settled'
      BY <2>0, <3>1, <3>3
    <3> QED
      BY <3>2, <3>3
  <2>3. CASE ShrinkOne
    <3>1. phase' = phase /\ ~settled
      BY <2>3 DEF ShrinkOne
    <3>. PICK vm \in Vm : \E v \in VnodesOf(vm) :
              /\ newSys[vm] \subseteq topoSys[vm] /\ v # home[vm]
              /\ newSys[vm] \ {v} # {}
              /\ newSys' = [newSys EXCEPT ![vm] = @ \ {v}]
      BY <2>3, ShrinkOneStep
    <3>2. PICK v \in VnodesOf(vm) :
              /\ newSys[vm] \subseteq topoSys[vm] /\ v # home[vm]
              /\ newSys[vm] \ {v} # {}
              /\ newSys' = [newSys EXCEPT ![vm] = @ \ {v}]
      OBVIOUS
    <3>3. plan = newSys /\ plan' = newSys'
      BY <2>3, ShrinkOneStep
    <3>4. CASE v \in newSys[vm]
      <4>1. Contract!MayLose(vm, v)
        BY <3>2, <3>3, <3>4 DEF Contract!MayLose, Contract!NotGrown
      <4>2. Contract!Take
        BY <3>1, <3>2, <3>3, <4>1 DEF Contract!Take
      <4> QED
        BY <2>0, <3>1, <4>2 DEF Contract!Next
    <3>5. CASE v \notin newSys[vm]
      <4>1. newSys' = newSys
        BY <3>2, <3>5 DEF IInv, TypeOK
      <4> QED
        BY <2>0, <3>1, <3>3, <4>1
    <3> QED
      BY <3>4, <3>5
  <2>4. CASE ExpandOne
    <3>1. phase' = phase /\ ~settled
      BY <2>4 DEF ExpandOne, MayExpand
    <3>. PICK vm \in Vm : \E v \in VnodesOf(vm) :
              /\ newSys[vm] = topoSys[vm]
              /\ newSys' = [newSys EXCEPT ![vm] = @ \cup {v}]
      BY <2>4, ExpandOneStep
    <3>2. PICK v \in VnodesOf(vm) :
              /\ newSys[vm] = topoSys[vm]
              /\ newSys' = [newSys EXCEPT ![vm] = @ \cup {v}]
      OBVIOUS
    <3>3. plan = newSys /\ plan' = newSys'
      BY <2>4, ExpandOneStep
    <3>4. CASE v \notin newSys[vm]
      <4>1. Contract!MayGain(vm, v)
        BY <3>2, <3>3, <3>4 DEF Contract!MayGain
      <4>2. Contract!Give
        BY <3>1, <3>2, <3>3, <4>1 DEF Contract!Give
      <4> QED
        BY <2>0, <3>1, <4>2 DEF Contract!Next
    <3>5. CASE v \in newSys[vm]
      <4>1. newSys' = newSys
        BY <3>2, <3>5 DEF IInv, TypeOK
      <4> QED
        BY <2>0, <3>1, <3>3, <4>1
    <3> QED
      BY <3>4, <3>5
  <2>5. CASE TradeOne
    <3>1. phase' = phase /\ ~settled
      BY <2>5 DEF TradeOne, MayTrade, Trading
    <3>2. PICK minus \in Vm, plus \in Vm :
              \E v \in VnodesOf(minus), w \in VnodesOf(plus) :
                 /\ minus # plus
                 /\ newSys[minus] \subseteq topoSys[minus] /\ v # home[minus]
                 /\ newSys[minus] \ {v} # {}
                 /\ newSys[plus] = topoSys[plus]
                 /\ newSys' = [newSys EXCEPT ![minus] = @ \ {v}, ![plus] = @ \cup {w}]
      BY <2>5, TradeOneStep
    <3>3. PICK v \in VnodesOf(minus), w \in VnodesOf(plus) :
                 /\ minus # plus
                 /\ newSys[minus] \subseteq topoSys[minus] /\ v # home[minus]
                 /\ newSys[minus] \ {v} # {}
                 /\ newSys[plus] = topoSys[plus]
                 /\ newSys' = [newSys EXCEPT ![minus] = @ \ {v}, ![plus] = @ \cup {w}]
      BY <3>2
    <3>4. plan = newSys /\ plan' = newSys'
      BY <2>5, TradeOneStep
    <3>5. newSys \in [Vm -> SUBSET Vnode]
      BY DEF IInv, TypeOK
    <3>6. v \in newSys[minus] => Contract!MayLose(minus, v)
      BY <3>3, <3>4 DEF Contract!MayLose, Contract!NotGrown
    <3>7. w \notin newSys[plus] => Contract!MayGain(plus, w)
      BY <3>3, <3>4 DEF Contract!MayGain
    <3>8. CASE v \in newSys[minus] /\ w \notin newSys[plus]
      <4>1. Contract!Trade
        BY <3>1, <3>3, <3>4, <3>6, <3>7, <3>8 DEF Contract!Trade
      <4> QED
        BY <2>0, <3>1, <4>1 DEF Contract!Next
    <3>9. CASE v \in newSys[minus] /\ w \in newSys[plus]
      <4>1. newSys' = [newSys EXCEPT ![minus] = @ \ {v}]
        BY <3>3, <3>5, <3>9
      <4>2. Contract!Take
        BY <3>1, <3>4, <3>6, <3>9, <4>1 DEF Contract!Take
      <4> QED
        BY <2>0, <3>1, <4>2 DEF Contract!Next
    <3>10. CASE v \notin newSys[minus] /\ w \notin newSys[plus]
      <4>1. newSys' = [newSys EXCEPT ![plus] = @ \cup {w}]
        BY <3>3, <3>5, <3>10
      <4>2. Contract!Give
        BY <3>1, <3>4, <3>7, <3>10, <4>1 DEF Contract!Give
      <4> QED
        BY <2>0, <3>1, <4>2 DEF Contract!Next
    <3>11. CASE v \notin newSys[minus] /\ w \in newSys[plus]
      <4>1. newSys' = newSys
        BY <3>3, <3>5, <3>11
      <4> QED
        BY <2>0, <3>1, <3>4, <4>1
    <3> QED
      BY <3>8, <3>9, <3>10, <3>11
  <2> QED
    BY <1>2, <2>1, <2>2, <2>3, <2>4, <2>5 DEF Next, Step, Move
<1> QED
  BY <1>1, <1>2

\* Every behaviour of the policy is one of the contract.
THEOREM Refinement == Spec => ImplementsContract
BY Invariant, InitRefines, StepRefines, PTL
DEF Spec, ImplementsContract, Contract!Spec

-----------------------------------------------------------------------------
(***************************************************************************)
(* Whom the planner serves, for every set of guests, every placement of    *)
(* their nodes and every load: nodes go to the hungriest first, and none   *)
(* is left free while a settled VM asks for one.  Both follow from one     *)
(* fact about the list of VMs: what hi has passed has been served.         *)
(***************************************************************************)

\* A VM that is not settled may be passed over; one that shared a physical
\* node may be given the node it has.
Served(vm) == vm \in undergo \/ Grew(vm) \/ SharedBefore(vm)

\* A physical node that is handed out has been free, or has been given up by a
\* VM with a negative score.
Origin(p) == ActiveOn(p) = {} \/ \E u \in ActiveOn(p) : score[u] < 0

Sorted == \A i, j \in 1 .. N : i < j => score[vmList[i]] <= score[vmList[j]]
RankedEnabled == \A vm \in Vm : \A v \in Vnode : rank[vm][v] >= 0 => v \in topoSys[vm]
PassedServed == \A i \in 1 .. N : i > hi => Served(vmList[i])

\* The free nodes, in each phase.
Supply ==
    /\ phase \in {"shrink", "expand"} => \A k \in 1 .. Len(freeQ) : Origin(freeQ[k])
    /\ phase = "trade" => freeQ = <<>>
    /\ (phase = "done" /\ freeQ # <<>>) => \A i \in 1 .. hi : score[vmList[i]] <= 0

OInv == Planning => Sorted /\ RankedEnabled /\ PassedServed /\ Supply
-----------------------------------------------------------------------------
\* A VM that has a node where another VM has one shares a physical node.
LEMMA SharesNode ==
    ASSUME IInv, NEW a \in Vm, NEW v \in topoSys[a], NEW b \in ActiveOn(PnodeOf[a][v]), b # a
    PROVE  SharedBefore(a)
<1> DEFINE S == ActiveOn(PnodeOf[a][v])
<1>1. S \subseteq Vm /\ {a, b} \subseteq S
  BY DEF ActiveOn
<1>2. IsFiniteSet(S) /\ Cardinality(S) \in Nat
  BY <1>1, VmAssumption, FS_Subset, FS_CardinalityType
<1>3. Cardinality({a, b}) = 2
  <2>1. IsFiniteSet({a}) /\ Cardinality({a}) = 1 /\ {a, b} = {a} \cup {b} /\ b \notin {a}
    BY FS_Singleton
  <2>2. Cardinality({a} \cup {b}) = Cardinality({a}) + 1
    BY <2>1, FS_AddElement
  <2> QED
    BY <2>1, <2>2
<1>4. Cardinality({a, b}) <= Cardinality(S)
  BY <1>1, <1>2, FS_Subset
<1> HIDE DEF S
<1>5. Cardinality(S) > 1
  BY <1>2, <1>3, <1>4
<1> QED
  BY <1>5 DEF SharedBefore, S

\* A VM that is given a node on p is served, if some other VM was on p or none.
LEMMA GivenServed ==
    ASSUME IInv, Planning, UNCHANGED inputs, NEW vm \in Vm, NEW p, NEW w \in PnodeToVnode(vm, p),
           newSys'[vm] = newSys[vm] \cup {w},
           \/ ActiveOn(p) = {}
           \/ \E u \in ActiveOn(p) : u # vm
    PROVE  Served(vm)'
<1>1. w \in VnodesOf(vm) /\ PnodeOf[vm][w] = p
  BY DEF PnodeToVnode
<1>2. CASE w \notin topoSys[vm]
  BY <1>2 DEF Served, Grew, inputs
<1>3. CASE w \in topoSys[vm]
  <2>1. vm \in ActiveOn(p)
    BY <1>1, <1>3 DEF ActiveOn
  <2>2. SharedBefore(vm)
    BY <1>1, <1>3, <2>1, SharesNode
  <2>3. SharedBefore(vm)'
    BY <2>2 DEF SharedBefore, ActiveOn, inputs
  <2> QED
    BY <2>3 DEF Served
<1> QED
  BY <1>2, <1>3

\* A step that moves hi past VMs it has served, and takes nothing from those
\* that are passed.
LEMMA OnwardInv ==
    ASSUME IInv, Planning, OInv, UNCHANGED inputs, UNCHANGED <<score, vmList>>,
           \A vm \in Vm : \A v \in Vnode : rank'[vm][v] >= 0 => rank[vm][v] >= 0,
           \A i \in 1 .. N : i > hi => newSys[vmList[i]] \subseteq newSys'[vmList[i]],
           \A i \in 1 .. N : (i > hi' /\ ~(i > hi)) => Served(vmList[i])',
           Supply'
    PROVE  OInv'
<1>1. N' = N
  BY DEF N
<1>2. Sorted' /\ RankedEnabled'
  BY <1>1 DEF OInv, Sorted, RankedEnabled, inputs
<1>3. ASSUME NEW i \in 1 .. N, i > hi' PROVE Served(vmList[i])'
  <2>1. CASE ~(i > hi)
    BY <1>3, <2>1
  <2>2. CASE i > hi
    <3>1. Served(vmList[i])
      BY <2>2 DEF OInv, PassedServed
    <3>2. newSys[vmList[i]] \subseteq newSys'[vmList[i]]
      BY <2>2
    <3> QED
      BY <3>1, <3>2 DEF Served, Grew, SharedBefore, ActiveOn, inputs
  <2> QED
    BY <2>1, <2>2
<1> QED
  BY <1>1, <1>2, <1>3 DEF OInv, PassedServed
-----------------------------------------------------------------------------
\* Before the planner starts there is nothing to say.
LEMMA InitOrder == Init => OInv
BY DEF Init, OInv, Planning

\* The list is sorted, and only enabled nodes are ranked.
LEMMA StartOrder == ASSUME IInv, Start, UNCHANGED inputs PROVE OInv'
<1>1. IInv'
  BY StartInv
<1>2. N \in Nat /\ N' = N /\ hi' = N /\ phase' = "shrink"
  BY NType DEF Start, N
<1>3. Sorted'
  <2>1. Ascending(score', vmList') /\ vmList' \in [1 .. N -> Vm] /\ score' \in [Vm -> Int]
    BY <1>1 DEF Start, IInv, TypeOK
  <2>2. ASSUME NEW i \in 1 .. N, NEW j \in 1 .. N, i < j
        PROVE  score'[vmList'[i]] <= score'[vmList'[j]]
    <3>1. vmList'[i] \in Vm /\ vmList'[j] \in Vm
      BY <2>1
    <3>2. score'[vmList'[i]] \in Int /\ score'[vmList'[j]] \in Int
      BY <2>1, <3>1
    <3>3. Before(score', vmList'[i], vmList'[j])
      BY <2>1, <2>2 DEF Ascending
    <3> QED
      BY <3>2, <3>3 DEF Before
  <2> QED
    BY <2>2, <1>2 DEF Sorted
<1>4. RankedEnabled'
  <2>1. PICK order \in VmOrders :
            rank' = [vm \in Vm |-> [v \in Vnode |->
                        IF v \in VnodesOf(vm) THEN RankOf(order, vm, v) ELSE -200]]
    BY DEF Start
  <2>2. ASSUME NEW vm \in Vm, NEW v \in Vnode, rank'[vm][v] >= 0 PROVE v \in topoSys[vm]
    <3>1. v \in VnodesOf(vm) /\ rank'[vm][v] = RankOf(order, vm, v)
      BY <2>1, <2>2
    <3> QED
      BY <3>1, <2>2 DEF RankOf
  <2> QED
    BY <2>2 DEF RankedEnabled, inputs
<1>5. PassedServed'
  BY <1>2 DEF PassedServed
<1>6. Supply'
  <2>1. freeQ' \in [1 .. Cardinality(FreePnodes) -> FreePnodes]
    BY DEF Start, QueuesOf
  <2>2. freeQ' \in Seq(Pnode)
    BY <1>1 DEF IInv, TypeOK
  <2>3. Cardinality(FreePnodes) \in Nat
    <3>1. FreePnodes \subseteq Pnode
      BY PnodeOfAssumption DEF FreePnodes
    <3> QED
      BY <3>1, NodeAssumption, FS_Subset, FS_CardinalityType
  <2>4. \A k \in 1 .. Len(freeQ') : ActiveOn(freeQ'[k]) = {}
    <3>1. DOMAIN freeQ' = 1 .. Len(freeQ')
      BY <2>2
    <3>2. \A k \in 1 .. Len(freeQ') : freeQ'[k] \in FreePnodes
      BY <2>1, <2>3, <3>1
    <3> QED
      BY <3>2 DEF FreePnodes
  <2>5. \A p : ActiveOn(p)' = ActiveOn(p)
    BY DEF ActiveOn, inputs
  <2>6. \A p : ActiveOn(p) = {} => Origin(p)'
    BY <2>5 DEF Origin
  <2> QED
    BY <2>4, <2>6, <1>2 DEF Supply
<1> QED
  BY <1>3, <1>4, <1>5, <1>6 DEF OInv

\* Steps that only move on.
LEMMA MovesOrder == ASSUME IInv, OInv, Move, UNCHANGED inputs PROVE OInv'
<1>1. /\ Planning
      /\ UNCHANGED <<topoSys, home, undergo, score, rank, newSys, freeQ, vmList>>
  BY DEF Move, ShrinkSkip, ShrinkEnd, ExpandSkip, ExpandAbort, ExpandEnd, MayExpand,
         TradeSkip, TradeAbort, TradeEnd, MayTrade, Trading, Planning, inputs
<1>2. /\ N \in Nat /\ lo \in 1 .. N + 1 /\ hi \in 0 .. N
      /\ \A i \in 1 .. N : vmList[i] \in Vm /\ score[vmList[i]] \in Int
  BY <1>1, Listed
<1>3. Sorted /\ Supply
  BY <1>1 DEF OInv
<1>4. \A p : Origin(p)' <=> Origin(p)
  BY <1>1 DEF Origin, ActiveOn
<1> SUFFICES /\ \A i \in 1 .. N : (i > hi' /\ ~(i > hi)) => Served(vmList[i])'
             /\ Supply'
  BY <1>1, OnwardInv
<1>5. CASE ShrinkSkip
  <2>1. UNCHANGED <<hi, phase>> /\ phase = "shrink"
    BY <1>5 DEF ShrinkSkip
  <2> QED
    BY <1>1, <1>3, <1>4, <2>1 DEF Supply
<1>6. CASE ShrinkEnd
  <2>1. hi = N /\ hi' = N /\ phase' = "expand" /\ phase = "shrink"
    BY <1>1, <1>6 DEF ShrinkEnd, IInv, Below
  <2> QED
    BY <1>1, <1>3, <1>4, <2>1 DEF Supply
<1>7. CASE ExpandSkip
  <2>1. hi \in 1 .. N /\ hi' = hi - 1 /\ UNCHANGED phase /\ phase = "expand" /\ vmList[hi] \in undergo
    BY <1>2, <1>7 DEF ExpandSkip
  <2>2. \A i \in 1 .. N : (i > hi' /\ ~(i > hi)) => i = hi
    BY <1>2, <2>1
  <2>3. ASSUME NEW i \in 1 .. N, i = hi PROVE Served(vmList[i])'
    BY <1>1, <2>1, <2>3 DEF Served
  <2>4. Supply'
    BY <1>1, <1>3, <1>4, <2>1 DEF Supply
  <2> QED
    BY <1>1, <2>2, <2>3, <2>4
<1>8. CASE ExpandAbort \/ TradeAbort
  <2>1. phase' = "aborted" /\ hi' = hi
    BY <1>8 DEF ExpandAbort, TradeAbort
  <2> QED
    BY <2>1 DEF Supply
<1>9. CASE ExpandEnd
  <2>1. hi' = hi /\ phase' \in {"trade", "done"} /\ (phase' = "trade" => freeQ = <<>>)
    BY <1>9 DEF ExpandEnd
  <2>2. ASSUME phase' = "done", NEW i \in 1 .. hi PROVE score[vmList[i]] <= 0
    <3>1. hi \in 1 .. N /\ score[vmList[hi]] <= 0 /\ i \in 1 .. N
      BY <1>2, <1>9, <2>2 DEF ExpandEnd
    <3>2. CASE i = hi
      BY <3>1, <3>2
    <3>3. CASE i # hi
      <4>1. i < hi
        BY <3>3, <1>2
      <4>2. score[vmList[i]] <= score[vmList[hi]]
        BY <4>1, <3>1, <1>3 DEF Sorted
      <4> QED
        BY <4>2, <3>1, <1>2
    <3> QED
      BY <3>2, <3>3
  <2> QED
    BY <1>1, <2>1, <2>2 DEF Supply
<1>10. CASE TradeSkip
  <2>1. UNCHANGED <<hi, phase>> /\ phase = "trade"
    BY <1>10 DEF TradeSkip, Trading
  <2> QED
    BY <1>1, <1>3, <2>1 DEF Supply
<1>11. CASE TradeEnd
  <2>1. hi' = hi /\ phase = "trade" /\ phase' = "done"
    BY <1>11 DEF TradeEnd
  <2> QED
    BY <1>1, <1>3, <2>1 DEF Supply
<1> QED
  BY <1>5, <1>6, <1>7, <1>8, <1>9, <1>10, <1>11 DEF Move

\* The node a VM gives up was enabled, so that its physical node is one of a
\* VM with a negative score.
LEMMA ShrinkOneOrder == ASSUME IInv, OInv, ShrinkOne, UNCHANGED inputs PROVE OInv'
<1>1. Planning /\ phase = "shrink" /\ UNCHANGED <<score, vmList, hi, phase>>
  BY DEF ShrinkOne, Planning
<1>2. /\ N \in Nat /\ lo \in 1 .. N /\ hi = N
      /\ \A i \in 1 .. N : vmList[i] \in Vm /\ score[vmList[i]] \in Int
  BY <1>1, Listed DEF ShrinkOne, IInv, Below
<1> DEFINE vm == vmList[lo]
<1>3. vm \in Vm /\ score[vm] < 0 /\ vm \in Separated /\ Cardinality(newSys[vm]) > 1
  BY <1>1, <1>2 DEF ShrinkOne, IInv, Below, Untouched
<1>4. PICK v \in MaxVnodes(vm) :
         rank' = [rank EXCEPT ![vm][v] = -200] /\ freeQ' = Append(freeQ, PnodeOf[vm][v])
  BY DEF ShrinkOne
<1>5. v \in Vnode /\ v \in topoSys[vm]
  <2>1. v \in VnodesOf(vm) /\ rank[vm][v] >= 0
    BY <1>1, <1>3, PickedNode
  <2> QED
    BY <2>1, <1>1, <1>3, NodesInVnode DEF OInv, RankedEnabled
<1>6. rank \in [Vm -> [Vnode -> Int]] /\ freeQ \in Seq(Pnode)
  BY DEF IInv, TypeOK
<1>7. \A u \in Vm : \A w \in Vnode : rank'[u][w] >= 0 => rank[u][w] >= 0
  BY <1>3, <1>4, <1>5, <1>6
<1>8. Supply'
  <2>1. vm \in ActiveOn(PnodeOf[vm][v])
    BY <1>3, <1>5 DEF ActiveOn
  <2>2. Origin(PnodeOf[vm][v])
    BY <2>1, <1>3 DEF Origin
  <2>3. \A k \in 1 .. Len(freeQ) : Origin(freeQ[k])
    BY <1>1 DEF OInv, Supply
  <2>4. PnodeOf[vm][v] \in Pnode
    BY <1>1, <1>3, <1>5, PnodeOfAssumption DEF IInv, LegalInputs
  <2>5. \A k \in 1 .. Len(freeQ') : Origin(freeQ'[k])
    BY <1>4, <1>6, <2>2, <2>3, <2>4
  <2>6. \A p : Origin(p)' <=> Origin(p)
    BY <1>1 DEF Origin, ActiveOn, inputs
  <2> QED
    BY <1>1, <2>5, <2>6 DEF Supply
<1> QED
  BY <1>1, <1>2, <1>7, <1>8, OnwardInv

\* The VM at hi is given a free node.
LEMMA ExpandOneOrder == ASSUME IInv, OInv, ExpandOne, UNCHANGED inputs PROVE OInv'
<1>1. /\ Planning /\ phase = "expand" /\ UNCHANGED <<score, rank, vmList, phase>>
      /\ freeQ # <<>> /\ freeQ' = Tail(freeQ) /\ hi' = hi - 1 /\ hi >= 1 /\ score[vmList[hi]] > 0
  BY DEF ExpandOne, MayExpand, Planning
<1>2. /\ N \in Nat /\ hi \in 1 .. N
      /\ \A i \in 1 .. N : vmList[i] \in Vm /\ score[vmList[i]] \in Int
  BY <1>1, Listed
<1> DEFINE vm == vmList[hi]
<1>3. PICK w \in PnodeToVnode(vm, Head(freeQ)) : newSys' = [newSys EXCEPT ![vm] = @ \cup {w}]
  BY DEF ExpandOne
<1>4. /\ freeQ \in Seq(Pnode) /\ Head(freeQ) = freeQ[1] /\ 1 \in 1 .. Len(freeQ)
      /\ \A k \in 1 .. Len(freeQ') : k + 1 \in 1 .. Len(freeQ) /\ freeQ'[k] = freeQ[k + 1]
  <2>1. freeQ \in Seq(Pnode)
    BY DEF IInv, TypeOK
  <2> QED
    BY <2>1, <1>1
<1>5. Supply
  BY <1>1 DEF OInv
<1>6. newSys \in [Vm -> SUBSET Vnode]
  BY DEF IInv, TypeOK
<1>7. newSys'[vm] = newSys[vm] \cup {w} /\ \A u \in Vm : newSys[u] \subseteq newSys'[u]
  BY <1>2, <1>3, <1>6
<1>8. ASSUME NEW i \in 1 .. N, i = hi PROVE Served(vmList[i])'
  <2>1. Origin(Head(freeQ))
    BY <1>1, <1>4, <1>5 DEF Supply
  <2>2. \/ ActiveOn(Head(freeQ)) = {}
        \/ \E u \in ActiveOn(Head(freeQ)) : u # vm
    BY <2>1, <1>1, <1>2 DEF Origin
  <2>3. \A u \in Vm : newSys'[u] = newSys[u] \cup {w} /\ w \in PnodeToVnode(u, Head(freeQ))
            /\ (\/ ActiveOn(Head(freeQ)) = {}
                \/ \E x \in ActiveOn(Head(freeQ)) : x # u) => Served(u)'
    BY <1>1, GivenServed
  <2> QED
    BY <2>2, <2>3, <1>1, <1>2, <1>3, <1>7, <1>8
<1>9. Supply'
  <2>1. \A p : Origin(p)' <=> Origin(p)
    BY <1>1 DEF Origin, ActiveOn, inputs
  <2>2. \A k \in 1 .. Len(freeQ') : Origin(freeQ'[k])
    BY <1>1, <1>4, <1>5 DEF Supply
  <2> QED
    BY <1>1, <2>1, <2>2 DEF Supply
<1>10. \A i \in 1 .. N : (i > hi' /\ ~(i > hi)) => i = hi
  BY <1>1, <1>2
<1>11. \A i \in 1 .. N : (i > hi' /\ ~(i > hi)) => Served(vmList[i])'
  BY <1>1, <1>8, <1>10
<1> QED
  BY <1>1, <1>2, <1>7, <1>9, <1>11, OnwardInv

\* The VM at hi takes a node from the VM at lo, which has a node there.
LEMMA TradeOneOrder == ASSUME IInv, OInv, TradeOne, UNCHANGED inputs PROVE OInv'
<1>1. /\ Planning /\ phase = "trade" /\ UNCHANGED <<score, vmList, phase, freeQ>>
      /\ hi' = hi - 1 /\ lo < hi /\ Cardinality(newSys[vmList[lo]]) > 1
  BY DEF TradeOne, MayTrade, Trading, Planning
<1>2. /\ N \in Nat /\ lo \in 1 .. N /\ hi \in 1 .. N
      /\ \A i \in 1 .. N : vmList[i] \in Vm /\ score[vmList[i]] \in Int
  BY <1>1, Listed
<1> DEFINE plus == vmList[hi]
           minus == vmList[lo]
<1>3. /\ plus \in Vm /\ minus \in Vm /\ minus \in Separated
      /\ \A i \in 1 .. N : i > hi => vmList[i] # minus
      /\ plus # minus
  BY <1>1, <1>2 DEF IInv, Below, Distinct
<1>4. PICK v \in MaxVnodes(minus) :
         /\ v \in VnodesOf(plus) /\ rank' = [rank EXCEPT ![plus][v] = -200]
         /\ \E w \in PnodeToVnode(plus, PnodeOf[minus][v]) :
               newSys' = [newSys EXCEPT ![minus] = @ \ {v}, ![plus] = @ \cup {w}]
  BY DEF TradeOne
<1>5. PICK w \in PnodeToVnode(plus, PnodeOf[minus][v]) :
         newSys' = [newSys EXCEPT ![minus] = @ \ {v}, ![plus] = @ \cup {w}]
  BY <1>4
<1>6. v \in topoSys[minus] /\ v \in Vnode
  <2>1. v \in VnodesOf(minus) /\ rank[minus][v] >= 0
    BY <1>1, <1>3, PickedNode
  <2> QED
    BY <2>1, <1>1, <1>3, NodesInVnode DEF OInv, RankedEnabled
<1>7. /\ newSys \in [Vm -> SUBSET Vnode] /\ rank \in [Vm -> [Vnode -> Int]]
  BY DEF IInv, TypeOK
<1>8. /\ newSys'[plus] = newSys[plus] \cup {w}
      /\ \A u \in Vm : u # minus => newSys[u] \subseteq newSys'[u]
  BY <1>3, <1>5, <1>7
<1>9. \A u \in Vm : \A x \in Vnode : rank'[u][x] >= 0 => rank[u][x] >= 0
  BY <1>3, <1>4, <1>6, <1>7
<1>10. ASSUME NEW i \in 1 .. N, i = hi PROVE Served(vmList[i])'
  <2>1. minus \in ActiveOn(PnodeOf[minus][v]) /\ minus # plus
    BY <1>3, <1>6 DEF ActiveOn
  <2>2. \A u \in Vm : \A p : newSys'[u] = newSys[u] \cup {w} /\ w \in PnodeToVnode(u, p)
            /\ (\E x \in ActiveOn(p) : x # u) => Served(u)'
    BY <1>1, GivenServed
  <2> QED
    BY <2>1, <2>2, <1>1, <1>3, <1>5, <1>8, <1>10
<1>11. \A i \in 1 .. N : (i > hi' /\ ~(i > hi)) => i = hi
  BY <1>1, <1>2
<1>12. \A i \in 1 .. N : (i > hi' /\ ~(i > hi)) => Served(vmList[i])'
  BY <1>1, <1>10, <1>11
<1>13. Supply'
  BY <1>1 DEF OInv, Supply
<1> QED
  BY <1>1, <1>2, <1>3, <1>8, <1>9, <1>12, <1>13, OnwardInv

\* Every step of the planner keeps the invariant.
LEMMA NextOrder == ASSUME IInv, OInv, [Next]_vars PROVE OInv'
<1>1. CASE UNCHANGED vars
  <2> USE <1>1 DEF vars, inputs, work
  <2>1. CASE Planning
    <3>1. Supply'
      BY <2>1 DEF OInv, Supply, Origin, ActiveOn
    <3> QED
      BY <2>1, <3>1, OnwardInv
  <2>2. CASE ~Planning
    BY <2>2 DEF OInv, Planning
  <2> QED
    BY <2>1, <2>2
<1>2. CASE Next
  BY <1>2, StartOrder, MovesOrder, ShrinkOneOrder, ExpandOneOrder, TradeOneOrder
  DEF Next, Step, Move
<1> QED
  BY <1>1, <1>2

\* Whom the planner has passed it has served.
THEOREM OrderInvariant == Spec => [](IInv /\ OInv)
<1>1. Init => IInv /\ OInv
  BY InitInv, InitOrder
<1>2. IInv /\ OInv /\ [Next]_vars => IInv' /\ OInv'
  BY NextInv, NextOrder
<1> QED
  BY <1>1, <1>2, PTL DEF Spec

\* Every VM is in the list.
LEMMA InList ==
    ASSUME IInv, Planning, NEW vm \in Vm
    PROVE  \E i \in 1 .. N : vmList[i] = vm
<1>1. N \in Nat /\ vmList \in [1 .. N -> Vm]
  BY NType DEF IInv, TypeOK, Planning
<1>2. vmList \in Injection(1 .. N, Vm)
  BY <1>1 DEF IInv, Distinct, Injection, IsInjective
<1>3. Cardinality(1 .. N) = N
  BY <1>1, FS_Interval
<1>4. vmList \in Surjection(1 .. N, Vm)
  BY <1>1, <1>2, <1>3, VmAssumption, FS_Injection DEF N
<1> QED
  BY <1>4 DEF Surjection

\* Nodes go to the VMs with the greatest scores first, whether they were free
\* or are taken from others (max_topo_change_net_gain_func).
THEOREM HungriestFirst == Spec => []PriorityOrder
<1>1. IInv /\ OInv => PriorityOrder
  <2> SUFFICES ASSUME IInv, OInv, Planning, NEW a \in Vm, NEW b \in Vm,
                      Grew(a), score[b] > score[a], b \notin undergo
               PROVE  Grew(b) \/ SharedBefore(b)
    BY DEF PriorityOrder
  <2>1. PICK i \in 1 .. N : vmList[i] = a
    BY InList
  <2>2. PICK j \in 1 .. N : vmList[j] = b
    BY InList
  <2>3. /\ N \in Nat /\ hi \in 0 .. N /\ score[a] \in Int /\ score[b] \in Int
    BY <2>1, <2>2, Listed
  <2>4. i > hi
    <3>1. a \notin Separated
      BY DEF Separated, Grew
    <3> QED
      BY <3>1, <2>1, <2>3 DEF IInv, Below
  <2>5. j > i
    <3>1. i # j
      BY <2>1, <2>2, <2>3
    <3>2. ~(j < i)
      BY <2>1, <2>2, <2>3 DEF OInv, Sorted
    <3> QED
      BY <3>1, <3>2
  <2>6. Served(b)
    BY <2>2, <2>3, <2>4, <2>5 DEF OInv, PassedServed
  <2> QED
    BY <2>6 DEF Served
<1> QED
  BY <1>1, OrderInvariant, PTL

\* A physical node stays free only if every settled VM that asks for one was
\* served (the expansion of max_topo_change_net_gain_func).
THEOREM NothingKeptBack == Spec => []WorkConserving
<1>1. IInv /\ OInv => WorkConserving
  <2> SUFFICES ASSUME IInv, OInv, phase = "done", freeQ # <<>>,
                      NEW vm \in Vm \ undergo, score[vm] > 0
               PROVE  Grew(vm) \/ SharedBefore(vm)
    BY DEF WorkConserving
  <2>1. Planning
    BY DEF Planning
  <2>2. PICK i \in 1 .. N : vmList[i] = vm
    BY <2>1, InList
  <2>3. N \in Nat /\ hi \in 0 .. N /\ score[vm] \in Int
    BY <2>1, <2>2, Listed
  <2>4. i > hi
    BY <2>1, <2>2, <2>3 DEF OInv, Supply
  <2>5. Served(vm)
    BY <2>1, <2>2, <2>4 DEF OInv, PassedServed
  <2> QED
    BY <2>5 DEF Served
<1> QED
  BY <1>1, OrderInvariant, PTL
=============================================================================
