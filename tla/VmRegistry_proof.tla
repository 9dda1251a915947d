--------------------------- MODULE VmRegistry_proof ---------------------------
(***************************************************************************)
(* The two paths to the node objects, for every set of guests and nodes.   *)
(* vm::update_vnode_map deletes nodes without unregistering them, so that  *)
(* the paths may disagree within a round; but then a queue has lost its    *)
(* node, and the assertion that fills the maps ends the daemon before the  *)
(* next round would meet the difference.                                   *)
(***************************************************************************)
EXTENDS VmRegistry, TLAPS

\* What a physical node knows of a VM is an object the VM has there.
Agree(vm) ==
    \A p \in Pnode : pnodeMap[p][vm] \in
        {None} \cup {Object(vm, v) : v \in {w \in Nodes(vm) : PnodeOf[w] = p}}

\* Every queue ever made for a node of the VM is that of a node it has.
Whole(vm) == sampled[vm] \subseteq Nodes(vm)

\* Every node has had a queue.
Sampled == \A vm \in Vm : Nodes(vm) \subseteq sampled[vm]

\* The paths disagree only where a queue has lost its node.
Agreement == \A vm \in Vm : Whole(vm) => Agree(vm)

\* No VM enters a round, or waits in it for its turn, with such a queue.
WholeBefore ==
    /\ phase = "idle" => \A vm \in Vm : Whole(vm)
    /\ phase = "update" => (\A vm \in Vm \ current : Whole(vm)) /\ dir \cap current = {}
    /\ phase = "obsolete" => \A vm \in vmMap \ current : Whole(vm)

\* Without guests that end, and reads that fail, during a round: all paths
\* agree, and the VMs of this round are registered with all they have.
Registering(vm) == \A v \in Nodes(vm) : <<vm, v>> \in updated /\ pnodeMap[PnodeOf[v]][vm] # None
Quiet ==
    ~races => /\ phase = "update" => dir \subseteq store
              /\ \A vm \in Vm : Agree(vm)
              /\ current \subseteq vmMap
              /\ \A vm \in current : Registering(vm)

IInv == TypeOK /\ Sampled /\ Agreement /\ WholeBefore /\ Quiet
-----------------------------------------------------------------------------
\* Before the first round there are no objects.
LEMMA InitInv == Init => IInv
<1> SUFFICES ASSUME Init PROVE IInv
  OBVIOUS
<1>1. TypeOK
  BY RegistryAssumption DEF Init, TypeOK, NoNodes
<1>2. \A vm \in Vm : Nodes(vm) = {} /\ sampled[vm] = {} /\ Agree(vm)
  BY DEF Init, Nodes, NoNodes, Agree
<1> QED
  BY <1>1, <1>2 DEF Init, IInv, Sampled, Agreement, Whole, WholeBefore, Quiet

\* What the invariant says of objects and entries depends on these variables.
LEMMA SamePaths ==
    ASSUME UNCHANGED <<vnodeMap, pnodeMap, sampled>>
    PROVE  /\ Sampled' = Sampled /\ Agreement' = Agreement
           /\ \A vm \in Vm : Whole(vm)' = Whole(vm) /\ Agree(vm)' = Agree(vm)
           /\ updated' = updated => \A vm \in Vm : Registering(vm)' = Registering(vm)
BY DEF Sampled, Agreement, Whole, Agree, Nodes, Object, Registering

\* An object's number is that of one that was made.
LEMMA ObjectForType ==
    ASSUME TypeOK, NEW vm \in Vm, NEW v \in Vnode
    PROVE  /\ vnodeMap[vm][v] \in Nat /\ ObjectFor(vm, v) \in Nat \ {0}
           /\ v \in Nodes(vm) <=> vnodeMap[vm][v] > 0
           /\ v \in Nodes(vm) => ObjectFor(vm, v) = vnodeMap[vm][v]
<1>1. vnodeMap[vm][v] \in Nat /\ births[vm][v] \in Nat
  BY RegistryAssumption DEF TypeOK
<1> QED
  BY <1>1 DEF ObjectFor, Nodes

\* Registering the listed nodes: the entries of a VM that agreed with its
\* objects agree with the new ones, if it loses none.
LEMMA RegisteredAgrees ==
    ASSUME TypeOK, NEW vm \in Vm, Agree(vm), NEW listed \in SUBSET Vnode,
           NEW new, \A v \in listed : new[v] = ObjectFor(vm, v),
           \A v \in Nodes(vm) : new[v] = vnodeMap[vm][v],
           NEW p \in Pnode, Registered(vm, listed)[p][vm] # None
    PROVE  \E v \in Nodes(vm) \cup listed :
               PnodeOf[v] = p /\ Registered(vm, listed)[p][vm] = <<vm, v, new[v]>>
<1> DEFINE here == {v \in listed : PnodeOf[v] = p}
           entry == Registered(vm, listed)[p][vm]
<1>1. CASE here = {} \/ pnodeMap[p][vm] # None
  <2>1. entry = pnodeMap[p][vm]
    BY <1>1 DEF Registered
  <2>2. PICK v \in Nodes(vm) : PnodeOf[v] = p /\ entry = Object(vm, v)
    BY <2>1 DEF Agree
  <2> QED
    BY <2>2 DEF Object
<1>2. CASE here # {} /\ pnodeMap[p][vm] = None
  <2> DEFINE v == CHOOSE w \in here : TRUE
  <2>1. v \in here
    BY <1>2
  <2>2. pnodeMap[p] \in [Vm -> {None} \cup (Vm \X Vnode \X (1 .. MaxBirths))]
    BY DEF TypeOK
  <2>3. entry = <<vm, v, ObjectFor(vm, v)>>
    BY <1>2, <2>2 DEF Registered
  <2> QED
    BY <2>1, <2>3
<1> QED
  BY <1>1, <1>2

\* A listed node is registered.
LEMMA RegisteredAll ==
    ASSUME TypeOK, NEW vm \in Vm, NEW listed \in SUBSET Vnode, NEW v \in listed
    PROVE  Registered(vm, listed)[PnodeOf[v]][vm] # None
<1> DEFINE p == PnodeOf[v]
           here == {w \in listed : PnodeOf[w] = p}
<1>1. p \in Pnode /\ v \in here
  BY RegistryAssumption
<1>2. pnodeMap[p] \in [Vm -> {None} \cup (Vm \X Vnode \X (1 .. MaxBirths))]
  BY <1>1 DEF TypeOK
<1>3. CASE pnodeMap[p][vm] # None
  BY <1>1, <1>3 DEF Registered
<1>4. CASE pnodeMap[p][vm] = None
  <2>1. Registered(vm, listed)[p][vm] =
            <<vm, CHOOSE w \in here : TRUE, ObjectFor(vm, CHOOSE w \in here : TRUE)>>
    BY <1>1, <1>2, <1>4 DEF Registered
  <2> QED
    BY <2>1 DEF None
<1> QED
  BY <1>3, <1>4

\* Registering the nodes of a VM leaves the entries of the others.
LEMMA RegisteredOthers ==
    ASSUME TypeOK, NEW vm \in Vm, NEW listed \in SUBSET Vnode,
           \A v \in listed : ObjectFor(vm, v) <= MaxBirths
    PROVE  /\ \A p \in Pnode, w \in Vm \ {vm} : Registered(vm, listed)[p][w] = pnodeMap[p][w]
           /\ Registered(vm, listed) \in [Pnode -> [Vm -> {None} \cup (Vm \X Vnode \X (1 .. MaxBirths))]]
<1> DEFINE Entry == {None} \cup (Vm \X Vnode \X (1 .. MaxBirths))
<1>1. ASSUME NEW p \in Pnode
      PROVE  /\ \A w \in Vm \ {vm} : Registered(vm, listed)[p][w] = pnodeMap[p][w]
             /\ Registered(vm, listed)[p] \in [Vm -> Entry]
  <2> DEFINE here == {v \in listed : PnodeOf[v] = p}
             v == CHOOSE w \in here : TRUE
  <2>1. pnodeMap[p] \in [Vm -> Entry]
    BY DEF TypeOK
  <2>2. CASE here = {} \/ pnodeMap[p][vm] # None
    BY <2>1, <2>2 DEF Registered
  <2>3. CASE ~(here = {} \/ pnodeMap[p][vm] # None)
    <3>1. Registered(vm, listed)[p] = [pnodeMap[p] EXCEPT ![vm] = <<vm, v, ObjectFor(vm, v)>>]
      BY <2>3 DEF Registered
    <3>2. v \in listed
      BY <2>3
    <3>3. ObjectFor(vm, v) \in 1 .. MaxBirths
      BY <3>2, ObjectForType, RegistryAssumption
    <3>4. <<vm, v, ObjectFor(vm, v)>> \in Entry
      BY <3>2, <3>3
    <3> QED
      BY <2>1, <3>1, <3>4
  <2> QED
    BY <2>2, <2>3
<1> QED
  BY <1>1 DEF Registered
-----------------------------------------------------------------------------
\* Steps outside of the round.
LEMMA OutsideInv ==
    ASSUME IInv, NEW vm \in Vm,
           GuestStarts(vm) \/ GuestEnds(vm) \/ \E v \in Vnode : ChangeNode(vm, v)
    PROVE  IInv'
<1>1. /\ UNCHANGED <<races, vmMap, vnodeMap, births, pnodeMap, owner, current, updated, dir, todo,
                     sampled, phase>>
      /\ phase = "idle" \/ races
  BY DEF GuestStarts, GuestEnds, ChangeNode, objects, links, round
<1>2. TypeOK'
  <2>1. store' \subseteq Vm
    BY DEF GuestStarts, GuestEnds, ChangeNode, IInv, TypeOK
  <2>2. enabled' \in [Vm -> SUBSET Vnode]
    BY DEF GuestStarts, GuestEnds, ChangeNode, objects, IInv, TypeOK
  <2> QED
    BY <1>1, <2>1, <2>2 DEF IInv, TypeOK
<1>3. UNCHANGED <<vnodeMap, pnodeMap, sampled>>
  BY <1>1
<1>4. WholeBefore'
  BY <1>1, <1>3, SamePaths DEF IInv, WholeBefore, TypeOK
<1>5. ASSUME ~races PROVE Quiet'
  <2>1. phase' = "idle"
    BY <1>1, <1>5
  <2>2. \A w \in Vm : Agree(w)'
    BY <1>3, <1>5, SamePaths DEF IInv, Quiet
  <2>3. current \subseteq Vm /\ \A w \in current : Registering(w)
    BY <1>5 DEF IInv, Quiet, TypeOK
  <2>4. \A w \in current' : Registering(w)'
    BY <1>1, <1>3, <2>3, SamePaths
  <2>5. current' \subseteq vmMap'
    BY <1>1, <1>5 DEF IInv, Quiet
  <2> QED
    BY <2>1, <2>2, <2>4, <2>5 DEF Quiet
<1>6. Quiet'
  BY <1>1, <1>5 DEF Quiet
<1>7. Sampled' /\ Agreement'
  BY <1>3, SamePaths DEF IInv
<1> QED
  BY <1>2, <1>4, <1>6, <1>7 DEF IInv

\* The guests are listed: no VM is of this round yet.
LEMMA ListInv == ASSUME IInv, List PROVE IInv'
<1>1. /\ phase = "idle" /\ phase' = "update" /\ current' = {} /\ updated' = {}
      /\ dir' \subseteq store /\ UNCHANGED <<races, store, objects, links, todo, sampled>>
  BY DEF List, Listing
<1>2. TypeOK'
  BY <1>1 DEF IInv, TypeOK, objects, links
<1>3. UNCHANGED <<vnodeMap, pnodeMap, sampled>>
  BY <1>1 DEF objects, links
<1> QED
  BY <1>1, <1>2, <1>3, SamePaths DEF IInv, WholeBefore, Quiet, objects

\* A VM is updated.
LEMMA UpdateVmInv == ASSUME IInv, NEW vm \in Vm, UpdateVm(vm) PROVE IInv'
<1>1. /\ phase = "update" /\ vm \in dir /\ vm \notin current /\ Whole(vm)
      /\ vmMap' = vmMap \cup {vm} /\ current' = current \cup {vm} /\ dir' = dir \ {vm}
      /\ UNCHANGED <<races, store, owner, todo, phase>>
  BY DEF UpdateVm, IInv, WholeBefore
<1> DEFINE Moves(listed, left) ==
      /\ \A v \in listed : ObjectFor(vm, v) <= MaxBirths
      /\ vnodeMap' = [vnodeMap EXCEPT ![vm] =
             [v \in Vnode |-> IF v \in listed THEN ObjectFor(vm, v)
                              ELSE IF v \in left THEN @[v] ELSE 0]]
      /\ births' = [births EXCEPT ![vm] =
             [v \in Vnode |-> IF v \in listed /\ ObjectFor(vm, v) > @[v]
                              THEN ObjectFor(vm, v) ELSE @[v]]]
      /\ enabled' = [enabled EXCEPT ![vm] =
             (@ \cap (listed \cup left)) \cup (listed \ Nodes(vm))]
      /\ pnodeMap' = Registered(vm, listed)
      /\ updated' = updated \cup {<<vm, v>> : v \in listed}
      /\ sampled' = [sampled EXCEPT ![vm] = @ \cup listed]
<1>0. PICK listed \in Listing(IF vm \in store THEN Vnode ELSE {}) :
          \E left \in LeftBehind(Nodes(vm) \ listed) : Moves(listed, left)
  BY DEF UpdateVm
<1>2. PICK left \in LeftBehind(Nodes(vm) \ listed) : Moves(listed, left)
  BY <1>0
<1>3. TypeOK
  BY DEF IInv
<1>4. listed \subseteq Vnode /\ left \subseteq Nodes(vm) \ listed /\ Nodes(vm) \subseteq Vnode
  BY DEF Listing, LeftBehind, Nodes
<1>5. \A v \in Vnode : vnodeMap'[vm][v] = IF v \in listed THEN ObjectFor(vm, v)
                                          ELSE IF v \in left THEN vnodeMap[vm][v] ELSE 0
  BY <1>2, <1>3 DEF TypeOK
<1>6. \A w \in Vm \ {vm} : vnodeMap'[w] = vnodeMap[w] /\ sampled'[w] = sampled[w]
  BY <1>2, <1>3 DEF TypeOK
<1>7. Nodes(vm)' = listed \cup left
  <2>1. \A v \in Vnode : vnodeMap'[vm][v] > 0 <=> v \in listed \cup left
    BY <1>4, <1>5, <1>3, ObjectForType
  <2> QED
    BY <2>1, <1>4 DEF Nodes
<1>8. \A w \in Vm \ {vm} : Nodes(w)' = Nodes(w) /\ \A v \in Vnode : Object(w, v)' = Object(w, v)
  BY <1>6 DEF Nodes, Object
<1>9. sampled'[vm] = sampled[vm] \cup listed
  BY <1>2, <1>3 DEF TypeOK
<1>10. /\ \A p \in Pnode, w \in Vm \ {vm} : pnodeMap'[p][w] = pnodeMap[p][w]
       /\ pnodeMap' \in [Pnode -> [Vm -> {None} \cup (Vm \X Vnode \X (1 .. MaxBirths))]]
  BY <1>2, <1>3, <1>4, RegisteredOthers
<1>11. TypeOK'
  <2>1. \A v \in Vnode : vnodeMap[vm][v] \in 0 .. MaxBirths /\ births[vm][v] \in 0 .. MaxBirths
    BY <1>3 DEF TypeOK
  <2>2. \A v \in listed : ObjectFor(vm, v) \in 0 .. MaxBirths
    BY <1>2, <1>3, <1>4, ObjectForType, RegistryAssumption
  <2>3. vnodeMap' \in [Vm -> [Vnode -> 0 .. MaxBirths]]
    <3>1. [v \in Vnode |-> IF v \in listed THEN ObjectFor(vm, v)
                           ELSE IF v \in left THEN vnodeMap[vm][v] ELSE 0]
              \in [Vnode -> 0 .. MaxBirths]
      BY <2>1, <2>2, RegistryAssumption
    <3> QED
      BY <3>1, <1>2, <1>3 DEF TypeOK
  <2>4. births' \in [Vm -> [Vnode -> 0 .. MaxBirths]]
    <3>1. [v \in Vnode |-> IF v \in listed /\ ObjectFor(vm, v) > births[vm][v]
                           THEN ObjectFor(vm, v) ELSE births[vm][v]]
              \in [Vnode -> 0 .. MaxBirths]
      BY <2>1, <2>2
    <3> QED
      BY <3>1, <1>2, <1>3 DEF TypeOK
  <2>5. enabled' \in [Vm -> SUBSET Vnode] /\ sampled' \in [Vm -> SUBSET Vnode]
    BY <1>2, <1>3, <1>4 DEF TypeOK
  <2>6. updated' \subseteq Vm \X Vnode
    BY <1>2, <1>3, <1>4 DEF TypeOK
  <2> QED
    BY <1>1, <1>3, <1>10, <2>3, <2>4, <2>5, <2>6 DEF TypeOK
<1>12. Sampled'
  <2>1. Nodes(vm)' \subseteq sampled'[vm]
    BY <1>4, <1>7, <1>9 DEF IInv, Sampled
  <2> QED
    BY <2>1, <1>6, <1>8 DEF IInv, Sampled
<1>13. \A w \in Vm \ {vm} : (Whole(w)' <=> Whole(w)) /\ (Agree(w)' <=> Agree(w))
  BY <1>6, <1>8, <1>10 DEF Whole, Agree, Nodes
<1>14. ASSUME Nodes(vm) \subseteq listed \cup left PROVE Agree(vm)'
  <2>1. Agree(vm)
    BY <1>1 DEF IInv, Agreement
  <2>2. /\ \A v \in listed : vnodeMap'[vm][v] = ObjectFor(vm, v)
        /\ \A v \in Nodes(vm) : vnodeMap'[vm][v] = vnodeMap[vm][v]
    BY <1>3, <1>4, <1>5, <1>14, ObjectForType
  <2>3. ASSUME NEW p \in Pnode, pnodeMap'[p][vm] # None
        PROVE  \E v \in Nodes(vm)' : PnodeOf[v] = p /\ pnodeMap'[p][vm] = Object(vm, v)'
    <3>1. \E v \in Nodes(vm) \cup listed :
              PnodeOf[v] = p /\ pnodeMap'[p][vm] = <<vm, v, vnodeMap'[vm][v]>>
      <4> DEFINE new == vnodeMap'[vm]
      <4>1. \A v \in listed : new[v] = ObjectFor(vm, v)
        BY <2>2
      <4>2. \A v \in Nodes(vm) : new[v] = vnodeMap[vm][v]
        BY <2>2
      <4> HIDE DEF new
      <4>3. \E v \in Nodes(vm) \cup listed :
                PnodeOf[v] = p /\ Registered(vm, listed)[p][vm] = <<vm, v, new[v]>>
        BY <1>2, <1>3, <1>4, <2>1, <2>3, <4>1, <4>2, RegisteredAgrees
      <4> QED
        BY <4>3, <1>2 DEF new
    <3> QED
      BY <3>1, <1>4, <1>7, <1>14 DEF Object
  <2> QED
    BY <2>3 DEF Agree
<1>15. Whole(vm)' => Agree(vm)'
  <2> SUFFICES ASSUME Whole(vm)' PROVE Nodes(vm) \subseteq listed \cup left
    BY <1>14
  <2> QED
    BY <1>7, <1>9 DEF Whole, IInv, Sampled
<1>16. Agreement'
  BY <1>13, <1>15 DEF IInv, Agreement
<1>17. WholeBefore'
  BY <1>1, <1>13 DEF IInv, WholeBefore
<1>18. Quiet'
  <2> SUFFICES ASSUME ~races PROVE Quiet'
    BY <1>1 DEF Quiet
  <2>1. listed = Vnode
    BY <1>1 DEF IInv, Quiet, Listing
  <2>2. Agree(vm)'
    BY <2>1, <1>4, <1>14
  <2>3. Registering(vm)'
    <3>1. ASSUME NEW v \in Vnode PROVE pnodeMap'[PnodeOf[v]][vm] # None
      BY <1>2, <1>3, <1>4, <2>1, RegisteredAll
    <3> QED
      BY <3>1, <2>1, <1>2, <1>4, <1>7 DEF Registering
  <2>4. ASSUME NEW w \in current, w # vm PROVE Registering(w)'
    <3>1. w \in Vm \ {vm} /\ Registering(w)
      BY <2>4, <1>3 DEF IInv, Quiet, TypeOK
    <3>2. \A v \in Nodes(w) : PnodeOf[v] \in Pnode
      BY RegistryAssumption DEF Nodes
    <3> QED
      BY <3>1, <3>2, <1>2, <1>8, <1>10 DEF Registering
  <2> QED
    BY <1>1, <1>13, <2>2, <2>3, <2>4 DEF IInv, Quiet
<1> QED
  BY <1>11, <1>12, <1>16, <1>17, <1>18 DEF IInv

\* A VM is deleted, after its nodes were unregistered.
LEMMA DeleteVmInv == ASSUME IInv, NEW vm \in Vm, DeleteVm(vm) PROVE IInv'
<1>1. /\ phase = "obsolete" /\ vm \in vmMap \ current /\ Whole(vm) /\ Agree(vm) /\ TypeOK
      /\ phase' \in {"obsolete", "pnodes", "killed"}
      /\ vmMap' = vmMap \ {vm} /\ pnodeMap' = Unregister(vm)
      /\ vnodeMap' = [vnodeMap EXCEPT ![vm] = NoNodes]
      /\ UNCHANGED <<races, store, births, owner, current, updated, dir, sampled>>
  BY DEF DeleteVm, Obsolete, IInv, WholeBefore, Agreement
<1>2. Nodes(vm)' = {} /\ \A w \in Vm \ {vm} : vnodeMap'[w] = vnodeMap[w]
  BY <1>1 DEF Nodes, NoNodes, TypeOK
<1>3. /\ \A p \in Pnode, w \in Vm \ {vm} : pnodeMap'[p][w] = pnodeMap[p][w]
      /\ \A p \in Pnode : pnodeMap'[p][vm] =
             IF \E v \in Nodes(vm) : PnodeOf[v] = p THEN None ELSE pnodeMap[p][vm]
      /\ pnodeMap' \in [Pnode -> [Vm -> {None} \cup (Vm \X Vnode \X (1 .. MaxBirths))]]
  BY <1>1 DEF Unregister, TypeOK
<1>4. Agree(vm)'
  <2>1. \A p \in Pnode : pnodeMap'[p][vm] = None
    BY <1>1, <1>3 DEF Agree
  <2> QED
    BY <2>1 DEF Agree
<1>5. \A w \in Vm \ {vm} : (Whole(w)' <=> Whole(w)) /\ (Agree(w)' <=> Agree(w))
  BY <1>1, <1>2, <1>3 DEF Whole, Agree, Nodes, Object
<1>6. TypeOK'
  <2>1. vnodeMap' \in [Vm -> [Vnode -> 0 .. MaxBirths]]
    BY <1>1, RegistryAssumption DEF TypeOK, NoNodes
  <2>2. enabled' \in [Vm -> SUBSET Vnode] /\ todo' \subseteq Pnode
    BY DEF DeleteVm, IInv, TypeOK
  <2> QED
    BY <1>1, <1>3, <2>1, <2>2 DEF TypeOK
<1>7. Sampled'
  BY <1>1, <1>2 DEF IInv, Sampled, Nodes
<1>8. Agreement'
  BY <1>4, <1>5 DEF IInv, Agreement
<1>9. WholeBefore'
  BY <1>1, <1>5 DEF IInv, WholeBefore, TypeOK
<1>10. Quiet'
  <2> SUFFICES ASSUME ~races PROVE Quiet'
    BY <1>1 DEF Quiet
  <2>1. ASSUME NEW w \in current PROVE Registering(w)'
    <3>1. w \in Vm \ {vm} /\ Registering(w)
      BY <1>1 DEF IInv, Quiet, TypeOK
    <3>2. \A v \in Nodes(w) : PnodeOf[v] \in Pnode
      BY RegistryAssumption DEF Nodes
    <3> QED
      BY <3>1, <3>2, <1>1, <1>2, <1>3 DEF Registering, Nodes
  <2> QED
    BY <1>1, <1>4, <1>5, <2>1 DEF IInv, Quiet
<1> QED
  BY <1>6, <1>7, <1>8, <1>9, <1>10 DEF IInv

\* A physical node drops entries: those of the VMs of this round stay.
LEMMA UpdatePnodeInv == ASSUME IInv, NEW p \in Pnode, UpdatePnode(p) PROVE IInv'
<1>1. /\ phase = "pnodes" /\ phase' \in {"pnodes", "maps", "killed"} /\ todo' = todo \ {p}
      /\ UNCHANGED <<races, store, objects, current, updated, dir, sampled>> /\ TypeOK
  BY DEF UpdatePnode, IInv
<1>2. PICK erased \in SUBSET Stale(p) :
          pnodeMap' = [pnodeMap EXCEPT ![p] =
                          [vm \in Vm |-> IF @[vm] \in erased THEN None ELSE @[vm]]]
  BY DEF UpdatePnode
<1>3. /\ \A q \in Pnode, vm \in Vm : pnodeMap'[q][vm] \in {None, pnodeMap[q][vm]}
      /\ \A q \in Pnode, vm \in Vm :
             pnodeMap'[q][vm] # pnodeMap[q][vm] => q = p /\ pnodeMap[q][vm] \in erased
      /\ pnodeMap' \in [Pnode -> [Vm -> {None} \cup (Vm \X Vnode \X (1 .. MaxBirths))]]
  BY <1>1, <1>2 DEF TypeOK
<1>4. UNCHANGED <<vmMap, vnodeMap, births, enabled>>
  BY <1>1 DEF objects
<1>5. TypeOK'
  BY <1>1, <1>3, <1>4 DEF TypeOK
<1>6. \A vm \in Vm : (Whole(vm)' <=> Whole(vm)) /\ (Agree(vm) => Agree(vm)')
  BY <1>1, <1>3, <1>4 DEF Whole, Agree, Nodes, Object
<1>7. ASSUME ~races, NEW vm \in current PROVE Registering(vm)'
  <2>1. vm \in Vm /\ vm \in vmMap /\ Agree(vm) /\ Registering(vm)
    BY <1>1, <1>7 DEF IInv, Quiet, TypeOK
  <2>2. ASSUME NEW v \in Nodes(vm) PROVE pnodeMap'[PnodeOf[v]][vm] # None
    <3> DEFINE q == PnodeOf[v]
    <3>1. v \in Vnode /\ q \in Pnode
      BY RegistryAssumption DEF Nodes
    <3>2. pnodeMap[q][vm] # None /\ <<vm, v>> \in updated
      BY <2>1 DEF Registering
    <3>3. PICK w \in Nodes(vm) : PnodeOf[w] = q /\ pnodeMap[q][vm] = Object(vm, w)
      BY <2>1, <3>1, <3>2 DEF Agree
    <3>4. pnodeMap[q][vm] = Object(vm, v)
      BY <3>1, <3>3, PlacementAssumption DEF Nodes
    <3>5. Object(vm, v) \in Live
      BY <2>1 DEF Live
    <3>6. ASSUME Object(vm, v) \in Stale(p) PROVE FALSE
      BY <3>2, <3>5, <3>6 DEF Stale, Object
    <3> QED
      BY <1>2, <1>3, <2>1, <3>1, <3>2, <3>4, <3>6
  <2> QED
    BY <1>1, <1>4, <2>1, <2>2 DEF Registering, Nodes
<1> QED
  BY <1>1, <1>4, <1>5, <1>6, <1>7 DEF IInv, Sampled, Agreement, WholeBefore, Quiet, Nodes

\* The other steps of the round change the phase only.
LEMMA PhaseInv ==
    ASSUME IInv, UpdateThrows \/ EndUpdate \/ EndObsolete \/ FillMaps \/ MapsAbort
    PROVE  IInv'
<1>1. UNCHANGED <<races, store, vmMap, vnodeMap, births, enabled, pnodeMap, owner, current,
                  updated, dir, sampled>>
  BY DEF UpdateThrows, EndUpdate, EndObsolete, FillMaps, MapsAbort, objects, links, round
<1>2. todo' \subseteq Pnode /\ phase' \in {"obsolete", "pnodes", "idle", "aborted", "killed"}
  BY DEF UpdateThrows, EndUpdate, EndObsolete, FillMaps, MapsAbort, round, IInv, TypeOK
<1>3. phase' = "obsolete" => phase = "update"
  BY DEF UpdateThrows, EndUpdate, EndObsolete, FillMaps, MapsAbort
<1>4. phase' = "idle" => \A vm \in Vm : Whole(vm)
  BY DEF UpdateThrows, EndUpdate, EndObsolete, FillMaps, MapsAbort, MapsFind, Whole
<1>5. TypeOK'
  BY <1>1, <1>2 DEF IInv, TypeOK
<1>6. WholeBefore'
  BY <1>1, <1>2, <1>3, <1>4, SamePaths DEF IInv, WholeBefore, TypeOK
<1>7. Sampled' /\ Agreement'
  BY <1>1, SamePaths DEF IInv
<1>8. ASSUME ~races PROVE Quiet'
  <2>1. \A vm \in Vm : Agree(vm)'
    BY <1>1, <1>8, SamePaths DEF IInv, Quiet
  <2>2. current \subseteq Vm /\ \A vm \in current : Registering(vm)
    BY <1>8 DEF IInv, Quiet, TypeOK
  <2>3. \A vm \in current' : Registering(vm)'
    BY <1>1, <2>2, SamePaths
  <2>4. current' \subseteq vmMap' /\ phase' # "update"
    BY <1>1, <1>2, <1>8 DEF IInv, Quiet
  <2> QED
    BY <2>1, <2>3, <2>4 DEF Quiet
<1>9. Quiet'
  BY <1>1, <1>8 DEF Quiet
<1> QED
  BY <1>5, <1>6, <1>7, <1>9 DEF IInv

\* Nothing happens.
LEMMA StutterInv == ASSUME IInv, UNCHANGED vars PROVE IInv'
BY SamePaths DEF vars, objects, links, round, IInv, TypeOK, WholeBefore, Quiet, Agreement

\* The invariant is inductive.
LEMMA StepInv == ASSUME IInv, [Next]_vars PROVE IInv'
BY OutsideInv, ListInv, UpdateVmInv, DeleteVmInv, UpdatePnodeInv, PhaseInv, StutterInv
   DEF Next, Round

\* Every reachable state of the registry satisfies IInv.
THEOREM Invariant == Spec => []IInv
<1>1. Init => IInv
  BY InitInv
<1>2. IInv /\ [Next]_vars => IInv'
  BY StepInv
<1> QED
  BY <1>1, <1>2, PTL DEF Spec

\* The objects, the pointers to them and the state of a round have their types.
THEOREM TypeCorrect == Spec => []TypeOK
<1>1. IInv => TypeOK
  BY DEF IInv
<1> QED
  BY <1>1, Invariant, PTL

\* The assertion of pnode::unregister_vnode holds.
THEOREM UnregisterSafe == Spec => []UnregisterAgrees
<1>1. IInv => UnregisterAgrees
  <2> SUFFICES ASSUME IInv, phase = "obsolete", NEW vm \in vmMap \ current, NEW v \in Nodes(vm)
               PROVE  pnodeMap[PnodeOf[v]][vm] \in {None, Object(vm, v)}
    BY DEF UnregisterAgrees, UnregisterFinds, Obsolete
  <2>1. vm \in Vm /\ Agree(vm)
    BY DEF IInv, TypeOK, WholeBefore, Agreement
  <2>2. v \in Vnode /\ PnodeOf[v] \in Pnode
    BY RegistryAssumption DEF Nodes
  <2> QED
    BY <2>1, <2>2, PlacementAssumption DEF Agree, Nodes
<1> QED
  BY <1>1, Invariant, PTL

\* The two paths to the node objects agree between rounds, if guests end and
\* start between rounds only and no read fails (update_vm_map).
THEOREM PathsSafe == Spec => []PathsAgree
<1>1. IInv => PathsAgree
  <2> SUFFICES ASSUME IInv, ~races, NEW p \in Pnode, NEW vm \in Vm
               PROVE  IF pnodeMap[p][vm] = None
                      THEN vm \in current => \A v \in Nodes(vm) : PnodeOf[v] # p
                      ELSE \E v \in Nodes(vm) : PnodeOf[v] = p /\ pnodeMap[p][vm] = Object(vm, v)
    BY DEF PathsAgree
  <2>1. Agree(vm) /\ (vm \in current => Registering(vm))
    BY DEF IInv, Quiet
  <2> QED
    BY <2>1 DEF Agree, Registering
<1> QED
  BY <1>1, Invariant, PTL
=============================================================================
