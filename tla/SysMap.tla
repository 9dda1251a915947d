------------------------------- MODULE SysMap -------------------------------
(***************************************************************************)
(* sys_map<T>: one datum for each virtual node, kept as a vector of        *)
(* records and two indices into it, by VM and virtual node (vm_map) and by *)
(* physical node and VM (pnode_map).  A map is filled anew in every round  *)
(* (update), made as large as another one (same_dimension_zero_fill), cut  *)
(* down to the nodes of a mask (prune), and written to through its views.  *)
(* What it holds is read through the indices by everything that decides.   *)
(*                                                                         *)
(* A nested unordered_map is a function on pairs of keys; an inner map     *)
(* that is empty is the same as none.  Places count from 1 here.           *)
(***************************************************************************)
EXTENDS Integers, Sequences, FiniteSets

CONSTANTS
    Vm, Vnode, Pnode,
    PnodeOf,  \* PnodeOf[vm][v]: the physical node of v, for each node v of vm
    Data,     \* the data that occur
    Scalars   \* the arguments of add and mul

ASSUME SysMapDataAssumption == Data \subseteq Int /\ 0 \in Data /\ Scalars \subseteq Int

\* Two nodes of a VM on one physical node would share a place in pnode_map.
ASSUME SysMapNodesAssumption ==
    /\ DOMAIN PnodeOf = Vm
    /\ \A vm \in Vm :
          /\ DOMAIN PnodeOf[vm] \subseteq Vnode
          /\ \A v \in DOMAIN PnodeOf[vm] : PnodeOf[vm][v] \in Pnode
          /\ \A v, w \in DOMAIN PnodeOf[vm] : PnodeOf[vm][v] = PnodeOf[vm][w] => v = w

\* The nodes of all VMs, and where they are.
Node == {k \in Vm \X Vnode : k[2] \in DOMAIN PnodeOf[k[1]]}
Place(k) == PnodeOf[k[1]][k[2]]

\* map_record
Record == [vm : Vm, vnode : Vnode, pnode : Pnode, data : Data]
NewRecord(k, d) == [vm |-> k[1], vnode |-> k[2], pnode |-> Place(k), data |-> d]

VmKey(r)    == <<r.vm, r.vnode>>
PnodeKey(r) == <<r.pnode, r.vm>>

VmKeys(q)    == [i \in 1 .. Len(q) |-> VmKey(q[i])]
PnodeKeys(q) == [i \in 1 .. Len(q) |-> PnodeKey(q[i])]

VARIABLES
    records,   \* the vector
    vmMap,     \* vm_map: places by VM and virtual node
    pnodeMap,  \* pnode_map: places by physical node and VM
    op,        \* "idle", or what is under way: "update", "fill", "prune"
    todo,      \* the nodes that the loops of op still go to
    mask,      \* topo_mask, the argument of fill and prune
    before     \* history: what the map held when prune was called

content == <<records, vmMap, pnodeMap>>
control == <<op, todo, mask, before>>
vars    == <<content, control>>

Nothing == [k \in {} |-> 0]

Init ==
    /\ records = <<>> /\ vmMap = Nothing /\ pnodeMap = Nothing
    /\ op = "idle" /\ todo = {} /\ mask = Nothing /\ before = Nothing

\* The datum of node k, as vm_view reads it.
DataAt(k) == records[vmMap[k]].data

\* What the map holds.
Held == [k \in DOMAIN vmMap |-> DataAt(k)]

-----------------------------------------------------------------------------
\* index[k] = i
Assign(index, k, i) == [j \in DOMAIN index \cup {k} |-> IF j = k THEN i ELSE index[j]]

PushBack(r) ==
    /\ records' = Append(records, r)
    /\ vmMap' = Assign(vmMap, VmKey(r), Len(records) + 1)
    /\ pnodeMap' = Assign(pnodeMap, PnodeKey(r), Len(records) + 1)

Begin(name, nodes) == op' = name /\ todo' = nodes
Visit(k) == k \in todo /\ todo' = todo \ {k} /\ UNCHANGED <<op, mask, before>>

(* update: clear, then one push_back for each node there is data of *)

StartUpdate ==
    /\ op = "idle"
    /\ records' = <<>> /\ vmMap' = Nothing /\ pnodeMap' = Nothing
    /\ \E nodes \in SUBSET Node : Begin("update", nodes)
    /\ UNCHANGED <<mask, before>>

UpdateOne(k) ==
    /\ op = "update" /\ Visit(k)
    /\ \E d \in Data : PushBack(NewRecord(k, d))

(* same_dimension_zero_fill *)

StartFill ==
    /\ op = "idle"
    /\ \E nodes \in SUBSET Node : Begin("fill", nodes)
    /\ UNCHANGED <<content, mask, before>>

FillOne(k) ==
    /\ op = "fill" /\ Visit(k)
    /\ IF k \in DOMAIN vmMap THEN UNCHANGED content ELSE PushBack(NewRecord(k, 0))

(* prune: the lists of VMs and nodes that it goes through are copies; the   *)
(* order of the nodes is any, which includes the order VM by VM.            *)

\* The mask has every node of the map, or vm_view ends the daemon.
StartPrune ==
    /\ op = "idle"
    /\ Begin("prune", DOMAIN vmMap)
    /\ mask' \in UNION {[nodes -> {0, 1}] : nodes \in {S \in SUBSET Node : DOMAIN vmMap \subseteq S}}
    /\ before' = Held
    /\ UNCHANGED content

\* records.erase: what follows moves up.
Erased(q, i) == [j \in 1 .. Len(q) - 1 |-> IF j < i THEN q[j] ELSE q[j + 1]]

\* Mutant: the record that has moved up into the gap is left out.
ReindexedNext(index, from, keys) ==
    [k \in DOMAIN index |->
        IF \E i \in from + 1 .. Len(keys) : keys[i] = k
        THEN CHOOSE i \in from + 1 .. Len(keys) : keys[i] = k
        ELSE index[k]]

\* The loop over the records from place from on, which have moved up.
Reindexed(index, from, keys) ==
    [k \in DOMAIN index |->
        IF \E i \in from .. Len(keys) : keys[i] = k
        THEN CHOOSE i \in from .. Len(keys) : keys[i] = k
        ELSE index[k]]

Without(index, k) == [j \in DOMAIN index \ {k} |-> index[j]]

\* del_entry_vm_view
Delete(k) ==
    LET at   == vmMap[k]
        rest == Erased(records, at)
    IN  /\ records' = rest
        /\ vmMap' = Reindexed(Without(vmMap, k), at, VmKeys(rest))
        /\ pnodeMap' = Reindexed(Without(pnodeMap, PnodeKey(records[at])), at, PnodeKeys(rest))

\* Mutant: the nodes of the mask are the ones that go.
PruneOneInverse(k) ==
    /\ op = "prune" /\ Visit(k)
    /\ IF mask[k] = 0 THEN UNCHANGED content ELSE Delete(k)

PruneOne(k) ==
    /\ op = "prune" /\ Visit(k)
    /\ IF mask[k] = 0 THEN Delete(k) ELSE UNCHANGED content

Finish ==
    /\ op # "idle" /\ todo = {}
    /\ op' = "idle" /\ mask' = Nothing /\ before' = Nothing
    /\ UNCHANGED <<content, todo>>

(* writing *)

\* Mutant: the write reaches every node of the VM.
WriteVm(k, d) ==
    /\ op = "idle" /\ k \in DOMAIN vmMap
    /\ records' = [i \in DOMAIN records |->
                      IF records[i].vm = k[1] THEN [records[i] EXCEPT !.data = d] ELSE records[i]]
    /\ UNCHANGED <<vmMap, pnodeMap, control>>

\* vm_view(vm, vnode).data = d
Write(k, d) ==
    /\ op = "idle" /\ k \in DOMAIN vmMap
    /\ records' = [records EXCEPT ![vmMap[k]].data = d]
    /\ UNCHANGED <<vmMap, pnodeMap, control>>

\* A loop over all nodes that replaces each datum; bound: to one of Data.
Apply(f) ==
    /\ op = "idle"
    /\ \A k \in DOMAIN vmMap : f[DataAt(k)] \in Data
    /\ records' = [i \in DOMAIN records |-> [records[i] EXCEPT !.data = f[records[i].data]]]
    /\ UNCHANGED <<vmMap, pnodeMap, control>>

Negate == Apply([d \in Data |-> IF d = 0 THEN 1 ELSE 0])
Add(c) == Apply([d \in Data |-> d + c])
Mul(c) == Apply([d \in Data |-> d * c])

Next ==
    \/ StartUpdate \/ StartFill \/ StartPrune \/ Finish
    \/ \E k \in Node : UpdateOne(k) \/ FillOne(k) \/ PruneOne(k)
    \/ \E k \in Node, d \in Data : Write(k, d)
    \/ Negate \/ \E c \in Scalars : Add(c) \/ Mul(c)

Spec == Init /\ [][Next]_vars
-----------------------------------------------------------------------------
\* The type invariant.
NodeRecord == {r \in Record : VmKey(r) \in Node /\ r.pnode = Place(VmKey(r))}
TypeOK ==
    /\ records \in Seq(NodeRecord)
    /\ op \in {"idle", "update", "fill", "prune"}
    /\ todo \subseteq Node

\* The two indices agree with the records and so with each other: each record
\* is found at its place under both of its keys and nothing else is found, with
\* no place left stale by records that moved up (sys_map.h, del_entry_vm_view).
IndexedBy(index, keys) ==
    /\ DOMAIN index = {keys[i] : i \in DOMAIN keys}
    /\ \A i \in DOMAIN keys : index[keys[i]] = i

IndexExact == IndexedBy(vmMap, VmKeys(records)) /\ IndexedBy(pnodeMap, PnodeKeys(records))

\* A map that was pruned holds what it held before for the nodes of the mask
\* whose datum is not 0, and nothing else (sys_map.h, prune).
Kept(nodes) == [k \in {j \in DOMAIN before : j \in nodes \/ mask[j] # 0} |-> before[k]]
PruneExact == (op = "prune" /\ todo = {}) => Held = Kept({})

\* The map, seen through vm_view, is a function from nodes to data.
Abstract == INSTANCE NodeMap WITH map <- Held
ImplementsMap == Abstract!Spec
=============================================================================
