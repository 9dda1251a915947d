----------------------------- MODULE VmRegistry -----------------------------
(***************************************************************************)
(* update_vm_map of topo_change_d.cpp: once per round the daemon brings    *)
(* its vm and vnode objects in line with the store (xenstore), deletes the *)
(* obsolete ones, and lets every physical node pick the vnode that         *)
(* measures its memory bandwidth (owner_vnode).  The maps of the planner    *)
(* are then filled, for every node that ever had a queue of samples.       *)
(*                                                                         *)
(* vnode objects are reached by two paths, vm.vnode_map and                *)
(* pnode.vnode_map, and by pnode.owner_vnode.  An object is <<vm, v, g>>:  *)
(* the g-th object made for node v of vm; a pointer to an object that was  *)
(* deleted is kept as it is, so that its use can be seen.                  *)
(***************************************************************************)
EXTENDS Integers, FiniteSets

CONSTANTS
    Vm, Vnode, Pnode,
    PnodeOf,   \* PnodeOf[v]: the physical node of node v, for every guest
    MaxBirths  \* bound: objects made for a node of a VM

ASSUME RegistryAssumption ==
    /\ Vm \subseteq Nat \ {0} /\ IsFiniteSet(Vm)
    /\ PnodeOf \in [Vnode -> Pnode]
    /\ MaxBirths \in Nat

\* A physical node has one entry for each VM.
ASSUME PlacementAssumption == \A v, w \in Vnode : PnodeOf[v] = PnodeOf[w] => v = w

None == <<>>

VARIABLES
    store,     \* external: the guests that run, /local/domain
    races,     \* external: guests end, and reads of the store fail, during a
               \* round too; chosen at the start
    vmMap,     \* vm_map: the VMs with an object
    vnodeMap,  \* vnodeMap[vm][v]: number of the object of v, 0 if there is none
    births,    \* births[vm][v]: objects made so far
    enabled,   \* enabled[vm]: the nodes with vnode.enabled
    pnodeMap,  \* pnodeMap[p][vm]: the registered object, or None
    owner,     \* owner[p]: owner_vnode, or None
    current,   \* the VMs whose ts is that of this round
    updated,   \* the nodes <<vm, v>> whose ts is that of this round
    dir,       \* the VMs listed and not yet updated
    todo,      \* the physical nodes not yet updated in this round
    sampled,   \* sampled[vm]: the nodes with an entry in sample_queue::data_map
    phase

objects == <<vmMap, vnodeMap, births, enabled>>
links == <<pnodeMap, owner>>
round == <<current, updated, dir, todo, sampled>>
vars == <<store, races, objects, links, round, phase>>

Nodes(vm) == {v \in Vnode : vnodeMap[vm][v] > 0}
Object(vm, v) == <<vm, v, vnodeMap[vm][v]>>
Live == UNION {{Object(vm, v) : v \in Nodes(vm)} : vm \in vmMap}
NoNodes == [v \in Vnode |-> 0]

Init ==
    /\ store \in SUBSET Vm /\ races \in BOOLEAN
    /\ vmMap = {} /\ vnodeMap = [vm \in Vm |-> NoNodes]
    /\ births = [vm \in Vm |-> NoNodes]
    /\ enabled = [vm \in Vm |-> {}]
    /\ pnodeMap = [p \in Pnode |-> [vm \in Vm |-> None]]
    /\ owner = [p \in Pnode |-> None]
    /\ current = {} /\ updated = {} /\ dir = {} /\ todo = {}
    /\ sampled = [vm \in Vm |-> {}]
    /\ phase = "idle"

(* Outside of the daemon. *)

GuestEnds(vm) ==
    /\ vm \in store /\ (phase = "idle" \/ races)
    /\ phase \notin {"aborted", "killed"}
    /\ store' = store \ {vm}
    /\ UNCHANGED <<races, objects, links, round, phase>>

\* Domain ids are not used again: the daemon has made no object of the guest.
GuestStarts(vm) ==
    /\ vm \notin store \cup vmMap /\ \A v \in Vnode : births[vm][v] = 0
    /\ phase = "idle"
    /\ store' = store \cup {vm}
    /\ UNCHANGED <<races, objects, links, round, phase>>

\* Between two rounds the events of a plan change nodes (TopoDaemon).
ChangeNode(vm, v) ==
    /\ phase = "idle" /\ v \in Nodes(vm)
    /\ enabled' = [enabled EXCEPT ![vm] = IF v \in @ THEN @ \ {v} ELSE @ \cup {v}]
    /\ UNCHANGED <<races, store, vmMap, vnodeMap, births, links, round, phase>>

(* The round. *)

\* A listing that fails leaves the list empty.
Listing(S) == {S} \cup (IF races THEN {{}} ELSE {})

List ==
    /\ phase = "idle"
    /\ dir' \in Listing(store)
    /\ current' = {} /\ updated' = {}
    /\ phase' = "update"
    /\ UNCHANGED <<races, store, objects, links, todo, sampled>>

\* Mutant: an object is made for each node that is listed.
ObjectForNew(vm, v) == births[vm][v] + 1

ObjectFor(vm, v) == IF vnodeMap[vm][v] > 0 THEN vnodeMap[vm][v] ELSE births[vm][v] + 1

\* pnode::register_vnode: an entry of the VM that exists is left as it is.
Registered(vm, listed) ==
    [p \in Pnode |->
        LET here == {v \in listed : PnodeOf[v] = p} IN
        IF here = {} \/ pnodeMap[p][vm] # None THEN pnodeMap[p]
        ELSE LET v == CHOOSE w \in here : TRUE
             IN  [pnodeMap[p] EXCEPT ![vm] = <<vm, v, ObjectFor(vm, v)>>]]

\* An erase in a loop over the map that is erased from leaves the iterator
\* invalid: the loop goes on, or ends early, or the daemon is killed.
LeftBehind(S) == IF S = {} THEN {{}} ELSE SUBSET S \ {S}

\* vm::update_vnode_map: an object for each listed node that has none, all of
\* them registered, the objects of other nodes deleted but not unregistered.
UpdateVm(vm) ==
    /\ phase = "update" /\ vm \in dir
    /\ \E listed \in Listing(IF vm \in store THEN Vnode ELSE {}) :
       \E left \in LeftBehind(Nodes(vm) \ listed) :
          /\ \A v \in listed : ObjectFor(vm, v) <= MaxBirths
          /\ vnodeMap' = [vnodeMap EXCEPT ![vm] =
                 [v \in Vnode |-> IF v \in listed THEN ObjectFor(vm, v)
                                  ELSE IF v \in left THEN @[v] ELSE 0]]
          /\ births' = [births EXCEPT ![vm] =
                 [v \in Vnode |-> IF v \in listed /\ ObjectFor(vm, v) > @[v]
                                  THEN ObjectFor(vm, v) ELSE @[v]]]
          /\ enabled' = [enabled EXCEPT ![vm] =
                 (@ \cap (listed \cup left)) \cup (listed \ Nodes(vm))]
          /\ pnodeMap' = Registered(vm, listed)
          /\ updated' = updated \cup {<<vm, v>> : v \in listed}
          /\ sampled' = [sampled EXCEPT ![vm] = @ \cup listed]
    /\ vmMap' = vmMap \cup {vm}
    /\ current' = current \cup {vm}
    /\ dir' = dir \ {vm}
    /\ UNCHANGED <<races, store, owner, todo, phase>>

\* stoi of what could not be read throws, and nothing catches it.
UpdateThrows ==
    /\ phase = "update" /\ races /\ dir # {}
    /\ phase' = "killed"
    /\ UNCHANGED <<races, store, objects, links, round>>

EndUpdate ==
    /\ phase = "update" /\ dir = {}
    /\ phase' = "obsolete"
    /\ UNCHANGED <<races, store, objects, links, round>>

\* Mutant: the ts of a round is the same as that of the round before.
ObsoleteNever == {}

Obsolete == vmMap \ current

\* unregister_vnode, for each node of the VM.
Unregister(vm) ==
    [p \in Pnode |-> [pnodeMap[p] EXCEPT ![vm] =
        IF \E v \in Nodes(vm) : PnodeOf[v] = p THEN None ELSE @]]

\* pnode.cpp: assert(vnode_map[vm_id] == n), for each node of the VM
UnregisterFinds(vm) ==
    \A v \in Nodes(vm) : pnodeMap[PnodeOf[v]][vm] \in {None, Object(vm, v)}

DeleteVm(vm) ==
    /\ phase = "obsolete" /\ vm \in Obsolete
    /\ pnodeMap' = Unregister(vm)
    /\ vmMap' = vmMap \ {vm}
    /\ vnodeMap' = [vnodeMap EXCEPT ![vm] = NoNodes]
    /\ enabled' = [enabled EXCEPT ![vm] = {}]
    \* again an erase in the loop
    /\ phase' \in {"obsolete", "pnodes", "killed"}
    /\ todo' = IF phase' = "pnodes" THEN Pnode ELSE todo
    /\ UNCHANGED <<races, store, births, owner, current, updated, dir, sampled>>

EndObsolete ==
    /\ phase = "obsolete" /\ Obsolete = {}
    /\ phase' = "pnodes" /\ todo' = Pnode
    /\ UNCHANGED <<races, store, objects, links, current, updated, dir, sampled>>

Entries(p) == {pnodeMap[p][vm] : vm \in Vm} \ {None}

\* The ts of an object that was deleted may read as anything.
Stale(p) == {o \in Entries(p) : o \notin Live \/ <<o[1], o[2]>> \notin updated}

\* The owner is given up if its entry is erased, or seen to be disabled.
OwnerAfter(p, erased, seen) ==
    IF \/ owner[p] \in erased
       \/ owner[p] \in seen \cap Live /\ owner[p][2] \notin enabled[owner[p][1]]
    THEN None ELSE owner[p]

\* pick_owner_vnode: any entry that is, or reads as, enabled.
Candidates(S) == {o \in S : o \notin Live \/ o[2] \in enabled[o[1]]}

\* pnode::update_vnode_map and pick_owner_vnode
UpdatePnode(p) ==
    /\ phase = "pnodes" /\ p \in todo
    /\ \E erased \in SUBSET Stale(p), unseen \in SUBSET Entries(p) :
          /\ unseen # {} => erased # {}
          /\ unseen \cap erased = {}
          /\ \A o \in Stale(p) \cap Live : o \in erased \cup unseen
          /\ pnodeMap' = [pnodeMap EXCEPT ![p] =
                 [vm \in Vm |-> IF @[vm] \in erased THEN None ELSE @[vm]]]
          /\ LET kept == OwnerAfter(p, erased, Entries(p) \ unseen)
                 able == Candidates(Entries(p) \ erased)
             IN  IF kept # None THEN owner' = [owner EXCEPT ![p] = kept]
                 ELSE \E o \in IF able \cap Live # {} THEN able ELSE able \cup {None} :
                         owner' = [owner EXCEPT ![p] = o]
          /\ phase' \in {IF todo = {p} THEN "maps" ELSE "pnodes"}
                         \cup (IF erased # {} THEN {"killed"} ELSE {})
    /\ todo' = todo \ {p}
    /\ UNCHANGED <<races, store, objects, current, updated, dir, sampled>>

\* A queue of a node that is gone leaves an empty entry in data_map.
MapsFind == \A vm \in Vm : sampled[vm] \subseteq Nodes(vm)

\* generate_sys_map_table and print_last_record, the planner's first steps
FillMaps ==
    /\ phase = "maps" /\ MapsFind
    /\ phase' = "idle"
    /\ UNCHANGED <<races, store, objects, links, round>>

\* assert(pnode_id >= 0)
MapsAbort ==
    /\ phase = "maps" /\ ~MapsFind
    /\ phase' = "aborted"
    /\ UNCHANGED <<races, store, objects, links, round>>

Round ==
    \/ List
    \/ \E vm \in Vm : UpdateVm(vm) \/ DeleteVm(vm)
    \/ UpdateThrows \/ EndUpdate \/ EndObsolete
    \/ \E p \in Pnode : UpdatePnode(p)
    \/ FillMaps \/ MapsAbort

Next ==
    \/ \E vm \in Vm : GuestStarts(vm) \/ GuestEnds(vm) \/ \E v \in Vnode : ChangeNode(vm, v)
    \/ Round

\* The daemon's rounds go on.
Spec == Init /\ [][Next]_vars /\ WF_vars(Round)
-----------------------------------------------------------------------------
\* The type invariant: a pointer is to an object that was made, of its VM.
TypeOK ==
    /\ store \subseteq Vm /\ races \in BOOLEAN
    /\ vmMap \subseteq Vm /\ current \subseteq Vm /\ dir \subseteq Vm
    /\ vnodeMap \in [Vm -> [Vnode -> 0 .. MaxBirths]]
    /\ births \in [Vm -> [Vnode -> 0 .. MaxBirths]]
    /\ enabled \in [Vm -> SUBSET Vnode]
    /\ pnodeMap \in [Pnode -> [Vm -> {None} \cup (Vm \X Vnode \X (1 .. MaxBirths))]]
    /\ todo \subseteq Pnode /\ updated \subseteq Vm \X Vnode
    /\ phase \in {"idle", "update", "obsolete", "pnodes", "maps", "aborted", "killed"}
    /\ sampled \in [Vm -> SUBSET Vnode]

\* The two paths to the vnode objects agree: a physical node knows exactly the
\* objects that the VMs of this round have on it, whatever guests ended or
\* started between rounds, and although erasing in a loop may leave VMs and
\* entries behind.
PathsAgree ==
    (~races /\ phase \in {"idle", "maps"}) =>
        \A p \in Pnode, vm \in Vm :
            IF pnodeMap[p][vm] = None
            THEN vm \in current => \A v \in Nodes(vm) : PnodeOf[v] # p
            ELSE \E v \in Nodes(vm) : PnodeOf[v] = p /\ pnodeMap[p][vm] = Object(vm, v)

\* "assert(vnode_map[vm_id] == n)" in pnode::unregister_vnode holds, although
\* vm::update_vnode_map deletes nodes that it does not unregister.
UnregisterAgrees == phase = "obsolete" => \A vm \in Obsolete : UnregisterFinds(vm)

\* "assert(pnode_id >= 0)" in vcpu_usage_sys_map_update (sys_map.cpp) holds: each
\* entry of data_map is that of a node that exists.
EntriesExist == phase # "aborted"

\* A guest that ended is forgotten, whatever fails meanwhile, unless the daemon
\* itself goes down.
Forgotten == \A vm \in Vm : vm \notin store ~> (vm \notin vmMap \/ phase \in {"killed", "aborted"})

\* "right now just randomly pick an enabled node" (pnode.cpp): the node whose
\* bandwidth is measured exists and is enabled.
OwnerEnabled ==
    [][\A p \in todo \ todo' :
          owner'[p] # None => owner'[p] \in Live /\ owner'[p][2] \in enabled[owner'[p][1]]]_vars
=============================================================================
