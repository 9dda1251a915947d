------------------------------- MODULE NodeMap -------------------------------
(***************************************************************************)
(* What the users of a system map (sys_map.h) rely on: it is a partial     *)
(* function from nodes to data.  A node is put into it, changed or removed *)
(* without an effect on any other node, and the whole map is cleared or    *)
(* changed at once.  SysMap, with its records and two indices, implements  *)
(* it.                                                                     *)
(***************************************************************************)
EXTENDS Integers

CONSTANTS
    Node,  \* the nodes of all VMs
    Data   \* the data of a record

VARIABLE map

Init == map = [k \in {} |-> 0]

Put(k, d)    == /\ k \notin DOMAIN map
                /\ map' = [j \in DOMAIN map \cup {k} |-> IF j = k THEN d ELSE map[j]]
Change(k, d) == k \in DOMAIN map /\ map' = [map EXCEPT ![k] = d]
Remove(k)    == k \in DOMAIN map /\ map' = [j \in DOMAIN map \ {k} |-> map[j]]
Clear        == map' = [k \in {} |-> 0]
ChangeAll    == \E f \in [Data -> Data] : map' = [k \in DOMAIN map |-> f[map[k]]]

Next ==
    \/ \E k \in Node, d \in Data : Put(k, d) \/ Change(k, d)
    \/ \E k \in Node : Remove(k)
    \/ Clear \/ ChangeAll

Spec == Init /\ [][Next]_map
=============================================================================
