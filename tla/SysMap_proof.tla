---------------------------- MODULE SysMap_proof ----------------------------
(***************************************************************************)
(* Proofs about SysMap, for all guests, nodes and data: the indices agree  *)
(* with the records, pruning does what it should, the map implements       *)
(* NodeMap, and the sums that SysMapReads takes through either index are   *)
(* those of the nodes.                                                     *)
(***************************************************************************)
EXTENDS SysMapReads, DataLemmas, SequenceTheorems, TLAPS

(***************************************************************************)
(* An index and the keys of the records, whichever the key is.             *)
(***************************************************************************)

\* A function on 1 .. n is a sequence of length n.
LEMMA LenOfFunction ==
    ASSUME NEW n \in Nat, NEW S, NEW q \in [1 .. n -> S]
    PROVE  q \in Seq(S) /\ Len(q) = n
<1>1. q \in Seq(S)  BY SeqDef
<1>2. Len(q) \in Nat /\ DOMAIN q = 1 .. Len(q)  BY <1>1, LenProperties
<1>3. DOMAIN q = 1 .. n  OBVIOUS
<1> QED BY <1>1, <1>2, <1>3

\* push_back keeps an index exact if the key is new.
LEMMA AppendIndexed ==
    ASSUME NEW n \in Nat, NEW q, DOMAIN q = 1 .. n,
           NEW r, DOMAIN r = 1 .. n + 1, \A i \in 1 .. n : r[i] = q[i],
           NEW index, IndexedBy(index, q), r[n + 1] \notin DOMAIN index
    PROVE  IndexedBy(Assign(index, r[n + 1], n + 1), r)
<1> DEFINE new == Assign(index, r[n + 1], n + 1)
<1>1. DOMAIN index = {q[i] : i \in 1 .. n}  BY DEF IndexedBy
<1>2. DOMAIN new = DOMAIN index \cup {r[n + 1]}  BY DEF Assign
<1>3. {r[i] : i \in 1 .. n + 1} = {q[i] : i \in 1 .. n} \cup {r[n + 1]}
  <2>1. ASSUME NEW i \in 1 .. n + 1 PROVE r[i] \in {q[j] : j \in 1 .. n} \cup {r[n + 1]}
    <3>1. CASE i = n + 1  BY <3>1
    <3>2. CASE i # n + 1
      <4>1. i \in 1 .. n  BY <3>2
      <4> QED BY <4>1
    <3> QED BY <3>1, <3>2
  <2>2. ASSUME NEW i \in 1 .. n PROVE q[i] \in {r[j] : j \in 1 .. n + 1}
    <3>1. i \in 1 .. n + 1 /\ r[i] = q[i]  OBVIOUS
    <3> QED BY <3>1
  <2>3. n + 1 \in 1 .. n + 1  OBVIOUS
  <2> QED BY <2>1, <2>2, <2>3
<1>4. DOMAIN new = {r[i] : i \in DOMAIN r}  BY <1>1, <1>2, <1>3
<1>5. ASSUME NEW i \in 1 .. n + 1 PROVE new[r[i]] = i
  <2>1. CASE i = n + 1  BY <2>1 DEF Assign
  <2>2. CASE i # n + 1
    <3>1. i \in 1 .. n /\ r[i] = q[i]  BY <2>2
    <3>2. q[i] \in DOMAIN index /\ index[q[i]] = i  BY <3>1 DEF IndexedBy
    <3> QED BY <3>1, <3>2 DEF Assign
  <2> QED BY <2>1, <2>2
<1> HIDE DEF new
<1>6. IndexedBy(new, r)  BY <1>4, <1>5 DEF IndexedBy
<1> QED BY <1>6 DEF new

\* The place of record i after the record at place at is gone.
MovedTo(i, at) == IF i < at THEN i ELSE i - 1

\* del_entry_vm_view keeps an index exact.
LEMMA ErasedIndexed ==
    ASSUME NEW n \in Nat, NEW q, DOMAIN q = 1 .. n,
           NEW at \in 1 .. n, NEW r, DOMAIN r = 1 .. n - 1, Len(r) = n - 1,
           \A j \in 1 .. n - 1 : r[j] = IF j < at THEN q[j] ELSE q[j + 1],
           NEW index, IndexedBy(index, q)
    PROVE  IndexedBy(Reindexed(Without(index, q[at]), at, r), r)
<1> DEFINE less == Without(index, q[at])
           new  == Reindexed(less, at, r)
<1>1. DOMAIN index = {q[i] : i \in 1 .. n} /\ \A i \in 1 .. n : index[q[i]] = i
  BY DEF IndexedBy
<1>2. \A i, j \in 1 .. n : q[i] = q[j] => i = j  BY <1>1
<1>3. \A j \in 1 .. n - 1 :
         \E i \in 1 .. n : i # at /\ r[j] = q[i] /\ j = MovedTo(i, at)
  <2> SUFFICES ASSUME NEW j \in 1 .. n - 1
               PROVE  \E i \in 1 .. n : i # at /\ r[j] = q[i] /\ j = MovedTo(i, at)
    OBVIOUS
  <2>1. CASE j < at
    <3>1. j \in 1 .. n /\ j # at /\ r[j] = q[j] /\ j = MovedTo(j, at)  BY <2>1 DEF MovedTo
    <3> QED BY <3>1
  <2>2. CASE ~(j < at)
    <3>1. j + 1 \in 1 .. n /\ j + 1 # at /\ r[j] = q[j + 1] /\ j = MovedTo(j + 1, at)
      BY <2>2 DEF MovedTo
    <3> QED BY <3>1
  <2> QED BY <2>1, <2>2
<1>4. \A i \in 1 .. n : i # at =>
         MovedTo(i, at) \in 1 .. n - 1 /\ r[MovedTo(i, at)] = q[i]
  BY DEF MovedTo
<1>5. \A i, j \in 1 .. n - 1 : r[i] = r[j] => i = j
  <2> SUFFICES ASSUME NEW i \in 1 .. n - 1, NEW j \in 1 .. n - 1, r[i] = r[j] PROVE i = j
    OBVIOUS
  <2>1. PICK a \in 1 .. n : r[i] = q[a] /\ i = MovedTo(a, at)  BY <1>3
  <2>2. PICK b \in 1 .. n : r[j] = q[b] /\ j = MovedTo(b, at)  BY <1>3
  <2> QED BY <2>1, <2>2, <1>2
<1>6. DOMAIN less = DOMAIN index \ {q[at]} /\ \A k \in DOMAIN less : less[k] = index[k]
  BY DEF Without
<1>7. DOMAIN less = {r[j] : j \in 1 .. n - 1}
  <2>1. ASSUME NEW k \in DOMAIN less PROVE k \in {r[j] : j \in 1 .. n - 1}
    <3>1. PICK i \in 1 .. n : k = q[i] /\ i # at  BY <1>1, <1>6
    <3> QED BY <3>1, <1>4
  <2>2. ASSUME NEW j \in 1 .. n - 1 PROVE r[j] \in DOMAIN less
    <3>1. PICK i \in 1 .. n : i # at /\ r[j] = q[i]  BY <1>3
    <3>2. q[i] \in DOMAIN index /\ q[i] # q[at]  BY <3>1, <1>1, <1>2
    <3> QED BY <3>1, <3>2, <1>6
  <2> QED BY <2>1, <2>2
<1>8. DOMAIN new = DOMAIN less  BY DEF Reindexed
<1>9. ASSUME NEW j \in 1 .. n - 1 PROVE new[r[j]] = j
  <2>1. r[j] \in DOMAIN less  BY <1>7
  <2>2. CASE j >= at
    <3>1. j \in at .. Len(r)  BY <2>2
    <3>2. \A i \in at .. Len(r) : r[i] = r[j] => i = j
      <4>1. \A i \in at .. Len(r) : i \in 1 .. n - 1  OBVIOUS
      <4> QED BY <4>1, <1>5
    <3>3. (CHOOSE i \in at .. Len(r) : r[i] = r[j]) = j  BY <3>1, <3>2
    <3> QED BY <2>1, <3>1, <3>3 DEF Reindexed
  <2>3. CASE j < at
    <3>1. ~ \E i \in at .. Len(r) : r[i] = r[j]
      <4>1. \A i \in at .. Len(r) : i \in 1 .. n - 1 /\ i # j  BY <2>3
      <4> QED BY <4>1, <1>5
    <3>2. new[r[j]] = less[r[j]]  BY <2>1, <3>1 DEF Reindexed
    <3>3. less[r[j]] = index[q[j]]  BY <2>1, <2>3, <1>6
    <3>4. index[q[j]] = j  BY <1>1
    <3> QED BY <3>2, <3>3, <3>4
  <2> QED BY <2>2, <2>3
<1> HIDE DEF new, less
<1>10. IndexedBy(new, r)  BY <1>7, <1>8, <1>9 DEF IndexedBy
<1> QED BY <1>10 DEF new, less
-----------------------------------------------------------------------------
(***************************************************************************)
(* The inductive invariant: the nodes that update still goes to are not in *)
(* the map, those that prune still goes to are, and what prune has not     *)
(* reached yet is as it was.                                               *)
(***************************************************************************)
UpdateFresh == op = "update" => todo \cap DOMAIN vmMap = {}
PruneSofar ==
    op = "prune" => /\ todo \subseteq DOMAIN vmMap
                    /\ Held = Kept(todo)

IInv == TypeOK /\ IndexExact /\ UpdateFresh /\ PruneSofar

\* The keys of a record are those of a node.
LEMMA RecordKeys ==
    ASSUME NEW r \in NodeRecord
    PROVE  /\ r = NewRecord(VmKey(r), r.data)
           /\ PnodeKey(r) = <<Place(VmKey(r)), VmKey(r)[1]>>
BY DEF NodeRecord, Record, NewRecord, VmKey, PnodeKey, Place

LEMMA NewRecordKeys ==
    ASSUME NEW k \in Node, NEW d \in Data
    PROVE  /\ NewRecord(k, d) \in NodeRecord
           /\ VmKey(NewRecord(k, d)) = k
           /\ PnodeKey(NewRecord(k, d)) = <<Place(k), k[1]>>
           /\ NewRecord(k, d).data = d
BY SysMapNodesAssumption DEF NodeRecord, Record, NewRecord, VmKey, PnodeKey, Place, Node

\* A node is known by its VM and where it is.
LEMMA PlacesDiffer ==
    ASSUME NEW j \in Node, NEW k \in Node, <<Place(j), j[1]>> = <<Place(k), k[1]>>
    PROVE  j = k
BY SysMapNodesAssumption DEF Node, Place

\* The map as the records have it.
LEMMA HeldRecords ==
    ASSUME TypeOK, IndexExact
    PROVE  /\ DOMAIN Held = DOMAIN vmMap
           /\ DOMAIN vmMap = {VmKey(records[i]) : i \in 1 .. Len(records)}
           /\ \A i \in 1 .. Len(records) : vmMap[VmKey(records[i])] = i
                                        /\ Held[VmKey(records[i])] = records[i].data
           /\ \A k \in DOMAIN vmMap : /\ vmMap[k] \in 1 .. Len(records)
                                      /\ VmKey(records[vmMap[k]]) = k
                                      /\ Held[k] \in Data
           /\ DOMAIN vmMap \subseteq Node
<1>1. Len(records) \in Nat  BY LenProperties DEF TypeOK
<1>2. \A i \in 1 .. Len(records) : records[i] \in NodeRecord  BY ElementOfSeq DEF TypeOK
<1>3. /\ DOMAIN VmKeys(records) = 1 .. Len(records)
      /\ \A i \in 1 .. Len(records) : VmKeys(records)[i] = VmKey(records[i])
  BY DEF VmKeys
<1>4. DOMAIN vmMap = {VmKey(records[i]) : i \in 1 .. Len(records)}
  BY <1>3 DEF IndexExact, IndexedBy
<1>5. \A i \in 1 .. Len(records) : vmMap[VmKey(records[i])] = i
  BY <1>3 DEF IndexExact, IndexedBy
<1>6. \A k \in DOMAIN vmMap : vmMap[k] \in 1 .. Len(records) /\ VmKey(records[vmMap[k]]) = k
  BY <1>4, <1>5
<1>7. DOMAIN Held = DOMAIN vmMap /\ \A k \in DOMAIN vmMap : Held[k] = records[vmMap[k]].data
  BY DEF Held, DataAt
<1>8. \A k \in DOMAIN vmMap : Held[k] \in Data /\ k \in Node
  BY <1>2, <1>6, <1>7 DEF NodeRecord, Record
<1> QED BY <1>4, <1>5, <1>6, <1>7, <1>8

-----------------------------------------------------------------------------
\* push_back of a record of a new node adds it to what the map holds.
LEMMA PushBackInv ==
    ASSUME TypeOK, IndexExact, NEW k \in Node, NEW d \in Data, k \notin DOMAIN vmMap,
           PushBack(NewRecord(k, d))
    PROVE  /\ records' \in Seq(NodeRecord)
           /\ IndexExact'
           /\ DOMAIN vmMap' = DOMAIN vmMap \cup {k}
           /\ Abstract!Put(k, d)
<1> DEFINE n == Len(records)
           r == NewRecord(k, d)
<1>1. n \in Nat  BY LenProperties DEF TypeOK
<1>2. /\ r \in NodeRecord /\ VmKey(r) = k /\ PnodeKey(r) = <<Place(k), k[1]>>
      /\ r.data = d
  BY NewRecordKeys
<1>3. /\ records' \in Seq(NodeRecord) /\ Len(records') = n + 1
      /\ \A i \in 1 .. n : records'[i] = records[i]
      /\ records'[n + 1] = r
  BY <1>2, AppendProperties DEF TypeOK, PushBack
<1>4. /\ vmMap' = Assign(vmMap, k, n + 1)
      /\ pnodeMap' = Assign(pnodeMap, <<Place(k), k[1]>>, n + 1)
  BY <1>2 DEF PushBack
<1> HIDE DEF r
<1>5. \A i \in 1 .. n : records[i] \in NodeRecord  BY ElementOfSeq DEF TypeOK
<1>6. IndexedBy(vmMap', VmKeys(records'))
  <2>1. /\ DOMAIN VmKeys(records) = 1 .. n /\ DOMAIN VmKeys(records') = 1 .. n + 1
        /\ \A i \in 1 .. n : VmKeys(records')[i] = VmKeys(records)[i]
        /\ VmKeys(records')[n + 1] = k
    BY <1>1, <1>2, <1>3 DEF VmKeys
  <2> HIDE DEF n
  <2>2. IndexedBy(vmMap, VmKeys(records))  BY DEF IndexExact
  <2>3. IndexedBy(Assign(vmMap, VmKeys(records')[n + 1], n + 1), VmKeys(records'))
    BY <1>1, <2>1, <2>2, AppendIndexed
  <2> QED BY <2>1, <2>3, <1>4
<1>7. IndexedBy(pnodeMap', PnodeKeys(records'))
  <2>1. /\ DOMAIN PnodeKeys(records) = 1 .. n /\ DOMAIN PnodeKeys(records') = 1 .. n + 1
        /\ \A i \in 1 .. n : PnodeKeys(records')[i] = PnodeKeys(records)[i]
        /\ PnodeKeys(records')[n + 1] = <<Place(k), k[1]>>
    BY <1>1, <1>2, <1>3 DEF PnodeKeys
  <2>2. IndexedBy(pnodeMap, PnodeKeys(records))  BY DEF IndexExact
  <2>3. <<Place(k), k[1]>> \notin DOMAIN pnodeMap
    <3> SUFFICES ASSUME <<Place(k), k[1]>> \in DOMAIN pnodeMap PROVE FALSE
      OBVIOUS
    <3>1. PICK i \in 1 .. n : <<Place(k), k[1]>> = PnodeKey(records[i])
      BY <2>1, <2>2 DEF IndexedBy, PnodeKeys
    <3>2. VmKey(records[i]) \in Node  BY <1>5 DEF NodeRecord
    <3>3. VmKey(records[i]) = k  BY <3>1, <3>2, <1>5, RecordKeys, PlacesDiffer
    <3> QED BY <3>3, HeldRecords
  <2> HIDE DEF n
  <2>4. IndexedBy(Assign(pnodeMap, PnodeKeys(records')[n + 1], n + 1), PnodeKeys(records'))
    BY <1>1, <2>1, <2>2, <2>3, AppendIndexed
  <2> QED BY <2>1, <2>4, <1>4
<1>8. DOMAIN vmMap' = DOMAIN vmMap \cup {k}  BY <1>4 DEF Assign
<1>9. Held' = [j \in DOMAIN Held \cup {k} |-> IF j = k THEN d ELSE Held[j]]
  <2>1. Held' = [j \in DOMAIN vmMap \cup {k} |-> records'[vmMap'[j]].data]
    BY <1>8 DEF Held, DataAt
  <2>2. records'[vmMap'[k]].data = d  BY <1>2, <1>3, <1>4 DEF Assign
  <2>3. \A j \in DOMAIN vmMap : j # k => records'[vmMap'[j]].data = Held[j]
    <3>1. \A j \in DOMAIN vmMap : j # k => vmMap'[j] = vmMap[j]  BY <1>4 DEF Assign
    <3>2. \A j \in DOMAIN vmMap : vmMap[j] \in 1 .. n  BY HeldRecords
    <3> QED BY <3>1, <3>2, <1>3 DEF Held, DataAt
  <2>4. DOMAIN Held = DOMAIN vmMap  BY DEF Held
  <2> QED BY <2>1, <2>2, <2>3, <2>4
<1> QED BY <1>3, <1>6, <1>7, <1>8, <1>9, HeldRecords DEF IndexExact, Abstract!Put

\* del_entry_vm_view takes one node from what the map holds and no other.
LEMMA DeleteInv ==
    ASSUME TypeOK, IndexExact, NEW k \in DOMAIN vmMap, Delete(k)
    PROVE  /\ records' \in Seq(NodeRecord)
           /\ IndexExact'
           /\ DOMAIN vmMap' = DOMAIN vmMap \ {k}
           /\ Abstract!Remove(k)
<1> DEFINE n == Len(records)
           at == vmMap[k]
           rest == Erased(records, at)
<1>1. n \in Nat /\ at \in 1 .. n /\ n - 1 \in Nat
  <2>1. n \in Nat /\ at \in 1 .. n  BY LenProperties, HeldRecords DEF TypeOK
  <2> QED BY <2>1
<1>2. \A i \in 1 .. n : records[i] \in NodeRecord  BY ElementOfSeq DEF TypeOK
<1>3. /\ DOMAIN rest = 1 .. n - 1
      /\ \A j \in 1 .. n - 1 : rest[j] = IF j < at THEN records[j] ELSE records[j + 1]
  BY DEF Erased
<1>4. rest \in Seq(NodeRecord) /\ Len(rest) = n - 1
  <2>1. \A j \in 1 .. n - 1 : rest[j] \in NodeRecord  BY <1>1, <1>2, <1>3
  <2>2. rest \in [1 .. n - 1 -> NodeRecord]  BY <2>1, <1>3 DEF Erased
  <2> HIDE DEF n, rest
  <2> QED BY <2>2, <1>1, LenOfFunction
<1>5. /\ records' = rest
      /\ vmMap' = Reindexed(Without(vmMap, k), at, VmKeys(rest))
      /\ pnodeMap' = Reindexed(Without(pnodeMap, PnodeKey(records[at])), at, PnodeKeys(rest))
  BY DEF Delete
<1>6. VmKey(records[at]) = k  BY HeldRecords
<1> HIDE DEF rest
<1>7. IndexedBy(vmMap', VmKeys(records'))
  <2> DEFINE q == VmKeys(records)
             r == VmKeys(rest)
  <2>1. DOMAIN q = 1 .. n /\ q[at] = k  BY <1>1, <1>6 DEF VmKeys
  <2>2. DOMAIN r = 1 .. n - 1 /\ Len(r) = n - 1
    <3>1. r \in [1 .. n - 1 -> {VmKey(rest[j]) : j \in 1 .. n - 1}]  BY <1>4 DEF VmKeys
    <3> HIDE DEF r, n
    <3> QED BY <3>1, <1>1, LenOfFunction
  <2>3. \A j \in 1 .. n - 1 : r[j] = IF j < at THEN q[j] ELSE q[j + 1]
    BY <1>1, <1>3, <1>4 DEF VmKeys
  <2>4. IndexedBy(vmMap, q)  BY DEF IndexExact
  <2> HIDE DEF q, r, n, at
  <2>5. IndexedBy(Reindexed(Without(vmMap, q[at]), at, r), r)
    BY <1>1, <2>1, <2>2, <2>3, <2>4, ErasedIndexed
  <2> QED BY <2>1, <2>5, <1>5 DEF r
<1>8. IndexedBy(pnodeMap', PnodeKeys(records'))
  <2> DEFINE q == PnodeKeys(records)
             r == PnodeKeys(rest)
  <2>1. DOMAIN q = 1 .. n /\ q[at] = PnodeKey(records[at])  BY <1>1 DEF PnodeKeys
  <2>2. DOMAIN r = 1 .. n - 1 /\ Len(r) = n - 1
    <3>1. r \in [1 .. n - 1 -> {PnodeKey(rest[j]) : j \in 1 .. n - 1}]
      BY <1>4 DEF PnodeKeys
    <3> HIDE DEF r, n
    <3> QED BY <3>1, <1>1, LenOfFunction
  <2>3. \A j \in 1 .. n - 1 : r[j] = IF j < at THEN q[j] ELSE q[j + 1]
    BY <1>1, <1>3, <1>4 DEF PnodeKeys
  <2>4. IndexedBy(pnodeMap, q)  BY DEF IndexExact
  <2> HIDE DEF q, r, n, at
  <2>5. IndexedBy(Reindexed(Without(pnodeMap, q[at]), at, r), r)
    BY <1>1, <2>1, <2>2, <2>3, <2>4, ErasedIndexed
  <2> QED BY <2>1, <2>5, <1>5 DEF r
<1>9. DOMAIN vmMap' = DOMAIN vmMap \ {k}
  <2>1. DOMAIN vmMap' = DOMAIN Without(vmMap, k)  BY <1>5 DEF Reindexed
  <2> QED BY <2>1 DEF Without
<1>10. Held' = [j \in DOMAIN Held \ {k} |-> Held[j]]
  <2>1. ASSUME NEW j \in DOMAIN vmMap, j # k PROVE records'[vmMap'[j]].data = Held[j]
    <3> DEFINE i == vmMap[j]
               to == MovedTo(i, at)
    <3>1. i \in 1 .. n /\ VmKey(records[i]) = j /\ Held[j] = records[i].data
      BY HeldRecords DEF Held, DataAt
    <3>2. i # at  BY <1>6, <2>1, <3>1
    <3>3. to \in 1 .. n - 1 /\ rest[to] = records[i]
      BY <1>1, <1>3, <3>1, <3>2 DEF MovedTo
    <3>4. VmKeys(rest)[to] = j  BY <1>4, <3>1, <3>3 DEF VmKeys
    <3>5. DOMAIN VmKeys(rest) = 1 .. n - 1  BY <1>4 DEF VmKeys
    <3>6. vmMap'[j] = to
      <4> HIDE DEF to
      <4> QED BY <1>5, <1>7, <3>3, <3>4, <3>5 DEF IndexedBy
    <3> QED BY <3>1, <3>3, <3>6, <1>5
  <2>2. Held' = [j \in DOMAIN vmMap \ {k} |-> records'[vmMap'[j]].data]
    BY <1>9 DEF Held, DataAt
  <2>3. DOMAIN Held = DOMAIN vmMap  BY DEF Held
  <2> QED BY <2>1, <2>2, <2>3
<1>11. k \in DOMAIN Held  BY DEF Held
<1> QED BY <1>4, <1>5, <1>7, <1>8, <1>9, <1>10, <1>11 DEF IndexExact, Abstract!Remove

\* Writing data leaves the keys of the records, and so the indices, alone.
LEMMA SameKeys ==
    ASSUME TypeOK, IndexExact, UNCHANGED <<vmMap, pnodeMap>>,
           records' \in Seq(NodeRecord), Len(records') = Len(records),
           \A i \in 1 .. Len(records) : /\ VmKey(records'[i]) = VmKey(records[i])
                                        /\ PnodeKey(records'[i]) = PnodeKey(records[i])
    PROVE  IndexExact'
<1>1. VmKeys(records') = VmKeys(records)  BY DEF VmKeys
<1>2. PnodeKeys(records') = PnodeKeys(records)  BY DEF PnodeKeys
<1> QED BY <1>1, <1>2 DEF IndexExact

LEMMA WriteInv ==
    ASSUME TypeOK, IndexExact, NEW k \in Node, NEW d \in Data, Write(k, d)
    PROVE  /\ records' \in Seq(NodeRecord)
           /\ IndexExact'
           /\ Abstract!Change(k, d)
<1> DEFINE n == Len(records)
           at == vmMap[k]
<1>1. n \in Nat /\ DOMAIN records = 1 .. n /\ records \in [1 .. n -> NodeRecord]
  BY LenProperties DEF TypeOK
<1>2. k \in DOMAIN vmMap /\ at \in 1 .. n  BY HeldRecords DEF Write
<1>3. records' = [records EXCEPT ![at] = [@ EXCEPT !.data = d]]  BY DEF Write
<1>4. ASSUME NEW r \in NodeRecord
      PROVE  /\ [r EXCEPT !.data = d] \in NodeRecord
             /\ VmKey([r EXCEPT !.data = d]) = VmKey(r)
             /\ PnodeKey([r EXCEPT !.data = d]) = PnodeKey(r)
             /\ [r EXCEPT !.data = d].data = d
  BY DEF NodeRecord, Record, VmKey, PnodeKey
<1>5. records' \in Seq(NodeRecord) /\ Len(records') = n
  <2>1. records' \in [1 .. n -> NodeRecord]  BY <1>1, <1>2, <1>3, <1>4
  <2> HIDE DEF n
  <2> QED BY <2>1, <1>1, LenOfFunction
<1>6. \A i \in 1 .. n : /\ VmKey(records'[i]) = VmKey(records[i])
                        /\ PnodeKey(records'[i]) = PnodeKey(records[i])
                        /\ records'[i].data = IF i = at THEN d ELSE records[i].data
  BY <1>1, <1>2, <1>3, <1>4
<1>7. UNCHANGED <<vmMap, pnodeMap>>  BY DEF Write
<1>8. IndexExact'  BY <1>5, <1>6, <1>7, SameKeys
<1>9. Held' = [Held EXCEPT ![k] = d]
  <2>1. Held' = [j \in DOMAIN vmMap |-> records'[vmMap[j]].data]
    BY <1>7 DEF Held, DataAt
  <2>2. \A j \in DOMAIN vmMap : vmMap[j] \in 1 .. n /\ (vmMap[j] = at => j = k)
    BY <1>2, HeldRecords
  <2>3. \A j \in DOMAIN vmMap : records'[vmMap[j]].data = IF j = k THEN d ELSE Held[j]
    BY <1>6, <2>2 DEF Held, DataAt
  <2>4. DOMAIN Held = DOMAIN vmMap /\ Held = [j \in DOMAIN vmMap |-> Held[j]]  BY DEF Held
  <2> QED BY <2>1, <2>3, <2>4, <1>2
<1> QED BY <1>2, <1>5, <1>8, <1>9, HeldRecords DEF Abstract!Change

LEMMA ApplyInv ==
    ASSUME TypeOK, IndexExact, NEW f, Apply(f)
    PROVE  /\ records' \in Seq(NodeRecord)
           /\ IndexExact'
           /\ Abstract!ChangeAll
<1> DEFINE n == Len(records)
<1>1. n \in Nat /\ DOMAIN records = 1 .. n /\ records \in [1 .. n -> NodeRecord]
  BY LenProperties DEF TypeOK
<1>2. records' = [i \in 1 .. n |-> [records[i] EXCEPT !.data = f[records[i].data]]]
  BY <1>1 DEF Apply
<1>3. \A i \in 1 .. n : f[records[i].data] \in Data
  <2>1. \A i \in 1 .. n : VmKey(records[i]) \in DOMAIN vmMap /\ vmMap[VmKey(records[i])] = i
    BY HeldRecords
  <2> QED BY <2>1 DEF Apply, DataAt
<1>4. ASSUME NEW r \in NodeRecord, NEW d \in Data
      PROVE  /\ [r EXCEPT !.data = d] \in NodeRecord
             /\ VmKey([r EXCEPT !.data = d]) = VmKey(r)
             /\ PnodeKey([r EXCEPT !.data = d]) = PnodeKey(r)
             /\ [r EXCEPT !.data = d].data = d
  BY DEF NodeRecord, Record, VmKey, PnodeKey
<1>5. records' \in Seq(NodeRecord) /\ Len(records') = n
  <2>1. records' \in [1 .. n -> NodeRecord]  BY <1>1, <1>2, <1>3, <1>4
  <2> HIDE DEF n
  <2> QED BY <2>1, <1>1, LenOfFunction
<1>6. \A i \in 1 .. n : /\ VmKey(records'[i]) = VmKey(records[i])
                        /\ PnodeKey(records'[i]) = PnodeKey(records[i])
                        /\ records'[i].data = f[records[i].data]
  BY <1>1, <1>2, <1>3, <1>4
<1>7. UNCHANGED <<vmMap, pnodeMap>>  BY DEF Apply
<1>8. IndexExact'  BY <1>5, <1>6, <1>7, SameKeys
<1>9. Abstract!ChangeAll
  <2> DEFINE g == [d \in Data |-> IF f[d] \in Data THEN f[d] ELSE 0]
  <2>1. g \in [Data -> Data]  BY SysMapDataAssumption
  <2>2. \A j \in DOMAIN vmMap : /\ vmMap[j] \in 1 .. n /\ Held[j] \in Data
                                /\ Held[j] = records[vmMap[j]].data
    BY HeldRecords DEF Held, DataAt
  <2>3. \A j \in DOMAIN vmMap : records'[vmMap[j]].data = g[Held[j]]
    BY <1>3, <1>6, <2>2
  <2>4. Held' = [j \in DOMAIN vmMap |-> records'[vmMap[j]].data]
    BY <1>7 DEF Held, DataAt
  <2>5. DOMAIN Held = DOMAIN vmMap  BY DEF Held
  <2>6. Held' = [j \in DOMAIN Held |-> g[Held[j]]]  BY <2>3, <2>4, <2>5
  <2> HIDE DEF g
  <2> QED BY <2>1, <2>6 DEF Abstract!ChangeAll
<1> QED BY <1>5, <1>8, <1>9

\* A map without records.
LEMMA EmptyInv ==
    ASSUME records = <<>>, vmMap = Nothing, pnodeMap = Nothing
    PROVE  records \in Seq(NodeRecord) /\ IndexExact /\ Held = Nothing
<1>1. records \in Seq(NodeRecord) /\ Len(records) = 0  BY EmptySeq
<1>2. DOMAIN VmKeys(records) = {} /\ DOMAIN PnodeKeys(records) = {}
  BY <1>1 DEF VmKeys, PnodeKeys
<1>3. DOMAIN vmMap = {} /\ DOMAIN pnodeMap = {}  BY DEF Nothing
<1>4. IndexExact  BY <1>2, <1>3 DEF IndexExact, IndexedBy
<1>5. Held = Nothing  BY <1>3 DEF Held, Nothing
<1> QED BY <1>1, <1>4, <1>5

-----------------------------------------------------------------------------
LEMMA SameContent ==
    ASSUME UNCHANGED content
    PROVE  UNCHANGED Held /\ (IndexExact => IndexExact')
BY DEF content, Held, DataAt, IndexExact, IndexedBy, VmKeys, PnodeKeys

LEMMA InitInv == Init => IInv
<1> SUFFICES ASSUME Init PROVE IInv
  OBVIOUS
<1>1. records = <<>> /\ vmMap = Nothing /\ pnodeMap = Nothing /\ op = "idle" /\ todo = {}
  BY DEF Init
<1> QED BY <1>1, EmptyInv DEF IInv, TypeOK, UpdateFresh, PruneSofar

\* Every step keeps the invariant, and is a step of NodeMap or none.
LEMMA StepInv ==
    ASSUME IInv, [Next]_vars
    PROVE  IInv' /\ [Abstract!Next]_Held
<1> USE DEF IInv
<1>1. CASE StartUpdate
  <2>1. records' \in Seq(NodeRecord) /\ IndexExact' /\ Held' = Nothing
    BY <1>1, EmptyInv DEF StartUpdate, Held, DataAt, IndexExact, IndexedBy, VmKeys, PnodeKeys, Nothing
  <2>2. op' = "update" /\ todo' \subseteq Node /\ DOMAIN vmMap' = {}
    BY <1>1 DEF StartUpdate, Begin, Nothing
  <2>3. Abstract!Clear  BY <2>1 DEF Abstract!Clear, Nothing
  <2> QED BY <2>1, <2>2, <2>3 DEF TypeOK, UpdateFresh, PruneSofar, Abstract!Next
<1>2. ASSUME NEW k \in Node, UpdateOne(k) PROVE IInv' /\ [Abstract!Next]_Held
  <2>1. PICK d \in Data : PushBack(NewRecord(k, d))  BY <1>2 DEF UpdateOne
  <2>2. k \notin DOMAIN vmMap  BY <1>2 DEF UpdateOne, Visit, UpdateFresh
  <2>3. /\ records' \in Seq(NodeRecord) /\ IndexExact'
        /\ DOMAIN vmMap' = DOMAIN vmMap \cup {k} /\ Abstract!Put(k, d)
    BY <2>1, <2>2, PushBackInv
  <2>4. op' = "update" /\ todo' = todo \ {k} /\ op = "update"  BY <1>2 DEF UpdateOne, Visit
  <2> QED BY <2>3, <2>4 DEF TypeOK, UpdateFresh, PruneSofar, Abstract!Next
<1>3. CASE StartFill
  <2>1. UNCHANGED content /\ op' = "fill" /\ todo' \subseteq Node  BY <1>3 DEF StartFill, Begin
  <2>2. UNCHANGED Held /\ IndexExact'  BY <2>1, SameContent
  <2> QED BY <2>1, <2>2 DEF TypeOK, UpdateFresh, PruneSofar, content
<1>4. ASSUME NEW k \in Node, FillOne(k) PROVE IInv' /\ [Abstract!Next]_Held
  <2>1. op' = "fill" /\ todo' \subseteq Node  BY <1>4 DEF FillOne, Visit, TypeOK
  <2>2. CASE k \in DOMAIN vmMap
    <3>1. UNCHANGED content  BY <1>4, <2>2 DEF FillOne
    <3>2. UNCHANGED Held /\ IndexExact'  BY <3>1, SameContent
    <3> QED BY <2>1, <3>1, <3>2 DEF TypeOK, UpdateFresh, PruneSofar, content
  <2>3. CASE k \notin DOMAIN vmMap
    <3>1. PushBack(NewRecord(k, 0)) /\ 0 \in Data
      BY <1>4, <2>3, SysMapDataAssumption DEF FillOne
    <3>2. records' \in Seq(NodeRecord) /\ IndexExact' /\ Abstract!Put(k, 0)
      BY <2>3, <3>1, PushBackInv
    <3> QED BY <2>1, <3>1, <3>2 DEF TypeOK, UpdateFresh, PruneSofar, Abstract!Next
  <2> QED BY <2>2, <2>3
<1>5. CASE StartPrune
  <2>1. UNCHANGED content /\ op' = "prune" /\ todo' = DOMAIN vmMap /\ before' = Held
    BY <1>5 DEF StartPrune, Begin
  <2>2. UNCHANGED Held /\ IndexExact'  BY <2>1, SameContent
  <2>3. todo' \subseteq Node  BY <2>1, HeldRecords
  <2>4. Kept(todo)' = Held'
    <3>1. DOMAIN before' = todo'  BY <2>1 DEF Held
    <3>2. Held' = [j \in DOMAIN before' |-> before'[j]]  BY <2>1, <2>2 DEF Held
    <3>3. {j \in DOMAIN before' : j \in todo' \/ mask'[j] # 0} = DOMAIN before'  BY <3>1
    <3> QED BY <3>2, <3>3 DEF Kept
  <2> QED BY <2>1, <2>2, <2>3, <2>4 DEF TypeOK, UpdateFresh, PruneSofar, content
<1>6. ASSUME NEW k \in Node, PruneOne(k) PROVE IInv' /\ [Abstract!Next]_Held
  <2>1. /\ op = "prune" /\ op' = "prune" /\ k \in todo /\ todo' = todo \ {k}
        /\ UNCHANGED <<mask, before>>
    BY <1>6 DEF PruneOne, Visit
  <2>2. todo \subseteq DOMAIN vmMap /\ Held = Kept(todo)  BY <2>1 DEF PruneSofar
  <2>3. DOMAIN Held = DOMAIN vmMap  BY DEF Held
  <2>4. CASE mask[k] = 0
    <3>1. Delete(k) /\ k \in DOMAIN vmMap  BY <1>6, <2>1, <2>2, <2>4 DEF PruneOne
    <3>2. /\ records' \in Seq(NodeRecord) /\ IndexExact'
          /\ DOMAIN vmMap' = DOMAIN vmMap \ {k} /\ Abstract!Remove(k)
      BY <3>1, DeleteInv
    <3>3. Held' = [j \in DOMAIN Held \ {k} |-> Held[j]]  BY <3>2 DEF Abstract!Remove
    <3>4. Kept(todo)' = [j \in DOMAIN Kept(todo) \ {k} |-> Kept(todo)[j]]
      BY <2>1, <2>4 DEF Kept
    <3> QED BY <2>1, <2>2, <3>2, <3>3, <3>4
            DEF TypeOK, UpdateFresh, PruneSofar, Abstract!Next
  <2>5. CASE mask[k] # 0
    <3>1. UNCHANGED content  BY <1>6, <2>5 DEF PruneOne
    <3>2. UNCHANGED Held /\ IndexExact'  BY <3>1, SameContent
    <3>3. Kept(todo)' = Kept(todo)  BY <2>1, <2>5 DEF Kept
    <3> QED BY <2>1, <2>2, <3>1, <3>2, <3>3 DEF TypeOK, UpdateFresh, PruneSofar, content
  <2> QED BY <2>4, <2>5
<1>7. CASE Finish
  <2>1. UNCHANGED content /\ op' = "idle" /\ UNCHANGED todo  BY <1>7 DEF Finish
  <2>2. UNCHANGED Held /\ IndexExact'  BY <2>1, SameContent
  <2> QED BY <2>1, <2>2 DEF TypeOK, UpdateFresh, PruneSofar, content
<1>8. ASSUME NEW k \in Node, NEW d \in Data, Write(k, d) PROVE IInv' /\ [Abstract!Next]_Held
  <2>1. records' \in Seq(NodeRecord) /\ IndexExact' /\ Abstract!Change(k, d)
    BY <1>8, WriteInv
  <2>2. op = "idle" /\ UNCHANGED <<op, todo>>  BY <1>8 DEF Write, control
  <2> QED BY <2>1, <2>2 DEF TypeOK, UpdateFresh, PruneSofar, Abstract!Next
<1>9. ASSUME NEW f, Apply(f) PROVE IInv' /\ [Abstract!Next]_Held
  <2>1. records' \in Seq(NodeRecord) /\ IndexExact' /\ Abstract!ChangeAll
    BY <1>9, ApplyInv
  <2>2. op = "idle" /\ UNCHANGED <<op, todo>>  BY <1>9 DEF Apply, control
  <2> QED BY <2>1, <2>2 DEF TypeOK, UpdateFresh, PruneSofar, Abstract!Next
<1>10. CASE UNCHANGED vars
  <2>1. UNCHANGED content /\ UNCHANGED <<op, todo, mask, before>>
    BY <1>10 DEF vars, control
  <2>2. UNCHANGED Held /\ IndexExact'  BY <2>1, SameContent
  <2>3. UNCHANGED Kept(todo)  BY <2>1 DEF Kept
  <2> QED BY <2>1, <2>2, <2>3 DEF TypeOK, UpdateFresh, PruneSofar, content
<1> QED BY <1>1, <1>2, <1>3, <1>4, <1>5, <1>6, <1>7, <1>8, <1>9, <1>10
        DEF Next, Negate, Add, Mul

LEMMA InductiveInv == Spec => []IInv
<1>1. IInv /\ [Next]_vars => IInv'  BY StepInv
<1> QED BY <1>1, InitInv, PTL DEF Spec

\* The type invariant.
THEOREM TypeCorrect == Spec => []TypeOK
<1>1. IInv => TypeOK  BY DEF IInv
<1> QED BY <1>1, InductiveInv, PTL

\* push_back, del_entry_vm_view and every write keep both indices exact.
THEOREM IndicesExact == Spec => []IndexExact
<1>1. IInv => IndexExact  BY DEF IInv
<1> QED BY <1>1, InductiveInv, PTL

\* A pruned map holds what it held for the nodes of the mask, and nothing else.
THEOREM PrunedExactly == Spec => []PruneExact
<1>1. IInv => PruneExact  BY DEF IInv, PruneSofar, PruneExact
<1> QED BY <1>1, InductiveInv, PTL

\* The records with their indices are a function from nodes to data.
THEOREM MapImplemented == Spec => ImplementsMap
<1>1. Init => Abstract!Init
  <2>1. Init => Held = Nothing  BY EmptyInv DEF Init
  <2> QED BY <2>1 DEF Abstract!Init, Nothing
<1>2. IInv /\ [Next]_vars => [Abstract!Next]_Held  BY StepInv
<1> QED BY <1>1, <1>2, InductiveInv, PTL DEF Spec, ImplementsMap, Abstract!Spec
-----------------------------------------------------------------------------
(***************************************************************************)
(* The sums.  A list of guests or of virtual nodes names the nodes that    *)
(* are added up, each of them once.                                        *)
(***************************************************************************)

\* A map is finite, and pnode_map leads to the same data as vm_map.
LEMMA HeldFinite ==
    ASSUME TypeOK, IndexExact
    PROVE  /\ IsFiniteSet(DOMAIN vmMap)
           /\ Held \in [DOMAIN vmMap -> Data]
           /\ DOMAIN pnodeMap = {<<Place(k), k[1]>> : k \in DOMAIN vmMap}
           /\ \A k \in DOMAIN vmMap : records[pnodeMap[<<Place(k), k[1]>>]].data = Held[k]
<1> DEFINE n == Len(records)
<1>1. n \in Nat  BY LenProperties DEF TypeOK
<1>2. \A i \in 1 .. n : records[i] \in NodeRecord  BY ElementOfSeq DEF TypeOK
<1>3. /\ DOMAIN vmMap = {VmKey(records[i]) : i \in 1 .. n}
      /\ \A k \in DOMAIN vmMap : /\ vmMap[k] \in 1 .. n /\ VmKey(records[vmMap[k]]) = k
                                 /\ Held[k] \in Data /\ Held[k] = records[vmMap[k]].data
  BY HeldRecords DEF Held, DataAt
<1>4. IsFiniteSet(DOMAIN vmMap)
  <2> DEFINE f == [i \in 1 .. n |-> VmKey(records[i])]
  <2>1. DOMAIN vmMap = {f[i] : i \in 1 .. n} /\ DOMAIN f = 1 .. n  BY <1>3
  <2>2. IsFiniteSet(1 .. n)  BY <1>1, FS_Interval
  <2> HIDE DEF f, n
  <2>3. IsFiniteSet({f[i] : i \in 1 .. n})  BY <2>1, <2>2, FiniteImage
  <2> QED BY <2>1, <2>3
<1>5. Held \in [DOMAIN vmMap -> Data]  BY <1>3 DEF Held
<1>6. /\ DOMAIN pnodeMap = {PnodeKey(records[i]) : i \in 1 .. n}
      /\ \A i \in 1 .. n : pnodeMap[PnodeKey(records[i])] = i
  <2>1. /\ DOMAIN PnodeKeys(records) = 1 .. n
        /\ \A i \in 1 .. n : PnodeKeys(records)[i] = PnodeKey(records[i])
    BY DEF PnodeKeys
  <2> QED BY <2>1 DEF IndexExact, IndexedBy
<1>7. \A i \in 1 .. n : /\ VmKey(records[i]) \in DOMAIN vmMap
                        /\ PnodeKey(records[i]) = <<Place(VmKey(records[i])), VmKey(records[i])[1]>>
  BY <1>2, <1>3, RecordKeys
<1>8. ASSUME NEW k \in DOMAIN vmMap
      PROVE  /\ <<Place(k), k[1]>> \in DOMAIN pnodeMap
             /\ records[pnodeMap[<<Place(k), k[1]>>]].data = Held[k]
  <2>1. vmMap[k] \in 1 .. n /\ VmKey(records[vmMap[k]]) = k  BY <1>3
  <2>2. PnodeKey(records[vmMap[k]]) = <<Place(k), k[1]>>  BY <1>7, <2>1
  <2> QED BY <1>3, <1>6, <2>1, <2>2
<1>9. DOMAIN pnodeMap \subseteq {<<Place(k), k[1]>> : k \in DOMAIN vmMap}  BY <1>6, <1>7
<1> QED BY <1>4, <1>5, <1>8, <1>9

\* The total over what names the nodes of S once is the total over S.
LEMMA SumByName ==
    ASSUME NEW S, IsFiniteSet(S), NEW C, NEW h, Names(h, S, C), NEW d, NEW f,
           f \in [C -> Int], d \in [S -> Int], \A k \in S : f[h[k]] = d[k]
    PROVE  /\ SumFunction(f) = SumFunction(d)
           /\ C = {} <=> S = {}
<1>1. h \in [S -> C] /\ {h[k] : k \in S} = C  BY DEF Names
<1>2. IsFiniteSet(C)  BY <1>1, FiniteImage
<1>3. SumFunction([k \in S |-> f[h[k]]]) = SumFunction(f)  BY <1>2, TotalMapped
<1>4. [k \in S |-> f[h[k]]] = d  BY <1>1
<1> QED BY <1>1, <1>3, <1>4

\* The sums are those of the nodes, whichever index they go through.
LEMMA SumsOfNodes ==
    ASSUME TypeOK, IndexExact, NEW nodes \in SUBSET DOMAIN vmMap
    PROVE  /\ \A vm \in Vm : VmSum(vm, nodes) = SumOver({k \in nodes : k[1] = vm})
           /\ \A p \in Pnode :
                 PnodeSum(p, {<<Place(k), k[1]>> : k \in nodes})
                     = SumOver({k \in nodes : Place(k) = p})
<1>1. \A k \in nodes : k \in DOMAIN vmMap /\ k \in Node /\ k = <<k[1], k[2]>>
  BY HeldRecords DEF Node
<1>2. IsFiniteSet(nodes)  BY HeldFinite, FS_Subset
<1>3. \A k \in nodes : Held[k] \in Int  BY <1>1, HeldRecords, SysMapDataAssumption
<1>4. ASSUME NEW vm \in Vm
      PROVE  VmSum(vm, nodes) = SumOver({k \in nodes : k[1] = vm})
  <2> DEFINE S == {k \in nodes : k[1] = vm}
             C == {v \in VnodeList(vm) : <<vm, v>> \in nodes}
             h == [k \in S |-> k[2]]
             f == [v \in C |-> records[vmMap[<<vm, v>>]].data]
             d == [k \in S |-> Held[k]]
  <2>1. C = {h[k] : k \in S} /\ \A k \in S : k = <<vm, h[k]>>  BY <1>1 DEF VnodeList
  <2>2. Names(h, S, C)  BY <2>1 DEF Names
  <2>3. \A k \in S : f[h[k]] = d[k]  BY <1>1, <2>1 DEF Held, DataAt
  <2>4. d \in [S -> Int]  BY <1>3
  <2>5. f \in [C -> Int]
    <3>1. \A v \in C : f[v] \in Int
      <4> SUFFICES ASSUME NEW v \in C PROVE f[v] \in Int
        OBVIOUS
      <4>1. PICK k \in S : v = h[k]  BY <2>1
      <4> HIDE DEF S, C, h, f, d
      <4> QED BY <4>1, <2>3, <2>4
    <3> QED BY <3>1
  <2>6. IsFiniteSet(S)  BY <1>2, FS_Subset
  <2> HIDE DEF S, C, h, f, d
  <2>7. SumFunction(f) = SumFunction(d) /\ (C = {} <=> S = {})
    BY <2>2, <2>3, <2>4, <2>5, <2>6, SumByName
  <2> QED BY <2>7 DEF VmSum, SumOver, S, C, f, d
<1>5. ASSUME NEW p \in Pnode
      PROVE  PnodeSum(p, {<<Place(k), k[1]>> : k \in nodes})
                 = SumOver({k \in nodes : Place(k) = p})
  <2> DEFINE S == {k \in nodes : Place(k) = p}
             m == {<<Place(k), k[1]>> : k \in nodes}
             C == {vm \in VmListWithinPnode(p) : <<p, vm>> \in m}
             h == [k \in S |-> k[1]]
             f == [vm \in C |-> records[pnodeMap[<<p, vm>>]].data]
             d == [k \in S |-> Held[k]]
  <2>1. C = {h[k] : k \in S}
    <3>1. ASSUME NEW k \in S PROVE h[k] \in C
      <4>1. <<p, k[1]>> \in DOMAIN pnodeMap /\ <<p, k[1]>> \in m  BY <1>1, HeldFinite
      <4>2. k[1] \in VmListWithinPnode(p)  BY <4>1 DEF VmListWithinPnode
      <4> QED BY <4>1, <4>2
    <3>2. \A vm \in C : \E k \in S : vm = h[k]  OBVIOUS
    <3> QED BY <3>1, <3>2
  <2>2. \A j, k \in S : h[j] = h[k] => j = k  BY <1>1, PlacesDiffer
  <2>3. Names(h, S, C)  BY <2>1, <2>2 DEF Names
  <2>4. \A k \in S : f[h[k]] = d[k]  BY <1>1, <2>1, HeldFinite
  <2>5. d \in [S -> Int]  BY <1>3
  <2>6. f \in [C -> Int]
    <3>1. \A v \in C : f[v] \in Int
      <4> SUFFICES ASSUME NEW v \in C PROVE f[v] \in Int
        OBVIOUS
      <4>1. PICK k \in S : v = h[k]  BY <2>1
      <4> HIDE DEF S, C, h, f, d
      <4> QED BY <4>1, <2>4, <2>5
    <3> QED BY <3>1
  <2>7. IsFiniteSet(S)  BY <1>2, FS_Subset
  <2> HIDE DEF S, C, h, f, d
  <2>8. SumFunction(f) = SumFunction(d) /\ (C = {} <=> S = {})
    BY <2>3, <2>4, <2>5, <2>6, <2>7, SumByName
  <2> QED BY <2>8 DEF PnodeSum, SumOver, S, C, f, d
<1> QED BY <1>4, <1>5

\* The data are such that no sum looks like "no record".
NoSumIsMinusOne ==
    \A nodes \in SUBSET Node : IsFiniteSet(nodes) /\ nodes # {} =>
        \A f \in [nodes -> Data] : SumFunction(f) # -1

\* Those that are not negative are: topologies, loads, bandwidths, costs.
LEMMA NaturalData == Data \subseteq Nat => NoSumIsMinusOne
<1> SUFFICES ASSUME Data \subseteq Nat, NEW nodes \in SUBSET Node, IsFiniteSet(nodes),
                    NEW f \in [nodes -> Data]
             PROVE  SumFunction(f) # -1
  BY DEF NoSumIsMinusOne
<1>1. f \in [nodes -> Nat]  OBVIOUS
<1>2. SumFunction(f) \in Nat  BY <1>1, TotalNatural
<1> QED BY <1>2

\* The sums of a map are those of its nodes whichever index they are read through,
\* and with data that do not add up to -1 no VM with a node in the mask is left
\* out of sort_vm_by_sum_ascend (sys_map.h).
THEOREM SumsAreExact == NoSumIsMinusOne => (Spec => []SumsAgree)
<1>1. ASSUME NoSumIsMinusOne, TypeOK, IndexExact PROVE SumsAgree
  <2> SUFFICES ASSUME NEW nodes \in SUBSET DOMAIN vmMap
               PROVE  /\ \A vm \in VmList : VmSum(vm, nodes) = SumOver({k \in nodes : k[1] = vm})
                      /\ \A p \in Pnode :
                            PnodeSum(p, {<<Place(k), k[1]>> : k \in nodes})
                                = SumOver({k \in nodes : Place(k) = p})
                      /\ Listed(nodes) = {k[1] : k \in nodes}
    BY DEF SumsAgree
  <2>1. VmList \subseteq Vm /\ \A k \in nodes : k[1] \in VmList /\ k \in Node
    BY <1>1, HeldRecords DEF VmList, Node
  <2>2. \A vm \in VmList : VmSum(vm, nodes) = SumOver({k \in nodes : k[1] = vm})
    BY <1>1, <2>1, SumsOfNodes
  <2>3. ASSUME NEW vm \in VmList PROVE SumOver({k \in nodes : k[1] = vm}) # -1
                                       <=> \E k \in nodes : k[1] = vm
    <3> DEFINE S == {k \in nodes : k[1] = vm}
               d == [k \in S |-> Held[k]]
    <3>1. IsFiniteSet(S)  BY <1>1, HeldFinite, FS_Subset
    <3>2. S \in SUBSET Node  BY <2>1
    <3>3. d \in [S -> Data]  BY <1>1, HeldFinite
    <3>4. S # {} => SumFunction(d) # -1
      <4> HIDE DEF S, d
      <4> QED BY <1>1, <3>1, <3>2, <3>3 DEF NoSumIsMinusOne
    <3>5. SumOver(S) # -1 <=> S # {}
      <4> HIDE DEF S
      <4> QED BY <3>4 DEF SumOver, d
    <3> QED BY <3>5
  <2>4. Listed(nodes) = {k[1] : k \in nodes}  BY <2>1, <2>2, <2>3 DEF Listed
  <2> QED BY <1>1, <2>2, <2>4, SumsOfNodes
<1>2. IInv => TypeOK /\ IndexExact  BY DEF IInv
<1>3. SUFFICES ASSUME NoSumIsMinusOne PROVE Spec => []SumsAgree
  OBVIOUS
<1>4. IInv => SumsAgree  BY <1>1, <1>2, <1>3
<1> QED BY <1>4, InductiveInv, PTL
=============================================================================
