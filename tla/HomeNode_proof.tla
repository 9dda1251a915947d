---------------------------- MODULE HomeNode_proof ----------------------------
(***************************************************************************)
(* The safety of the search for home nodes, for every set of guests and    *)
(* every placement of their nodes.  What makes the search safe is that the *)
(* map is valid on every level of the recursion: taking back the last      *)
(* choice leads to a map that was valid before, which does not follow from *)
(* the map being valid now (a physical node may lose its only home while   *)
(* another has two).                                                       *)
(***************************************************************************)
EXTENDS HomeNode, FiniteSetTheorems, TLAPS

\* The map as it was when the first j VMs of the order had their homes.
Chosen(h, o, j) == [vm \in DOMAIN h |-> IF \E i \in 1 .. j : o[i] = vm THEN h[vm] ELSE {}]

\* The state of a search of n levels: A the VMs, t the topology, o the order,
\* h the map.
Path(A, t, o, h, n) ==
    /\ o \in Orders(A)
    /\ h \in [A -> SUBSET Vnode]
    /\ n \in 1 .. Cardinality(A) + 1
    /\ \A i \in 1 .. Cardinality(A) : i < n => \E v \in t[o[i]] : h[o[i]] = {v}
    /\ \A i \in 1 .. Cardinality(A) : i >= n => h[o[i]] = {}
    /\ \A j \in 0 .. n - 1 : IsValid(Chosen(h, o, j), t)

\* The enabled nodes of a VM are among its nodes.
Within == \A vm \in alive : topo[vm] \subseteq VnodesOf(vm)

\* No search is left over from the last plan.
Rested == pc = "crawl" => order = <<>> /\ tried = <<>>

\* A search is under way only if homes may change.
Underway == pc = "search" => changed /\ Path(alive, topo, order, trial, Len(tried))

\* The homes are valid from one plan to the next.
Settled == /\ ~changed => Homed /\ ~failed
           /\ (pc = "plan" /\ ~failed) => ~changed

IInv == TypeOK /\ Within /\ Rested /\ Underway /\ Settled /\ HomeEnabled
-----------------------------------------------------------------------------
\* A set of VMs is finite.
LEMMA FiniteVms ==
    ASSUME NEW A \in SUBSET Vm
    PROVE  IsFiniteSet(A) /\ Cardinality(A) \in Nat
BY HomeVmAssumption, FS_Subset, FS_CardinalityType

\* The nodes PnodeOf gives a VM are virtual nodes.
LEMMA VnodesType == ASSUME NEW vm \in Vm PROVE VnodesOf(vm) \subseteq Vnode
BY HomeNodesAssumption

\* An order of VMs lists all of them.
LEMMA OrderCovers ==
    ASSUME NEW A \in SUBSET Vm, NEW o \in Orders(A)
    PROVE  /\ o \in Seq(A) /\ Len(o) = Cardinality(A)
           /\ \A vm \in A : \E i \in 1 .. Cardinality(A) : o[i] = vm
<1> DEFINE n == Cardinality(A)
<1>1. IsFiniteSet(A) /\ n \in Nat
  BY FiniteVms
<1>2. o \in [1 .. n -> A] /\ \A i, j \in 1 .. n : o[i] = o[j] => i = j
  BY DEF Orders
<1>3. o \in Injection(1 .. n, A)
  BY <1>2 DEF Injection, IsInjective
<1>4. Cardinality(1 .. n) = n
  BY <1>1, FS_Interval
<1>5. o \in Surjection(1 .. n, A)
  BY <1>1, <1>3, <1>4, FS_Injection
<1> QED
  BY <1>1, <1>2, <1>5 DEF Surjection

\* The map without any home is valid.
LEMMA EmptyValid ==
    ASSUME NEW A, NEW h, DOMAIN h = A, \A vm \in A : h[vm] = {}, NEW t
    PROVE  IsValid(h, t)
<1>1. Cardinality({}) = 0
  BY FS_EmptySet
<1>2. \A p : Hosts(h, p) = {}
  BY DEF Hosts, PnodesOf
<1>3. Overlap(h) = {}
  BY <1>1, <1>2 DEF Overlap
<1> QED
  BY <1>1, <1>3 DEF IsValid

\* A node that is admitted keeps the map valid: it is the first home of its
\* physical node, or there is no physical node left without one.
LEMMA AdmittedValid ==
    ASSUME NEW A, NEW h \in [A -> SUBSET Vnode], NEW t, IsValid(h, t),
           NEW vm \in A, h[vm] = {}, NEW v \in t[vm],
           Hosts(h, PnodeOf[vm][v]) # {} => Idle(h) = {}
    PROVE  IsValid([h EXCEPT ![vm] = {v}], t)
<1> DEFINE g == [h EXCEPT ![vm] = {v}]
           P == PnodeOf[vm][v]
<1>1. DOMAIN g = A /\ DOMAIN h = A /\ g[vm] = {v} /\ \A w \in A \ {vm} : g[w] = h[w]
  OBVIOUS
<1>2. PnodesOf(vm, g[vm]) = {P} /\ PnodesOf(vm, h[vm]) = {}
  BY <1>1 DEF PnodesOf
<1>3. \A p : p # P => Hosts(g, p) = Hosts(h, p)
  BY <1>1, <1>2 DEF Hosts, PnodesOf
<1>4. Hosts(g, P) = Hosts(h, P) \cup {vm}
  BY <1>1, <1>2 DEF Hosts, PnodesOf
<1>5. Idle(g) = {} \/ Overlap(g) = {}
  <2>1. CASE Idle(h) = {}
    BY <2>1, <1>1, <1>3, <1>4 DEF Idle
  <2>2. CASE Idle(h) # {}
    <3>1. Hosts(h, P) = {} /\ Overlap(h) = {}
      BY <2>2 DEF IsValid
    <3>2. Cardinality(Hosts(g, P)) = 1
      <4>1. Hosts(g, P) = {vm}
        BY <3>1, <1>4
      <4> QED
        BY <4>1, FS_Singleton
    <3>3. ASSUME NEW p \in PnodesIn(A) PROVE ~(Cardinality(Hosts(g, p)) > 1)
      <4>1. CASE p = P
        BY <4>1, <3>2
      <4>2. CASE p # P
        BY <4>2, <3>1, <1>1, <1>3 DEF Overlap
      <4> QED
        BY <4>1, <4>2
    <3> QED
      BY <3>3, <1>1 DEF Overlap
  <2> QED
    BY <2>1, <2>2
<1>6. ASSUME NEW w \in A PROVE Cardinality(g[w]) <= 1 /\ g[w] \subseteq t[w]
  <2>1. CASE w = vm
    <3>1. Cardinality({v}) = 1
      BY FS_Singleton
    <3> QED
      BY <2>1, <3>1, <1>1
  <2>2. CASE w # vm
    BY <2>2, <1>1 DEF IsValid
  <2> QED
    BY <2>1, <2>2
<1> QED
  BY <1>1, <1>5, <1>6 DEF IsValid

\* The map of a search is what the levels below the last have chosen.
LEMMA ChosenNow ==
    ASSUME NEW A \in SUBSET Vm, NEW t, NEW o, NEW h, NEW n, Path(A, t, o, h, n)
    PROVE  h = Chosen(h, o, n - 1) /\ IsValid(h, t)
<1>1. /\ n \in 1 .. Cardinality(A) + 1 /\ h \in [A -> SUBSET Vnode] /\ Cardinality(A) \in Nat
      /\ \A i \in 1 .. Cardinality(A) : i >= n => h[o[i]] = {}
  BY FiniteVms DEF Path
<1>2. ASSUME NEW vm \in A PROVE Chosen(h, o, n - 1)[vm] = h[vm]
  <2>1. PICK i \in 1 .. Cardinality(A) : o[i] = vm
    BY OrderCovers DEF Path
  <2>2. CASE i < n
    <3>1. i \in 1 .. n - 1
      BY <2>2, <1>1
    <3> QED
      BY <3>1, <2>1, <1>1 DEF Chosen
  <2>3. CASE i >= n
    <3>1. h[vm] = {}
      BY <2>1, <2>3, <1>1
    <3> QED
      BY <3>1, <1>1 DEF Chosen
  <2> QED
    BY <2>2, <2>3, <1>1
<1>3. h = Chosen(h, o, n - 1)
  BY <1>1, <1>2 DEF Chosen
<1>4. n - 1 \in 0 .. n - 1
  BY <1>1
<1> QED
  BY <1>3, <1>4 DEF Path

\* Changing the home of a VM does not change what the levels before it chose.
LEMMA ChosenBefore ==
    ASSUME NEW A \in SUBSET Vm, NEW o \in Orders(A), NEW h \in [A -> SUBSET Vnode],
           NEW g, DOMAIN g = A,
           NEW m \in 1 .. Cardinality(A), NEW j \in 0 .. m - 1,
           \A vm \in A : vm # o[m] => g[vm] = h[vm]
    PROVE  Chosen(g, o, j) = Chosen(h, o, j)
<1>1. Cardinality(A) \in Nat
  BY FiniteVms
<1>2. \A i \in 1 .. j : o[i] # o[m]
  BY <1>1 DEF Orders
<1>3. ASSUME NEW vm \in A PROVE Chosen(g, o, j)[vm] = Chosen(h, o, j)[vm]
  BY <1>2 DEF Chosen
<1> QED
  BY <1>3 DEF Chosen

\* The first call of the helper: no VM has a home.
LEMMA PathStart ==
    ASSUME NEW A \in SUBSET Vm, NEW o \in Orders(A), NEW t
    PROVE  Path(A, t, o, [vm \in A |-> {}], 1)
<1> DEFINE h == [vm \in A |-> {}]
<1>1. Cardinality(A) \in Nat
  BY FiniteVms
<1>2. \A i \in 1 .. Cardinality(A) : o[i] \in A
  BY DEF Orders
<1>3. IsValid(Chosen(h, o, 0), t)
  BY EmptyValid DEF Chosen
<1>4. h \in [A -> SUBSET Vnode] /\ \A i \in 1 .. Cardinality(A) : h[o[i]] = {}
  BY <1>2
<1>5. \A j \in 0 .. 1 - 1 : j = 0
  OBVIOUS
<1>6. 1 \in 1 .. Cardinality(A) + 1 /\ \A i \in 1 .. Cardinality(A) : ~(i < 1)
  BY <1>1
<1> QED
  BY <1>3, <1>4, <1>5, <1>6 DEF Path

\* A call that descends: the VM of this level gets a node that is admitted.
LEMMA PathDown ==
    ASSUME NEW A \in SUBSET Vm, NEW t \in [Vm -> SUBSET Vnode], NEW o, NEW h, NEW n,
           Path(A, t, o, h, n), n <= Cardinality(A),
           NEW v \in t[o[n]], Hosts(h, PnodeOf[o[n]][v]) # {} => Idle(h) = {}
    PROVE  Path(A, t, o, [h EXCEPT ![o[n]] = @ \cup {v}], n + 1)
<1>1. /\ o \in Orders(A) /\ h \in [A -> SUBSET Vnode] /\ n \in 1 .. Cardinality(A)
      /\ Cardinality(A) \in Nat
  BY FiniteVms DEF Path
<1>2. o[n] \in A /\ h[o[n]] = {} /\ v \in Vnode
  BY <1>1 DEF Path, Orders
<1> DEFINE g == [h EXCEPT ![o[n]] = {v}]
<1>3. [h EXCEPT ![o[n]] = @ \cup {v}] = g
  BY <1>1, <1>2
<1>4. g \in [A -> SUBSET Vnode] /\ g[o[n]] = {v}
  BY <1>1, <1>2
<1>5. \A i \in 1 .. Cardinality(A) : i # n => o[i] # o[n] /\ o[i] \in A
  BY <1>1 DEF Orders
<1>6. \A i \in 1 .. Cardinality(A) : i # n => g[o[i]] = h[o[i]]
  BY <1>1, <1>5
<1>7. ASSUME NEW i \in 1 .. Cardinality(A), i < n + 1
      PROVE  \E w \in t[o[i]] : g[o[i]] = {w}
  <2>1. CASE i = n
    BY <2>1, <1>4
  <2>2. CASE i # n
    <3>1. i < n
      BY <2>2, <1>1, <1>7
    <3> QED
      BY <3>1, <2>2, <1>6 DEF Path
  <2> QED
    BY <2>1, <2>2
<1>8. ASSUME NEW i \in 1 .. Cardinality(A), i >= n + 1
      PROVE  g[o[i]] = {}
  <2>1. i # n /\ i >= n
    BY <1>1, <1>8
  <2> QED
    BY <2>1, <1>6 DEF Path
<1>9. IsValid(g, t)
  <2>1. IsValid(h, t)
    BY ChosenNow
  <2> QED
    BY <2>1, <1>1, <1>2, AdmittedValid
<1>10. ASSUME NEW j \in 0 .. n PROVE IsValid(Chosen(g, o, j), t)
  <2>1. CASE j = n
    <3>1. ASSUME NEW vm \in A PROVE Chosen(g, o, n)[vm] = g[vm]
      <4>1. PICK i \in 1 .. Cardinality(A) : o[i] = vm
        BY <1>1, OrderCovers
      <4>2. CASE i <= n
        <5>1. i \in 1 .. n
          BY <4>2, <1>1
        <5> QED
          BY <5>1, <4>1, <1>4 DEF Chosen
      <4>3. CASE i > n
        <5>1. g[vm] = {}
          BY <4>1, <4>3, <1>1, <1>8
        <5> QED
          BY <5>1, <1>4 DEF Chosen
      <4> QED
        BY <4>2, <4>3, <1>1
    <3>2. Chosen(g, o, n) = g
      BY <3>1, <1>4 DEF Chosen
    <3> QED
      BY <3>2, <2>1, <1>9
  <2>2. CASE j # n
    <3>1. j \in 0 .. n - 1
      BY <2>2, <1>1
    <3>2. DOMAIN g = A /\ \A vm \in A : vm # o[n] => g[vm] = h[vm]
      BY <1>1
    <3>3. Chosen(g, o, j) = Chosen(h, o, j)
      <4> HIDE DEF g
      <4> QED
        BY <3>1, <3>2, <1>1, ChosenBefore
    <3> QED
      BY <3>1, <3>3 DEF Path
  <2> QED
    BY <2>1, <2>2
<1>11. n + 1 \in 1 .. Cardinality(A) + 1 /\ (n + 1) - 1 = n
  BY <1>1
<1>12. Path(A, t, o, g, n + 1)
  BY <1>1, <1>4, <1>7, <1>8, <1>10, <1>11 DEF Path
<1> QED
  BY <1>3, <1>12

\* A call that returns false: the VM of the level before loses its node, and
\* the map is again what it was when that level was reached.
LEMMA PathUp ==
    ASSUME NEW A \in SUBSET Vm, NEW t, NEW o, NEW h, NEW n, Path(A, t, o, h, n), n > 1
    PROVE  Path(A, t, o, [h EXCEPT ![o[n - 1]] = {}], n - 1)
<1> DEFINE m == n - 1
           g == [h EXCEPT ![o[m]] = {}]
<1>1. /\ o \in Orders(A) /\ h \in [A -> SUBSET Vnode] /\ n \in 2 .. Cardinality(A) + 1
      /\ m \in 1 .. Cardinality(A) /\ Cardinality(A) \in Nat
  BY FiniteVms DEF Path
<1>2. \A i \in 1 .. Cardinality(A) : o[i] \in A /\ (i # m => o[i] # o[m])
  BY <1>1 DEF Orders
<1>3. g \in [A -> SUBSET Vnode] /\ g[o[m]] = {}
  BY <1>1, <1>2
<1>4. \A i \in 1 .. Cardinality(A) : i # m => g[o[i]] = h[o[i]]
  BY <1>1, <1>2
<1>5. ASSUME NEW i \in 1 .. Cardinality(A), i < m
      PROVE  \E v \in t[o[i]] : g[o[i]] = {v}
  <2>1. i # m /\ i < n
    BY <1>1, <1>5
  <2> QED
    BY <2>1, <1>4 DEF Path
<1>6. ASSUME NEW i \in 1 .. Cardinality(A), i >= m
      PROVE  g[o[i]] = {}
  <2>1. CASE i = m
    BY <2>1, <1>3
  <2>2. CASE i # m
    <3>1. i >= n
      BY <2>2, <1>1, <1>6
    <3> QED
      BY <3>1, <2>2, <1>4 DEF Path
  <2> QED
    BY <2>1, <2>2
<1>7. ASSUME NEW j \in 0 .. m - 1 PROVE IsValid(Chosen(g, o, j), t)
  <2>1. DOMAIN g = A /\ \A vm \in A : vm # o[m] => g[vm] = h[vm]
    BY <1>1
  <2>2. Chosen(g, o, j) = Chosen(h, o, j)
    <3> HIDE DEF g, m
    <3> QED
      BY <2>1, <1>1, ChosenBefore
  <2>3. j \in 0 .. n - 1
    BY <1>1
  <2> QED
    BY <2>2, <2>3 DEF Path
<1>8. m \in 1 .. Cardinality(A) + 1
  BY <1>1
<1> QED
  BY <1>1, <1>3, <1>5, <1>6, <1>7, <1>8 DEF Path

-----------------------------------------------------------------------------
\* Nobody has a home before the first VM starts.
LEMMA InitInv == Init => IInv
<1> SUFFICES ASSUME Init PROVE IInv
  OBVIOUS
<1>1. Homed
  <2>1. IsValid(HomeSys(alive), topo)
    BY EmptyValid DEF Init, HomeSys
  <2> QED
    BY <2>1 DEF Init, Homed, HomeSys, IsComplete
<1>2. TypeOK
  <2>1. Len(tried) = 0 /\ Len(order) = 0
    BY DEF Init
  <2>2. trial \in [DOMAIN trial -> SUBSET Vnode]
    BY DEF Init
  <2>3. order \in Seq(alive) /\ tried \in Seq(SUBSET Vnode)
    BY DEF Init
  <2>4. Level <= Len(order) + 1
    BY <2>1 DEF Level
  <2>5. home \in [Vm -> Vnode] /\ topo \in [Vm -> SUBSET Vnode] /\ alive \subseteq Vm
    BY HomeVmAssumption DEF Init
  <2> QED
    BY <2>2, <2>3, <2>4, <2>5 DEF Init, TypeOK
<1> QED
  BY <1>1, <1>2 DEF Init, IInv, Within, Rested, Underway, Settled, HomeEnabled

\* A VM starts.
LEMMA ArriveInv == ASSUME IInv, NEW vm \in Vm, Arrive(vm) PROVE IInv'
<1> USE DEF IInv
<1>1. VnodesOf(vm) \subseteq Vnode
  BY VnodesType
<1>2. TypeOK'
  BY <1>1, HomeVmAssumption DEF Arrive, TypeOK, Level, search, Rested
<1>3. Within' /\ HomeEnabled'
  BY DEF Arrive, TypeOK, Within, HomeEnabled
<1> QED
  BY <1>2, <1>3 DEF Arrive, search, Rested, Underway, Settled

\* A VM ends.
LEMMA LeaveInv == ASSUME IInv, NEW vm \in Vm, Leave(vm) PROVE IInv'
<1> USE DEF IInv
<1>1. TypeOK'
  BY HomeVmAssumption DEF Leave, TypeOK, Level, search, Rested
<1>2. Within' /\ HomeEnabled'
  BY DEF Leave, TypeOK, Within, HomeEnabled
<1> QED
  BY <1>1, <1>2 DEF Leave, search, Rested, Underway, Settled

\* Validity and completeness depend on the VMs, their nodes and homes only.
LEMMA HomedUnchanged ==
    ASSUME UNCHANGED <<alive, topo, home>>
    PROVE  Homed' = Homed
BY DEF Homed, HomeSys, IsValid, IsComplete, Idle, Overlap, Hosts, PnodesIn, PnodesOf

\* The homes are kept.
LEMMA KeepInv == ASSUME IInv, Keep PROVE IInv'
<1> USE DEF IInv
<1>1. TypeOK'
  BY DEF Keep, TypeOK, Level, search
<1>2. Within' /\ HomeEnabled' /\ Homed'
  BY HomedUnchanged DEF Keep, Within, HomeEnabled
<1> QED
  BY <1>1, <1>2 DEF Keep, Rested, Underway, Settled

\* A search begins, which it does only after VMs have started or ended.
LEMMA StartSearchInv == ASSUME IInv, StartSearch PROVE IInv'
<1> USE DEF IInv
<1>1. changed /\ alive \in SUBSET Vm
  BY DEF StartSearch, Settled, TypeOK
<1>2. /\ order' \in Seq(alive) /\ Len(order') = Cardinality(alive) /\ Cardinality(alive) \in Nat
  BY <1>1, OrderCovers, FiniteVms DEF StartSearch
<1>3. tried' = <<{}>> /\ Len(tried') = 1
  BY DEF StartSearch
<1>4. Path(alive, topo, order', trial', 1)
  BY <1>1, PathStart DEF StartSearch
<1>5. TypeOK'
  BY <1>2, <1>3 DEF StartSearch, TypeOK, Level
<1>6. Underway'
  BY <1>1, <1>3, <1>4 DEF StartSearch, Underway
<1> QED
  BY <1>1, <1>5, <1>6 DEF StartSearch, Within, HomeEnabled, Rested, Settled

\* What a search knows of itself.
LEMMA SearchState ==
    ASSUME IInv, pc = "search"
    PROVE  /\ changed /\ Path(alive, topo, order, trial, Len(tried))
           /\ alive \in SUBSET Vm /\ topo \in [Vm -> SUBSET Vnode]
           /\ order \in Orders(alive) /\ Len(order) = Cardinality(alive)
           /\ Cardinality(alive) \in Nat
<1>1. Path(alive, topo, order, trial, Len(tried)) /\ changed /\ alive \in SUBSET Vm
  BY DEF IInv, Underway, TypeOK
<1>2. order \in Orders(alive)
  BY <1>1 DEF Path
<1> QED
  BY <1>1, <1>2, OrderCovers, FiniteVms DEF IInv, TypeOK

\* The helper calls itself.
LEMMA TryNodeInv == ASSUME IInv, TryNode PROVE IInv'
<1> USE DEF IInv
<1> DEFINE n == Len(tried)
<1>1. /\ pc = "search" /\ n \in 1 .. Len(order)
      /\ UNCHANGED <<alive, topo, home, pc, order, changed, failed>>
  BY DEF TryNode, Searching, Level
<1>2. PICK v \in topo[order[n]] :
          /\ Hosts(trial, PnodeOf[order[n]][v]) # {} => Idle(trial) = {}
          /\ trial' = [trial EXCEPT ![order[n]] = @ \cup {v}]
          /\ tried' = Append([tried EXCEPT ![n] = @ \cup {v}], {})
  BY DEF TryNode, Admits, Current, Level
<1>3. order[n] \in alive /\ v \in Vnode
  BY <1>1, <1>2 DEF TypeOK
<1>4. tried' \in Seq(SUBSET Vnode) /\ Len(tried') = n + 1
  BY <1>1, <1>2, <1>3 DEF TypeOK
<1>5. Path(alive, topo, order, trial', n + 1)
  <2>1. n <= Cardinality(alive)
    BY <1>1, SearchState
  <2> QED
    BY <1>1, <1>2, <2>1, SearchState, PathDown
<1>6. TypeOK'
  <2>1. trial' \in [DOMAIN trial' -> SUBSET Vnode]
    BY <1>5 DEF Path
  <2> QED
    BY <1>1, <1>4, <2>1 DEF TypeOK, Level
<1>7. Underway'
  BY <1>1, <1>4, <1>5, SearchState DEF Underway
<1> QED
  BY <1>1, <1>6, <1>7, SearchState DEF Within, HomeEnabled, Rested, Settled

\* A call of the helper returns false to another.
LEMMA GiveUpInv == ASSUME IInv, GiveUp PROVE IInv'
<1> USE DEF IInv
<1> DEFINE n == Len(tried)
<1>1. /\ pc = "search" /\ n \in 1 .. Len(order) /\ n > 1
      /\ trial' = [trial EXCEPT ![order[n - 1]] = {}]
      /\ tried' = SubSeq(tried, 1, n - 1)
      /\ UNCHANGED <<alive, topo, home, pc, order, changed, failed>>
  BY DEF GiveUp, Searching, Level
<1>2. tried' \in Seq(SUBSET Vnode) /\ Len(tried') = n - 1
  BY <1>1 DEF TypeOK
<1>3. Path(alive, topo, order, trial', n - 1)
  BY <1>1, SearchState, PathUp
<1>4. TypeOK'
  <2>1. trial' \in [DOMAIN trial' -> SUBSET Vnode]
    BY <1>3 DEF Path
  <2> QED
    BY <1>1, <1>2, <2>1 DEF TypeOK, Level
<1>5. Underway'
  BY <1>1, <1>2, <1>3, SearchState DEF Underway
<1> QED
  BY <1>1, <1>4, <1>5, SearchState DEF Within, HomeEnabled, Rested, Settled

\* The first call of the helper returns false.
LEMMA FailInv == ASSUME IInv, Fail PROVE IInv'
<1> USE DEF IInv
<1>1. TypeOK'
  BY DEF Fail, TypeOK, Level, search
<1> QED
  BY <1>1, SearchState DEF Fail, Searching, search, Within, HomeEnabled, Rested, Underway, Settled

\* The search has a home for every VM; they become the reserved nodes.
LEMMA FoundInv == ASSUME IInv, Found PROVE IInv'
<1> USE DEF IInv
<1> DEFINE n == Len(tried)
<1>1. /\ pc = "search" /\ n > Len(order) /\ pc' = "plan" /\ changed' = FALSE /\ failed' = FALSE
      /\ UNCHANGED <<alive, topo, order, trial, tried>>
  BY DEF Found, Level, search
<1>2. Path(alive, topo, order, trial, n) /\ n > Cardinality(alive)
  BY <1>1, SearchState
<1>3. ASSUME NEW vm \in alive
      PROVE  home'[vm] \in topo[vm] /\ trial[vm] = {home'[vm]}
  <2>1. PICK i \in 1 .. Cardinality(alive) : order[i] = vm
    BY <1>1, SearchState, OrderCovers
  <2>2. i < n
    BY <1>2, SearchState, <1>1
  <2>3. PICK v \in topo[vm] : trial[vm] = {v}
    BY <1>2, <2>1, <2>2 DEF Path
  <2>4. home'[vm] = CHOOSE w \in trial[vm] : TRUE
    BY DEF Found, TypeOK
  <2>5. home'[vm] \in trial[vm]
    BY <2>3, <2>4
  <2> QED
    BY <2>3, <2>5
<1>4. home' \in [Vm -> Vnode]
  <2>1. ASSUME NEW vm \in Vm PROVE home'[vm] \in Vnode
    <3>1. CASE vm \in alive
      BY <1>3, <3>1 DEF TypeOK
    <3>2. CASE vm \notin alive
      BY <3>2 DEF Found, TypeOK
    <3> QED
      BY <3>1, <3>2
  <2>2. home' = [vm \in Vm |-> home'[vm]]
    BY DEF Found
  <2> QED
    BY <2>1, <2>2
<1>5. HomeSys(alive)' = trial
  <2>1. DOMAIN trial = alive /\ trial = [vm \in alive |-> trial[vm]]
    BY <1>2 DEF Path
  <2>2. ASSUME NEW vm \in alive PROVE {home'[vm]} \cap VnodesOf(vm) = trial[vm]
    BY <1>3 DEF Within
  <2> QED
    BY <1>1, <2>1, <2>2 DEF HomeSys
<1>6. Homed'
  <2>1. IsValid(trial, topo)
    BY <1>1, <1>2, SearchState, ChosenNow
  <2>2. IsComplete(trial)
    BY <1>2, <1>3 DEF IsComplete, Path
  <2>3. Homed' <=> IsValid(HomeSys(alive)', topo) /\ IsComplete(HomeSys(alive)')
    BY <1>1 DEF Homed, IsValid, IsComplete, Idle, Overlap, Hosts, PnodesIn, PnodesOf
  <2> QED
    BY <1>5, <2>1, <2>2, <2>3
<1>7. TypeOK'
  <2>1. Level' <= Len(order') + 1
    BY <1>1 DEF TypeOK, Level
  <2>2. trial' \in [DOMAIN trial' -> SUBSET Vnode]
    BY <1>1 DEF TypeOK
  <2> QED
    BY <1>1, <1>4, <2>1, <2>2 DEF TypeOK
<1>8. HomeEnabled' /\ Within'
  BY <1>1, <1>3 DEF HomeEnabled, Within
<1> QED
  BY <1>1, <1>6, <1>7, <1>8 DEF Rested, Underway, Settled

\* Homes that are valid stay so, whatever else is enabled and disabled.
LEMMA HomedStays ==
    ASSUME Homed, UNCHANGED <<alive, home>>,
           \A vm \in alive : home[vm] \in topo[vm] => home[vm] \in topo'[vm]
    PROVE  Homed'
<1> DEFINE h == HomeSys(alive)
<1>1. h' = h /\ DOMAIN h = alive
  BY DEF HomeSys
<1>2. IsComplete(h) /\ IsValid(h, topo)
  BY DEF Homed
<1>3. ASSUME NEW vm \in alive PROVE h[vm] \subseteq topo'[vm]
  <2>1. h[vm] \subseteq topo[vm] /\ h[vm] = {home[vm]} \cap VnodesOf(vm)
    BY <1>1, <1>2 DEF IsValid, HomeSys
  <2> QED
    BY <2>1
<1>4. IsValid(h, topo')
  BY <1>1, <1>2, <1>3 DEF IsValid
<1>5. Homed' <=> IsValid(h', topo') /\ IsComplete(h')
  BY DEF Homed, IsValid, IsComplete, Idle, Overlap, Hosts, PnodesIn, PnodesOf
<1> QED
  BY <1>1, <1>2, <1>4, <1>5

\* A plan that implements PlanContract: homes that were valid stay valid.
LEMMA PlanInv == ASSUME IInv, Plan PROVE IInv'
<1> USE DEF IInv
<1>1. /\ pc = "plan" /\ pc' = "crawl" /\ order' = <<>> /\ tried' = <<>>
      /\ trial' = [vm \in {} |-> {}]
      /\ topo' \in [Vm -> SUBSET Vnode] /\ UNCHANGED <<alive, home, changed, failed>>
      /\ \A vm \in alive : MayBecome(vm, topo'[vm])
  BY DEF Plan, TypeOK
<1>2. TypeOK'
  BY <1>1 DEF TypeOK, Level
<1>3. Within'
  BY <1>1 DEF Within, MayBecome
<1>4. ASSUME NEW vm \in alive, home[vm] \in topo[vm] PROVE home[vm] \in topo'[vm]
  BY <1>1, <1>4 DEF MayBecome
<1>5. HomeEnabled'
  BY <1>1, <1>4 DEF HomeEnabled
<1>6. Homed => Homed'
  BY <1>1, <1>4, HomedStays
<1>7. Settled'
  BY <1>1, <1>6 DEF Settled
<1> QED
  BY <1>1, <1>2, <1>3, <1>5, <1>7 DEF Rested, Underway

\* Nothing happens.
LEMMA StutterInv == ASSUME IInv, UNCHANGED vars PROVE IInv'
<1>1. Homed' = Homed
  BY HomedUnchanged DEF vars
<1> QED
  BY <1>1 DEF IInv, vars, search, TypeOK, Level, Within, Rested, Underway, Settled, HomeEnabled

\* The invariant is inductive.
LEMMA StepInv == ASSUME IInv, [Next]_vars PROVE IInv'
<1>1. ASSUME NEW vm \in Vm, Arrive(vm) PROVE IInv'
  BY <1>1, ArriveInv
<1>2. ASSUME NEW vm \in Vm, Leave(vm) PROVE IInv'
  BY <1>2, LeaveInv
<1>3. CASE Keep
  BY <1>3, KeepInv
<1>4. CASE StartSearch
  BY <1>4, StartSearchInv
<1>5. CASE TryNode
  BY <1>5, TryNodeInv
<1>6. CASE GiveUp
  BY <1>6, GiveUpInv
<1>7. CASE Fail
  BY <1>7, FailInv
<1>8. CASE Found
  BY <1>8, FoundInv
<1>9. CASE Plan
  BY <1>9, PlanInv
<1>10. CASE UNCHANGED vars
  BY <1>10, StutterInv
<1> QED
  BY <1>1, <1>2, <1>3, <1>4, <1>5, <1>6, <1>7, <1>8, <1>9, <1>10 DEF Next, Search

\* Every reachable state of the assignment of homes satisfies IInv.
THEOREM Invariant == Spec => []IInv
<1>1. Init => IInv
  BY InitInv
<1>2. IInv /\ [Next]_vars => IInv'
  BY StepInv
<1> QED
  BY <1>1, <1>2, PTL DEF Spec

\* The state of the assignment has its type.
THEOREM TypeCorrect == Spec => []TypeOK
<1>1. IInv => TypeOK
  BY DEF IInv
<1> QED
  BY <1>1, Invariant, PTL

\* The home of a VM is enabled, whatever searches found or did not find and
\* whatever plans did (home_node_assignment, max_topo_change_net_gain_func).
THEOREM HomesEnabled == Spec => []HomeEnabled
<1>1. IInv => HomeEnabled
  BY DEF IInv
<1> QED
  BY <1>1, Invariant, PTL

\* The map is valid on all levels of the search, and what it returns is valid
\* and complete (home_node_assignment_helper, home_node_sys_is_valid).
THEOREM SearchSafe == Spec => []SearchValid
<1>1. IInv => SearchValid
  <2> SUFFICES ASSUME IInv PROVE SearchValid
    OBVIOUS
  <2>1. ASSUME pc = "search" PROVE IsValid(trial, topo)
    BY <2>1, SearchState, ChosenNow
  <2>2. ASSUME pc = "plan", ~failed PROVE Homed
    BY <2>2 DEF IInv, Settled
  <2> QED
    BY <2>1, <2>2 DEF SearchValid
<1> QED
  BY <1>1, Invariant, PTL

\* Homes that were valid once are not moved before a VM starts or ends.
THEOREM HomesStay == Spec => HomesStable
<1>1. IInv /\ [Next]_vars => [\A vm \in alive \cap alive' : home'[vm] # home[vm] => changed]_vars
  <2> SUFFICES ASSUME IInv, Next, NEW vm \in alive \cap alive', home'[vm] # home[vm]
               PROVE  changed
    BY DEF vars
  <2>1. \A w \in Vm : ~Arrive(w) /\ ~Leave(w)
    BY DEF Arrive, Leave, IInv, TypeOK
  <2>2. CASE Found
    BY <2>2, SearchState DEF Found
  <2> QED
    BY <2>1, <2>2 DEF Next, Search, Keep, StartSearch, TryNode, GiveUp, Fail, Plan
<1> QED
  BY <1>1, Invariant, PTL DEF Spec, HomesStable

-----------------------------------------------------------------------------
(***************************************************************************)
(* The search for home nodes is complete where homes need not be shared:   *)
(* it gives up only if no assignment exists.  Every node a call has tried  *)
(* is either the one its VM stands on, or is in no assignment that agrees  *)
(* with the choices of the calls above.                                    *)
(***************************************************************************)

\* There is a physical node for every VM, so that homes must not be shared.
Roomy == Cardinality(alive) <= Cardinality(PnodesIn(alive))

\* An assignment that agrees with the first j choices.
Follows(h, j) == \A i \in 1 .. j : h[order[i]] = trial[order[i]]

Standing(l, v) == l < Len(tried) /\ trial[order[l]] = {v}
Refuted(l, v)  == \A h \in Assignments : Follows(h, l - 1) => h[order[l]] # {v}

TriedInVain ==
    (pc = "search" /\ Roomy) =>
        \A l \in 1 .. Len(tried) : l <= Len(order) =>
            \A v \in tried[l] : Standing(l, v) \/ Refuted(l, v)
-----------------------------------------------------------------------------
\* What the assignments are depends on the VMs and their nodes only.
LEMMA SameAssignments ==
    ASSUME UNCHANGED <<alive, topo>>
    PROVE  Assignments' = Assignments /\ Roomy' = Roomy
BY DEF Assignments, IsValid, Idle, Overlap, Hosts, PnodesIn, PnodesOf, Roomy

\* The home an assignment gives to a VM.
LEMMA AssignedHome ==
    ASSUME IInv, NEW h \in Assignments, NEW vm \in alive
    PROVE  \E v \in topo[vm] : v \in VnodesOf(vm) /\ v \in Vnode /\ h[vm] = {v}
<1>1. h \in [alive -> {{v} : v \in Vnode}] /\ h[vm] \subseteq topo[vm]
  BY DEF Assignments
<1>2. PICK v \in Vnode : h[vm] = {v}
  BY <1>1
<1>3. topo[vm] \subseteq VnodesOf(vm)
  BY DEF IInv, Within
<1> QED
  BY <1>1, <1>2, <1>3

\* If there is room, no two VMs have their homes on one physical node: it is
\* shared only if no other is left, and then there are fewer of them than VMs.
LEMMA Unshared ==
    ASSUME IInv, Roomy, NEW h \in Assignments, NEW u \in alive, NEW w \in alive, u # w,
           NEW p, p \in PnodesOf(u, h[u]), p \in PnodesOf(w, h[w])
    PROVE  FALSE
<1>1. /\ alive \in SUBSET Vm /\ IsFiniteSet(alive) /\ Cardinality(alive) \in Nat
      /\ DOMAIN h = alive /\ IsValid(h, topo)
  BY FiniteVms DEF IInv, TypeOK, Assignments
<1> DEFINE P == PnodesIn(alive)
           homeOf(vm) == CHOOSE v : h[vm] = {v}
           f == [vm \in alive |-> PnodeOf[vm][homeOf(vm)]]
<1>2. ASSUME NEW vm \in alive
      PROVE  h[vm] = {homeOf(vm)} /\ homeOf(vm) \in VnodesOf(vm) /\ PnodesOf(vm, h[vm]) = {f[vm]}
  <2>1. PICK v \in VnodesOf(vm) : h[vm] = {v}
    BY AssignedHome
  <2>2. h[vm] = {homeOf(vm)}
    BY <2>1
  <2>3. homeOf(vm) \in VnodesOf(vm)
    BY <2>1, <2>2
  <2> QED
    BY <2>2, <2>3 DEF PnodesOf
<1>3. \A vm \in alive : f[vm] \in P
  <2>1. \A vm \in alive : PnodeOf[vm][homeOf(vm)] \in PnodesOf(vm, VnodesOf(vm))
    BY <1>2 DEF PnodesOf
  <2> QED
    BY <2>1 DEF PnodesIn
<1> HIDE DEF f, homeOf
<1>4. p = f[u] /\ p = f[w]
  <2>1. PnodesOf(u, h[u]) = {f[u]} /\ PnodesOf(w, h[w]) = {f[w]}
    BY <1>2
  <2> QED
    BY <2>1
<1>5. {u, w} \subseteq Hosts(h, p) /\ Hosts(h, p) \subseteq alive
  BY <1>1 DEF Hosts
<1>6. Cardinality(Hosts(h, p)) > 1
  <2>1. IsFiniteSet({u}) /\ Cardinality({u}) = 1 /\ {u, w} = {u} \cup {w} /\ w \notin {u}
    BY FS_Singleton
  <2>2. Cardinality({u} \cup {w}) = Cardinality({u}) + 1
    BY <2>1, FS_AddElement
  <2>3. IsFiniteSet(Hosts(h, p)) /\ Cardinality(Hosts(h, p)) \in Nat
    BY <1>1, <1>5, FS_Subset, FS_CardinalityType
  <2>4. Cardinality({u, w}) <= Cardinality(Hosts(h, p))
    BY <1>5, <2>3, FS_Subset
  <2> QED
    BY <2>1, <2>2, <2>3, <2>4
<1>7. Overlap(h) # {}
  BY <1>1, <1>3, <1>4, <1>6 DEF Overlap
<1>8. Idle(h) = {}
  BY <1>1, <1>7 DEF IsValid
<1>9. ASSUME NEW q \in P PROVE \E vm \in alive : f[vm] = q
  <2>1. Hosts(h, q) # {}
    BY <1>1, <1>8 DEF Idle
  <2>2. PICK vm \in alive : q \in PnodesOf(vm, h[vm])
    BY <1>1, <2>1 DEF Hosts
  <2> QED
    BY <2>2, <1>2
<1>10. f \in Surjection(alive, P)
  <2>1. f \in [alive -> P]
    <3>1. f = [vm \in alive |-> f[vm]]
      BY DEF f
    <3> QED
      BY <1>3, <3>1
  <2> QED
    BY <1>9, <2>1 DEF Surjection
<1> HIDE DEF P
<1>11. IsFiniteSet(P) /\ Cardinality(P) <= Cardinality(alive) /\ Cardinality(P) \in Nat
  BY <1>1, <1>10, FS_Surjection, FS_CardinalityType
<1>12. Cardinality(P) = Cardinality(alive)
  BY <1>1, <1>11 DEF Roomy, P
<1>13. f \in Injection(alive, P)
  BY <1>1, <1>10, <1>12, FS_Surjection
<1> QED
  BY <1>4, <1>13 DEF Injection, IsInjective

\* A call that admits none of the nodes it has not tried has tried in vain:
\* no assignment agrees with the choices above it.
LEMMA NoneFollows ==
    ASSUME IInv, TriedInVain, Roomy, Searching,
           \A v \in VnodesOf(Current) \ tried[Level] : ~Admits(v),
           NEW h \in Assignments
    PROVE  ~Follows(h, Level - 1)
<1> DEFINE n == Len(tried)
           vm == order[n]
<1>1. /\ pc = "search" /\ n \in 1 .. Len(order) /\ Len(order) \in Nat
      /\ order \in Orders(alive) /\ Len(order) = Cardinality(alive)
      /\ Path(alive, topo, order, trial, n) /\ alive \in SUBSET Vm
  BY SearchState DEF Searching, Level, IInv, TypeOK
<1>2. vm \in alive /\ \A i \in 1 .. Len(order) : order[i] \in alive /\ (order[i] = vm => i = n)
  BY <1>1 DEF Orders
<1>3. PICK v \in topo[vm] : v \in VnodesOf(vm) /\ h[vm] = {v}
  BY <1>2, AssignedHome
<1> SUFFICES ASSUME Follows(h, n - 1) PROVE FALSE
  BY DEF Level
<1>4. CASE v \in tried[n]
  <2>1. ~Standing(n, v)
    BY <1>1 DEF Standing
  <2>2. Refuted(n, v)
    BY <1>1, <1>4, <2>1 DEF TriedInVain
  <2> QED
    BY <1>3, <2>2 DEF Refuted
<1>5. CASE v \notin tried[n]
  <2>1. Hosts(trial, PnodeOf[vm][v]) # {}
    BY <1>3, <1>5 DEF Admits, Current, Level
  <2>2. PICK u \in alive : PnodeOf[vm][v] \in PnodesOf(u, trial[u])
    BY <2>1, <1>1 DEF Hosts, Path
  <2>3. PICK i \in 1 .. Len(order) : order[i] = u
    BY <1>1, OrderCovers
  <2>4. i < n
    <3>1. trial[u] # {}
      BY <2>2 DEF PnodesOf
    <3>2. ~(i >= n)
      BY <3>1, <2>3, <1>1 DEF Path
    <3> QED
      BY <3>2, <1>1
  <2>5. h[u] = trial[u]
    BY <2>3, <2>4, <1>1 DEF Follows
  <2>6. u # vm
    BY <1>1, <1>2, <2>3, <2>4
  <2>7. PnodeOf[vm][v] \in PnodesOf(vm, h[vm])
    BY <1>3 DEF PnodesOf
  <2> QED
    BY <1>2, <2>2, <2>5, <2>6, <2>7, Unshared
<1> QED
  BY <1>4, <1>5
-----------------------------------------------------------------------------
\* The first call has tried nothing yet.
LEMMA StartTried == ASSUME IInv, StartSearch PROVE TriedInVain'
<1>1. tried' = <<{}>> /\ Len(tried') = 1
  BY DEF StartSearch
<1>2. \A l \in 1 .. Len(tried') : tried'[l] = {}
  BY <1>1
<1> QED
  BY <1>2 DEF TriedInVain

\* A call is made: the node it was made for is the one its VM stands on.
LEMMA TryNodeTried == ASSUME IInv, TriedInVain, TryNode PROVE TriedInVain'
<1> DEFINE n == Len(tried)
<1>1. /\ pc = "search" /\ n \in 1 .. Len(order) /\ UNCHANGED <<alive, topo, order>>
      /\ Len(order) \in Nat /\ tried \in Seq(SUBSET Vnode)
  BY DEF TryNode, Searching, Level, IInv, TypeOK
<1>2. PICK v \in VnodesOf(order[n]) :
          /\ trial' = [trial EXCEPT ![order[n]] = @ \cup {v}]
          /\ tried' = Append([tried EXCEPT ![n] = @ \cup {v}], {})
          /\ v \in Vnode
  <2>1. order[n] \in Vm
    BY <1>1 DEF IInv, TypeOK
  <2> QED
    BY <2>1, VnodesType DEF TryNode, Current, Level
<1>3. /\ trial \in [alive -> SUBSET Vnode] /\ trial[order[n]] = {}
      /\ \A i \in 1 .. Len(order) : order[i] \in alive /\ (order[i] = order[n] => i = n)
  BY <1>1, SearchState DEF Path, Orders
<1>4. trial'[order[n]] = {v} /\ \A i \in 1 .. Len(order) : i # n => trial'[order[i]] = trial[order[i]]
  BY <1>1, <1>2, <1>3
<1>5. /\ Len(tried') = n + 1 /\ tried'[n] = tried[n] \cup {v} /\ tried'[n + 1] = {}
      /\ \A l \in 1 .. n : l # n => tried'[l] = tried[l]
  BY <1>1, <1>2
<1>6. Assignments' = Assignments /\ Roomy' = Roomy
  BY <1>1, SameAssignments
<1>7. ASSUME NEW l \in 1 .. n PROVE \A h : Follows(h, l - 1)' <=> Follows(h, l - 1)
  <2>1. \A i \in 1 .. l - 1 : i \in 1 .. Len(order) /\ i # n
    BY <1>1
  <2> QED
    BY <1>1, <1>4, <2>1 DEF Follows
<1>8. \A l \in 1 .. n : \A x : Refuted(l, x)' <=> Refuted(l, x)
  BY <1>1, <1>6, <1>7 DEF Refuted
<1>9. ASSUME Roomy, NEW l \in 1 .. n + 1, l <= Len(order), NEW x \in tried'[l]
      PROVE  Standing(l, x)' \/ Refuted(l, x)'
  <2>1. CASE l = n + 1
    BY <2>1, <1>5, <1>9
  <2>2. CASE l = n
    <3>1. CASE x = v
      BY <2>2, <3>1, <1>1, <1>4, <1>5 DEF Standing
    <3>2. CASE x # v
      <4>1. x \in tried[n]
        BY <2>2, <3>2, <1>5, <1>9
      <4>2. ~Standing(n, x)
        BY <1>1 DEF Standing
      <4>3. Refuted(n, x)
        BY <4>1, <4>2, <1>1, <1>9 DEF TriedInVain
      <4> QED
        BY <4>3, <2>2, <1>1, <1>8
    <3> QED
      BY <3>1, <3>2
  <2>3. CASE l < n
    <3>1. l \in 1 .. n /\ l # n /\ l \in 1 .. Len(order)
      BY <2>3, <1>1, <1>9
    <3>2. x \in tried[l]
      BY <3>1, <1>5, <1>9
    <3>3. Standing(l, x) \/ Refuted(l, x)
      BY <3>1, <3>2, <1>1, <1>9 DEF TriedInVain
    <3>4. Standing(l, x) => Standing(l, x)'
      BY <3>1, <2>3, <1>1, <1>4, <1>5 DEF Standing
    <3> QED
      BY <3>1, <3>3, <3>4, <1>8
  <2> QED
    BY <2>1, <2>2, <2>3, <1>1, <1>9
<1> QED
  BY <1>1, <1>5, <1>6, <1>9 DEF TriedInVain

\* A call returns false: the node it was made for is in no assignment.
LEMMA GiveUpTried == ASSUME IInv, TriedInVain, GiveUp PROVE TriedInVain'
<1> DEFINE n == Len(tried)
           m == n - 1
<1>1. /\ pc = "search" /\ n \in 1 .. Len(order) /\ n > 1 /\ UNCHANGED <<alive, topo, order>>
      /\ Len(order) \in Nat /\ tried \in Seq(SUBSET Vnode) /\ m \in 1 .. Len(order)
      /\ trial' = [trial EXCEPT ![order[m]] = {}] /\ tried' = SubSeq(tried, 1, m)
  BY DEF GiveUp, Searching, Level, IInv, TypeOK
<1>2. /\ trial \in [alive -> SUBSET Vnode]
      /\ \A i \in 1 .. Len(order) : order[i] \in alive /\ (order[i] = order[m] => i = m)
  BY <1>1, SearchState DEF Path, Orders
<1>3. \A i \in 1 .. Len(order) : i # m => trial'[order[i]] = trial[order[i]]
  BY <1>1, <1>2
<1>4. Len(tried') = m /\ \A l \in 1 .. m : tried'[l] = tried[l]
  BY <1>1
<1>5. Assignments' = Assignments /\ Roomy' = Roomy
  BY <1>1, SameAssignments
<1>6. ASSUME NEW l \in 1 .. m PROVE \A h : Follows(h, l - 1)' <=> Follows(h, l - 1)
  <2>1. \A i \in 1 .. l - 1 : i \in 1 .. Len(order) /\ i # m
    BY <1>1
  <2> QED
    BY <1>1, <1>3, <2>1 DEF Follows
<1>7. \A l \in 1 .. m : \A x : Refuted(l, x)' <=> Refuted(l, x)
  BY <1>1, <1>5, <1>6 DEF Refuted
<1>8. ASSUME Roomy, NEW x, trial[order[m]] = {x} PROVE Refuted(m, x)
  <2> SUFFICES ASSUME NEW h \in Assignments, Follows(h, m - 1), h[order[m]] = {x} PROVE FALSE
    BY DEF Refuted
  <2>1. Follows(h, m)
    <3>1. \A i \in 1 .. m : i = m \/ i \in 1 .. m - 1
      BY <1>1
    <3> QED
      BY <1>8, <3>1 DEF Follows
  <2>2. Level - 1 = m
    BY DEF Level
  <2>3. Searching /\ \A v \in VnodesOf(Current) \ tried[Level] : ~Admits(v)
    BY DEF GiveUp
  <2> QED
    BY <1>8, <2>1, <2>2, <2>3, NoneFollows
<1>9. ASSUME Roomy, NEW l \in 1 .. m, NEW x \in tried'[l]
      PROVE  Standing(l, x)' \/ Refuted(l, x)'
  <2>1. l \in 1 .. n /\ l <= Len(order) /\ l < n /\ x \in tried[l]
    BY <1>1, <1>4, <1>9
  <2>2. Standing(l, x) \/ Refuted(l, x)
    BY <2>1, <1>1, <1>9 DEF TriedInVain
  <2>3. CASE Refuted(l, x)
    BY <2>3, <1>7
  <2>4. CASE Standing(l, x) /\ l = m
    <3>1. Refuted(l, x)
      BY <2>4, <1>8, <1>9 DEF Standing
    <3> QED
      BY <3>1, <1>7
  <2>5. CASE Standing(l, x) /\ l # m
    <3>1. l < m /\ l \in 1 .. Len(order)
      BY <2>5, <2>1, <1>1
    <3>2. trial'[order[l]] = {x}
      BY <2>5, <3>1, <1>3 DEF Standing
    <3> QED
      BY <3>1, <3>2, <1>1, <1>4 DEF Standing
  <2> QED
    BY <2>2, <2>3, <2>4, <2>5
<1> QED
  BY <1>1, <1>4, <1>5, <1>9 DEF TriedInVain

\* The first call returns false: there is no assignment at all.
LEMMA FailNone == ASSUME IInv, TriedInVain, Fail PROVE FailedMeansNone'
<1>1. Searching /\ Level = 1 /\ UNCHANGED <<alive, topo>>
      /\ \A v \in VnodesOf(Current) \ tried[Level] : ~Admits(v)
  BY DEF Fail
<1>2. ASSUME Roomy PROVE Assignments = {}
  <2>1. \A h : Follows(h, Level - 1)
    BY <1>1 DEF Follows
  <2> QED
    BY <1>1, <1>2, <2>1, NoneFollows
<1>3. Assignments' = Assignments /\ Roomy' = Roomy
  BY <1>1, SameAssignments
<1> QED
  BY <1>2, <1>3 DEF FailedMeansNone, Roomy

\* Both facts are kept.
LEMMA CompleteStep ==
    ASSUME IInv, TriedInVain, FailedMeansNone, [Next]_vars
    PROVE  TriedInVain' /\ FailedMeansNone'
<1>1. CASE (\E vm \in Vm : Arrive(vm) \/ Leave(vm)) \/ Plan
  <2>1. pc' = "crawl"
    BY <1>1 DEF Arrive, Leave, Plan
  <2> QED
    BY <2>1 DEF TriedInVain, FailedMeansNone
<1>2. CASE Keep \/ Found
  <2>1. pc' = "plan" /\ failed' = FALSE
    BY <1>2 DEF Keep, Found
  <2> QED
    BY <2>1 DEF TriedInVain, FailedMeansNone
<1>3. CASE StartSearch
  BY <1>3, StartTried DEF StartSearch, FailedMeansNone
<1>4. CASE TryNode
  BY <1>4, TryNodeTried DEF TryNode, Searching, FailedMeansNone
<1>5. CASE GiveUp
  BY <1>5, GiveUpTried DEF GiveUp, Searching, FailedMeansNone
<1>6. CASE Fail
  BY <1>6, FailNone DEF Fail, TriedInVain
<1>7. CASE UNCHANGED vars
  <2>1. UNCHANGED <<alive, topo, pc, order, trial, tried, failed>>
    BY <1>7 DEF vars, search
  <2>2. Assignments' = Assignments /\ Roomy' = Roomy
    BY <2>1, SameAssignments
  <2>3. \A l, x : (Refuted(l, x)' <=> Refuted(l, x)) /\ (Standing(l, x)' <=> Standing(l, x))
    BY <2>1, <2>2 DEF Refuted, Standing, Follows
  <2> QED
    BY <2>1, <2>2, <2>3 DEF TriedInVain, FailedMeansNone, Roomy
<1> QED
  BY <1>1, <1>2, <1>3, <1>4, <1>5, <1>6, <1>7 DEF Next, Search

\* The search gives up only where no assignment exists, as long as there is a
\* physical node for every VM (home_node_assignment_helper).
THEOREM SearchComplete == Spec => []FailedMeansNone
<1>1. Init => IInv /\ TriedInVain /\ FailedMeansNone
  BY InitInv DEF Init, TriedInVain, FailedMeansNone
<1>2. /\ IInv /\ TriedInVain /\ FailedMeansNone /\ [Next]_vars
      => IInv' /\ TriedInVain' /\ FailedMeansNone'
  BY StepInv, CompleteStep
<1> QED
  BY <1>1, <1>2, PTL DEF Spec
=============================================================================
