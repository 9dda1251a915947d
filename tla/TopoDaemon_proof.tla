--------------------------- MODULE TopoDaemon_proof ---------------------------
(***************************************************************************)
(* Every event fits the topology it meets, and shrinks come first, for     *)
(* every set of guests and every placement of their nodes.  The proof puts *)
(* together what HomeNode_proof and TopoPlanner_proof say of their parts:  *)
(* the planner relies on homes that are enabled, the home nodes on plans   *)
(* that keep them, and both on the events in between, one at a time.       *)
(*                                                                         *)
(* And every change that is under way can end unless completions of it     *)
(* were lost: what a VM still waits for is queued, being done by its       *)
(* guest, logged, or among what the log lost.                              *)
(***************************************************************************)
EXTENDS TopoDaemon, DataLemmas, FiniteSetTheorems, TLAPS

HomeP    == INSTANCE HomeNode_proof WITH topo <- enabled
PlannerP == INSTANCE TopoPlanner_proof WITH topoSys <- enabled, undergo <- Undergo

Nodes(vm) == DOMAIN PnodeOf[vm]

\* Variables have their types, and nothing of a search or a plan is left over.
DaemonType ==
    /\ alive = Vm
    /\ pc \in {"wait", "crawl", "search", "plan", "process", "stopped"}
    /\ enabled \in [Vm -> SUBSET Vnode] /\ home \in [Vm -> Vnode]
    /\ \A vm \in Vm : enabled[vm] \subseteq Nodes(vm)
    /\ order \in Seq(Vm) /\ tried \in Seq(SUBSET Vnode) /\ Len(tried) <= Len(order) + 1
    /\ trial \in [DOMAIN trial -> SUBSET Vnode]
    /\ changed \in BOOLEAN /\ failed \in BOOLEAN
    /\ pc \notin {"search", "plan"} => order = <<>> /\ tried = <<>>
    /\ phase # "idle" => order = <<>> /\ tried = <<>>

\* The home nodes, whatever the daemon does in between.
HomesInv == HomeP!Underway /\ HomeP!Settled /\ HomeP!HomeEnabled

\* The planner, when it is called and when it is not.
PlanInv ==
    /\ PlannerP!TypeOK
    /\ phase # "idle" => pc = "plan" /\ PlannerP!IInv

\* The nodes of a VM when all events are processed.
Queues(vm, action, v) == \E i \in 1 .. Len(events) : events[i] = Event(vm, action, v)
Planned(vm) == {v \in Vnode : \/ Queues(vm, 1, v)
                              \/ v \in enabled[vm] /\ ~Queues(vm, -1, v)}

\* Events are queued once and in order, and leave every VM a node.
QueueInv ==
    /\ events \in Seq(Changes)
    /\ events # <<>> => pc = "process"
    /\ \A i \in 1 .. Len(events) : events[i].vnode \in Nodes(events[i].vm)
    /\ \A i, j \in 1 .. Len(events) : events[i] = events[j] => i = j
    /\ \A i, j \in 1 .. Len(events) : i < j => events[i].action <= events[j].action
    /\ \A vm \in Vm : Planned(vm) # {}

IInv == DaemonType /\ HomesInv /\ PlanInv /\ QueueInv /\ EventsFit
-----------------------------------------------------------------------------
(* The parts are those of the daemon. *)

\* What HomeNode assumes holds of its instance.
LEMMA HomeAssumptions == HomeP!HomeVmAssumption /\ HomeP!HomeNodesAssumption
<1>1. HomeP!HomeVmAssumption
  BY GuestsAssumption DEF HomeP!IsFiniteSet, IsFiniteSet
<1>2. HomeP!HomeNodesAssumption
  BY PlacementAssumption DEF HomeP!VnodesOf
<1> QED
  BY <1>1, <1>2

\* What TopoPlanner assumes holds of its instance.
LEMMA PlannerAssumptions ==
    /\ PlannerP!VmAssumption /\ PlannerP!NodeAssumption
    /\ PlannerP!LoadsAssumption /\ PlannerP!PnodeOfAssumption
<1>1. PlannerP!VmAssumption
  BY GuestsAssumption DEF PlannerP!IsFiniteSet, IsFiniteSet
<1>2. PlannerP!NodeAssumption
  BY GuestsAssumption DEF PlannerP!IsFiniteSet, IsFiniteSet
<1>3. PlannerP!LoadsAssumption
  BY GuestsAssumption DEF PlannerP!Load
<1>4. PlannerP!PnodeOfAssumption
  BY PlacementAssumption DEF PlannerP!VnodesOf
<1> QED
  BY <1>1, <1>2, <1>3, <1>4

\* Each instance of FiniteSets has its Cardinality; they are the same.
LEMMA HomeCardinality == \A S : Home!Cardinality(S) = HomeP!Cardinality(S)
BY DEF Home!Cardinality, HomeP!Cardinality

LEMMA PlannerCardinality == \A S : Planner!Cardinality(S) = PlannerP!Cardinality(S)
BY DEF Planner!Cardinality, PlannerP!Cardinality

\* The steps of HomeNode.
LEMMA HomeSteps ==
    /\ Home!Keep => HomeP!Keep
    /\ Home!StartSearch => HomeP!StartSearch
    /\ Home!Search => HomeP!TryNode \/ HomeP!GiveUp \/ HomeP!Fail \/ HomeP!Found
<1>1. Home!Homed <=> HomeP!Homed
  BY HomeCardinality
  DEF Home!Homed, HomeP!Homed, Home!HomeSys, HomeP!HomeSys, Home!IsValid, HomeP!IsValid,
      Home!IsComplete, HomeP!IsComplete, Home!Idle, HomeP!Idle, Home!Overlap, HomeP!Overlap,
      Home!Hosts, HomeP!Hosts, Home!PnodesIn, HomeP!PnodesIn, Home!PnodesOf, HomeP!PnodesOf,
      Home!VnodesOf, HomeP!VnodesOf
<1>2. \A S : Home!Orders(S) = HomeP!Orders(S)
  BY HomeCardinality DEF Home!Orders, HomeP!Orders
<1>3. \A v : Home!Admits(v) <=> HomeP!Admits(v)
  BY DEF Home!Admits, HomeP!Admits, Home!Current, HomeP!Current, Home!Level, HomeP!Level,
         Home!Hosts, HomeP!Hosts, Home!Idle, HomeP!Idle, Home!PnodesIn, HomeP!PnodesIn,
         Home!PnodesOf, HomeP!PnodesOf, Home!VnodesOf, HomeP!VnodesOf
<1>4. Home!Keep => HomeP!Keep
  BY <1>1 DEF Home!Keep, HomeP!Keep, Home!search, HomeP!search
<1>5. Home!StartSearch => HomeP!StartSearch
  BY <1>1, <1>2 DEF Home!StartSearch, HomeP!StartSearch
<1>6. Home!Search => HomeP!TryNode \/ HomeP!GiveUp \/ HomeP!Fail \/ HomeP!Found
  BY <1>3 DEF Home!Search, Home!TryNode, HomeP!TryNode, Home!GiveUp, HomeP!GiveUp,
              Home!Fail, HomeP!Fail, Home!Found, HomeP!Found, Home!Searching, HomeP!Searching,
              Home!Level, HomeP!Level, Home!Current, HomeP!Current,
              Home!VnodesOf, HomeP!VnodesOf, Home!search, HomeP!search
<1> QED
  BY <1>4, <1>5, <1>6

\* The steps of TopoPlanner.
LEMMA PlannerSteps ==
    ASSUME UNCHANGED <<enabled, home, status>>
    PROVE  /\ UNCHANGED PlannerP!inputs
           /\ Planner!Start => PlannerP!Start
           /\ Planner!Step => PlannerP!Step
<1>1. UNCHANGED PlannerP!inputs
  BY DEF PlannerP!inputs, Undergo
<1>2. Planner!N = PlannerP!N
  BY PlannerCardinality DEF Planner!N, PlannerP!N
<1> USE DEF Planner!VnodesOf, PlannerP!VnodesOf
<1>3. \A l, n : Planner!Changeness(l, n) = PlannerP!Changeness(l, n)
  BY DEF Planner!Changeness, PlannerP!Changeness, Planner!RawScore, PlannerP!RawScore,
         Planner!BwScore, PlannerP!BwScore, Planner!Abs, PlannerP!Abs
<1>4. \A o, vm, v : Planner!RankOf(o, vm, v) = PlannerP!RankOf(o, vm, v)
  BY PlannerCardinality DEF Planner!RankOf, PlannerP!RankOf,
         Planner!ShareDegree, PlannerP!ShareDegree, Planner!ActiveOn, PlannerP!ActiveOn
<1>5. Planner!VmOrders = PlannerP!VmOrders
  BY <1>2 DEF Planner!VmOrders, PlannerP!VmOrders
<1>6. Planner!FreePnodes = PlannerP!FreePnodes
  BY DEF Planner!FreePnodes, PlannerP!FreePnodes, Planner!ActiveOn, PlannerP!ActiveOn
<1>7. \A S : Planner!QueuesOf(S) = PlannerP!QueuesOf(S)
  BY PlannerCardinality DEF Planner!QueuesOf, PlannerP!QueuesOf
<1>8. \A s, list : Planner!Ascending(s, list) <=> PlannerP!Ascending(s, list)
  BY <1>2 DEF Planner!Ascending, PlannerP!Ascending, Planner!Before, PlannerP!Before
<1>9. Planner!Start => PlannerP!Start
  BY <1>2, <1>3, <1>4, <1>5, <1>6, <1>7, <1>8, PlannerCardinality
  DEF Planner!Start, PlannerP!Start
<1>10. \A vm : Planner!MaxVnodes(vm) = PlannerP!MaxVnodes(vm)
  BY DEF Planner!MaxVnodes, PlannerP!MaxVnodes
<1>11. \A vm, p : Planner!PnodeToVnode(vm, p) = PlannerP!PnodeToVnode(vm, p)
  BY DEF Planner!PnodeToVnode, PlannerP!PnodeToVnode
<1>12. Planner!ShrinkSkip \/ Planner!ShrinkOne \/ Planner!ShrinkEnd
          => PlannerP!ShrinkSkip \/ PlannerP!ShrinkOne \/ PlannerP!ShrinkEnd
  BY <1>2, <1>10 DEF Planner!ShrinkSkip, PlannerP!ShrinkSkip, Planner!ShrinkOne,
      PlannerP!ShrinkOne, Planner!ShrinkEnd, PlannerP!ShrinkEnd
<1>13. Planner!ExpandSkip \/ Planner!ExpandOne \/ Planner!ExpandAbort \/ Planner!ExpandEnd
          => PlannerP!ExpandSkip \/ PlannerP!ExpandOne \/ PlannerP!ExpandAbort \/ PlannerP!ExpandEnd
  BY <1>11 DEF Planner!ExpandSkip, PlannerP!ExpandSkip, Planner!ExpandOne, PlannerP!ExpandOne,
      Planner!ExpandAbort, PlannerP!ExpandAbort, Planner!ExpandEnd, PlannerP!ExpandEnd,
      Planner!MayExpand, PlannerP!MayExpand
<1>14. Planner!TradeSkip \/ Planner!TradeOne \/ Planner!TradeAbort \/ Planner!TradeEnd
          => PlannerP!TradeSkip \/ PlannerP!TradeOne \/ PlannerP!TradeAbort \/ PlannerP!TradeEnd
  BY <1>10, <1>11, PlannerCardinality
  DEF Planner!TradeSkip, PlannerP!TradeSkip, Planner!TradeOne, PlannerP!TradeOne,
      Planner!TradeAbort, PlannerP!TradeAbort, Planner!TradeEnd, PlannerP!TradeEnd,
      Planner!MayTrade, PlannerP!MayTrade, Planner!Trading, PlannerP!Trading,
      Planner!CanPreempt, PlannerP!CanPreempt
<1>15. Planner!Step => PlannerP!Step
  BY <1>9, <1>12, <1>13, <1>14 DEF Planner!Step, PlannerP!Step
<1> QED
  BY <1>1, <1>9, <1>15
-----------------------------------------------------------------------------
(* From the invariant of the daemon to those of its parts, and back. *)

\* Where homes are assigned and plans made, HomeNode is in a state of its invariant.
LEMMA HomeEnter ==
    ASSUME IInv, pc \in {"crawl", "search", "plan"}
    PROVE  HomeP!IInv
<1> USE DEF IInv, DaemonType, HomesInv
<1>1. HomeP!TypeOK
  BY DEF HomeP!TypeOK, HomeP!Level
<1>2. HomeP!Within
  BY DEF HomeP!Within, HomeP!VnodesOf, Nodes
<1>3. HomeP!Rested
  BY DEF HomeP!Rested
<1> QED
  BY <1>1, <1>2, <1>3 DEF HomeP!IInv

\* A step of HomeNode that keeps its invariant keeps that of the daemon.
LEMMA HomeLeave ==
    ASSUME IInv, HomeP!IInv', phase = "idle", events = <<>>, pc' \in {"search", "plan"},
           UNCHANGED <<alive, enabled, status, events, working>>
    PROVE  IInv'
<1>1. /\ alive' = Vm /\ home' \in [Vm -> Vnode] /\ order' \in Seq(Vm)
      /\ tried' \in Seq(SUBSET Vnode) /\ Len(tried') <= Len(order') + 1
      /\ trial' \in [DOMAIN trial' -> SUBSET Vnode]
      /\ changed' \in BOOLEAN /\ failed' \in BOOLEAN
  BY DEF IInv, DaemonType, HomeP!IInv, HomeP!TypeOK, HomeP!Level
<1>2. phase' = "idle" /\ events' = <<>>
  BY DEF working
<1>3. DaemonType'
  BY <1>1, <1>2 DEF IInv, DaemonType
<1>4. HomesInv'
  BY DEF HomesInv, HomeP!IInv
<1>5. PlanInv'
  BY <1>1, <1>2 DEF IInv, PlanInv, PlannerP!TypeOK, Undergo, working, PlannerP!VnodesOf, PlannerP!N
<1>6. QueueInv' /\ EventsFit'
  BY <1>2 DEF IInv, QueueInv, EventsFit, Planned, Queues
<1> QED
  BY <1>3, <1>4, <1>5, <1>6 DEF IInv

\* The planner is called, and goes on, in states of its invariant.
LEMMA PlannerEnter ==
    ASSUME IInv, pc = "plan"
    PROVE  PlannerP!IInv /\ events = <<>>
<1>1. events = <<>>
  BY DEF IInv, QueueInv
<1>2. CASE phase # "idle"
  BY <1>1, <1>2 DEF IInv, PlanInv
<1>3. CASE phase = "idle"
  <2>1. ASSUME NEW vm \in Vm
        PROVE  /\ enabled[vm] \subseteq PlannerP!VnodesOf(vm) /\ enabled[vm] # {}
               /\ home[vm] \in PlannerP!VnodesOf(vm) => home[vm] \in enabled[vm]
    <3>1. enabled[vm] # {}
      BY <1>1 DEF IInv, QueueInv, Planned, Queues
    <3>2. enabled[vm] \subseteq Nodes(vm) /\ alive = Vm
      BY DEF IInv, DaemonType
    <3>3. home[vm] \in Nodes(vm) => home[vm] \in enabled[vm]
      BY <3>2 DEF IInv, HomesInv, HomeP!HomeEnabled, HomeP!VnodesOf, Nodes
    <3> QED
      BY <3>1, <3>2, <3>3 DEF PlannerP!VnodesOf, Nodes
  <2> QED
    BY <1>1, <1>3, <2>1 DEF IInv, PlanInv, PlannerP!IInv, PlannerP!LegalInputs, PlannerP!Planning
<1> QED
  BY <1>2, <1>3

\* Steps that change neither nodes nor homes nor events nor a plan.
LEMMA QuietInv ==
    ASSUME IInv, UNCHANGED <<enabled, home, events, homing, working>>,
           \/ pc' = pc /\ UNCHANGED status
           \/ /\ pc \notin {"search", "plan"} /\ pc' \in {"wait", "crawl", "process", "stopped"}
              /\ events # <<>> => pc' = "process"
    PROVE  IInv'
<1>1. /\ UNCHANGED <<alive, order, tried, trial, changed, failed>>
      /\ UNCHANGED <<score, rank, newSys, freeQ, vmList, lo, hi, phase>>
  BY DEF homing, working
<1>2. phase # "idle" => pc = "plan"
  BY DEF IInv, PlanInv
<1>3. DaemonType'
  BY <1>1, <1>2 DEF IInv, DaemonType
<1>4. HomesInv'
  <2>1. HomeP!Homed' = HomeP!Homed
    BY <1>1, HomeAssumptions, HomeP!HomedUnchanged
  <2> QED
    BY <1>1, <2>1 DEF IInv, HomesInv, HomeP!Underway, HomeP!Settled, HomeP!HomeEnabled
<1>5. PlanInv'
  <2>1. PlannerP!TypeOK'
    BY <1>1 DEF IInv, PlanInv, PlannerP!TypeOK, Undergo, PlannerP!VnodesOf, PlannerP!N
  <2>2. CASE phase # "idle"
    <3>1. PlannerP!IInv /\ pc' = pc /\ UNCHANGED status
      BY <2>2, <1>2 DEF IInv, PlanInv
    <3>2. UNCHANGED PlannerP!vars
      BY <1>1, <3>1 DEF PlannerP!vars, PlannerP!inputs, PlannerP!work, Undergo
    <3>3. PlannerP!IInv'
      BY <3>1, <3>2, PlannerAssumptions, PlannerP!NextInv
    <3> QED
      BY <1>2, <2>1, <2>2, <3>1, <3>3 DEF PlanInv
  <2>3. CASE phase = "idle"
    BY <2>1, <2>3, <1>1 DEF PlanInv
  <2> QED
    BY <2>2, <2>3
<1>6. QueueInv' /\ EventsFit'
  BY <1>1 DEF IInv, QueueInv, EventsFit, Planned, Queues
<1> QED
  BY <1>3, <1>4, <1>5, <1>6 DEF IInv

\* The state of a daemon that has just been started.
Fresh ==
    /\ alive = Vm /\ enabled = [vm \in Vm |-> Nodes(vm)] /\ home = [vm \in Vm |-> DefaultHome]
    /\ events = <<>> /\ pc = "wait" /\ changed = TRUE /\ failed = FALSE
    /\ order = <<>> /\ tried = <<>> /\ trial = [vm \in {} |-> {}]
    /\ score = [vm \in Vm |-> 0] /\ rank = [vm \in Vm |-> [v \in Vnode |-> -200]]
    /\ newSys = [vm \in Vm |-> {}] /\ freeQ = <<>> /\ phase = "idle"

\* A daemon that has just been started is as it should be.
LEMMA FreshInv == Fresh => IInv
<1> SUFFICES ASSUME Fresh PROVE IInv
  OBVIOUS
<1> USE DEF Fresh
<1>1. \A vm \in Vm : Nodes(vm) \subseteq Vnode /\ Nodes(vm) # {}
  BY PlacementAssumption DEF Nodes
<1>2. Len(order) = 0 /\ Len(tried) = 0 /\ order \in Seq(Vm) /\ tried \in Seq(SUBSET Vnode)
  OBVIOUS
<1>3. enabled \in [Vm -> SUBSET Vnode] /\ home \in [Vm -> Vnode]
  BY <1>1, GuestsAssumption
<1>4. trial \in [DOMAIN trial -> SUBSET Vnode]
  OBVIOUS
<1>5. DaemonType
  <2>1. \A vm \in Vm : enabled[vm] \subseteq Nodes(vm)
    OBVIOUS
  <2>2. Len(tried) <= Len(order) + 1
    BY <1>2
  <2> QED
    BY <1>2, <1>3, <1>4, <2>1, <2>2 DEF DaemonType
<1>6. HomesInv
  BY DEF HomesInv, HomeP!Underway, HomeP!Settled, HomeP!HomeEnabled, HomeP!VnodesOf, Nodes
<1>7. PlanInv
  BY <1>3 DEF PlanInv, PlannerP!TypeOK, PlannerP!Phases, Undergo
<1>8. QueueInv /\ EventsFit
  BY <1>1 DEF QueueInv, EventsFit, Planned, Queues
<1> QED
  BY <1>5, <1>6, <1>7, <1>8 DEF IInv

\* The first daemon.
LEMMA InitInv == Init => IInv
<1> SUFFICES ASSUME Init PROVE IInv
  OBVIOUS
<1> QED
  BY FreshInv DEF Init, Planner!Init, Nodes, Fresh

-----------------------------------------------------------------------------
(* The steps of the daemon and of the guests. *)

\* The crawl changes the status of VMs only.
LEMMA CrawlInv == ASSUME IInv, Crawl PROVE IInv'
<1>1. events = <<>>
  BY DEF IInv, QueueInv, Crawl
<1> QED
  BY <1>1, QuietInv DEF Crawl

\* Homes are kept, or searched one call of the helper at a time.
LEMMA AssignHomesInv == ASSUME IInv, AssignHomes PROVE IInv'
<1>1. UNCHANGED <<status, events, working>>
  BY DEF AssignHomes
<1>2. HomeP!Keep \/ HomeP!StartSearch \/ HomeP!TryNode \/ HomeP!GiveUp \/ HomeP!Fail \/ HomeP!Found
  BY HomeSteps DEF AssignHomes
<1>3. /\ pc \in {"crawl", "search"} /\ pc' \in {"search", "plan"}
      /\ UNCHANGED <<alive, enabled>>
  BY <1>2 DEF HomeP!Keep, HomeP!StartSearch, HomeP!TryNode, HomeP!GiveUp, HomeP!Fail,
              HomeP!Found, HomeP!Searching
<1>4. HomeP!IInv
  BY <1>3, HomeEnter
<1>5. HomeP!IInv'
  BY <1>2, <1>4, HomeAssumptions, HomeP!KeepInv, HomeP!StartSearchInv, HomeP!TryNodeInv,
     HomeP!GiveUpInv, HomeP!FailInv, HomeP!FoundInv
<1>6. phase = "idle" /\ events = <<>>
  BY <1>3 DEF IInv, PlanInv, QueueInv
<1> QED
  BY <1>1, <1>3, <1>5, <1>6, HomeLeave

\* The planner begins, and goes on.
LEMMA PlanningInv ==
    ASSUME IInv, pc = "plan", Planner!Start \/ Planner!Step,
           UNCHANGED <<daemon, pc, alive, changed, failed>>,
           \/ order' = <<>> /\ tried' = <<>> /\ trial' = [vm \in {} |-> {}]
           \/ phase # "idle" /\ UNCHANGED homing
    PROVE  IInv'
<1>1. UNCHANGED <<enabled, home, status, events>>
  BY DEF daemon
<1>2. PlannerP!IInv /\ events = <<>>
  BY PlannerEnter
<1>3. (PlannerP!Start \/ PlannerP!Step) /\ UNCHANGED PlannerP!inputs
  BY <1>1, PlannerSteps
<1>4. PlannerP!IInv'
  <2>1. PlannerP!Next
    BY <1>3 DEF PlannerP!Next, PlannerP!Step
  <2> QED
    BY <2>1, <1>2, PlannerAssumptions, PlannerP!NextInv
<1>5. /\ order' = <<>> /\ tried' = <<>> /\ trial' \in [DOMAIN trial' -> SUBSET Vnode]
  BY DEF IInv, DaemonType, homing
<1>6. DaemonType'
  <2>1. Len(order') = 0 /\ Len(tried') = 0 /\ order' \in Seq(Vm) /\ tried' \in Seq(SUBSET Vnode)
    BY <1>5
  <2> QED
    BY <2>1, <1>1, <1>5 DEF IInv, DaemonType
<1>7. HomesInv'
  <2>1. HomeP!Homed' = HomeP!Homed
    BY <1>1, HomeAssumptions, HomeP!HomedUnchanged
  <2> QED
    BY <1>1, <2>1 DEF IInv, HomesInv, HomeP!Underway, HomeP!Settled, HomeP!HomeEnabled
<1>8. PlanInv'
  BY <1>4 DEF PlanInv, PlannerP!IInv
<1>9. QueueInv' /\ EventsFit'
  BY <1>1, <1>2 DEF IInv, QueueInv, EventsFit, Planned, Queues
<1> QED
  BY <1>6, <1>7, <1>8, <1>9 DEF IInv

\* The planner is called.
LEMMA StartPlanInv == ASSUME IInv, StartPlan PROVE IInv'
BY PlanningInv DEF StartPlan

\* The planner goes on.
LEMMA PlanStepInv == ASSUME IInv, PlanStep PROVE IInv'
BY PlanningInv DEF PlanStep, homing

-----------------------------------------------------------------------------
(* generate_topo_change_events *)

\* An event is its VM, its action and its node.
LEMMA EventShape ==
    \A x \in Changes : /\ x.vm \in Vm /\ x.vnode \in Vnode /\ x.action \in {-1, 1}
                       /\ x = Event(x.vm, x.action, x.vnode)
BY DEF Changes, Event

\* There are finitely many events.
LEMMA FiniteEvents ==
    Events \subseteq Changes /\ IsFiniteSet(Events) /\ Cardinality(Events) \in Nat
<1> DEFINE S == (Vm \X {-1, 1}) \X Vnode
           f == [x \in S |-> Event(x[1][1], x[1][2], x[2])]
<1>1. IsFiniteSet({-1, 1})
  <2>1. IsFiniteSet({-1}) /\ {-1, 1} = {-1} \cup {1}
    BY FS_Singleton
  <2> QED
    BY <2>1, FS_AddElement
<1>2. IsFiniteSet(S)
  BY <1>1, GuestsAssumption, FS_Product
<1>3. f \in Surjection(S, Changes)
  <2>1. f \in [S -> Changes]
    BY DEF Changes, Event
  <2>2. ASSUME NEW e \in Changes PROVE \E x \in S : f[x] = e
    <3>1. PICK vm \in Vm, a \in {-1, 1}, v \in Vnode : e = Event(vm, a, v)
      BY DEF Changes
    <3>2. <<<<vm, a>>, v>> \in S /\ f[<<<<vm, a>>, v>>] = e
      BY <3>1
    <3> QED
      BY <3>2
  <2> QED
    BY <2>1, <2>2 DEF Surjection
<1>4. IsFiniteSet(Changes)
  <2> HIDE DEF f, S
  <2> QED
    BY <1>2, <1>3, FS_Surjection
<1>5. Events \subseteq Changes
  BY DEF Events
<1> QED
  BY <1>4, <1>5, FS_Subset, FS_CardinalityType

\* What a plan asks for: the nodes it wants are not enabled yet, the nodes it
\* gives up are, and no home is among them.
LEMMA EventsOfPlan ==
    ASSUME IInv, pc = "plan", phase = "done", NEW e \in Events
    PROVE  /\ e \in Changes /\ e.vm \in Vm /\ e.action \in {-1, 1} /\ e.vnode \in Nodes(e.vm)
           /\ e = Event(e.vm, e.action, e.vnode)
           /\ e.action = 1 => e.vnode \in newSys[e.vm] \ enabled[e.vm]
           /\ e.action = -1 => e.vnode \in enabled[e.vm] \ (newSys[e.vm] \cup {home[e.vm]})
<1>1. e \in Changes /\ e.vm \in Vm /\ e.action \in {-1, 1} /\ e = Event(e.vm, e.action, e.vnode)
  BY EventShape DEF Events
<1>2. PlannerP!IInv
  BY PlannerEnter
<1>3. PlannerP!HomeKept
  BY <1>2, PlannerAssumptions, PlannerP!InvConsequences
<1>4. home[e.vm] \in enabled[e.vm] => home[e.vm] \in newSys[e.vm]
  BY <1>1, <1>3 DEF PlannerP!HomeKept, PlannerP!Planning
<1>5. newSys[e.vm] \subseteq Nodes(e.vm) /\ enabled[e.vm] \subseteq Nodes(e.vm)
  BY <1>1, <1>2 DEF PlannerP!IInv, PlannerP!TypeOK, PlannerP!VnodesOf, IInv, DaemonType, Nodes
<1>6. CASE e.action = 1
  BY <1>1, <1>5, <1>6 DEF Events
<1>7. CASE e.action = -1
  BY <1>1, <1>4, <1>5, <1>7 DEF Events
<1> QED
  BY <1>1, <1>6, <1>7

\* Shrinks come first.
ShrinksFirst(q) == \A i, j \in 1 .. Len(q) : i < j => q[i].action <= q[j].action

\* r holds e and what q holds, and nothing else.
Extends(r, q, e) ==
    /\ \A j \in 1 .. Len(r) : r[j] = e \/ \E i \in 1 .. Len(q) : r[j] = q[i]
    /\ \E j \in 1 .. Len(r) : r[j] = e
    /\ \A i \in 1 .. Len(q) : \E j \in 1 .. Len(r) : r[j] = q[i]

\* An event that is inserted is in the queue, and so is what was in it before;
\* shrinks still come first.
LEMMA InsertedOne ==
    ASSUME NEW q \in Seq(Changes), ShrinksFirst(q), NEW e \in Changes,
           NEW r, r = Inserted(q, e)
    PROVE  r \in Seq(Changes) /\ Len(r) = Len(q) + 1 /\ ShrinksFirst(r) /\ Extends(r, q, e)
<1> DEFINE n == Len(q)
<1>1. n \in Nat /\ \A i \in 1 .. n : q[i] \in Changes
  OBVIOUS
<1>2. e.action \in {-1, 1} /\ \A i \in 1 .. n : q[i].action \in {-1, 1}
  BY <1>1, EventShape
<1>3. CASE e.action = -1
  <2>1. r = <<e>> \o q
    BY <1>3 DEF Inserted
  <2>2. /\ r \in Seq(Changes) /\ Len(r) = n + 1 /\ r[1] = e
        /\ \A j \in 2 .. n + 1 : r[j] = q[j - 1]
    BY <1>1, <2>1
  <2>3. \A i \in 1 .. n : i + 1 \in 2 .. n + 1 /\ (i + 1) - 1 = i
    BY <1>1
  <2>4. \A i \in 1 .. n : r[i + 1] = q[i]
    BY <2>2, <2>3
  <2>5. ASSUME NEW i \in 1 .. n + 1, NEW j \in 1 .. n + 1, i < j
        PROVE  r[i].action <= r[j].action
    <3>1. j \in 2 .. n + 1 /\ j - 1 \in 1 .. n
      BY <1>1, <2>5
    <3>2. CASE i = 1
      BY <1>2, <1>3, <2>2, <3>1, <3>2
    <3>3. CASE i # 1
      <4>1. i \in 2 .. n + 1 /\ i - 1 \in 1 .. n /\ i - 1 < j - 1
        BY <1>1, <2>5, <3>3
      <4> QED
        BY <2>2, <3>1, <4>1 DEF ShrinksFirst
    <3> QED
      BY <3>2, <3>3
  <2>6. ShrinksFirst(r)
    BY <2>2, <2>5 DEF ShrinksFirst
  <2>7. ASSUME NEW j \in 1 .. Len(r) PROVE r[j] = e \/ \E i \in 1 .. n : r[j] = q[i]
    <3>1. j = 1 \/ (j \in 2 .. n + 1 /\ j - 1 \in 1 .. n)
      BY <1>1, <2>2
    <3> QED
      BY <2>2, <3>1
  <2>8. \A i \in 1 .. n : \E j \in 1 .. Len(r) : r[j] = q[i]
    BY <1>1, <2>2, <2>3, <2>4
  <2> QED
    BY <1>1, <2>2, <2>6, <2>7, <2>8 DEF Extends
<1>4. CASE e.action = 1
  <2>1. r = Append(q, e)
    BY <1>4 DEF Inserted
  <2>2. /\ r \in Seq(Changes) /\ Len(r) = n + 1 /\ r[n + 1] = e
        /\ \A j \in 1 .. n : r[j] = q[j]
    BY <1>1, <2>1
  <2>3. ASSUME NEW i \in 1 .. n + 1, NEW j \in 1 .. n + 1, i < j
        PROVE  r[i].action <= r[j].action
    <3>1. i \in 1 .. n /\ (j \in 1 .. n \/ j = n + 1)
      BY <1>1, <2>3
    <3> QED
      BY <1>2, <1>4, <2>2, <2>3, <3>1 DEF ShrinksFirst
  <2>4. ShrinksFirst(r)
    BY <2>2, <2>3 DEF ShrinksFirst
  <2>5. \A j \in 1 .. Len(r) : j \in 1 .. n \/ j = n + 1
    BY <1>1, <2>2
  <2>6. n + 1 \in 1 .. Len(r) /\ \A i \in 1 .. n : i \in 1 .. Len(r)
    BY <1>1, <2>2
  <2> QED
    BY <2>2, <2>4, <2>5, <2>6 DEF Extends
<1> QED
  BY <1>2, <1>3, <1>4

\* The recursion of generate_topo_change_events is well defined.
LEMMA InsertedSteps ==
    ASSUME NEW n \in Nat, NEW met \in [1 .. n -> Changes]
    PROVE  \E f : /\ f[0] = <<>> /\ InsertedAll(<<>>, met) = f[n]
                  /\ \A i \in 1 .. n : f[i] = Inserted(f[i - 1], met[i])
<1> DEFINE S == Seq(Changes)
           step == [i \in 1 .. n |-> [q \in S |-> Inserted(q, met[i])]]
           Good(f) == f = [i \in 0 .. n |-> IF i = 0 THEN <<>> ELSE Inserted(f[i - 1], met[i])]
<1>1. <<>> \in S /\ Len(met) = n
  OBVIOUS
<1>2. ASSUME NEW q \in S, NEW e \in Changes PROVE Inserted(q, e) \in S
  BY <1>2 DEF Inserted
<1> HIDE DEF S
<1>3. step \in [1 .. n -> [S -> S]]
  BY <1>2
<1>4. PICK g \in [0 .. n -> S] : g[0] = <<>> /\ \A i \in 1 .. n : g[i] = step[i][g[i - 1]]
  <2> DEFINE s == <<>>
  <2>1. s \in S
    BY <1>1
  <2> DEFINE k == n
  <2> HIDE DEF step, s
  <2>2. Carries(S, s, k, step)
    BY <2>1, <1>3 DEF Carries
  <2> HIDE DEF k
  <2>3. \E g \in [0 .. k -> S] : g[0] = s /\ \A i \in 1 .. k : g[i] = step[i][g[i - 1]]
    BY <2>2, Iteration
  <2> QED
    BY <2>3 DEF s, k
<1>5. Good(g)
  <2>1. ASSUME NEW i \in 0 .. n, i # 0 PROVE g[i] = Inserted(g[i - 1], met[i])
    <3>1. i \in 1 .. n /\ i - 1 \in 0 .. n /\ g[i - 1] \in S
      BY <2>1
    <3>2. step[i][g[i - 1]] = Inserted(g[i - 1], met[i])
      BY <3>1
    <3> HIDE DEF step
    <3> QED
      BY <1>4, <3>1, <3>2
  <2> QED
    BY <1>4, <2>1
<1> DEFINE f == CHOOSE f : Good(f)
<1>6. Good(f)
  <2> HIDE DEF Good
  <2> QED
    BY <1>5
<1>7. InsertedAll(<<>>, met) = f[n]
  BY <1>1 DEF InsertedAll
<1> HIDE DEF f
<1>8. f[0] = <<>> /\ \A i \in 1 .. n : f[i] = Inserted(f[i - 1], met[i])
  BY <1>6
<1> QED
  BY <1>7, <1>8

\* The queue that a plan is turned into: each of its events once, shrinks first.
Queue(q) ==
    /\ q \in Seq(Changes) /\ Len(q) = Cardinality(Events) /\ DOMAIN q = 1 .. Len(q)
    /\ \A i \in 1 .. Len(q) : q[i] \in Events
    /\ \A e \in Events : \E i \in 1 .. Len(q) : q[i] = e
    /\ \A i, j \in 1 .. Len(q) : q[i] = q[j] => i = j
    /\ ShrinksFirst(q)

\* It is such a queue, in whatever order the events are met.
LEMMA QueueBuilt ==
    ASSUME NEW met \in [1 .. Cardinality(Events) -> Events], VmByVm(met)
    PROVE  Queue(InsertedAll(<<>>, met))
<1> DEFINE n == Cardinality(Events)
<1>1. Events \subseteq Changes /\ IsFiniteSet(Events) /\ n \in Nat
  BY FiniteEvents
<1>2. \A e \in Events : \E i \in 1 .. n : met[i] = e
  <2>1. met \in Injection(1 .. n, Events)
    BY DEF VmByVm, Injection, IsInjective
  <2>2. Cardinality(1 .. n) = n
    BY <1>1, FS_Interval
  <2>3. met \in Surjection(1 .. n, Events)
    BY <1>1, <2>1, <2>2, FS_Injection
  <2> QED
    BY <2>3 DEF Surjection
<1>3. PICK f : /\ f[0] = <<>> /\ InsertedAll(<<>>, met) = f[n]
               /\ \A i \in 1 .. n : f[i] = Inserted(f[i - 1], met[i])
  <2>1. met \in [1 .. n -> Changes]
    BY <1>1
  <2> QED
    BY <1>1, <2>1, InsertedSteps
<1> DEFINE After(k) == /\ f[k] \in Seq(Changes) /\ Len(f[k]) = k /\ ShrinksFirst(f[k])
                       /\ \A j \in 1 .. k : f[k][j] \in Events
                       /\ \A i \in 1 .. k : \E j \in 1 .. k : f[k][j] = met[i]
           B == {k \in Nat : k <= n => After(k)}
<1>4. After(0)
  BY <1>3 DEF ShrinksFirst
<1>5. ASSUME NEW k \in Nat, k + 1 <= n, After(k) PROVE After(k + 1)
  <2> DEFINE q == f[k]
             r == f[k + 1]
             e == met[k + 1]
  <2>1. k + 1 \in 1 .. n /\ r = Inserted(q, e) /\ e \in Events /\ e \in Changes
    BY <1>1, <1>3, <1>5
  <2>2. q \in Seq(Changes) /\ Len(q) = k /\ ShrinksFirst(q)
    BY <1>5
  <2>3. /\ \A j \in 1 .. k : q[j] \in Events
        /\ \A i \in 1 .. k : \E j \in 1 .. k : q[j] = met[i]
    BY <1>5
  <2> HIDE DEF q, r, e
  <2>4. r \in Seq(Changes) /\ Len(r) = Len(q) + 1 /\ ShrinksFirst(r) /\ Extends(r, q, e)
    BY <2>1, <2>2, InsertedOne
  <2>5. /\ r \in Seq(Changes) /\ Len(r) = k + 1 /\ ShrinksFirst(r)
        /\ \A j \in 1 .. k + 1 : r[j] = e \/ \E i \in 1 .. k : r[j] = q[i]
        /\ \E j \in 1 .. k + 1 : r[j] = e
        /\ \A i \in 1 .. k : \E j \in 1 .. k + 1 : r[j] = q[i]
    <3>1. Len(q) = k /\ Len(r) = k + 1
      BY <2>2, <2>4
    <3> QED
      BY <3>1, <2>4, Zenon DEF Extends
  <2>6. \A j \in 1 .. k + 1 : r[j] \in Events
    BY <2>1, <2>3, <2>5
  <2>7. ASSUME NEW i \in 1 .. k + 1 PROVE \E j \in 1 .. k + 1 : r[j] = met[i]
    <3>1. CASE i = k + 1
      BY <2>5, <3>1 DEF e
    <3>2. CASE i # k + 1
      <4>1. i \in 1 .. k
        BY <3>2
      <4> QED
        BY <2>3, <2>5, <4>1
    <3> QED
      BY <3>1, <3>2
  <2> QED
    BY <2>5, <2>6, <2>7 DEF r
<1>6. n \in B
  <2>1. ASSUME NEW k \in Nat, k \in B PROVE k + 1 \in B
    <3> HIDE DEF After
    <3> QED
      BY <1>1, <1>5, <2>1
  <2>2. 0 \in B
    BY <1>4
  <2> HIDE DEF B
  <2> QED
    BY <1>1, <2>1, <2>2, Induction
<1> DEFINE q == f[n]
<1>7. /\ q \in Seq(Changes) /\ Len(q) = n /\ ShrinksFirst(q)
      /\ \A j \in 1 .. n : q[j] \in Events
      /\ \A i \in 1 .. n : \E j \in 1 .. n : q[j] = met[i]
  BY <1>1, <1>6
<1> HIDE DEF q, n
<1>8. DOMAIN q = 1 .. n /\ \A e \in Events : \E j \in 1 .. n : q[j] = e
  <2>1. DOMAIN q = 1 .. n
    BY <1>7
  <2>2. ASSUME NEW e \in Events PROVE \E j \in 1 .. n : q[j] = e
    <3>1. PICK i \in 1 .. n : met[i] = e
      BY <1>2, Zenon
    <3>2. PICK j \in 1 .. n : q[j] = met[i]
      BY <1>7, Zenon
    <3> QED
      BY <3>1, <3>2
  <2> QED
    BY <2>1, <2>2
<1>9. \A i, j \in 1 .. n : q[i] = q[j] => i = j
  <2>1. q \in Surjection(1 .. n, Events)
    BY <1>7, <1>8 DEF Surjection
  <2>2. Cardinality(1 .. n) = Cardinality(Events) /\ IsFiniteSet(1 .. n)
    BY <1>1, FS_Interval DEF n
  <2>3. q \in Injection(1 .. n, Events)
    BY <1>1, <2>1, <2>2, FS_Surjection
  <2> QED
    BY <2>3 DEF Injection, IsInjective
<1>10. Queue(q)
  BY <1>7, <1>8, <1>9 DEF Queue, n
<1> QED
  BY <1>3, <1>10 DEF q, n

\* What Generate leaves in the queue.
LEMMA Generated == ASSUME IInv, Generate PROVE Queue(events')
<1>1. events = <<>>
  BY PlannerEnter DEF Generate
<1> QED
  BY <1>1, QueueBuilt DEF Generate

\* The plan is turned into events.
LEMMA GenerateInv == ASSUME IInv, Generate PROVE IInv'
<1>1. /\ pc = "plan" /\ phase = "done" /\ pc' \in {"process", "wait"}
      /\ Events # {} => pc' = "process"
      /\ UNCHANGED <<alive, enabled, home, order, tried, trial, changed, failed>>
      /\ phase' = "idle"
  BY DEF Generate, OutdateMaps, homing
<1>2. PlannerP!IInv /\ PlannerP!KeepsANode
  BY <1>1, PlannerEnter, PlannerAssumptions, PlannerP!InvConsequences
<1>3. /\ events' \in Seq(Changes) /\ Len(events') = Cardinality(Events)
      /\ \A e \in Events : \E i \in 1 .. Len(events') : events'[i] = e
  BY Generated DEF Queue
<1>4. \A i \in 1 .. Len(events') : events'[i] \in Events
  BY Generated DEF Queue
<1>5. DOMAIN events' = 1 .. Len(events')
  BY Generated DEF Queue
<1>6. DaemonType'
  BY <1>1 DEF IInv, DaemonType
<1>7. HomesInv'
  <2>1. HomeP!Homed' = HomeP!Homed
    BY <1>1, HomeAssumptions, HomeP!HomedUnchanged
  <2> QED
    BY <1>1, <2>1 DEF IInv, HomesInv, HomeP!Underway, HomeP!Settled, HomeP!HomeEnabled
<1>8. PlanInv'
  <2>1. enabled \in [Vm -> SUBSET Vnode] /\ home \in [Vm -> Vnode]
    BY DEF IInv, DaemonType
  <2>2. PlannerP!TypeOK'
    BY <2>1, <1>1 DEF Generate, OutdateMaps, PlannerP!TypeOK, PlannerP!Phases, Undergo
  <2> QED
    BY <2>2, <1>1 DEF PlanInv
<1>9. EventsFit'
  BY <1>1, <1>4, <1>5, EventsOfPlan DEF EventsFit
<1>10. QueueInv'
  <2>1. ASSUME NEW vm \in Vm PROVE Planned(vm)' # {}
    <3>1. PICK v \in newSys[vm] : v \in Vnode
      BY <1>2, <1>1 DEF PlannerP!KeepsANode, PlannerP!Planning, PlannerP!IInv, PlannerP!TypeOK
    <3>2. CASE v \in enabled[vm]
      <4>1. Event(vm, -1, v) \notin Events
        BY <3>1 DEF Events, Event
      <4>2. ~Queues(vm, -1, v)'
        BY <4>1, <1>4 DEF Queues
      <4> QED
        BY <3>1, <3>2, <4>2, <1>1 DEF Planned
    <3>3. CASE v \notin enabled[vm]
      <4>1. Event(vm, 1, v) \in Events
        BY <3>1, <3>3 DEF Events, Changes, Event
      <4>2. Queues(vm, 1, v)'
        BY <4>1, <1>3 DEF Queues
      <4> QED
        BY <3>1, <4>2 DEF Planned
    <3> QED
      BY <3>2, <3>3
  <2>2. \A i \in 1 .. Len(events') : events'[i].vnode \in Nodes(events'[i].vm)
    BY <1>1, <1>4, EventsOfPlan
  <2>3. events' # <<>> => pc' = "process"
    <3>1. Events = {} => events' = <<>>
      BY <1>3, FS_EmptySet
    <3> QED
      BY <1>1, <3>1
  <2>4. \A i, j \in 1 .. Len(events') :
           /\ events'[i] = events'[j] => i = j
           /\ i < j => events'[i].action <= events'[j].action
    BY Generated DEF Queue, ShrinksFirst
  <2> QED
    BY <1>3, <2>1, <2>2, <2>3, <2>4 DEF QueueInv
<1> QED
  BY <1>6, <1>7, <1>8, <1>9, <1>10 DEF IInv

-----------------------------------------------------------------------------
(* process_events *)

\* The event that is next, and what stays queued behind it.
LEMMA HeadEvent ==
    ASSUME IInv, events # <<>>
    PROVE  /\ Head(events) \in Changes /\ Head(events) = events[1] /\ 1 \in 1 .. Len(events)
           /\ Tail(events) \in Seq(Changes) /\ Len(Tail(events)) = Len(events) - 1
           /\ Len(events) \in Nat
           /\ \A i \in 1 .. Len(Tail(events)) :
                 i + 1 \in 1 .. Len(events) /\ Tail(events)[i] = events[i + 1]
<1> events \in Seq(Changes)
  BY DEF IInv, QueueInv
<1> QED
  OBVIOUS

\* The event at the head is processed.
LEMMA ProcessEventInv == ASSUME IInv, ProcessEvent PROVE IInv'
<1> DEFINE e == Head(events)
<1>1. /\ pc = "process" /\ pc' = pc /\ events # <<>> /\ events' = Tail(events)
      /\ UNCHANGED <<alive, home, status, order, tried, trial, changed, failed>>
      /\ UNCHANGED <<score, rank, newSys, freeQ, vmList, lo, hi, phase>>
      /\ phase = "idle"
  BY DEF ProcessEvent, homing, working, IInv, PlanInv
<1>2. /\ e = events[1] /\ e \in Changes /\ 1 \in 1 .. Len(events) /\ Len(events) \in Nat
      /\ events' \in Seq(Changes) /\ Len(events') = Len(events) - 1
      /\ \A i \in 1 .. Len(events') : i + 1 \in 1 .. Len(events) /\ events'[i] = events[i + 1]
  BY <1>1, HeadEvent
<1>3. /\ e.vm \in Vm /\ e.vnode \in Vnode /\ e.action \in {-1, 1}
      /\ e = Event(e.vm, e.action, e.vnode) /\ e.vnode \in Nodes(e.vm)
  BY <1>2, EventShape DEF IInv, QueueInv
<1>4. DOMAIN events = 1 .. Len(events) /\ DOMAIN events' = 1 .. Len(events')
  BY <1>2 DEF IInv, QueueInv
<1>5. /\ e.action = 1 => e.vnode \notin enabled[e.vm]
      /\ e.action = -1 => e.vnode \in enabled[e.vm] \ {home[e.vm]}
  BY <1>2, <1>3, <1>4 DEF IInv, EventsFit
<1>6. enabled' = [enabled EXCEPT ![e.vm] = Switched(@, e)]
  <2>1. ~Refused(e)
    BY <1>3, <1>5 DEF Refused
  <2> QED
    BY <2>1 DEF ProcessEvent
<1>7. enabled \in [Vm -> SUBSET Vnode] /\ \A vm \in Vm : enabled[vm] \subseteq Nodes(vm)
  BY DEF IInv, DaemonType
<1>8. /\ enabled' \in [Vm -> SUBSET Vnode]
      /\ \A vm \in Vm : vm # e.vm => enabled'[vm] = enabled[vm]
      /\ e.action = 1 => enabled'[e.vm] = enabled[e.vm] \cup {e.vnode}
      /\ e.action = -1 => enabled'[e.vm] = enabled[e.vm] \ {e.vnode}
  BY <1>3, <1>6, <1>7 DEF Switched
<1>9. \A i \in 1 .. Len(events') : events'[i] # e
  BY <1>2 DEF IInv, QueueInv
<1>10. DaemonType'
  <2>1. \A vm \in Vm : enabled'[vm] \subseteq Nodes(vm)
    BY <1>3, <1>7, <1>8
  <2> QED
    BY <1>1, <1>8, <2>1 DEF IInv, DaemonType
<1>11. \A vm \in Vm : home[vm] \in enabled[vm] => home[vm] \in enabled'[vm]
  BY <1>3, <1>5, <1>8
<1>12. HomesInv'
  <2>1. alive = Vm
    BY DEF IInv, DaemonType
  <2>2. HomeP!Homed => HomeP!Homed'
    BY <1>1, <1>11, <2>1, HomeAssumptions, HomeP!HomedStays
  <2> QED
    BY <1>1, <1>11, <2>1, <2>2
    DEF IInv, HomesInv, HomeP!Underway, HomeP!Settled, HomeP!HomeEnabled
<1>13. PlanInv'
  BY <1>1, <1>8 DEF IInv, PlanInv, PlannerP!TypeOK, Undergo, PlannerP!VnodesOf, PlannerP!N
<1>14. EventsFit'
  <2> SUFFICES ASSUME NEW i \in 1 .. Len(events')
               PROVE  LET d == events'[i] IN
                      IF d.action = 1 THEN d.vnode \notin enabled'[d.vm]
                      ELSE d.vnode \in enabled'[d.vm] \ {home[d.vm]}
    BY <1>1, <1>4 DEF EventsFit
  <2> DEFINE d == events'[i]
  <2>1. d = events[i + 1] /\ i + 1 \in DOMAIN events /\ d # e /\ d \in Changes
    BY <1>2, <1>4, <1>9
  <2>2. d.vm \in Vm /\ d.action \in {-1, 1} /\ d = Event(d.vm, d.action, d.vnode)
    BY <2>1, EventShape
  <2>3. /\ d.action = 1 => d.vnode \notin enabled[d.vm]
        /\ d.action = -1 => d.vnode \in enabled[d.vm] \ {home[d.vm]}
    BY <2>1, <2>2 DEF IInv, EventsFit
  <2>4. CASE d.vm # e.vm
    BY <2>2, <2>3, <2>4, <1>8
  <2>5. CASE d.vm = e.vm
    <3>1. d.vnode # e.vnode \/ d.action # e.action
      BY <2>1, <2>2, <2>5, <1>3
    <3>2. d.vnode # e.vnode
      BY <3>1, <2>2, <2>3, <2>5, <1>3, <1>5
    <3> QED
      BY <3>2, <2>2, <2>3, <2>5, <1>3, <1>8
  <2> QED
    BY <2>4, <2>5
<1>15. QueueInv'
  <2>1. ASSUME NEW vm, NEW a, NEW v, Event(vm, a, v) # e
        PROVE  Queues(vm, a, v) <=> Queues(vm, a, v)'
    <3>1. ASSUME NEW i \in 1 .. Len(events), events[i] = Event(vm, a, v)
          PROVE  Queues(vm, a, v)'
      <4>1. i - 1 \in 1 .. Len(events') /\ (i - 1) + 1 = i
        BY <3>1, <2>1, <1>2
      <4>2. events'[i - 1] = Event(vm, a, v)
        BY <4>1, <3>1, <1>2
      <4> QED
        BY <4>1, <4>2 DEF Queues
    <3> QED
      BY <3>1, <1>2 DEF Queues
  <2>2. ASSUME NEW vm \in Vm, NEW v \in Planned(vm) PROVE v \in Planned(vm)'
    <3>1. \A a : Event(vm, a, v) = e <=> vm = e.vm /\ v = e.vnode /\ a = e.action
      BY <1>3 DEF Event
    <3>2. CASE ~(vm = e.vm /\ v = e.vnode)
      <4>1. v \in enabled'[vm] <=> v \in enabled[vm]
        BY <3>2, <1>3, <1>8
      <4>2. \A a : Queues(vm, a, v) <=> Queues(vm, a, v)'
        BY <3>1, <3>2, <2>1
      <4> QED
        BY <4>1, <4>2 DEF Planned
    <3>3. CASE vm = e.vm /\ v = e.vnode /\ e.action = 1
      <4>1. ~Queues(vm, -1, v)
        <5>1. ASSUME NEW i \in 1 .. Len(events), events[i] = Event(vm, -1, v)
              PROVE  FALSE
          BY <5>1, <3>3, <1>4, <1>5 DEF Event, IInv, EventsFit
        <5> QED
          BY <5>1 DEF Queues
      <4>2. ~Queues(vm, -1, v)'
        BY <4>1, <3>1, <3>3, <2>1
      <4> QED
        BY <4>2, <3>3, <1>8 DEF Planned
    <3>4. CASE vm = e.vm /\ v = e.vnode /\ e.action = -1
      <4>1. Queues(vm, -1, v)
        BY <3>4, <1>2, <1>3 DEF Queues
      <4>2. Queues(vm, 1, v)
        BY <4>1 DEF Planned
      <4>3. ASSUME NEW i \in 1 .. Len(events), events[i] = Event(vm, 1, v)
            PROVE  FALSE
        BY <4>3, <3>4, <1>4, <1>5 DEF Event, IInv, EventsFit
      <4> QED
        BY <4>2, <4>3 DEF Queues
    <3> QED
      BY <3>2, <3>3, <3>4, <1>3
  <2>3. \A vm \in Vm : Planned(vm)' # {}
    BY <2>2 DEF IInv, QueueInv
  <2>4. \A i \in 1 .. Len(events') : events'[i].vnode \in Nodes(events'[i].vm)
    BY <1>2 DEF IInv, QueueInv
  <2>5. ASSUME NEW i \in 1 .. Len(events'), NEW j \in 1 .. Len(events')
        PROVE  /\ events'[i] = events'[j] => i = j
               /\ i < j => events'[i].action <= events'[j].action
    <3>1. i + 1 = j + 1 => i = j
      OBVIOUS
    <3>2. i < j => i + 1 < j + 1
      OBVIOUS
    <3> QED
      BY <1>2, <3>1, <3>2 DEF IInv, QueueInv
  <2> QED
    BY <1>1, <1>2, <2>3, <2>4, <2>5 DEF QueueInv
<1> QED
  BY <1>10, <1>12, <1>13, <1>14, <1>15 DEF IInv

\* All events are processed.
LEMMA ProcessedInv == ASSUME IInv, Processed PROVE IInv'
BY QuietInv DEF Processed, daemon

\* SIGINT.
LEMMA InterruptInv == ASSUME IInv, Interrupt PROVE IInv'
BY QuietInv DEF Interrupt, daemon

\* A guest completes a change.
LEMMA CompleteInv == ASSUME IInv, NEW vm \in Vm, Complete(vm) PROVE IInv'
BY QuietInv DEF Complete, daemon

\* A guest logs something else.
LEMMA RemarkInv == ASSUME IInv, NEW vm \in Vm, Remark(vm) PROVE IInv'
BY QuietInv DEF Remark, daemon

\* Whatever the last daemon left behind, a new one starts as the first did.
LEMMA RestartInv == ASSUME IInv, Restart PROVE IInv'
<1>1. Fresh'
  BY DEF IInv, DaemonType, Restart, OutdateMaps, Nodes, Fresh
<1>2. Fresh' => IInv'
  BY FreshInv, PTL
<1> QED
  BY <1>1, <1>2

-----------------------------------------------------------------------------
\* The invariant is inductive.
LEMMA StepInv == ASSUME IInv, [Next]_vars PROVE IInv'
<1>1. CASE Crawl
  BY <1>1, CrawlInv
<1>2. CASE AssignHomes
  BY <1>2, AssignHomesInv
<1>3. CASE StartPlan
  BY <1>3, StartPlanInv
<1>4. CASE PlanStep
  BY <1>4, PlanStepInv
<1>5. CASE Generate
  BY <1>5, GenerateInv
<1>6. CASE ProcessEvent
  BY <1>6, ProcessEventInv
<1>7. CASE Processed
  BY <1>7, ProcessedInv
<1>8. CASE Interrupt
  BY <1>8, InterruptInv
<1>9. CASE Restart
  BY <1>9, RestartInv
<1>10. ASSUME NEW vm \in Vm, Complete(vm) \/ Remark(vm) PROVE IInv'
  BY <1>10, CompleteInv, RemarkInv
<1>11. CASE UNCHANGED vars
  BY <1>11, QuietInv DEF vars, daemon
<1> QED
  BY <1>1, <1>2, <1>3, <1>4, <1>5, <1>6, <1>7, <1>8, <1>9, <1>10, <1>11 DEF Next, Serve

\* Every reachable state of the daemon and its guests satisfies IInv.
THEOREM Invariant == Spec => []IInv
<1>1. Init => IInv
  BY InitInv
<1>2. IInv /\ [Next]_vars => IInv'
  BY StepInv
<1> QED
  BY <1>1, <1>2, PTL DEF Spec

\* vnode::shrink and vnode::expand never meet a node that is already as they
\* are to make it, nor the reserved node (process_events).
THEOREM EventsAlwaysFit == Spec => []EventsFit
<1>1. IInv => EventsFit
  BY DEF IInv
<1> QED
  BY <1>1, Invariant, PTL

\* A physical node is vacated before another VM is given it
\* (generate_topo_change_events): each event is inserted in front or at the
\* back, and that keeps the order, whatever order the maps are walked in.
THEOREM VacatesFirst == Spec => []VacatedFirst
<1>1. IInv => VacatedFirst
  <2> SUFFICES ASSUME IInv, NEW i \in DOMAIN events, NEW j \in DOMAIN events,
                      events[i].action = 1, events[j].action = -1
               PROVE  j < i
    BY DEF VacatedFirst
  <2>1. i \in 1 .. Len(events) /\ j \in 1 .. Len(events) /\ Len(events) \in Nat
    BY DEF IInv, QueueInv
  <2>2. i # j
    OBVIOUS
  <2>3. ~(i < j)
    BY <2>1 DEF IInv, QueueInv
  <2> QED
    BY <2>1, <2>2, <2>3
<1> QED
  BY <1>1, Invariant, PTL

\* No VM is left without a node, neither now nor when the events that are
\* queued have been processed (generate_topo_change_events, process_events).
THEOREM NodesRemain == Spec => [](\A vm \in Vm : Planned(vm) # {})
<1>1. IInv => \A vm \in Vm : Planned(vm) # {}
  BY DEF IInv, QueueInv
<1> QED
  BY <1>1, Invariant, PTL

-----------------------------------------------------------------------------
(***************************************************************************)
(* The account of each VM: what its status still waits for, and what is    *)
(* still to come.  The invariant is balanced for a VM whether or not its   *)
(* guest was done when the change began; only the first case is exact.     *)
(***************************************************************************)

\* A status in which the numbers make sense: a change that is under way still
\* waits for a completion, a VM that cools down for a crawl.
StatusOK(s) ==
    /\ s \in [type : StatusType, cd : Nat, start : {Start}, from : Nat, to : Nat, progress : Nat]
    /\ s.type = "cool_down" => s.cd > 0
    /\ s.type = "undergo_topo_change" => s.progress < Distance(s.from, s.to)

\* The completions a change still waits for.
Left(s) ==
    IF s.type = "undergo_topo_change" THEN Distance(s.from, s.to) - s.progress ELSE 0

\* They are a natural number, and positive while a change is under way.
LEMMA LeftType ==
    ASSUME NEW s, StatusOK(s)
    PROVE  Left(s) \in Nat /\ (s.type = "undergo_topo_change" <=> Left(s) > 0)
BY DEF StatusOK, Left, Distance

\* A completion takes one away, if it counts.
LEMMA FinishedLeft ==
    ASSUME NEW s, StatusOK(s), NEW ts \in {Old, Recent}
    PROVE  /\ StatusOK(FinishedOneNode(s, ts))
           /\ Left(FinishedOneNode(s, ts)) =
                  IF ts = Recent /\ Left(s) > 0 THEN Left(s) - 1 ELSE Left(s)
<1>1. /\ s.type \in StatusType /\ s.cd \in Nat /\ s.start = Start /\ s.from \in Nat
      /\ s.to \in Nat /\ s.progress \in Nat /\ Distance(s.from, s.to) \in Nat
      /\ s = [type |-> s.type, cd |-> s.cd, start |-> s.start, from |-> s.from,
              to |-> s.to, progress |-> s.progress]
  BY DEF StatusOK, Distance
<1>2. Counts(s, ts) <=> s.type = "undergo_topo_change" /\ ts = Recent
  BY <1>1 DEF Counts, Old, Recent, Start
<1>3. Left(s) > 0 <=> s.type = "undergo_topo_change"
  BY <1>1 DEF Left, StatusOK
<1>4. CASE ~Counts(s, ts)
  BY <1>2, <1>3, <1>4 DEF FinishedOneNode
<1>5. CASE Counts(s, ts) /\ s.progress + 1 = Distance(s.from, s.to)
  <2>1. FinishedOneNode(s, ts) = [type |-> "cool_down", cd |-> CoolDown, start |-> s.start,
                                  from |-> s.from, to |-> s.to, progress |-> 0]
    BY <1>1, <1>5 DEF FinishedOneNode
  <2> QED
    BY <1>1, <1>2, <1>3, <1>5, <2>1, CoolDownAssumption DEF StatusOK, StatusType, Left
<1>6. CASE Counts(s, ts) /\ s.progress + 1 # Distance(s.from, s.to)
  <2>1. FinishedOneNode(s, ts) = [type |-> s.type, cd |-> s.cd, start |-> s.start,
                                  from |-> s.from, to |-> s.to, progress |-> s.progress + 1]
    BY <1>1, <1>6 DEF FinishedOneNode
  <2>2. s.progress + 1 < Distance(s.from, s.to)
    BY <1>1, <1>2, <1>6 DEF StatusOK
  <2> QED
    BY <1>1, <1>2, <1>3, <1>6, <2>1, <2>2 DEF StatusOK, StatusType, Left
<1> QED
  BY <1>4, <1>5, <1>6

\* The cool-down leaves a change alone.
LEMMA ReduceLeft ==
    ASSUME NEW s, StatusOK(s)
    PROVE  StatusOK(ReduceCoolDown(s)) /\ Left(ReduceCoolDown(s)) = Left(s)
<1>1. CASE s.type # "cool_down"
  BY <1>1 DEF ReduceCoolDown
<1>2. CASE s.type = "cool_down"
  <2>1. ReduceCoolDown(s) =
            [type |-> IF s.cd - 1 <= 0 THEN "topo_change_ready" ELSE s.type, cd |-> s.cd - 1,
             start |-> s.start, from |-> s.from, to |-> s.to, progress |-> s.progress]
    BY <1>2 DEF ReduceCoolDown, StatusOK
  <2> QED
    BY <1>2, <2>1 DEF StatusOK, StatusType, Left
<1> QED
  BY <1>1, <1>2

\* So does forgetting the numbers of a change that is over.
LEMMA ForgetLeft ==
    ASSUME NEW s, StatusOK(s)
    PROVE  StatusOK(Forget(s)) /\ Left(Forget(s)) = Left(s)
<1>1. CASE s.type = "undergo_topo_change"
  BY <1>1 DEF Forget
<1>2. CASE s.type # "undergo_topo_change"
  <2>1. Forget(s) = [type |-> s.type, cd |-> s.cd, start |-> s.start,
                     from |-> 0, to |-> 0, progress |-> s.progress]
    BY <1>2 DEF Forget, StatusOK
  <2> QED
    BY <1>2, <2>1 DEF StatusOK, Left
<1> QED
  BY <1>1, <1>2

\* A change that begins waits for as many completions as nodes.
LEMMA BeginLeft ==
    ASSUME NEW s, StatusOK(s), NEW n \in Nat, NEW m \in Nat, n # m,
           NEW t, t = ChangeBegin(s, n, m, Start)
    PROVE  StatusOK(t) /\ Left(t) = Distance(n, m)
<1>1. t = [type |-> "undergo_topo_change", cd |-> s.cd,
           start |-> Start, from |-> n, to |-> m, progress |-> 0]
  BY DEF ChangeBegin, StatusOK
<1>2. Distance(n, m) \in Nat /\ Distance(n, m) > 0 /\ s.cd \in Nat
  BY DEF Distance, StatusOK
<1> QED
  BY <1>1, <1>2 DEF StatusOK, StatusType, Left

\* One slot of the log is read: an entry that is not new is skipped.
ReadOne(s, x) == IF x.new THEN FinishedOneNode(s, x.ts) ELSE s

\* The entries that are counted.
Heard == {x \in Entry : Countable(x)}

\* An entry takes one away, if it is to be counted.
LEMMA ReadOneLeft ==
    ASSUME NEW s, StatusOK(s), NEW x \in Entry
    PROVE  /\ StatusOK(ReadOne(s, x))
           /\ Left(ReadOne(s, x)) = IF x \in Heard /\ Left(s) > 0 THEN Left(s) - 1 ELSE Left(s)
<1>1. x.ts \in {Old, Recent} /\ x.new \in BOOLEAN
  BY DEF Entry
<1>2. x \in Heard <=> x.new /\ x.ts = Recent
  BY DEF Heard, Countable
<1>3. CASE x.new
  BY <1>1, <1>2, <1>3, FinishedLeft DEF ReadOne
<1>4. CASE ~x.new
  BY <1>2, <1>4 DEF ReadOne
<1> QED
  BY <1>3, <1>4

\* The recursion of crawl_log_entries_from_xs is well defined.
LEMMA ReadLogSteps ==
    ASSUME NEW s, StatusOK(s), NEW e \in Seq(Entry)
    PROVE  \E f : /\ f[0] = s /\ ReadLog(s, e) = f[Len(e)]
                  /\ \A i \in 1 .. Len(e) : f[i] = ReadOne(f[i - 1], e[i])
<1> DEFINE S == {x \in [type : StatusType, cd : Nat, start : {Start}, from : Nat, to : Nat,
                        progress : Nat] : StatusOK(x)}
           n == Len(e)
           step == [i \in 1 .. n |-> [x \in S |-> ReadOne(x, e[i])]]
           Good(f) == f = [i \in 0 .. n |->
                              IF i = 0 THEN s
                              ELSE IF e[i].new THEN FinishedOneNode(f[i - 1], e[i].ts)
                              ELSE f[i - 1]]
<1>1. \A x : x \in S <=> StatusOK(x)
  BY DEF StatusOK
<1>2. s \in S /\ n \in Nat /\ \A i \in 1 .. n : e[i] \in Entry
  BY <1>1
<1> HIDE DEF S
<1>3. step \in [1 .. n -> [S -> S]]
  BY <1>1, <1>2, ReadOneLeft
<1>4. PICK g \in [0 .. n -> S] : g[0] = s /\ \A i \in 1 .. n : g[i] = step[i][g[i - 1]]
  <2>1. s \in S /\ n \in Nat
    BY <1>2
  <2> HIDE DEF step, n
  <2>2. Carries(S, s, n, step)
    BY <2>1, <1>3 DEF Carries
  <2> QED
    BY <2>2, Iteration
<1>5. Good(g)
  <2>1. ASSUME NEW i \in 0 .. n, i # 0
        PROVE  g[i] = IF e[i].new THEN FinishedOneNode(g[i - 1], e[i].ts) ELSE g[i - 1]
    <3>1. i \in 1 .. n /\ i - 1 \in 0 .. n /\ g[i - 1] \in S
      BY <1>2, <2>1
    <3>2. step[i][g[i - 1]] = ReadOne(g[i - 1], e[i])
      BY <3>1
    <3> HIDE DEF step
    <3> QED
      BY <1>4, <3>1, <3>2 DEF ReadOne
  <2> QED
    BY <1>4, <2>1
<1> DEFINE f == CHOOSE f : Good(f)
<1>6. Good(f)
  <2> HIDE DEF Good
  <2> QED
    BY <1>5
<1>7. ReadLog(s, e) = f[n]
  BY DEF ReadLog
<1> HIDE DEF f
<1>8. f[0] = s
  BY <1>2, <1>6
<1>9. ASSUME NEW i \in 1 .. n PROVE f[i] = ReadOne(f[i - 1], e[i])
  <2>1. i \in 0 .. n /\ i # 0
    BY <1>2
  <2>2. f[i] = IF i = 0 THEN s
               ELSE IF e[i].new THEN FinishedOneNode(f[i - 1], e[i].ts) ELSE f[i - 1]
    BY <1>6, <2>1
  <2> QED
    BY <2>1, <2>2 DEF ReadOne
<1> QED
  BY <1>7, <1>8, <1>9

\* Reading the log takes away as many as there are entries that are counted.
LEMMA ReadLogLeft ==
    ASSUME NEW s, StatusOK(s), NEW e \in Seq(Entry)
    PROVE  LET c == Count(e, Heard, Len(e)) IN
           /\ StatusOK(ReadLog(s, e))
           /\ Left(ReadLog(s, e)) = IF Left(s) > c THEN Left(s) - c ELSE 0
<1> DEFINE n == Len(e)
           C(k) == Count(e, Heard, k)
<1>1. n \in Nat /\ \A i \in 1 .. n : e[i] \in Entry
  OBVIOUS
<1>2. PICK f : /\ f[0] = s /\ ReadLog(s, e) = f[n]
               /\ \A i \in 1 .. n : f[i] = ReadOne(f[i - 1], e[i])
  BY ReadLogSteps
<1> DEFINE After(k) == /\ StatusOK(f[k])
                       /\ Left(f[k]) = IF Left(s) > C(k) THEN Left(s) - C(k) ELSE 0
           B == {k \in Nat : k <= n => After(k)}
<1>3. After(0)
  BY <1>2, CountNone, LeftType
<1>4. ASSUME NEW k \in Nat, k + 1 <= n, After(k) PROVE After(k + 1)
  <2>1. k + 1 \in 1 .. n /\ f[k + 1] = ReadOne(f[k], e[k + 1]) /\ e[k + 1] \in Entry
    BY <1>1, <1>2, <1>4
  <2>2. C(k + 1) = C(k) + (IF e[k + 1] \in Heard THEN 1 ELSE 0)
    BY CountNext
  <2>3. C(k) \in Nat /\ Left(s) \in Nat
    BY CountType, LeftType
  <2>4. /\ StatusOK(f[k + 1])
        /\ Left(f[k + 1]) =
               IF e[k + 1] \in Heard /\ Left(f[k]) > 0 THEN Left(f[k]) - 1 ELSE Left(f[k])
    BY <1>4, <2>1, ReadOneLeft
  <2> HIDE DEF C
  <2> QED
    BY <1>4, <2>2, <2>3, <2>4
<1>5. n \in B
  <2>1. ASSUME NEW k \in Nat, k \in B PROVE k + 1 \in B
    <3> HIDE DEF After
    <3> QED
      BY <1>1, <1>4, <2>1
  <2>2. 0 \in B
    BY <1>3
  <2> HIDE DEF B
  <2> QED
    BY <1>1, <2>1, <2>2, Induction
<1> QED
  BY <1>1, <1>2, <1>5

\* The log of a guest: as many entries as it has slots.
Logs == [1 .. LogSlots -> Entry]

\* The completions in it that the next crawl will count.
HeardIn(entries) == Count(entries, Heard, Len(entries))

\* It is a sequence that is not empty.
LEMMA LogShape ==
    ASSUME NEW l \in Logs
    PROVE  /\ l \in Seq(Entry) /\ Len(l) = LogSlots /\ l # <<>> /\ LogSlots \in Nat \ {0}
           /\ DOMAIN l = 1 .. Len(l) /\ \A i \in 1 .. Len(l) : l[i] \in Entry
           /\ HeardIn(l) = Cardinality({i \in DOMAIN l : Countable(l[i])}) /\ HeardIn(l) \in Nat
<1>1. /\ l \in Seq(Entry) /\ Len(l) = LogSlots /\ LogSlots \in Nat \ {0}
      /\ DOMAIN l = 1 .. Len(l) /\ \A i \in 1 .. Len(l) : l[i] \in Entry
  BY SlotsAssumption DEF Logs
<1>2. l # <<>>
  BY <1>1
<1>3. {i \in DOMAIN l : Countable(l[i])} = Hits(l, Heard, Len(l))
  BY <1>1 DEF Hits, Heard
<1>4. HeardIn(l) \in Nat
  BY <1>1, CountType DEF HeardIn
<1> QED
  BY <1>1, <1>2, <1>3, <1>4 DEF HeardIn, Count

\* Where no entry is to be counted, none is.
LEMMA NoneHeard ==
    ASSUME NEW l, \A i \in DOMAIN l : ~Countable(l[i])
    PROVE  Cardinality({i \in DOMAIN l : Countable(l[i])}) = 0
<1>1. {i \in DOMAIN l : Countable(l[i])} = {}
  OBVIOUS
<1> QED
  BY <1>1, FS_EmptySet

\* An entry that is written takes the place of the oldest.
LEMMA WrittenCount ==
    ASSUME NEW l \in Logs, NEW e \in Entry
    PROVE  /\ Written(l, e) \in Logs /\ HeardIn(Written(l, e)) \in Nat
           /\ HeardIn(Written(l, e)) + Overwritten(l) = HeardIn(l) + (IF Countable(e) THEN 1 ELSE 0)
           /\ Overwritten(l) \in Nat /\ Overwritten(l) <= HeardIn(l)
<1> DEFINE t == Tail(l)
           w == Append(t, e)
<1>1. l \in Seq(Entry) /\ Len(l) = LogSlots /\ l # <<>> /\ HeardIn(l) \in Nat
  BY LogShape
<1>2. LogSlots \in Nat \ {0}
  BY SlotsAssumption
<1>3. t \in Seq(Entry) /\ Len(t) = LogSlots - 1 /\ Head(l) \in Entry
  BY <1>1, <1>2
<1>4. w \in Seq(Entry) /\ Len(w) = LogSlots
  <2> HIDE DEF t
  <2> QED
    BY <1>2, <1>3
<1>5. w \in Logs
  <2> HIDE DEF w
  <2> QED
    BY <1>2, <1>4 DEF Logs
<1>6. HeardIn(l) = Count(t, Heard, LogSlots - 1) + Overwritten(l)
  <2>1. Head(l) \in Heard <=> Countable(Head(l))
    BY <1>3 DEF Heard
  <2> QED
    BY <1>1, <2>1, CountTail DEF HeardIn, Overwritten
<1>7. HeardIn(w) = Count(t, Heard, LogSlots - 1) + (IF Countable(e) THEN 1 ELSE 0)
  <2>1. e \in Heard <=> Countable(e)
    BY DEF Heard
  <2> HIDE DEF t
  <2>2. Len(w) = Len(t) + 1
    BY <1>3
  <2> QED
    BY <1>3, <2>1, <2>2, CountAppend DEF HeardIn
<1>8. Count(t, Heard, LogSlots - 1) \in Nat /\ HeardIn(w) \in Nat
  <2>1. LogSlots - 1 \in Nat
    BY <1>2
  <2>2. Count(t, Heard, LogSlots - 1) \in Nat
    BY <2>1, CountType
  <2>3. HeardIn(w) \in Nat
    <3> HIDE DEF w
    <3> QED
      BY <1>5, LogShape
  <2> QED
    BY <2>2, <2>3
<1>9. Overwritten(l) \in Nat
  BY DEF Overwritten
<1> HIDE DEF t, w
<1>10. Written(l, e) = w
  BY DEF Written, w, t
<1> QED
  BY <1>1, <1>5, <1>6, <1>7, <1>8, <1>9, <1>10

-----------------------------------------------------------------------------
\* The events of one VM.
OfVm(vm) == {e \in Changes : e.vm = vm}

\* The account of one VM balances.
Balanced(vm) ==
    /\ clean[vm] => Outstanding(vm) + lost[vm] = Remaining(vm)
    /\ Remaining(vm) <= Outstanding(vm) + lost[vm]

\* What the accounting needs: the types of what the guests keep, and for each
\* VM a status that makes sense and an account that balances.
AInv ==
    /\ pending \in [Vm -> Nat] /\ log \in [Vm -> Logs] /\ lost \in [Vm -> Nat]
    /\ \A vm \in Vm : StatusOK(status[vm]) /\ Balanced(vm)

\* The parts of an account, as counts and as what the status waits for.
Shaped == events \in Seq(Changes) /\ log \in [Vm -> Logs]
Counted(vm) ==
    /\ Queued(vm) = Count(events, OfVm(vm), Len(events)) /\ Queued(vm) \in Nat
    /\ Arriving(vm) = HeardIn(log[vm]) /\ Arriving(vm) \in Nat
    /\ Remaining(vm) = Left(status[vm])

AllCounted == \A vm \in Vm : Counted(vm)

\* They are natural numbers.
LEMMA Parts == Shaped => AllCounted
<1> SUFFICES ASSUME Shaped, NEW vm \in Vm PROVE Counted(vm)
  BY DEF AllCounted
<1> USE DEF Shaped
<1>1. Len(events) \in Nat /\ DOMAIN events = 1 .. Len(events)
      /\ \A i \in 1 .. Len(events) : events[i] \in Changes
  OBVIOUS
<1>2. {i \in DOMAIN events : events[i].vm = vm} = Hits(events, OfVm(vm), Len(events))
  BY <1>1 DEF Hits, OfVm
<1>3. Count(events, OfVm(vm), Len(events)) \in Nat
  BY <1>1, CountType
<1>4. Queued(vm) = Count(events, OfVm(vm), Len(events))
  BY <1>2 DEF Queued, Count
<1>5. Arriving(vm) = HeardIn(log[vm]) /\ HeardIn(log[vm]) \in Nat
  <2>1. log[vm] \in Logs
    OBVIOUS
  <2> QED
    BY <2>1, LogShape DEF Arriving
<1> QED
  BY <1>3, <1>4, <1>5 DEF Remaining, Left, Counted

\* The same of the next state.
LEMMA PartsNext == Shaped' => AllCounted'
BY Parts, PTL

\* Where a VM is left as it was, its account is too.
LEMMA BalancedStays ==
    ASSUME NEW vm \in Vm, Balanced(vm), Queued(vm)' = Queued(vm),
           pending'[vm] = pending[vm], log'[vm] = log[vm], status'[vm] = status[vm],
           clean'[vm] = clean[vm], lost'[vm] = lost[vm]
    PROVE  Balanced(vm)'
BY DEF Balanced, Outstanding, Remaining, Arriving

\* Nothing is outstanding for a daemon that has just been started.
LEMMA InitAccount == Init => AInv
<1> SUFFICES ASSUME Init PROVE AInv
  OBVIOUS
<1>1. /\ events = <<>> /\ log = [vm \in Vm |-> [i \in 1 .. LogSlots |-> Blank]]
      /\ \A vm \in Vm : pending[vm] = 0 /\ lost[vm] = 0 /\ status[vm] = NewStatus
  BY DEF Init
<1>2. \A vm \in Vm : StatusOK(status[vm])
  BY <1>1 DEF StatusOK, NewStatus, StatusType, Start
<1>3. ASSUME NEW vm \in Vm PROVE Balanced(vm)
  <2>1. {i \in DOMAIN events : events[i].vm = vm} = {}
    BY <1>1
  <2>2. \A i \in DOMAIN log[vm] : ~Countable(log[vm][i])
    BY <1>1 DEF Countable, Blank
  <2>3. Queued(vm) = 0 /\ Arriving(vm) = 0
    BY <2>1, <2>2, FS_EmptySet, NoneHeard DEF Queued, Arriving
  <2>4. Remaining(vm) = 0
    BY <1>1 DEF Remaining, NewStatus
  <2> QED
    BY <1>1, <2>3, <2>4 DEF Balanced, Outstanding
<1>4. pending \in [Vm -> Nat] /\ lost \in [Vm -> Nat]
  BY DEF Init
<1>5. log \in [Vm -> Logs]
  BY <1>1 DEF Logs, Entry, Blank, Old
<1> QED
  BY <1>2, <1>3, <1>4, <1>5 DEF AInv

\* The crawl reads what arrived, and no more is waited for than before.
LEMMA CrawlAccount == ASSUME IInv, AInv, Crawl PROVE AInv'
<1>1. /\ events \in Seq(Changes) /\ UNCHANGED <<events, pending, clean>>
      /\ log \in [Vm -> Logs] /\ pending \in [Vm -> Nat] /\ lost \in [Vm -> Nat]
      /\ log' = [vm \in Vm |-> Seen(log[vm])]
      /\ lost' = [vm \in Vm |->
                     IF status'[vm].type = "undergo_topo_change" THEN lost[vm] ELSE 0]
  BY DEF IInv, QueueInv, AInv, Crawl
<1>2. ASSUME NEW vm \in Vm PROVE StatusOK(status'[vm]) /\ Balanced(vm)'
  <2> DEFINE r == ReduceCoolDown(status[vm])
             c == HeardIn(log[vm])
             read == ReadLog(r, log[vm])
  <2>1. StatusOK(r) /\ Left(r) = Left(status[vm]) /\ Left(r) \in Nat
    BY ReduceLeft, LeftType DEF AInv
  <2>2. log[vm] \in Seq(Entry)
    BY <1>1, LogShape
  <2>3. StatusOK(read) /\ Left(read) = IF Left(r) > c THEN Left(r) - c ELSE 0
    <3> HIDE DEF r
    <3> QED
      BY <2>1, <2>2, ReadLogLeft DEF HeardIn
  <2>4. status'[vm] = Forget(read)
    BY DEF Crawl
  <2>5. /\ StatusOK(status'[vm]) /\ Left(status'[vm]) = Left(read)
        /\ status'[vm].type = "undergo_topo_change" <=> Left(status'[vm]) > 0
    <3> HIDE DEF read
    <3> QED
      BY <2>3, <2>4, ForgetLeft, LeftType
  <2>6. /\ Arriving(vm) = c /\ c \in Nat /\ Queued(vm) \in Nat /\ Remaining(vm) = Left(status[vm])
    BY <1>1, Parts DEF Shaped, AllCounted, Counted
  <2>7. Remaining(vm)' = Left(status'[vm])
    BY DEF Remaining, Left
  <2>8. Arriving(vm)' = 0 /\ Queued(vm)' = Queued(vm)
    <3>1. \A i \in DOMAIN log'[vm] : ~Countable(log'[vm][i])
      BY <1>1 DEF Seen, Countable, Blank
    <3> QED
      BY <1>1, <3>1, NoneHeard DEF Arriving, Queued
  <2>9. pending[vm] \in Nat /\ lost[vm] \in Nat
    BY <1>1
  <2>10. Balanced(vm)
    BY DEF AInv
  <2>11. lost'[vm] = IF Left(status'[vm]) > 0 THEN lost[vm] ELSE 0
    BY <1>1, <2>5
  <2> HIDE DEF r, c, read
  <2> QED
    BY <1>1, <2>1, <2>3, <2>5, <2>6, <2>7, <2>8, <2>9, <2>10, <2>11 DEF Balanced, Outstanding
<1>3. log' \in [Vm -> Logs]
  <2>1. ASSUME NEW vm \in Vm PROVE Seen(log[vm]) \in Logs
    <3>1. log[vm] \in Logs
      BY <1>1
    <3> QED
      BY <3>1 DEF Seen, Logs, Entry, Blank, Old
  <2> QED
    BY <1>1, <2>1
<1>4. lost' \in [Vm -> Nat]
  BY <1>1
<1> QED
  BY <1>1, <1>2, <1>3, <1>4 DEF AInv

\* Of a sum that is zero, every part is.
LEMMA NothingLeft ==
    ASSUME NEW a \in Nat, NEW b \in Nat, NEW c \in Nat, NEW d \in Nat, a + b + c + d = 0
    PROVE  a = 0 /\ b = 0 /\ c = 0 /\ d = 0
OBVIOUS

\* The guest writes an entry and is done with d of its changes: a completion is
\* logged and will be counted, or it is among the n that are lost.
LEMMA WrittenAccount ==
    ASSUME IInv, AInv, NEW vm \in Vm, NEW e \in Entry, NEW d \in Nat, NEW n \in Nat,
           d <= pending[vm], pending' = [pending EXCEPT ![vm] = @ - d],
           log' = [log EXCEPT ![vm] = Written(@, e)],
           n + (IF Countable(e) THEN 1 ELSE 0) = d + Overwritten(log[vm]), Loses(vm, n),
           UNCHANGED <<events, status, clean>>
    PROVE  AInv'
<1>1. /\ events \in Seq(Changes) /\ log \in [Vm -> Logs] /\ pending \in [Vm -> Nat]
      /\ lost \in [Vm -> Nat]
  BY DEF IInv, QueueInv, AInv
<1>2. log[vm] \in Logs /\ log'[vm] = Written(log[vm], e)
  BY <1>1
<1>3. log' \in [Vm -> Logs]
  <2>1. Written(log[vm], e) \in Logs
    BY <1>2, WrittenCount
  <2> QED
    BY <1>1, <2>1
<1>4. pending' \in [Vm -> Nat] /\ pending'[vm] = pending[vm] - d
  BY <1>1
<1>5. /\ lost' \in [Vm -> Nat]
      /\ lost'[vm] = IF status[vm].type = "undergo_topo_change" THEN lost[vm] + n ELSE lost[vm]
      /\ \A u \in Vm : u # vm => lost'[u] = lost[u]
  BY <1>1 DEF Loses
<1>6. ASSUME NEW u \in Vm PROVE StatusOK(status'[u]) /\ Balanced(u)'
  <2>1. StatusOK(status[u]) /\ Balanced(u) /\ Queued(u)' = Queued(u)
    BY <1>1 DEF AInv, Queued
  <2>2. CASE u # vm
    <3>1. pending'[u] = pending[u] /\ log'[u] = log[u] /\ lost'[u] = lost[u]
      BY <1>1, <1>5, <2>2
    <3> QED
      BY <1>1, <2>1, <3>1, BalancedStays
  <2>3. CASE u = vm
    <3>1. Arriving(vm) = HeardIn(log[vm]) /\ Arriving(vm) \in Nat /\ Queued(vm) \in Nat
          /\ Remaining(vm) = Left(status[vm])
      BY <1>1, Parts DEF Shaped, AllCounted, Counted
    <3>2. Arriving(vm)' = HeardIn(log'[vm]) /\ Arriving(vm)' \in Nat
      BY <1>1, <1>3, PartsNext DEF Shaped, AllCounted, Counted
    <3>3. /\ Arriving(vm)' + Overwritten(log[vm]) =
                  Arriving(vm) + (IF Countable(e) THEN 1 ELSE 0)
          /\ Overwritten(log[vm]) \in Nat /\ Overwritten(log[vm]) <= Arriving(vm)
      BY <1>2, <3>1, <3>2, WrittenCount
    <3>4. Remaining(vm)' = Remaining(vm)
      BY DEF Remaining
    <3>5. pending[vm] \in Nat /\ lost[vm] \in Nat /\ Queued(vm)' = Queued(vm) /\ clean'[vm] = clean[vm]
      BY <1>1, <2>1, <2>3
    <3>6. Balanced(vm)
      BY <2>1, <2>3
    <3>7. CASE status[vm].type = "undergo_topo_change"
      <4>1. lost'[vm] = lost[vm] + n
        BY <1>5, <3>7
      <4>2. Outstanding(vm)' + lost'[vm] = Outstanding(vm) + lost[vm]
        BY <1>4, <3>1, <3>2, <3>3, <3>5, <4>1 DEF Outstanding
      <4> QED
        BY <2>1, <2>3, <3>4, <3>5, <3>6, <4>2 DEF Balanced
    <3>8. CASE status[vm].type # "undergo_topo_change"
      <4>1. lost'[vm] = lost[vm] /\ Remaining(vm) = 0
        BY <1>5, <3>8 DEF Remaining
      <4>2. pending'[vm] = pending[vm] - d /\ pending'[vm] \in Nat
        BY <1>4
      <4>3. Remaining(vm)' <= Outstanding(vm)' + lost'[vm]
        BY <3>2, <3>1, <3>4, <3>5, <4>1, <4>2 DEF Outstanding
      <4>4. ASSUME clean'[vm] PROVE Outstanding(vm)' + lost'[vm] = Remaining(vm)'
        <5>1. Outstanding(vm) + lost[vm] = 0
          BY <3>5, <3>6, <4>1, <4>4 DEF Balanced
        <5>2. pending[vm] + Queued(vm) + Arriving(vm) + lost[vm] = 0
          BY <5>1 DEF Outstanding
        <5>3. pending[vm] = 0 /\ Queued(vm) = 0 /\ Arriving(vm) = 0 /\ lost[vm] = 0
          BY <3>1, <3>5, <5>2, NothingLeft
        <5>4. d = 0 /\ Overwritten(log[vm]) = 0
          BY <3>3, <5>3
        <5>5. Arriving(vm)' = 0
          BY <3>2, <3>3, <5>3, <5>4
        <5> QED
          BY <3>4, <3>5, <4>1, <4>2, <5>3, <5>4, <5>5 DEF Outstanding
      <4> QED
        BY <2>1, <2>3, <4>3, <4>4 DEF Balanced
    <3> QED
      BY <3>7, <3>8
  <2> QED
    BY <2>2, <2>3
<1> QED
  BY <1>3, <1>4, <1>5, <1>6 DEF AInv

\* A completion moves from what is being done to what has arrived, or is lost.
LEMMA CompleteAccount == ASSUME IInv, AInv, NEW vm \in Vm, Complete(vm) PROVE AInv'
<1>1. PICK e \in Entry :
         /\ log' = [log EXCEPT ![vm] = Written(@, e)]
         /\ Loses(vm, (IF Countable(e) THEN 0 ELSE 1) + Overwritten(log[vm]))
  BY DEF Complete
<1>2. /\ pending[vm] \in Nat /\ 1 <= pending[vm] /\ pending' = [pending EXCEPT ![vm] = @ - 1]
      /\ UNCHANGED <<events, status, clean>>
  BY DEF AInv, Complete, daemon
<1> DEFINE n == (IF Countable(e) THEN 0 ELSE 1) + Overwritten(log[vm])
<1>3. n \in Nat /\ n + (IF Countable(e) THEN 1 ELSE 0) = 1 + Overwritten(log[vm])
  BY DEF Overwritten
<1>4. Loses(vm, n)
  BY <1>1
<1> HIDE DEF n
<1> QED
  BY <1>1, <1>2, <1>3, <1>4, WrittenAccount

\* What else the guest writes may overwrite a completion.
LEMMA RemarkAccount == ASSUME IInv, AInv, NEW vm \in Vm, Remark(vm) PROVE AInv'
<1>1. /\ log' = [log EXCEPT ![vm] = Written(@, Blank)] /\ Loses(vm, Overwritten(log[vm]))
      /\ UNCHANGED <<events, status, clean, pending>>
  BY DEF Remark, daemon
<1>2. Blank \in Entry /\ ~Countable(Blank)
  BY DEF Blank, Entry, Countable, Old
<1>3. pending \in [Vm -> Nat] /\ 0 <= pending[vm] /\ pending' = [pending EXCEPT ![vm] = @ - 0]
  BY <1>1 DEF AInv
<1>4. Overwritten(log[vm]) \in Nat /\ 0 \in Nat
  BY DEF Overwritten
<1>5. Overwritten(log[vm]) + (IF Countable(Blank) THEN 1 ELSE 0) = 0 + Overwritten(log[vm])
  BY <1>2, <1>4
<1> QED
  BY <1>1, <1>2, <1>3, <1>4, <1>5, WrittenAccount

\* An event moves from what is queued to what is being done: none is refused.
LEMMA ProcessEventAccount == ASSUME IInv, AInv, ProcessEvent PROVE AInv'
<1> DEFINE e == Head(events)
<1>1. /\ events # <<>> /\ events' = Tail(events) /\ UNCHANGED <<status, log, clean, lost>>
      /\ events \in Seq(Changes) /\ Tail(events) \in Seq(Changes)
      /\ log \in [Vm -> Logs] /\ pending \in [Vm -> Nat] /\ lost \in [Vm -> Nat]
  BY HeadEvent DEF ProcessEvent, IInv, QueueInv, AInv, account
<1>2. e \in Changes /\ e = events[1] /\ 1 \in DOMAIN events
  BY <1>1, HeadEvent
<1>3. e.vm \in Vm /\ e.action \in {-1, 1}
  BY <1>2, EventShape
<1>4. ~Refused(e)
  BY <1>2, <1>3 DEF IInv, EventsFit, Refused
<1>5. pending' = [pending EXCEPT ![e.vm] = @ + 1]
  BY <1>4 DEF ProcessEvent
<1>6. pending' \in [Vm -> Nat] /\ pending'[e.vm] = pending[e.vm] + 1
  BY <1>1, <1>3, <1>5
<1>7. ASSUME NEW vm \in Vm PROVE StatusOK(status'[vm]) /\ Balanced(vm)'
  <2>1. StatusOK(status[vm]) /\ Balanced(vm) /\ pending[vm] \in Nat /\ pending'[vm] \in Nat
    BY <1>1, <1>6 DEF AInv
  <2>2. /\ Queued(vm) = Count(events, OfVm(vm), Len(events)) /\ Queued(vm) \in Nat
        /\ Arriving(vm) \in Nat
    BY <1>1, Parts DEF Shaped, AllCounted, Counted
  <2>3. Queued(vm)' = Count(events', OfVm(vm), Len(events')) /\ Queued(vm)' \in Nat
    <3>1. Shaped'
      BY <1>1 DEF Shaped
    <3>2. Shaped' => AllCounted'
      BY Parts, PTL
    <3> QED
      BY <3>1, <3>2 DEF AllCounted, Counted
  <2>4. Len(events') = Len(events) - 1
    BY <1>1
  <2>5. Queued(vm) = Queued(vm)' + (IF e.vm = vm THEN 1 ELSE 0)
    <3>1. e \in OfVm(vm) <=> e.vm = vm
      BY <1>2 DEF OfVm
    <3> HIDE DEF e
    <3>2. Count(events, OfVm(vm), Len(events)) =
              Count(Tail(events), OfVm(vm), Len(events) - 1)
                  + (IF Head(events) \in OfVm(vm) THEN 1 ELSE 0)
      BY <1>1, CountTail
    <3> QED
      BY <1>1, <2>2, <2>3, <2>4, <3>1, <3>2 DEF e
  <2>6. pending'[vm] = pending[vm] + (IF e.vm = vm THEN 1 ELSE 0)
    BY <1>1, <1>3, <1>5
  <2>7. Arriving(vm)' = Arriving(vm) /\ Remaining(vm)' = Remaining(vm)
    BY <1>1 DEF Arriving, Remaining
  <2>8. Outstanding(vm)' = Outstanding(vm)
    <3> HIDE DEF e
    <3>1. CASE e.vm = vm
      BY <2>1, <2>2, <2>3, <2>5, <2>6, <2>7, <3>1 DEF Outstanding
    <3>2. CASE e.vm # vm
      BY <2>1, <2>2, <2>3, <2>5, <2>6, <2>7, <3>2 DEF Outstanding
    <3> QED
      BY <3>1, <3>2
  <2> QED
    BY <1>1, <2>1, <2>7, <2>8 DEF Balanced
<1> QED
  BY <1>1, <1>6, <1>7 DEF AInv

\* A daemon that is started again waits for nothing.
LEMMA RestartAccount == ASSUME IInv, AInv, Restart PROVE AInv'
<1>1. /\ events' = <<>> /\ status' = [vm \in Vm |-> NewStatus] /\ pending' = pending
      /\ log' = [vm \in Vm |-> [i \in DOMAIN log[vm] |-> [log[vm][i] EXCEPT !.new = TRUE]]]
      /\ clean' = [vm \in Vm |-> AtRest(vm, log'[vm])] /\ lost' = [vm \in Vm |-> 0]
      /\ log \in [Vm -> Logs] /\ pending \in [Vm -> Nat]
  BY DEF Restart, AInv
<1>2. \A vm \in Vm : StatusOK(status'[vm])
  BY <1>1 DEF StatusOK, NewStatus, StatusType, Start
<1>3. log' \in [Vm -> Logs]
  <2>1. ASSUME NEW l \in Logs PROVE [i \in DOMAIN l |-> [l[i] EXCEPT !.new = TRUE]] \in Logs
    BY DEF Logs, Entry
  <2> QED
    BY <1>1, <2>1
<1>4. ASSUME NEW vm \in Vm PROVE Balanced(vm)'
  <2>1. {i \in DOMAIN events' : events'[i].vm = vm} = {}
    BY <1>1
  <2>2. Queued(vm)' = 0
    BY <2>1, FS_EmptySet DEF Queued
  <2>3. Arriving(vm)' \in Nat
    <3>1. events' \in Seq(Changes)
      BY <1>1
    <3> QED
      BY <1>3, <3>1, PartsNext DEF Shaped, AllCounted, Counted
  <2>4. Remaining(vm)' = 0
    BY <1>1 DEF Remaining, NewStatus
  <2>5. clean'[vm] => pending[vm] = 0 /\ Arriving(vm)' = 0
    <3>1. clean'[vm] => AtRest(vm, log'[vm])
      BY <1>1
    <3> QED
      BY <3>1, NoneHeard DEF AtRest, Arriving
  <2>6. pending'[vm] = pending[vm] /\ pending[vm] \in Nat /\ lost'[vm] = 0
    BY <1>1
  <2> QED
    BY <2>2, <2>3, <2>4, <2>5, <2>6 DEF Balanced, Outstanding
<1>5. lost' \in [Vm -> Nat]
  BY <1>1
<1> QED
  BY <1>1, <1>2, <1>3, <1>4, <1>5 DEF AInv

\* What the other steps do is of no account.
LEMMA QuietAccount ==
    ASSUME AInv, UNCHANGED <<events, status, pending, log, clean, lost>>
    PROVE  AInv'
BY DEF AInv, Balanced, Outstanding, Remaining, Queued, Arriving

\* A plan does not both give and take nodes of one VM, so that it has as many
\* events for the VM as the number of its nodes changes by.
LEMMA EventsCounted ==
    ASSUME IInv, pc = "plan", phase = "done", NEW q, Queue(q), NEW vm \in Vm
    PROVE  /\ Cardinality({i \in DOMAIN q : q[i].vm = vm}) =
                  Distance(Cardinality(enabled[vm]), Cardinality(newSys[vm]))
           /\ Cardinality(enabled[vm]) \in Nat /\ Cardinality(newSys[vm]) \in Nat
<1> DEFINE A == enabled[vm]
           B == newSys[vm]
           D == (A \ B) \cup (B \ A)
           P == {i \in DOMAIN q : q[i].vm = vm}
           f == [i \in P |-> q[i].vnode]
<1>1. PlannerP!IInv /\ PlannerP!NoChurn
  BY PlannerEnter, PlannerAssumptions, PlannerP!InvConsequences
<1>2. A \subseteq Vnode /\ B \subseteq Vnode
  BY <1>1 DEF IInv, DaemonType, PlannerP!IInv, PlannerP!TypeOK
<1>3. A \ B = {} \/ B \ A = {}
  BY <1>1 DEF PlannerP!NoChurn, PlannerP!Planning, PlannerP!Grew, PlannerP!Lost
<1>4. /\ IsFiniteSet(A) /\ IsFiniteSet(B) /\ IsFiniteSet(D)
      /\ Cardinality(A) \in Nat /\ Cardinality(B) \in Nat
  <2>1. A \in SUBSET Vnode /\ B \in SUBSET Vnode /\ D \in SUBSET Vnode
    BY <1>2
  <2> HIDE DEF A, B, D
  <2> QED
    BY <2>1, GuestsAssumption, FS_Subset, FS_CardinalityType
<1>5. Cardinality(D) = Distance(Cardinality(A), Cardinality(B))
  <2>1. CASE A \ B = {}
    <3>1. D = B \ A /\ B \cap A = A /\ A \subseteq B
      BY <2>1
    <3> HIDE DEF A, B, D
    <3>2. Cardinality(B \ A) = Cardinality(B) - Cardinality(B \cap A)
      BY <1>4, FS_Difference
    <3>3. Cardinality(A) <= Cardinality(B)
      BY <1>4, <3>1, FS_Subset
    <3>4. Cardinality(D) = Cardinality(B) - Cardinality(A)
      BY <3>1, <3>2
    <3> QED
      BY <1>4, <3>3, <3>4 DEF Distance
  <2>2. CASE B \ A = {}
    <3>1. D = A \ B /\ A \cap B = B /\ B \subseteq A
      BY <2>2
    <3> HIDE DEF A, B, D
    <3>2. Cardinality(A \ B) = Cardinality(A) - Cardinality(A \cap B)
      BY <1>4, FS_Difference
    <3>3. Cardinality(B) <= Cardinality(A)
      BY <1>4, <3>1, FS_Subset
    <3>4. Cardinality(D) = Cardinality(A) - Cardinality(B)
      BY <3>1, <3>2
    <3> QED
      BY <1>4, <3>3, <3>4 DEF Distance
  <2> QED
    BY <1>3, <2>1, <2>2
<1>6. ASSUME NEW i \in P
      PROVE  /\ q[i] \in Events /\ q[i].vm = vm /\ q[i] = Event(vm, q[i].action, q[i].vnode)
             /\ \/ q[i].action = 1 /\ q[i].vnode \in B \ A
                \/ q[i].action = -1 /\ q[i].vnode \in A \ B
  <2>1. q[i] \in Events /\ q[i].vm = vm
    BY DEF Queue
  <2>2. /\ q[i].action \in {-1, 1} /\ q[i] = Event(q[i].vm, q[i].action, q[i].vnode)
        /\ q[i].action = 1 => q[i].vnode \in B \ A
        /\ q[i].action = -1 => q[i].vnode \in A \ B
    <3>1. ASSUME NEW e \in Events, e.vm = vm
          PROVE  /\ e.action \in {-1, 1} /\ e = Event(e.vm, e.action, e.vnode)
                 /\ e.action = 1 => e.vnode \in B \ A
                 /\ e.action = -1 => e.vnode \in A \ B
      <4>1. /\ e.action \in {-1, 1} /\ e = Event(e.vm, e.action, e.vnode)
            /\ e.action = 1 => e.vnode \in newSys[e.vm] \ enabled[e.vm]
            /\ e.action = -1 => e.vnode \in enabled[e.vm] \ (newSys[e.vm] \cup {home[e.vm]})
        BY EventsOfPlan
      <4>2. /\ e.action = 1 => e.vnode \in B \ A
            /\ e.action = -1 => e.vnode \in A \ B
        BY <3>1, <4>1
      <4> HIDE DEF A, B
      <4> QED
        BY <4>1, <4>2, Zenon
    <3> HIDE DEF A, B, P
    <3> QED
      BY <2>1, <3>1
  <2> HIDE DEF A, B, P
  <2>3. q[i] = Event(vm, q[i].action, q[i].vnode)
    BY <2>1, <2>2, Zenon
  <2>4. \/ q[i].action = 1 /\ q[i].vnode \in B \ A
        \/ q[i].action = -1 /\ q[i].vnode \in A \ B
    BY <2>2
  <2> QED
    BY <2>1, <2>3, <2>4, Zenon
<1>7. f \in Bijection(P, D)
  <2>1. f \in [P -> D]
    BY <1>6
  <2>2. ASSUME NEW i \in P, NEW j \in P, q[i].vnode = q[j].vnode PROVE i = j
    <3>1. q[i].action = q[j].action
      BY <1>6, <2>2
    <3>2. q[i] = q[j]
      BY <1>6, <2>2, <3>1
    <3> QED
      BY <3>2 DEF Queue
  <2>3. ASSUME NEW v \in D PROVE \E i \in P : q[i].vnode = v
    <3> DEFINE e == Event(vm, IF v \in B THEN 1 ELSE -1, v)
    <3>1. e \in Events /\ e.vm = vm /\ e.vnode = v
      BY <1>2 DEF Events, Changes, Event
    <3>2. PICK i \in 1 .. Len(q) : q[i] = e
      BY <3>1 DEF Queue
    <3>3. i \in DOMAIN q
      BY <3>2 DEF Queue
    <3> HIDE DEF e
    <3> QED
      BY <3>1, <3>2, <3>3
  <2>4. \A i \in P : f[i] = q[i].vnode
    OBVIOUS
  <2> HIDE DEF f, P, D
  <2> QED
    BY <2>1, <2>2, <2>3, <2>4 DEF Bijection, Injection, Surjection, IsInjective
<1>8. Cardinality(P) = Cardinality(D)
  <2>1. IsFiniteSet(P)
    <3>1. f \in Injection(P, D)
      BY <1>7 DEF Bijection
    <3> HIDE DEF f, P, D
    <3> QED
      BY <1>4, <3>1, FS_Injection
  <2> HIDE DEF f, P, D
  <2> QED
    BY <1>7, <2>1, FS_Bijection DEF ExistsBijection
<1> QED
  BY <1>4, <1>5, <1>8

\* A plan begins a change of each VM whose number of nodes it changes, and has
\* as many events for it as the change then waits for.
LEMMA GenerateAccount == ASSUME IInv, AInv, Generate PROVE AInv'
<1>1. /\ pc = "plan" /\ phase = "done" /\ pending' = pending
      /\ pending \in [Vm -> Nat] /\ log \in [Vm -> Logs] /\ lost \in [Vm -> Nat]
  BY DEF Generate, AInv
<1>2. events = <<>> /\ events' \in Seq(Changes)
  BY <1>1, PlannerEnter, Generated DEF Queue
<1>3. ASSUME NEW l \in Logs, NEW entries \in Aged(l) PROVE entries \in Logs
  <2>1. PICK k \in 0 .. Len(l) :
            entries = [i \in DOMAIN l |-> IF i <= k THEN [l[i] EXCEPT !.ts = Old] ELSE l[i]]
    BY <1>3 DEF Aged
  <2>2. \A x \in Entry : [x EXCEPT !.ts = Old] \in Entry
    BY DEF Entry
  <2> QED
    BY <2>1, <2>2 DEF Logs
<1>4. log' \in [Vm -> Logs]
  <2>1. \A vm \in Vm : log'[vm] \in Logs
    BY <1>1, <1>3 DEF Generate
  <2>2. log' = [vm \in Vm |-> log'[vm]]
    BY DEF Generate
  <2> QED
    BY <2>1, <2>2
<1>5. ASSUME NEW vm \in Vm PROVE StatusOK(status'[vm]) /\ Balanced(vm)'
  <2> DEFINE n == Cardinality(enabled[vm])
             m == Cardinality(newSys[vm])
  <2>1. StatusOK(status[vm]) /\ Balanced(vm) /\ pending[vm] \in Nat
    BY <1>1 DEF AInv
  <2>2. Queued(vm)' = Distance(n, m) /\ n \in Nat /\ m \in Nat
    BY <1>1, Generated, EventsCounted DEF Queued
  <2>3. Queued(vm) = 0
    <3>1. {i \in DOMAIN events : events[i].vm = vm} = {}
      BY <1>2
    <3> QED
      BY <3>1, FS_EmptySet DEF Queued
  <2>4. Arriving(vm)' \in Nat /\ Remaining(vm)' = Left(status'[vm])
    BY <1>2, <1>4, PartsNext DEF Shaped, AllCounted, Counted
  <2>5. CASE Begins(vm)
    <3>1. n # m /\ (clean'[vm] => AtRest(vm, log'[vm])) /\ lost'[vm] = 0
      BY <2>5 DEF Begins, Generate
    <3>2. status'[vm] = ChangeBegin(status[vm], n, m, Start)
      BY <2>5 DEF Generate, BeginAll
    <3>3. StatusOK(status'[vm]) /\ Left(status'[vm]) = Distance(n, m)
      <4> HIDE DEF n, m
      <4> QED
        BY <2>1, <2>2, <3>1, <3>2, BeginLeft
    <3>4. clean'[vm] => pending[vm] = 0 /\ Arriving(vm)' = 0
      BY <3>1, NoneHeard DEF AtRest, Arriving
    <3>5. pending'[vm] = pending[vm] /\ Queued(vm)' \in Nat
      BY <1>1, <2>2 DEF Distance
    <3> HIDE DEF n, m
    <3> QED
      BY <2>1, <2>2, <2>4, <3>1, <3>3, <3>4, <3>5 DEF Balanced, Outstanding
  <2>6. CASE ~Begins(vm)
    <3>1. Queued(vm)' = Queued(vm)
      BY <2>2, <2>3, <2>6 DEF Begins, Distance
    <3>2. /\ log'[vm] = log[vm] /\ clean'[vm] = clean[vm] /\ pending'[vm] = pending[vm]
          /\ lost'[vm] = lost[vm]
      BY <1>1, <2>6 DEF Generate
    <3>3. status'[vm] = status[vm]
      BY <2>6 DEF Generate, BeginAll
    <3> QED
      BY <2>1, <3>1, <3>2, <3>3, BalancedStays
  <2> QED
    BY <2>5, <2>6
<1>6. lost' \in [Vm -> Nat]
  BY <1>1 DEF Generate
<1> QED
  BY <1>1, <1>4, <1>5, <1>6 DEF AInv

\* The account balances after every step.
LEMMA StepAccount == ASSUME IInv, AInv, [Next]_vars PROVE AInv'
<1>1. CASE Crawl
  BY <1>1, CrawlAccount
<1>2. CASE AssignHomes \/ StartPlan \/ PlanStep
  <2>1. UNCHANGED <<events, status, pending, log, clean, lost>>
    BY <1>2 DEF AssignHomes, StartPlan, PlanStep, daemon, guests, account
  <2> QED
    BY <2>1, QuietAccount
<1>3. CASE Generate
  BY <1>3, GenerateAccount
<1>4. CASE ProcessEvent
  BY <1>4, ProcessEventAccount
<1>5. CASE Processed \/ Interrupt \/ UNCHANGED vars
  <2>1. UNCHANGED <<events, status, pending, log, clean, lost>>
    BY <1>5 DEF Processed, Interrupt, vars, daemon, guests, account
  <2> QED
    BY <2>1, QuietAccount
<1>6. CASE Restart
  BY <1>6, RestartAccount
<1>7. ASSUME NEW vm \in Vm, Complete(vm) \/ Remark(vm) PROVE AInv'
  BY <1>7, CompleteAccount, RemarkAccount
<1> QED
  BY <1>1, <1>2, <1>3, <1>4, <1>5, <1>6, <1>7 DEF Next, Serve

\* The account of every VM balances in every reachable state.
LEMMA Account == Spec => []AInv
<1>1. Init => AInv
  BY InitAccount
<1>2. IInv /\ AInv /\ [Next]_vars => AInv'
  BY StepAccount
<1> QED
  BY <1>1, <1>2, Invariant, PTL DEF Spec

\* What the status of a VM still waits for is exactly what is queued, being done,
\* or logged and not yet read, and what was lost on the way (overwritten in the
\* log, skipped by get_new_log_entries, dated before the change), if its guest
\* had nothing else to do when the change began (topo_change_status.cpp:
\* finished_one_node; topo_change_d.cpp: update_vm_map).
THEOREM WorkIsAccounted == Spec => []WorkAccounted
<1>1. AInv => WorkAccounted
  BY DEF AInv, Balanced, WorkAccounted
<1> QED
  BY <1>1, Account, PTL

\* However often a change was restarted, and whatever else its guest still had to
\* do, it waits for more completions than are still to come only by as many as
\* were lost on the way (topo_change_status.cpp: finished_one_node, change_begin).
THEOREM ChangesCanEnd == Spec => []ChangeCanEnd
<1>1. AInv => ChangeCanEnd
  BY DEF AInv, Balanced, ChangeCanEnd
<1> QED
  BY <1>1, Account, PTL

-----------------------------------------------------------------------------
(***************************************************************************)
(* The type invariant.  That the numbers of a status stay in their ranges  *)
(* depends on the account: a cool-down is counted down only while some of  *)
(* it is left, and a change is counted only while a node is missing.       *)
(***************************************************************************)

\* The numbers of a status that have an upper bound.
Bounded(s) == s.cd <= CoolDown /\ s.from <= MaxNodes /\ s.to <= MaxNodes

\* A status that makes sense is of its type if its numbers keep to their bounds.
LEMMA StatusBounds == ASSUME NEW s, StatusOK(s) PROVE s \in Status <=> Bounded(s)
<1>1. /\ s.type \in StatusType /\ s.cd \in Nat /\ s.start \in Nat /\ s.from \in Nat
      /\ s.to \in Nat /\ s.progress \in Nat
      /\ s = [type |-> s.type, cd |-> s.cd, start |-> s.start, from |-> s.from,
              to |-> s.to, progress |-> s.progress]
  BY DEF StatusOK, Start
<1>2. s \in Status => Bounded(s)
  BY CoolDownAssumption, NodesAssumption DEF Status, Bounded
<1>3. ASSUME Bounded(s) PROVE s \in Status
  <2>1. s.cd \in 0 .. CoolDown /\ s.from \in 0 .. MaxNodes /\ s.to \in 0 .. MaxNodes
    BY <1>1, <1>3, CoolDownAssumption, NodesAssumption DEF Bounded
  <2> QED
    BY <1>1, <2>1 DEF Status
<1> QED
  BY <1>2, <1>3

\* A completion and the cool-down leave the numbers within their bounds.
LEMMA FinishedBounded ==
    ASSUME NEW s, StatusOK(s), Bounded(s), NEW ts PROVE Bounded(FinishedOneNode(s, ts))
<1>1. s.cd \in Nat /\ s.from \in Nat /\ s.to \in Nat
  BY DEF StatusOK
<1> QED
  BY <1>1, CoolDownAssumption DEF StatusOK, Bounded, FinishedOneNode

LEMMA ReduceBounded ==
    ASSUME NEW s, StatusOK(s), Bounded(s) PROVE Bounded(ReduceCoolDown(s))
BY CoolDownAssumption DEF StatusOK, Bounded, ReduceCoolDown

LEMMA ForgetBounded ==
    ASSUME NEW s, StatusOK(s), Bounded(s) PROVE Bounded(Forget(s))
BY NodesAssumption DEF StatusOK, Bounded, Forget

LEMMA BeginBounded ==
    ASSUME NEW s, StatusOK(s), Bounded(s), NEW n \in 0 .. MaxNodes, NEW m \in 0 .. MaxNodes,
           NEW t, t = ChangeBegin(s, n, m, Start)
    PROVE  Bounded(t)
<1>1. t.cd = s.cd /\ t.from = n /\ t.to = m
  BY DEF StatusOK, ChangeBegin
<1> QED
  BY <1>1, NodesAssumption DEF Bounded

\* So does a log of any length.
LEMMA ReadLogBounded ==
    ASSUME NEW s, StatusOK(s), Bounded(s), NEW e \in Seq(Entry)
    PROVE  Bounded(ReadLog(s, e))
<1> DEFINE n == Len(e)
<1>1. n \in Nat /\ \A i \in 1 .. n : e[i] \in Entry
  OBVIOUS
<1>2. PICK f : /\ f[0] = s /\ ReadLog(s, e) = f[n]
               /\ \A i \in 1 .. n : f[i] = ReadOne(f[i - 1], e[i])
  BY ReadLogSteps
<1> DEFINE After(k) == StatusOK(f[k]) /\ Bounded(f[k])
           B == {k \in Nat : k <= n => After(k)}
<1>3. ASSUME NEW k \in Nat, k + 1 <= n, After(k) PROVE After(k + 1)
  <2>1. k + 1 \in 1 .. n /\ f[k + 1] = ReadOne(f[k], e[k + 1]) /\ e[k + 1] \in Entry
    BY <1>1, <1>2, <1>3
  <2>2. StatusOK(f[k + 1])
    BY <1>3, <2>1, ReadOneLeft
  <2>3. Bounded(f[k + 1])
    BY <1>3, <2>1, FinishedBounded DEF ReadOne
  <2> QED
    BY <2>2, <2>3
<1>4. n \in B
  <2>1. ASSUME NEW k \in Nat, k \in B PROVE k + 1 \in B
    <3> HIDE DEF After
    <3> QED
      BY <1>1, <1>3, <2>1
  <2>2. 0 \in B
    BY <1>2
  <2> HIDE DEF B
  <2> QED
    BY <1>1, <2>1, <2>2, Induction
<1> QED
  BY <1>1, <1>2, <1>4

\* A VM has no more nodes, now or by the plan, than are known of it.
LEMMA NodesBounded ==
    ASSUME IInv, pc = "plan", phase = "done", NEW vm \in Vm
    PROVE  Cardinality(enabled[vm]) \in 0 .. MaxNodes /\ Cardinality(newSys[vm]) \in 0 .. MaxNodes
<1> DEFINE N == Nodes(vm)
<1>1. PlannerP!IInv
  BY PlannerEnter
<1>2. enabled[vm] \in SUBSET N /\ newSys[vm] \in SUBSET N
  BY <1>1 DEF PlannerP!IInv, PlannerP!TypeOK, PlannerP!VnodesOf, IInv, DaemonType, Nodes
<1>3. IsFiniteSet(N)
  <2>1. N \in SUBSET Vnode
    BY PlacementAssumption DEF Nodes
  <2> HIDE DEF N
  <2> QED
    BY <2>1, GuestsAssumption, FS_Subset
<1>4. Cardinality(N) <= MaxNodes
  BY SizeAssumption DEF Nodes
<1> HIDE DEF N
<1>5. ASSUME NEW T \in SUBSET N PROVE Cardinality(T) \in 0 .. MaxNodes
  <2>1. IsFiniteSet(T) /\ Cardinality(T) <= Cardinality(N)
    BY <1>3, FS_Subset
  <2>2. Cardinality(T) \in Nat /\ Cardinality(N) \in Nat
    BY <1>3, <2>1, FS_CardinalityType
  <2> QED
    BY <1>4, <2>1, <2>2, NodesAssumption
<1> QED
  BY <1>2, <1>5

\* The types that neither IInv nor AInv has.
TInv ==
    /\ status \in [Vm -> Status] /\ clean \in [Vm -> BOOLEAN]
    /\ given \in [Vm -> SUBSET Vnode]
    /\ interrupted \in BOOLEAN /\ restarts \in 0 .. MaxRestarts

\* The constructor of topo_change_status.
LEMMA NewStatusType == NewStatus \in Status
BY CoolDownAssumption, NodesAssumption DEF NewStatus, Status, StatusType

\* A daemon that has just been started.
LEMMA InitTypes == Init => TInv
<1> SUFFICES ASSUME Init PROVE TInv
  OBVIOUS
<1>1. given \in [Vm -> SUBSET Vnode]
  BY PlacementAssumption DEF Init
<1>2. status \in [Vm -> Status] /\ clean \in [Vm -> BOOLEAN]
  BY NewStatusType DEF Init
<1>3. interrupted \in BOOLEAN /\ restarts \in 0 .. MaxRestarts
  <2>1. restarts \in 0 .. MaxRestarts
    BY PendingAssumption DEF Init
  <2>2. interrupted \in BOOLEAN
    BY DEF Init
  <2> QED
    BY <2>1, <2>2
<1> QED
  BY <1>1, <1>2, <1>3 DEF TInv

LEMMA RestartTypes == ASSUME TInv, Restart PROVE TInv'
<1>1. restarts' \in 0 .. MaxRestarts
  BY PendingAssumption DEF TInv, Restart
<1>2. status' \in [Vm -> Status]
  BY NewStatusType DEF Restart
<1>3. clean' \in [Vm -> BOOLEAN]
  BY DEF Restart, AtRest
<1>4. given' \in [Vm -> SUBSET Vnode] /\ interrupted' \in BOOLEAN
  BY DEF TInv, Restart, guests
<1> QED
  BY <1>1, <1>2, <1>3, <1>4 DEF TInv

\* The crawl changes the status of each VM by way of statuses that make sense.
LEMMA CrawlTypes == ASSUME AInv, TInv, Crawl PROVE TInv'
<1>1. ASSUME NEW vm \in Vm
      PROVE  Forget(ReadLog(ReduceCoolDown(status[vm]), log[vm])) \in Status
  <2> DEFINE s == status[vm]
             r == ReduceCoolDown(s)
             e == log[vm]
             read == ReadLog(r, e)
  <2>1. StatusOK(s) /\ s \in Status /\ e \in Seq(Entry)
    BY LogShape DEF AInv, TInv
  <2>2. StatusOK(r) /\ Bounded(r)
    <3> HIDE DEF s
    <3> QED
      BY <2>1, StatusBounds, ReduceLeft, ReduceBounded
  <2>3. StatusOK(read) /\ Bounded(read)
    <3> HIDE DEF r, e
    <3> QED
      BY <2>1, <2>2, ReadLogLeft, ReadLogBounded
  <2> HIDE DEF read
  <2>4. Forget(read) \in Status
    BY <2>3, ForgetLeft, ForgetBounded, StatusBounds
  <2> QED
    BY <2>4 DEF read
<1>2. status' \in [Vm -> Status]
  BY <1>1 DEF Crawl
<1> QED
  BY <1>2 DEF TInv, Crawl

\* A change begins with numbers of nodes that the VM can have.
LEMMA GenerateTypes == ASSUME IInv, AInv, AInv', TInv, Generate PROVE TInv'
<1>1. ASSUME NEW vm \in Vm PROVE status'[vm] \in Status
  <2> DEFINE n == Cardinality(enabled[vm])
             m == Cardinality(newSys[vm])
  <2>1. StatusOK(status[vm]) /\ StatusOK(status'[vm]) /\ status[vm] \in Status
    BY DEF AInv, TInv
  <2>2. n \in 0 .. MaxNodes /\ m \in 0 .. MaxNodes
    BY NodesBounded DEF Generate
  <2>3. CASE Begins(vm)
    <3>1. status'[vm] = ChangeBegin(status[vm], n, m, Start)
      BY <2>3 DEF Generate, BeginAll
    <3> HIDE DEF n, m
    <3> QED
      BY <2>1, <2>2, <3>1, StatusBounds, BeginBounded
  <2>4. CASE ~Begins(vm)
    BY <2>1, <2>4 DEF Generate, BeginAll
  <2> QED
    BY <2>3, <2>4
<1>2. status' = [vm \in Vm |-> status'[vm]]
  BY DEF Generate, BeginAll
<1>3. status' \in [Vm -> Status]
  BY <1>1, <1>2
<1>4. clean' \in [Vm -> BOOLEAN]
  <2>1. \A vm \in Vm : clean'[vm] \in BOOLEAN
    BY DEF Generate, TInv, AtRest
  <2>2. clean' = [vm \in Vm |-> clean'[vm]]
    BY DEF Generate
  <2> QED
    BY <2>1, <2>2
<1> QED
  BY <1>3, <1>4 DEF TInv, Generate

\* An event tells a guest of one of the nodes.
LEMMA ProcessEventTypes == ASSUME IInv, TInv, ProcessEvent PROVE TInv'
<1> DEFINE e == Head(events)
<1>1. e \in Changes
  BY DEF IInv, QueueInv, ProcessEvent
<1>2. e.vm \in Vm /\ e.vnode \in Vnode
  BY <1>1, EventShape
<1> HIDE DEF e
<1>3. given' = given \/ given' = [given EXCEPT ![e.vm] = Switched(@, e)]
  BY DEF ProcessEvent, e
<1>4. given' \in [Vm -> SUBSET Vnode]
  BY <1>2, <1>3 DEF TInv, Switched
<1> QED
  BY <1>4 DEF TInv, ProcessEvent, account

\* Every step keeps the types.
LEMMA StepTypes == ASSUME IInv, AInv, AInv', TInv, [Next]_vars PROVE TInv'
<1>1. CASE Crawl
  BY <1>1, CrawlTypes
<1>2. CASE AssignHomes \/ StartPlan \/ PlanStep
  BY <1>2 DEF AssignHomes, StartPlan, PlanStep, TInv, daemon, guests, account
<1>3. CASE Generate
  BY <1>3, GenerateTypes
<1>4. CASE ProcessEvent
  BY <1>4, ProcessEventTypes
<1>5. CASE Processed \/ Interrupt \/ UNCHANGED vars
  BY <1>5 DEF Processed, Interrupt, TInv, vars, daemon, guests, account
<1>6. CASE Restart
  BY <1>6, RestartTypes
<1>7. ASSUME NEW vm \in Vm, Complete(vm) \/ Remark(vm) PROVE TInv'
  BY <1>7 DEF Complete, Remark, TInv, daemon
<1> QED
  BY <1>1, <1>2, <1>3, <1>4, <1>5, <1>6, <1>7 DEF Next, Serve

\* The variables of the daemon and of its guests have their types: in
\* particular, however a change is restarted and its log read, the cool-down
\* never leaves 0 .. CoolDown (topo_change_status.cpp: reduce_cool_down_cd), the
\* node counts of a status are those of a VM, and the completions that a guest
\* owes never fall below zero.
THEOREM TypeCorrect == Spec => []TypeOK
<1>1. Init => TInv
  BY InitTypes
<1>2. IInv /\ AInv /\ AInv' /\ TInv /\ [Next]_vars => TInv'
  BY StepTypes
<1>3. IInv /\ AInv /\ TInv => TypeOK
  BY DEF IInv, DaemonType, QueueInv, AInv, TInv, TypeOK, Logs
<1> QED
  BY <1>1, <1>2, <1>3, Invariant, Account, PTL DEF Spec
=============================================================================
