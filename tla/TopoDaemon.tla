----------------------------- MODULE TopoDaemon -----------------------------
(***************************************************************************)
(* The daemon (topo_change_d, topo_change_engine) and its guests.  Once a  *)
(* second the daemon reads what the guests wrote (update_vm_map), assigns  *)
(* home nodes (HomeNode), computes a plan (TopoPlanner), turns it into     *)
(* events and processes them; SIGINT ends it.  A guest carries out one     *)
(* node change per event, some time later, and logs "topo change           *)
(* succeeded"; from these entries the daemon counts how far the change of  *)
(* the VM is (StatusObject).  The log is a ring of slots in the store, with *)
(* timestamps of the guest's clock: an entry may be overwritten before it  *)
(* is read, be skipped because it is not later than one that was read, or  *)
(* be dated before the change.  A daemon that was interrupted, or ended by *)
(* a failed assertion, may be started again: it remembers nothing and      *)
(* takes every node to be enabled, whatever the guests were told before.   *)
(*                                                                         *)
(* The set of VMs is fixed here (HomeNode lets them come and go).  A plan  *)
(* that meets a missing record ends the daemon (phase = "aborted").        *)
(***************************************************************************)
EXTENDS StatusObject, FiniteSets, Sequences

CONSTANTS
    Vm, Vnode, Pnode, PnodeOf, Loads,  \* see TopoPlanner
    DefaultHome,                       \* see HomeNode
    LogSlots,   \* external: slots of the guest's log in the store
    MaxPending, \* bound: a guest further behind than this delays the daemon
    MaxBehind,  \* bound: more guests that are behind at all delay the daemon
    MaxRestarts \* bound: how often the daemon is started again

ASSUME PendingAssumption == MaxPending \in Nat /\ MaxBehind \in Nat /\ MaxRestarts \in Nat
ASSUME SlotsAssumption == LogSlots \in Nat \ {0}
\* What TopoPlanner and HomeNode assume of the guests and their nodes.
ASSUME GuestsAssumption ==
    /\ Vm \subseteq Nat \ {0} /\ IsFiniteSet(Vm) /\ IsFiniteSet(Vnode) /\ IsFiniteSet(Pnode)
    /\ DefaultHome \in Vnode
    /\ Loads \subseteq [running : BOOLEAN, bw : {"low", "mid", "high"},
                        threads : BOOLEAN, attr : BOOLEAN]
ASSUME PlacementAssumption ==
    /\ DOMAIN PnodeOf = Vm
    /\ \A vm \in Vm :
          /\ DOMAIN PnodeOf[vm] \subseteq Vnode /\ DOMAIN PnodeOf[vm] # {}
          /\ PnodeOf[vm] \in [DOMAIN PnodeOf[vm] -> Pnode]
          /\ \A v, w \in DOMAIN PnodeOf[vm] : PnodeOf[vm][v] = PnodeOf[vm][w] => v = w
\* What the numbers of a status are counted with.
ASSUME SizeAssumption == \A vm \in Vm : Cardinality(DOMAIN PnodeOf[vm]) <= MaxNodes

VARIABLES
    alive,        \* vm_map: all of Vm, for good
    enabled,      \* enabled[vm]: the nodes with vnode.enabled
    home,         \* home[vm]: reserved_vnode_id
    status,       \* status[vm]: tc_status
    events,       \* event_list
    interrupted,  \* set by the handler of SIGINT
    pc,           \* "wait", "crawl", "search", "plan", "process", "stopped"
    pending,      \* guest: node changes it was told of and has not completed
    log,          \* guest: the entries in the slots of its log, oldest first
    given,        \* guest: given[vm]: the nodes it was last told it has
    restarts,     \* how often the daemon was started again
    clean,        \* history: nothing was outstanding when the change began
    lost,         \* history: completions since then that will not be counted
    order, trial, tried, changed, failed,              \* of HomeNode
    score, rank, newSys, freeQ, vmList, lo, hi, phase  \* of TopoPlanner

daemon  == <<enabled, home, status, events>>
guests  == <<pending, log, given>>
homing  == <<alive, order, trial, tried, changed, failed>>
working == <<score, rank, newSys, freeQ, vmList, lo, hi, phase>>
account == <<clean, lost>>
vars    == <<daemon, interrupted, pc, guests, account, restarts, homing, working>>

Home == INSTANCE HomeNode WITH topo <- enabled

Undergo == {vm \in Vm : IsUndergo(status[vm])}
Planner == INSTANCE TopoPlanner WITH topoSys <- enabled, undergo <- Undergo

\* A timestamp is compared with two times only: with the start of the change
\* (Old: not later, Recent: later) and with last_xs_ux_ts_ms, that of the newest
\* entry read so far (new: later).
Old    == 0
Recent == 1
Start  == 0

Entry == [ts : {Old, Recent}, new : BOOLEAN]

\* A slot that was never written, or was read, or says something else.
Blank == [ts |-> Old, new |-> FALSE]

\* The completions that the next crawl counts.
Countable(e) == e.new /\ e.ts = Recent

-----------------------------------------------------------------------------
Init ==
    /\ alive = Vm
    /\ enabled = [vm \in Vm |-> DOMAIN PnodeOf[vm]]
    /\ home = [vm \in Vm |-> DefaultHome]
    /\ status = [vm \in Vm |-> NewStatus]
    /\ events = <<>>
    /\ interrupted = FALSE
    /\ pc = "wait"
    /\ pending = [vm \in Vm |-> 0]
    /\ log = [vm \in Vm |-> [i \in 1 .. LogSlots |-> Blank]]
    /\ given = [vm \in Vm |-> DOMAIN PnodeOf[vm]]
    /\ clean = [vm \in Vm |-> TRUE]
    /\ lost = [vm \in Vm |-> 0]
    /\ restarts = 0
    /\ order = <<>> /\ tried = <<>> /\ trial = [vm \in {} |-> {}]
    /\ changed = TRUE /\ failed = FALSE
    /\ Planner!Init

(* update_vm_map: the cool-down of each VM, then the entries of its log *)

\* Mutant: the first slot is left out.
ReadLogLate(s, entries) ==
    LET after[i \in 0 .. Len(entries)] ==
            IF i <= 1 THEN s
            ELSE IF entries[i].new THEN FinishedOneNode(after[i - 1], entries[i].ts)
            ELSE after[i - 1]
    IN  after[Len(entries)]

\* Mutant: entries that were read before are taken once more.
ReadLogAgain(s, entries) ==
    LET after[i \in 0 .. Len(entries)] ==
            IF i = 0 THEN s ELSE FinishedOneNode(after[i - 1], entries[i].ts)
    IN  after[Len(entries)]

\* crawl_log_entries_from_xs: every slot is read, and get_new_log_entries skips
\* the entries that are not later than those read before.  (In what order the
\* slots are read is of no account: the entries that count are only counted.)
ReadLog(s, entries) ==
    LET after[i \in 0 .. Len(entries)] ==
            IF i = 0 THEN s
            ELSE IF entries[i].new THEN FinishedOneNode(after[i - 1], entries[i].ts)
            ELSE after[i - 1]
    IN  after[Len(entries)]

\* last_ux_ts_ms becomes the newest timestamp: no slot is new any more.
Seen(entries) == [i \in DOMAIN entries |-> Blank]

\* The numbers of nodes of a change that is over are not read any more.
Forget(s) == IF s.type = "undergo_topo_change" THEN s ELSE [s EXCEPT !.from = 0, !.to = 0]

Crawl ==
    /\ pc = "wait"
    /\ \A vm \in Vm : pending[vm] <= MaxPending
    /\ Cardinality({vm \in Vm : pending[vm] > 0}) <= MaxBehind
    /\ status' = [vm \in Vm |-> Forget(ReadLog(ReduceCoolDown(status[vm]), log[vm]))]
    /\ log' = [vm \in Vm |-> Seen(log[vm])]
    /\ lost' = [vm \in Vm |->
                   IF status'[vm].type = "undergo_topo_change" THEN lost[vm] ELSE 0]
    /\ pc' = "crawl"
    /\ UNCHANGED <<enabled, home, events, interrupted, pending, given, clean, restarts, homing, working>>

AssignHomes ==
    /\ Home!Keep \/ Home!StartSearch \/ Home!Search
    /\ UNCHANGED <<status, events, interrupted, guests, account, restarts, working>>

StartPlan ==
    /\ pc = "plan"
    /\ Planner!Start
    /\ order' = <<>> /\ tried' = <<>> /\ trial' = [vm \in {} |-> {}]
    /\ UNCHANGED <<daemon, interrupted, pc, guests, account, restarts, alive, changed, failed>>

PlanStep ==
    /\ pc = "plan" /\ phase # "idle"
    /\ Planner!Step
    /\ UNCHANGED <<daemon, interrupted, pc, guests, account, restarts, homing>>

(* generate_topo_change_events *)

Event(vm, action, v) == [vm |-> vm, action |-> action, vnode |-> v]

Changes ==
    {Event(vm, -1, v) : vm \in Vm, v \in Vnode} \cup {Event(vm, 1, v) : vm \in Vm, v \in Vnode}

Events ==
    {e \in Changes :
        e.vnode \in IF e.action = 1 THEN newSys[e.vm] \ enabled[e.vm]
                                    ELSE enabled[e.vm] \ newSys[e.vm]}

\* The maps are walked VM by VM, in any order.
VmByVm(met) ==
    \A i, j \in DOMAIN met :
        /\ met[i] = met[j] => i = j
        /\ (i < j /\ met[i].vm = met[j].vm) => \A k \in i .. j : met[k].vm = met[i].vm

\* Mutant: every event is put at the back.
InsertedBehind(q, e) == Append(q, e)

\* A shrink is put in front of the queue, an expansion at the back.
Inserted(q, e) == IF e.action = -1 THEN <<e>> \o q ELSE Append(q, e)

InsertedAll(q, met) ==
    LET after[i \in 0 .. Len(met)] ==
            IF i = 0 THEN q ELSE Inserted(after[i - 1], met[i])
    IN  after[Len(met)]

\* time(0)*1000 is rounded down, and the guest's clock may be ahead: of the
\* entries written before the change begins, the last may be dated after it.
Aged(entries) == {[i \in DOMAIN entries |->
                      IF i <= k THEN [entries[i] EXCEPT !.ts = Old] ELSE entries[i]] :
                     k \in 0 .. Len(entries)}

\* The guest has nothing to do and has left nothing that counts.
AtRest(vm, entries) == pending[vm] = 0 /\ \A i \in DOMAIN entries : ~Countable(entries[i])

Begins(vm) == Cardinality(enabled[vm]) # Cardinality(newSys[vm])

\* Mutant: a restarted change counts from where the first one began.
BeginAllFromFirst ==
    status' = [vm \in Vm |->
        IF Begins(vm)
        THEN ChangeBegin(status[vm],
                         IF status[vm].type = "undergo_topo_change" THEN status[vm].from
                         ELSE Cardinality(enabled[vm]),
                         Cardinality(newSys[vm]), Start)
        ELSE status[vm]]

BeginAll ==
    status' = [vm \in Vm |->
        IF Begins(vm)
        THEN ChangeBegin(status[vm], Cardinality(enabled[vm]), Cardinality(newSys[vm]), Start)
        ELSE status[vm]]

\* Every map is marked outdated.
OutdateMaps ==
    /\ score' = [vm \in Vm |-> 0]
    /\ rank' = [vm \in Vm |-> [v \in Vnode |-> -200]]
    /\ newSys' = [vm \in Vm |-> {}]
    /\ freeQ' = <<>> /\ vmList' = <<>> /\ lo' = 0 /\ hi' = 0 /\ phase' = "idle"

\* The inner loop of start() ends when there are events or it is interrupted.
Generate ==
    /\ pc = "plan" /\ phase = "done"
    /\ BeginAll
    /\ log' \in [Vm -> UNION {Aged(log[vm]) : vm \in Vm}]
    /\ \A vm \in Vm : IF Begins(vm) THEN log'[vm] \in Aged(log[vm]) ELSE log'[vm] = log[vm]
    /\ clean' = [vm \in Vm |-> IF Begins(vm) THEN AtRest(vm, log'[vm]) ELSE clean[vm]]
    /\ lost' = [vm \in Vm |-> IF Begins(vm) THEN 0 ELSE lost[vm]]
    /\ \E met \in [1 .. Cardinality(Events) -> Events] :
          VmByVm(met) /\ events' = InsertedAll(events, met)
    /\ pc' = IF interrupted \/ Events # {} THEN "process" ELSE "wait"
    /\ OutdateMaps
    /\ UNCHANGED <<enabled, home, interrupted, pending, given, restarts, homing>>

(* process_events: each event changes one node and tells the guest *)

\* vnode::shrink refuses to take the reserved node away.
Refused(e) == e.action = -1 /\ e.vnode = home[e.vm]

Switched(nodes, e) == IF e.action = 1 THEN nodes \cup {e.vnode} ELSE nodes \ {e.vnode}

ProcessEvent ==
    /\ pc = "process" /\ events # <<>>
    /\ LET e == Head(events) IN
       IF Refused(e) THEN UNCHANGED <<enabled, given, pending>>
       ELSE /\ enabled' = [enabled EXCEPT ![e.vm] = Switched(@, e)]
            /\ given' = [given EXCEPT ![e.vm] = Switched(@, e)]
            /\ pending' = [pending EXCEPT ![e.vm] = @ + 1]
    /\ events' = Tail(events)
    /\ UNCHANGED <<home, status, interrupted, pc, log, account, restarts, homing, working>>

\* Mutant: an interrupt also ends the processing of events.
ProcessedAtOnce ==
    /\ pc = "process" /\ (events = <<>> \/ interrupted)
    /\ pc' = IF interrupted THEN "stopped" ELSE "wait"
    /\ UNCHANGED <<daemon, interrupted, guests, account, restarts, homing, working>>

Processed ==
    /\ pc = "process" /\ events = <<>>
    /\ pc' = IF interrupted THEN "stopped" ELSE "wait"
    /\ UNCHANGED <<daemon, interrupted, guests, account, restarts, homing, working>>

\* SIGINT.  The flag is read in start() only, so that a signal that comes
\* while events are generated is the same as one that comes just before.
Interrupt ==
    /\ pc \in {"wait", "process"} /\ ~interrupted
    /\ interrupted' = TRUE
    /\ UNCHANGED <<daemon, pc, guests, account, restarts, homing, working>>

(* The guest, external.  What it writes takes the place of the oldest entry    *)
(* of its log.  The daemon looks at the log in Crawl and in Generate only, so   *)
(* that what is written between the two may as well be written just before     *)
(* Generate.                                                                   *)
MayWrite == pc \in {"wait", "process", "stopped"} \/ phase = "done"

\* The guest's clock may differ from the daemon's, but does not run backwards:
\* an entry is not older than one that waits to be read.
Follows(entries, e) ==
    \A i \in DOMAIN entries : entries[i].new => e.new /\ entries[i].ts <= e.ts

Written(entries, e) == Append(Tail(entries), e)

Overwritten(entries) == IF Countable(Head(entries)) THEN 1 ELSE 0

\* The change under way will not count n completions.
Loses(vm, n) ==
    lost' = [lost EXCEPT ![vm] = IF status[vm].type = "undergo_topo_change" THEN @ + n ELSE @]

\* The guest logs that a node change succeeded.
Complete(vm) ==
    /\ MayWrite
    /\ pending[vm] > 0
    /\ pending' = [pending EXCEPT ![vm] = @ - 1]
    /\ \E e \in Entry :
          /\ Follows(log[vm], e)
          /\ log' = [log EXCEPT ![vm] = Written(@, e)]
          /\ Loses(vm, (IF Countable(e) THEN 0 ELSE 1) + Overwritten(log[vm]))
    /\ UNCHANGED <<daemon, interrupted, pc, given, clean, restarts, homing, working>>

\* The guest logs something else.
Remark(vm) ==
    /\ MayWrite
    /\ log' = [log EXCEPT ![vm] = Written(@, Blank)]
    /\ Loses(vm, Overwritten(log[vm]))
    /\ UNCHANGED <<daemon, interrupted, pc, pending, given, clean, restarts, homing, working>>

\* The daemon was interrupted, or a failed assertion ended it.
Ended == pc = "stopped" \/ phase = "aborted"

\* The daemon is started again.  vnode.enabled starts as 1 and is not read from
\* the store; last_xs_ux_ts_ms starts as 0, so that every entry in the log is read
\* once more, by a status that counts none.
Restart ==
    /\ Ended
    /\ restarts < MaxRestarts /\ restarts' = restarts + 1
    /\ enabled' = [vm \in Vm |-> DOMAIN PnodeOf[vm]]
    /\ home' = [vm \in Vm |-> DefaultHome]
    /\ status' = [vm \in Vm |-> NewStatus]
    /\ events' = <<>>
    /\ interrupted' = FALSE
    /\ pc' = "wait"
    /\ order' = <<>> /\ tried' = <<>> /\ trial' = [vm \in {} |-> {}]
    /\ changed' = TRUE /\ failed' = FALSE
    /\ OutdateMaps
    /\ log' = [vm \in Vm |-> [i \in DOMAIN log[vm] |-> [log[vm][i] EXCEPT !.new = TRUE]]]
    /\ clean' = [vm \in Vm |-> AtRest(vm, log'[vm])]
    /\ lost' = [vm \in Vm |-> 0]
    /\ UNCHANGED <<pending, given, alive>>

Serve ==
    \/ Crawl \/ AssignHomes \/ StartPlan \/ PlanStep \/ Generate
    \/ ProcessEvent \/ Processed

Next == Serve \/ Interrupt \/ Restart \/ \E vm \in Vm : Complete(vm) \/ Remark(vm)

\* The daemon is one thread that never waits for more than its second of
\* sleep.  A guest completes what it was told to; its fairness is strong only
\* because Complete is held back while a plan is computed.
Spec ==
    /\ Init /\ [][Next]_vars
    /\ WF_vars(Serve)
    /\ \A vm \in Vm : SF_vars(Complete(vm))
-----------------------------------------------------------------------------
\* The type invariant.
TypeOK ==
    /\ alive = Vm
    /\ enabled \in [Vm -> SUBSET Vnode] /\ home \in [Vm -> Vnode]
    /\ status \in [Vm -> Status]
    /\ events \in Seq(Changes)
    /\ interrupted \in BOOLEAN
    /\ pc \in {"wait", "crawl", "search", "plan", "process", "stopped"}
    /\ pending \in [Vm -> Nat]
    /\ log \in [Vm -> [1 .. LogSlots -> Entry]]
    /\ given \in [Vm -> SUBSET Vnode]
    /\ clean \in [Vm -> BOOLEAN] /\ lost \in [Vm -> Nat]
    /\ restarts \in 0 .. MaxRestarts

\* Each event fits the topology as it will be when its turn comes: it takes an
\* enabled node other than the home and the last one, or gives a disabled one.
\* (vnode::shrink would drop the event silently, and the change never end.)
EventsFit ==
    \A i \in DOMAIN events :
        LET e == events[i] IN
        IF e.action = 1 THEN e.vnode \notin enabled[e.vm]
        ELSE e.vnode \in enabled[e.vm] \ {home[e.vm]}

\* A physical node is vacated before it is given to another VM.
PnodeOfEvent(e) == PnodeOf[e.vm][e.vnode]
VacatedFirst ==
    \A i, j \in DOMAIN events :
        (PnodeOfEvent(events[i]) = PnodeOfEvent(events[j]) /\ events[i].action = 1
            /\ events[j].action = -1) => j < i

Queued(vm)    == Cardinality({i \in DOMAIN events : events[i].vm = vm})
Arriving(vm)  == Cardinality({i \in DOMAIN log[vm] : Countable(log[vm][i])})
Remaining(vm) ==
    IF status[vm].type = "undergo_topo_change"
    THEN Distance(status[vm].from, status[vm].to) - status[vm].progress ELSE 0

Outstanding(vm) == pending[vm] + Queued(vm) + Arriving(vm)

\* If the guest had nothing else to do when the change began, what the status
\* still waits for is exactly what is queued, being done, logged, or lost: no
\* completion is counted twice, and none is missed but those that were
\* overwritten, skipped for their timestamp, or dated before the change.
WorkAccounted == \A vm \in Vm : clean[vm] => Outstanding(vm) + lost[vm] = Remaining(vm)

\* However often a change was restarted, it waits for more than is still to come
\* only because completions of it were lost.
ChangeCanEnd == \A vm \in Vm : Remaining(vm) <= Outstanding(vm) + lost[vm]

\* A change ends, if it is not restarted, no completion of it is lost and the
\* daemon runs on.  (There is no timeout: a change that lost one does not end.)
ChangeEnds ==
    \A vm \in Vm :
        (status[vm].type = "undergo_topo_change" /\ clean[vm])
            ~> \/ status[vm].type # "undergo_topo_change"
               \/ ~clean[vm] \/ lost[vm] > 0 \/ Ended

\* SIGINT ends the daemon, and no plan is left half processed.
StopsWhenInterrupted == interrupted ~> (Ended /\ events = <<>>)

\* "topo change ended" (topo_change_status.cpp): when a VM leaves
\* undergo_topo_change, its guest has carried out every change it was told of.
EndedMeansSettled ==
    \A vm \in Vm : status[vm].type = "cool_down" => pending[vm] + Queued(vm) = 0

\* "zero for vm that already reduced to 1 node" (sys_map.cpp): a guest that has
\* one node left, by what it was told last, is not told to give up a node.
ReducedIsLeftAlone ==
    \A i \in DOMAIN events :
        events[i].action = -1 => Cardinality(given[events[i].vm]) > 1
=============================================================================
