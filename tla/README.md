# Verification of the topology change daemon

The repository is a daemon for a Xen host. Guests see a virtual NUMA topology
in which each virtual node (*vnode*) lies on a physical node (*pnode*). Once a
second the daemon reads what the guests report, decides which VM should give up
a node and which should get one, and tells the guests. This directory holds
TLA+ models of the daemon, TLC runs that check them on small instances, and
TLAPS proofs of what matters most for every instance.

1. [The system](#1-the-system)
2. [Modules](#2-modules) and how they correspond to the code
3. [Runs](#3-runs), bounds, fairness
4. [What the code does not do as it says](#4-disagreements-found)
5. [Proofs](#5-proofs)
6. [Not modelled](#6-not-modelled)
7. [Plan](#7-plan)

## 1. The system

The daemon is one thread. `main` installs a handler for SIGINT and calls
`topo_change_d::start`: sleep a second, `generate_events`, and once there are
events `process_events`. The guests run beside it and talk to it through
xenstore: they write samples and log entries into slots that they fill in turn,
and read what the daemon wants of them. Nothing is persistent in the daemon: one
that is started again takes every node to be enabled.

| component | state | operations | talks to |
|---|---|---|---|
| `topo_change_d` | `vm_map`, `pnode_list`, `event_list`, `interrupted`, `ts` | `start`, `interrupt`, `generate_events`, `process_events`, `update_vm_map`, `shrink_vm`, `expand_vm` | everything below |
| `vm`, `vnode` | `vnode_map`, `enabled`, `reserved_vnode_id`, `ts` | `update_vnode_map`, `update_node`, `shrink`, `expand` | store, `pnode`, queues, status |
| `pnode` | `vnode_map`, `owner_vnode`, queues | `register_vnode`, `unregister_vnode`, `update_vnode_map`, `pick_owner_vnode`, `grab_bw_sample`, `scatter_bw_sample` | vnodes of all VMs |
| `sample_queue`, `util` | `sample`, static `data_map` | insert, merge, crawl, average, nearest, two binary searches | all that measure or read |
| `topo_change_engine` | table of system maps | `generate_events`, `home_node_assignment`, `generate_topo_change_events` | policy, status, maps |
| `sys_map` | vector of records, index by VM and vnode, index by pnode and VM | eleven update functions, zero fill, prune, views, sums, sorting | vms, queues |
| `topo_sys_map_generator` | none | `max_topo_change_net_gain_func` | maps, engine |
| `topo_change_status` | type, progress, cool-down | begin, one node finished, cool-down, query | engine, log |
| `vm_logger` | entries waiting, file, last timestamp | insert, crawl, flush | store, status |
| `runtime_estimator` | runtime and start per VM | `update`, `remaining_runtime_in_sec` | queues |
| `cpu` | last run time, the last samples of a vCPU | `init`, `update_usage` | hypervisor, node queues |
| migration cost and performance estimators, workload attributes | tables | | read only, or decide nothing |

The hard parts, and what makes each component correct:

- **Status objects.** A VM is told of several node changes, completes them some
  time later and logs each; the daemon polls the logs and counts. The end of a
  change is tested with `==`, the start is rounded to seconds, changes may be
  restarted while completions of the last one are still on their way, and there
  is no timeout. Correct: the count is never stepped over, and does not stop
  short of completions that the log delivers.
- **Guest logs.** The log of a guest is a ring of slots stamped by the guest's
  clock, and the daemon takes an entry only if it is later than all it took
  before (`util.cpp:117`). A completion may be overwritten before it is read, be
  skipped for its timestamp, or be dated before the change it belongs to. The
  change then waits for ever. Correct: nothing else is missed.
- **System maps.** Records sit in a vector and are named by two nested hash maps;
  erasing one moves the others, and maps are pruned while the loops walk copies
  of their lists. Correct: after any sequence of operations both indices name
  every record and nothing else, so that a map is a function from nodes to data.
- **Planning.** Three loops over one list, from both ends, on maps they change
  as they go. Correct: no VM loses its home node or its last node, none both
  loses and gets a node, those who lose have a reason, those who get are the
  hungriest, the loops end.
- **Home nodes.** A backtracking search on a shared map, repeated whenever VMs
  start or end. Correct: the homes are valid, enabled, and stay where they are.
- **Events.** Shrinks must come before expansions; an event the vnode refuses
  would strand the status. An interrupt must not leave a plan half processed. A
  daemon that is started again meets guests that still work on what the last one
  told them. Correct: what a status waits for is still to come, or was lost in
  the log.
- **Objects.** vnodes are reached by three pointers of different owners, guests
  end and reads of the store fail at any moment, and elements are erased from
  maps that are being walked. Correct: the paths agree, ended guests go.
- **Samples.** The same slots are read again in every round; queues are bounded
  (some of them) and must stay in order; samples of one guest are split among
  others by loads measured at other times. The load of a node is joined from
  samples of its vCPUs by position.
- **Runs and logs.** Two queues whose samples are taken at different moments of
  a round; entries of two clocks in one file.

`PROJECT.json` lists each hazard with its line and the properties that cover it.

## 2. Modules

```
StatusObject ──> TopoChangeStatus ──> TopoChangeStatus_proof
     │
     └────────> TopoDaemon ── INSTANCE ──> HomeNode ──> HomeNode_proof
                 │    └────── INSTANCE ──> TopoPlanner ── implements ──> PlanContract
                 │                              └──> TopoPlanner_proof
                 └──> TopoDaemon_proof (with INSTANCEs of HomeNode_proof and TopoPlanner_proof)
SysMap ── implements ──> NodeMap
   └──> SysMapReads ──> SysMap_proof
VmRegistry ──> VmRegistry_proof
SampleQueue ──> BandwidthSamples, RuntimeEstimator, VmLogger ──> SampleQueue_proof
DataLemmas ──> TopoDaemon_proof, SysMap_proof, SampleQueue_proof
```

Each `MC...` module instantiates one of them for TLC.

**StatusObject, TopoChangeStatus** (`topo_change_status.cpp`). `StatusObject`
has the members that decide something as a record and one operator per method.
`TopoChangeStatus` drives one object: `Begin` is `change_begin` called by the
engine, for a VM in any state, since the planner does not leave a changing VM
alone (phase 2); `Finished` is the crawl of a log entry with any timestamp up to
now; `Crawl` the countdown; `Advance` the clock in milliseconds, of which
`time(0)*1000` sees whole seconds. History variables record when the change
began and what counted for it.

**PlanContract, TopoPlanner** (`topo_sys_map_generator.cpp`, `sys_map.cpp`).
`TopoPlanner` has one action per iteration and exit of each loop of
`max_topo_change_net_gain_func`. A map from (VM, vnode) to 0 or 1 is a function
from VMs to the set of nodes with 1. The `unordered_map`s have no order to rely
on, so the order in which VMs, nodes and pnodes are listed is a choice; equal
scores come in the order the heap gives them. The loads are an input, one of a
few that pass different thresholds; the score is computed from them as in
`topo_changeness_sys_map_update`. A missing record is phase `"aborted"`.
Phase 3 computes a benefit and a cost and then approves in any case, so it is
the transition to `"done"`. `PlanContract` says what the rest of the daemon may
expect of any policy: nodes are taken, given and traded one at a time within
limits. `Contract` is the refinement mapping, with the present topology as the
plan before the policy starts.

**NodeMap, SysMap, SysMapReads** (`sys_map.h`). `NodeMap` is what the users of a
map rely on: a partial function from nodes to data. `SysMap` has the vector and
the two indices, an action for each operation that changes them, and one step per
record in the loops of `update`, `same_dimension_zero_fill` and `prune`, since the
indices are rewritten between the steps. `del_entry_vm_view` erases a record and
walks the rest to rewrite its places (`Reindexed`); which nodes `update` finds
data for, the mask and what is written are choices. `negate`, `add` and `mul` are
`Apply`, bounded to data of the small set. `SysMapReads` has the lists and sums
that the planner reads, where -1 stands for no record. The models of the planner
and the home nodes use maps as plain functions; that they may is what
`ImplementsMap` shows.

**HomeNode** (`topo_change_engine.cpp:281-356`). `Keep`, `StartSearch`, and the
recursion of `home_node_assignment_helper` with one entry of `tried` per call on
the stack: `TryNode` descends, `GiveUp` returns false, `Fail` and `Found` end
it. VMs arrive and leave between plans, and a plan changes the topology within
what `PlanContract` allows. (`Leave` is a wider environment than today's code:
see disagreement 3 below, a daemon whose guests end aborts.)

**TopoDaemon** composes `HomeNode`, `TopoPlanner` (both by `INSTANCE`, with
`enabled` for the topology) and `StatusObject` with the event queue, the
interrupt and the guests. A round is `Crawl` (count down, read the logs),
`AssignHomes` (steps of `HomeNode`), `StartPlan`, `PlanStep` (steps of
`TopoPlanner`), `Generate` (status objects begin, events are queued, maps
outdated), then one `ProcessEvent` per event, or a new round. `Generate`
inserts the events one after another as `generate_topo_change_events` does, a
shrink in front and an expansion at the back (`Inserted`), with the maps walked VM
by VM in any order (`VmByVm`).

`Complete` is a guest that carries out one node change and logs it, `Remark` a
guest that logs something else. `log` has the `LogSlots` slots of the guest's ring,
the oldest first; what is written takes the place of the oldest. The clocks
are abstract here (`VmLogger` has them explicitly, with the same filter). A
timestamp is compared with two times only: with the start of the change, so that
an entry is `Old` or `Recent`, and with the newest timestamp read so far, so that it
is `new` or not. `Complete` picks both, as the guest's clock may be ahead or behind;
it does not run backwards (`Follows`). `ReadLog` passes the entries that are `new` to
the status, and none is `new` afterwards (`Seen`). When a change begins, entries of
before become `Old`, but for a suffix of them, because the start is rounded down
and the guest's clock may be ahead (`Aged`). `lost` counts the completions that the
change under way will never count: overwritten before they were read, not later
than an entry that was read, or dated before the start. The slots are read in one
step, and in what order is of no account, since completions are only counted.

`Restart` starts the daemon again after an
interrupt or a failed assertion: the guests keep their pending changes and logs,
the daemon knows nothing of them and takes every node to be enabled; it has read
nothing yet, so that all entries of the logs are `new` to it; `given`
records what the guests were told last. The set of VMs is fixed here.

**VmRegistry** (`update_vm_map`, `vm::update_vnode_map`, `vm::~vm`, `pnode`). An
object is `<<vm, vnode, number>>`, so that a pointer to a deleted object can be
told from one to its successor. A round lists the guests, updates each VM
(objects made, registered, deleted without being unregistered), deletes the
obsolete, lets each pnode drop entries and pick its owner, and then fills the
maps of the planner, with the assertion that may end the daemon. Erasing from a
map that is being walked is undefined: `LeftBehind`, `DeleteVm` and
`UpdatePnode` allow that elements are skipped, the loop ends early, or the
daemon is killed; reading a deleted object gives any value. `races`, chosen at
the start, lets guests end, listings fail and `stoi` throw in the middle of a
round; `PathsAgree` is stated without them, the other properties with them.

**SampleQueue** has the queue as a sequence and the operators on it: the loop
the searches share, `return_insert_index`, `floor_idx_of_sampleq`,
`insert_sample`, merging and crawling with eviction, the nearest sample, and the
places that the averages add up. Places count from 1. The recursion is by
recursive functions, so that proofs about the modules stay possible. The clock
`now` that the samples are stamped with is declared here. The names of
`RuntimeEstimator` and `VmLogger` that each such module has (`Init`, `Next`, a
tick of the clock, the type invariant) begin with `Est` and `Log`, so that one
module of proofs can speak of all queues.

**BandwidthSamples** (`pnode::grab_bw_sample`, `scatter_bw_sample`). One pnode,
one channel and direction: the owner fills slots, every round reads all of them
again, merges them into the queue of the pnode and splits each by the nearest
cpu loads. Each vCPU has a deque of its own, which `get_cpu_usage_sample` joins by
position (`Merged`) and merges into the queue of the node in every round again; a
reading that failed becomes a negative load, as it does in `cpu.cpp`. Loads are
whole numbers whose mean is one; the share is rounded down as the cast does.
`SharesFit` speaks of the guests that a sample was split among at first: one that
comes later is given a part of old samples on top.

**RuntimeEstimator** (`runtime_estimator.cpp`, the two samplers of
`sample_queue.cpp`). A round notes idleness, then active nodes, then updates the
estimator, and seconds may pass between any two of them; the daemon sleeps at
least one second between rounds. The estimate is kept as the list of the runs
measured instead of their decaying average (`Average`). A cpu has no load in
the round it is found, so a VM is seen idle first.

**VmLogger** (`vm_logger.cpp`, `get_new_log_entries`). The guest's clock is off
by up to `Skew` but does not run backwards; the daemon's own entries carry its
own time. An entry is its timestamp and its number.

## 3. Runs

| run | instance and bounds | states | what it shows |
|---|---|---|---|
| `status` | cool-down of 3 crawls, up to 4 nodes, a second of 3 ms, clock to 8 | 20 589 | counting of completions and crawls under every order of calls |
| `planner` | 3 guests, 4 pnodes, two guests without a node on one of them, scores about -200 to 150, one changing VM at most | 434 430 | safety of plans up to the assertion that may end one, the hungriest first, nothing kept back, `PlanContract`, termination |
| `homes` | 4 guests, 3 pnodes, three of the guests not present everywhere | 147 243 | the search and the homes over arrivals, ends and plans |
| `daemon` | 2 guests with 3 and 2 nodes on 3 pnodes, numbered differently, logs of 2 slots, one restart of the daemon | 358 750 | events, statuses, homes and plans together, over a restart; completions are lost in the logs and nowhere else; changes and the daemon end |
| `registry` | 2 guests with 2 nodes, with and without failures during rounds | 61 985 | the paths to the objects agree, the assertion of `unregister_vnode` holds, nothing is left |
| `bandwidth` | 2 guests of two and one vCPUs, 4 seconds, queues of 2, stores of 3 | 130 067 | order, eviction, the load of a node, shares, searches |
| `runtime` | 7 seconds, 2 nodes | 656 042 | every run measured once and right |
| `logger` | 4 entries, 2 slots, skew 2, window 1, 6 seconds | 275 797 | order of the file, nothing twice or lost |
| `sysmap` | 2 guests with 2 nodes, numbered differently, 3 data | 356 409 | the indices stay exact, pruning, sums, `NodeMap` |

Type invariants are kept in the runs `status`, `planner` and `bandwidth`. Those of
`HomeNode`, `TopoDaemon`, `VmRegistry`, `SysMap`, `RuntimeEstimator` and
`VmLogger` are stated in the modules. All of them are proved (section 5).

Why the bounds are enough. *Planner*: three VMs are what it takes for one VM to
be met by shrinking, expansion and trade with others on both sides, and the
fourth pnode is free, shared or contended for; the loads give negative, zero,
positive and preempting scores. Each home is on a pnode of its own, that with
the number of the VM, and one VM at most is changing: both only thin out the
initial states, and the proofs do without them. *Homes*: with four guests on
three pnodes homes must sometimes be shared, with fewer they must not. *Daemon*:
two pnodes are contended for and one is not. `MaxPending` and `MaxBehind` delay the
next round of a daemon with more than one guest behind, or one by more than one
node (with two guests behind the run passes as well, in three times the time);
the cool-down is one crawl. Changes that are restarted with completions
outstanding occur, and so do restarts of the daemon in the middle of a change. With
two slots a completion can be overwritten, one can be taken and the other
skipped, and the two can lie on either side of the start of a change. The
clock of `TopoDaemon` is abstract, that of `TopoChangeStatus` explicit.
*Registry*: ids of guests are not used again, `MaxBirths` of 2 lets an object
have a successor. *Bandwidth*: the store has more slots than the queue has room,
so that samples that were evicted are read again. A vCPU that cannot be read is one of
two, so that the load of its node is negative or zero. *System maps*: up to three
places behind the one that is erased, and a VM with nodes on both pnodes. The
queues of `RuntimeEstimator` and `VmLogger` are not trimmed by the code
(`MaxSize` is 2000 there and plays no part). *Runtime*: two runs fit. *Logger*:
the daemon is started with the clock past the window.

`CHECK_DEADLOCK FALSE` is given where the system stops: a plan that is computed,
an interrupted or aborted daemon, a clock at its bound. `status`, `homes` and
`sysmap` are checked for deadlock.

Fairness. `WF_vars(Next)` of `TopoPlanner`, `WF_vars(Search)` of `HomeNode`,
`WF_vars(Serve)` of `TopoDaemon` and `WF_vars(Round)` of `VmRegistry` say that a
single thread of plain code goes on; it waits for nothing but its sleep. `SF` of
`Complete` says that a guest does what it was told; it is strong only because
the model holds completions back while a plan is computed (they are not read
before the next crawl). No fairness is assumed of the interrupt, of restarts or
of guests that come and go. `ChangeEnds` therefore speaks of changes that are
not restarted, of a guest that had nothing else to do, of completions that are not
lost, and of a daemon that runs on: each of these can keep the code's change from
ending, and nothing times out.

Mutants. Each property has a mutant of a definition it depends on (`PROJECT.json`):
an operator next to the definition, marked as such, with a plausible slip. None
of the specifications uses them.

Properties worth reading first: `EventsFit` (home assignment, planner and vnode
agree, so that no event is refused), `WorkAccounted` and `ChangeCanEnd` (the
status, the queue, the guest, the log and what was lost in it add up), `HomesStable`, `PathsAgree`,
`KeepsNewest`, `NodeLoadExact`, `RunsMeasured`, `IndexExact`.

## 4. Disagreements found

Each of these is a run that must find its property violated.

1. `planner_missing`: phase 1 gives a free pnode to a VM without asking whether it
   has a node there (`topo_sys_map_generator.cpp:77`): `pnode_to_vnode` finds none,
   and the assertion in `vm_view` (`sys_map.h:520`) ends the daemon
   (`ExpandAbort`). The property is violated before the free node is handed out.
2. `planner_trade`: `topo_sys_map_generator.cpp:90` lowers the rank of the wrong
   VM; a VM that gives up two nodes gives up the same one twice, and one VM too
   many gets a node. (That plans stay safe nevertheless is proved, section 5.)
   The same line names the receiver's record by the giver's number of the node,
   and ends the daemon where the receiver has no node of that number
   (`TradeAbort`).
3. `registry_abort`: queues leave empty entries in `data_map`; the first round
   after a guest with nodes ended fails `assert(pnode_id >= 0)`. This hides that
   `vm::update_vnode_map` deletes nodes without unregistering them: without the
   abort `UnregisterAgrees` is violated too.

Five more properties are stated next to the others, do not hold either, and are
not kept as runs. Each is violated when it is added to the configuration named.

4. `EndedMeansSettled` (`MCTopoDaemon.cfg`): phase 2 restarts changes that are
   under way, and completions of the first change end the second
   (`topo_sys_map_generator.cpp:85`, `topo_change_status.cpp:28`).
5. `ReducedIsLeftAlone` (`MCTopoDaemon.cfg`): "zero for vm that already reduced to
   1 node" (`sys_map.cpp:241`) is not so after a restart: `vnode.h:43` starts with
   `enabled(1)` and nothing reads what the guest was told before, so that a guest
   left with one node may be told to give one up.
6. `OwnerEnabled` (a `PROPERTY`, `MCVmRegistry.cfg`): unregistering a node
   leaves `owner_vnode` of its pnode pointing at the deleted object
   (`pnode.cpp:24`).
7. `EvictsOldest` (`MCBandwidthSamples.cfg`): the queues that
   `scatter_bw_sample` fills are never trimmed, as `node.h:23` says they are.
8. `IdleHasWholeRun` (`MCRuntimeEstimator.cfg`): -1, the mark of an idle VM
   (`runtime_estimator.h:16`), is used as a start time.

A completion that is lost in the log (skipped at `util.cpp:117`, overwritten, or dated
before the start) leaves its VM in `undergo_topo_change` for good: nothing times
out, and only a later plan that restarts the change can end it. No line of the
repository promises otherwise, so that this is no run; `ChangeEnds` states it as
its exception, and without `lost[vm] > 0` there it is violated.

Met while reading, and outside of what the models decide: `pnode.cpp:128` names the
grabber of read samples in the branch for written ones, so that these are never
grabbed (line 120 means to), and its index may be out of range where the grabber
of a later channel is made (`pnode.cpp:126`);
`migration_cost_estimator.cpp:63` assigns the greatest similarity to the present
one instead of the reverse, so that no stored cost is ever used;
`workload_feature.cpp:48` compares a cpu load with a bandwidth;
`topo_change_status.cpp:42` narrows a time to `int`.

## 5. Proofs

`TopoChangeStatus_proof`, for every window, number of nodes and length of a
second: the type invariant, `ProgressBelowGoal`, `CoolDownCounts`,
`OnlyRecentCounts` and `EndsComplete`. `OnlyRecentCounts` is not inductive on its
own: a counted completion is compared with the start that the code rounded down
to a second, so `IInv` adds that this start is less than one second before the
clock value at which the change began. From `CoolDownAssumption`,
`NodesAssumption` and `TimeAssumption` only.

`TopoPlanner_proof`, for every set of guests and nodes, every placement with at
most one node of a VM on a pnode, all loads, any set of changing VMs and any
homes: `TypeOK`, `KeepsANode`, `HomeKept`, `NoChurn`, `LoserJustified`, and
`ImplementsContract`. The assumptions are `VmAssumption`, `NodeAssumption`,
`LoadsAssumption` and `PnodeOfAssumption`.

The argument. `IInv` adds to the properties what the loops rely on:

- `Distinct`: a VM is in the list once. Hence a VM that phase 2 meets at `hi`
  was not met there before.
- `Separated`: for every VM from position `hi` down, nothing has been added, and
  the ranks tell its home node from the other nodes it still has. This is why the
  misplaced write in phase 2 does no harm to the homes: the rank it lowers belongs
  to the VM at `hi`, which is left behind in the same iteration, while `lo`
  stays below `hi`.
- `Below`: what shrinking has not reached is untouched, a negative score
  belongs to a VM with more than one node, and VMs that do not want to shrink
  are untouched until phase 2 reaches them at `lo`.
- `PlanSafe`: what the plan may be at any time; `LegalInputs`: what it starts from.

`PickedNode` then says that the node with the greatest rank is neither the home
node nor the last one, `ShrinkOneInv`, `ExpandOneInv` and `TradeOneInv` are the
three steps that change the plan, and `MovesInv` all others. For the refinement,
shrinking is `Take`, expansion `Give` or a stutter (the node may be there
already), a trade `Trade`, `Take`, `Give` or a stutter, and the transitions to
`"done"` and `"aborted"` are `Settle`.

From the same assumptions it proves `PriorityOrder` and `WorkConserving`. Both follow from `PassedServed`: a VM that `hi` has passed is
changing, has grown, or shared a pnode before (it may be "given" the node it
has). This needs that a pnode which is handed out was free or was given up by
another VM that had a node there (`Origin`), which in turn needs that only
enabled nodes have a rank of 0 or more (`RankedEnabled`).

`SysMap_proof`, for all sets of guests, nodes and data: `TypeOK`, `IndexExact`,
`PruneExact` and `ImplementsMap`, from `SysMapDataAssumption` and
`SysMapNodesAssumption` (no two nodes of a VM on one pnode: they would share a
place in `pnode_map`). `IInv` adds to the first two that `update` has a place for
none of the nodes it still goes to (`UpdateFresh`, so that `push_back` meets a
new key), and what a map holds in the middle of `prune` (`PruneSofar`).
The proof of `SumsAgree` turns the sum over one index into the sum over the other:
both run over the records of one VM or pnode, and the places in the indices are
those of the records (`TotalMapped` of `DataLemmas`, for a sum whose elements are
renamed one to one). It assumes that no sum is -1, the code's mark for a missing
record (`NoSumIsMinusOne`); data that are never negative satisfy it, and so do
those of the run. `AppendIndexed` and `ErasedIndexed` are about one index and the keys of the
records, whichever the key is, and are used for both. For the refinement each
`push_back` is `Put`, a deletion `Remove`, a write `Change`, and `update` begins
with `Clear`.

`HomeNode_proof`, for every set of guests and every placement: `TypeOK`,
`SearchValid`, `HomeEnabled` and `HomesStable`, from `HomeVmAssumption` and
`HomeNodesAssumption`. That the map of the search is valid is not inductive:
taking back a choice may leave a pnode without a home while another has two.
`Path` therefore says that the map was valid on every level of the recursion
(`Chosen` is the map of a level), and that beyond the present one nothing is
chosen. `Settled` says that homes stay valid from plan to plan until a VM starts
or ends, which is where `PlanContract`'s promise about homes is used.

From the same assumptions it proves `FailedMeansNone`, that the search gives up only where no assignment exists, as long as there are at least
as many pnodes as VMs. `TriedInVain` says of each call on the stack that a node
it has tried is the one its VM stands on or is in no assignment that agrees with
the choices of the calls above it; `Unshared` is the counting: a pnode is shared
only if none is left, and then there are fewer of them than VMs.

`TopoDaemon_proof`, for every set of guests, placement and load, over any number
of interrupts and restarts: `EventsFit`, `VacatedFirst`, and that every VM keeps
a node (`NodesRemain`), from `GuestsAssumption` and `PlacementAssumption` (those of
`HomeNode` and `TopoPlanner`, which `HomeAssumptions` and `PlannerAssumptions` derive),
with `SlotsAssumption` for the type of the logs.
That `VacatedFirst` holds of a queue that is built by putting events in front and
at the back is an induction over the events that are met: `InsertedOne` is one
insertion, which adds one event and leaves the shrinks before the expansions,
`QueueBuilt` all of them, and `Generated` what `Generate` leaves, whatever order
the maps are walked in.
The proof composes those of the parts, and closes a circle among them: the planner
keeps homes only if it is called with homes that are enabled (`LegalInputs`), the
homes stay enabled only if plans keep them, and in between, events are processed
one at a time. `IInv` therefore says what holds between the events of a plan: they
are queued once and in order, each fits, and the nodes a VM will have when all
are processed (`Planned`) are never none. `HomeEnter`, `HomeLeave` and
`PlannerEnter` lead from this invariant to those of `HomeNode_proof` and
`TopoPlanner_proof` and back, so that their step lemmas are used and not
repeated; only `Generate` and `ProcessEvent` are argued anew.

`VmRegistry_proof`, for all guests, nodes and pnodes: `TypeOK`, `UnregisterAgrees`
and `PathsAgree`, from `RegistryAssumption` and `PlacementAssumption`. The two
paths to the objects do disagree within a round, because nodes are deleted without
being unregistered. `Agreement` says that they do so only for a VM one of whose
queues has lost its node (not `Whole`), and `WholeBefore` that no such VM enters a
round or waits for its turn in one: the assertion that fills the maps has ended
the daemon before. Without failures during a round (`Quiet`) all paths agree, and
the VMs of the round are registered with all they have.

`WorkAccounted` and `ChangeCanEnd`, in the same module, are about how far a guest is
behind. `AInv` says of every VM that what its status still waits for is counted
from four places: events in the queue, changes that the guest has not done,
entries of its log that will count when they are read, and completions that were
`lost` (`Balanced`, for a change that began with the guest at rest; otherwise there
are at least so many). `ReadLogSteps` and `ReadLogLeft` say what a crawl makes of a
log of any number of slots, `EventsCounted` that a plan queues as many events for a
VM as its status waits for, and `WrittenCount` and `WrittenAccount` that an entry
that is written into the ring adds one completion to be counted, or loses one, and
loses in addition what it overwrites. The theorems therefore say that nothing but
the log loses a completion. That the log does not lose one is not claimed.

`TopoDaemon`'s `TypeOK` comes last (`TypeCorrect`), because it depends on the account:
that the cool-down and the numbers of nodes of a status stay in their ranges
(`Bounded`) holds only of statuses that make sense, and those are what the account
keeps. It needs one more assumption, `SizeAssumption`: no VM is given more nodes
than `MaxNodes`, the number a status is told of.

`DataLemmas` has what these proofs need to know of recursion, folds and counting.
The induction theorems of the library take an operator as a parameter, which the
installed provers cannot instantiate. They are stated here for sets instead: the
numbers (the subsets of a finite set) for which a claim holds are a set, and it has
all of them if it has the first and with each the next (`Induction`,
`SetInduction`). `Iteration` and `Recursion` say that a recursive function is
defined, the latter for any measure that gets smaller; `TotalSums` that
`SumFunction` of the community modules is one, and `SumsByAny` that it may take the
elements in any order.

`SampleQueue_proof` is about queues of any length and any times.

- *Searches.* `HalveEnds` says where the halving loop ends in an ascending queue,
  by induction over the length of the part that is left. From it follow the
  place where a sample is put (`PlaceInOrder`, `PlaceInAll`), that of
  `floor_idx_of_sampleq` (`FloorIsLast`), and what a crawl makes of one sample
  (`TakenExactly`) and of many (`Top`: the newest samples of a set, as many as there
  is room for; `TopOfTop`: what was dropped once would be dropped again, which is
  why reading the same slots in every round does no harm).
- *`BandwidthSamples`*, for all guests, vCPUs, slots and sizes: `TypeOK`,
  `SearchesExact`, `KeepsNewest`, `SharesFit` and `NodeLoadExact`, from
  `SampleQueueAssumption`, `BandwidthAssumption` and `LoadsAssumption`. `QueuesOK` keeps
  the queues in order. `KeepsNewest` needs in addition that the slots of a guest
  hold samples of different times (`SlotsDiffer`). For the shares, `SplitOK` says
  that the queues of the guests hold parts of samples that were split, one for each
  guest it was split among; the parts fit because each is rounded down
  (`SplitsFit`). For the loads, `LoadsOK` says that the queues of the vCPUs of a
  node have samples of the same times, so that joining them by position is joining
  them by time, and that the queue of the node knows all of these: it has them, or
  has evicted them, and takes none twice.
- *`VmLogger`*, for any window, skew of the clocks, slots and entries: `LogTypeOK`,
  `FileSorted` and `WrittenOnce`, from `SampleQueueAssumption` and `LoggerAssumption`.
  `LogInv` takes the file and what waits behind it as one log (`LogOrdered`). A flush
  leaves it as it is, and an entry that is put into the part that waits is in order with
  the file too, because the file ends before the window. `Numbered` and `ReadOnce` say
  that an entry in a slot that was read is not newer than `last`.
- *`RuntimeEstimator`*, for any number of nodes and any history: `EstTypeOK`,
  `RunsCovered` and `RunsMeasured`, from `SampleQueueAssumption` and
  `RuntimeAssumption`. `EstInv` says that the samples of idleness alternate, so that
  runs are at the even places (`Alternates`), that nodes are noted before the first
  run and each at most once in a second (`InRound`), and that the estimator knows
  all samples but the one of this round (`Informed`). `AreaNext` compares the code's sum
  over samples for two ends that are one second apart; by induction it is the
  sum over the seconds (`AreaIsSum`), and that of a run that is over does not change
  when more is noted (`ValueStays`).

The bounds of the runs (`MaxTime`, `MaxEntries`, `MaxPending` and so on) are
constants in the theorems, of any value that the assumptions allow.

Only model-checked: liveness (`Terminates` of the planner, `SearchEnds`,
`ChangeEnds`, `StopsWhenInterrupted`, `Forgotten`), because fairness is out of the
prover's reach. The counterexamples of section 4 are of course TLC's alone.

## 6. Not modelled

- Reading and writing xenstore, libxl, printing, file formats: pure I/O. What
  the guest sees of an event is that it has one more change to do.
- `workload_attr`, the run times of vCPUs: their values are inputs.
- `migration_cost_estimator`, `workload_feature`, `performance_estimator`, the
  benefit and cost of phase 3: computed and printed, but the comparison is
  commented out, and the stored costs are not asked for at all.
- `rules/`, `topo_change_heuristics.h`, `topo_change_record.h`, the older policies
  in `topo_change_engine.cpp`: not called.
- Of `sys_map`: the averages, the extrema over pnodes, `NODE_SIZE`, printing; no
  plan uses them. `vm_sum` asserts that a guest has an entry for
  `NUM_OF_THREAD_SQ` (`sys_map.cpp:212`); every guest of the models has.
- The slots of a guest's log one by one: a crawl reads all of them in one step, and
  every read succeeds. In the code a guest may write between two reads, or
  between a value and its timestamp (`util.cpp:100-101`).
- Memory targets, vCPU switching: what is written to the store for the guest is
  part of the one change it is told of.
- The end of the daemon (destructors).
- Two rounds in the same second, which a signal during the sleep can bring
  about, in `RuntimeEstimator`.
- vCPUs that are added to a node while it is sampled: the assertion at
  `sample_queue.cpp:43` fails then. Nodes without a vCPU (`vnode.cpp:61`).
- Two nodes of a VM on one pnode: `pnode_map` (`sys_map.h:184`) and
  `pnode::vnode_map` have one place for both.
- Guests that come and go in `TopoDaemon`: `VmRegistry` and `HomeNode` have them
  apart, and a daemon whose guest with nodes ended does not reach a plan again.

## 7. Plan

In this order, by importance: status objects and planner (they decide), home
nodes, the composed daemon with its restarts, the objects, the system maps, the
queues and what reads them. This is modelled and checked. The abstract
specifications are `PlanContract` and `NodeMap`. Left:

- Models: guests that start in `TopoDaemon` (the set of VMs of `TopoPlanner` is a
  constant so far), and three guests in it; the aggregate average; the migration
  cost table; two rounds in one second.
- An abstract specification of the queue (the newest samples of a set) that
  `BandwidthSamples` implements, and of the daemon as seen by a guest.
- Theorems: the averages that are read from queues.
