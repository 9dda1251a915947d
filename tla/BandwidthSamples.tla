-------------------------- MODULE BandwidthSamples --------------------------
(***************************************************************************)
(* The samples of one physical node's memory bandwidth (one channel, one   *)
(* direction).  The guest that owns the node measures it and keeps the     *)
(* last samples in the store, in slots it fills in turn.  Once per round   *)
(* the daemon takes one sample of every guest's cpu load, reads all slots  *)
(* again (grab_bw_sample), merges them into the queue of the node, and     *)
(* splits each sample among the guests of the node by the cpu load that is *)
(* nearest in time (scatter_bw_sample).  The cpu load of a node is the     *)
(* mean over its vCPUs, each of which keeps its own last loads.            *)
(*                                                                         *)
(* The direction is reading: the grabbers of written samples never get the *)
(* name they are filled by (pnode.cpp:128 names the other grabber).        *)
(***************************************************************************)
EXTENDS SampleQueue, FiniteSetsExt

CONSTANTS
    Vm,       \* the guests with a node here
    RingSize, \* external: slots in the store of a guest
    Loads,    \* Loads[vm][c]: the loads that vCPU c of vm's node shows
    LocalSize, \* MAX_LOCAL_CPU_SP_SIZE
    Values    \* the bandwidths that occur

ASSUME BandwidthAssumption ==
    /\ Vm \subseteq Nat \ {0} /\ IsFiniteSet(Vm)
    /\ RingSize \in Nat \ {0} /\ Values \subseteq Nat /\ LocalSize \in Nat \ {0}

\* Bound: the mean of the loads is a whole number.
ASSUME LoadsAssumption ==
    \A vm \in Vm : /\ Loads[vm] \in Seq(SUBSET Int) /\ Loads[vm] # <<>>
                   /\ \A c \in DOMAIN Loads[vm] : \A l \in Loads[vm][c] :
                         l % Len(Loads[vm]) = 0

NoOwner == 0 \* NULL

VARIABLES
    sampled, \* the time of the last round
    arrived, \* the guests registered at the node
    owner,   \* owner_vnode
    ring,    \* external: ring[vm]: the slots in the store
    local,   \* local[vm][c]: samples of vCPU c
    cpu,     \* cpu[vm]: cpu_usage_sq
    node,    \* bw_rd_channel_sample of the physical node
    share,   \* share[vm]: bw_rd_channel_sample of the guest's node
    split    \* history: the samples split, with the guests that had a part then

vars == <<now, sampled, arrived, owner, ring, local, cpu, node, share, split>>

Init ==
    /\ now = 1 /\ sampled = 0
    /\ arrived = {} /\ owner = NoOwner
    /\ ring = [vm \in Vm |-> <<>>] /\ cpu = [vm \in Vm |-> <<>>]
    /\ local = [vm \in Vm |-> [c \in DOMAIN Loads[vm] |-> <<>>]]
    /\ node = <<>> /\ share = [vm \in Vm |-> <<>>]
    /\ split = {}

Tick ==
    /\ now < MaxTime /\ now' = now + 1
    /\ UNCHANGED <<sampled, arrived, owner, ring, local, cpu, node, share, split>>

\* register_vnode, in the round to come
Arrive(vm) ==
    /\ sampled < now /\ vm \notin arrived /\ arrived' = arrived \cup {vm}
    /\ UNCHANGED <<now, sampled, owner, ring, local, cpu, node, share, split>>

\* External: the owner fills its next slot, which holds its oldest sample.
Measure(val) ==
    /\ owner # NoOwner
    /\ LET slots == ring[owner]
           times == {slots[i].ts : i \in 1 .. Len(slots)}
       IN  /\ now \notin times
           /\ ring' = [ring EXCEPT ![owner] =
                  IF Len(slots) < RingSize THEN Append(slots, Sample(now, val))
                  ELSE [i \in 1 .. RingSize |->
                           IF slots[i].ts = Min(times) THEN Sample(now, val) ELSE slots[i]]]
    /\ UNCHANGED <<now, sampled, arrived, owner, local, cpu, node, share, split>>

(* get_cpu_usage_sample *)

\* Mutant: a reading that failed leaves no sample (as cpu.cpp:31 means to do).
PushedUnlessFailed(q, s) ==
    IF s.val < 0 THEN q ELSE LET long == Append(q, s)
                             IN  IF Len(long) > LocalSize THEN Tail(long) ELSE long

\* cpu::update_usage.  The test for a failed reading comes after a division that
\* makes 0 of -1, so that a failure shows as a negative load.
Pushed(q, s) ==
    LET long == Append(q, s) IN IF Len(long) > LocalSize THEN Tail(long) ELSE long

\* A vCPU that is new has no load yet, whatever the load is.
Watched(vm, load) ==
    [c \in DOMAIN Loads[vm] |->
        Pushed(local[vm][c], Sample(now, IF local[vm][c] = <<>> THEN 0 ELSE load[c]))]

\* The samples of the vCPUs are joined by their place in the deques.
Merged(deques) ==
    LET Longest == Max({Len(deques[c]) : c \in DOMAIN deques})
        Holders(i) == {c \in DOMAIN deques : i <= Len(deques[c])}
    IN  [i \in 1 .. Longest |->
            Sample(deques[Min(Holders(i))][i].ts,
                   SumFunction([c \in Holders(i) |-> deques[c][i].val]) \div Len(deques))]

\* The assertion of get_cpu_usage_sample.
Aligned(deques) ==
    \A c, d \in DOMAIN deques :
        \A i \in DOMAIN deques[c] \cap DOMAIN deques[d] : deques[c][i].ts = deques[d][i].ts

(* scatter_bw_sample *)

\* A guest whose nearest load is negative has no part in a sample.
Counted(loads, d) == {w \in arrived : Nearest(loads[w], d.ts).ts >= 0
                                   /\ Nearest(loads[w], d.ts).val >= 0}

\* Mutant: the loads that are added up are the last ones.
SplitOfLast(loads, d, vm) ==
    LET all == SumFunction([w \in Counted(loads, d) |-> LastOf(loads[w]).val])
    IN  IF all = 0 THEN 0 ELSE (d.val * Nearest(loads[vm], d.ts).val) \div all

\* The part of sample d of guest vm, of all guests at the node.
SplitOf(loads, d, vm) ==
    LET all == SumFunction([w \in Counted(loads, d) |-> Nearest(loads[w], d.ts).val])
    IN  IF all = 0 THEN 0 ELSE (d.val * Nearest(loads[vm], d.ts).val) \div all

Scattered(loads, grabbed) ==
    [vm \in Vm |->
        LET Upto[i \in 0 .. Len(grabbed)] ==
                IF i = 0 THEN share[vm]
                ELSE IF vm \notin Counted(loads, grabbed[i]) THEN Upto[i - 1]
                ELSE Inserted(Upto[i - 1],
                              Sample(grabbed[i].ts, SplitOf(loads, grabbed[i], vm)))
        IN  Upto[Len(grabbed)]]

\* update_node of every guest's node, then update_vnode_map of the pnode: owner
\* o may be new, as the nodes' enabled and the guests change between rounds.
Round(load, o) ==
    /\ sampled < now /\ sampled' = now
    /\ owner' = o
    /\ local' = [vm \in Vm |-> IF vm \in arrived THEN Watched(vm, load[vm]) ELSE local[vm]]
    /\ cpu' = [vm \in Vm |->
                  IF vm \in arrived THEN TakenAll(cpu[vm], Merged(local'[vm])) ELSE cpu[vm]]
    /\ LET grabbed == IF o = NoOwner THEN <<>> ELSE TakenAll(<<>>, ring[o])
       IN  /\ node' = TakenAll(node, grabbed)
           /\ share' = Scattered(cpu', grabbed)
           /\ split' = split \cup {[ts |-> d.ts, val |-> d.val, vms |-> Counted(cpu', d)] :
                                      d \in {s \in Samples(grabbed) : \A e \in split : e.ts # s.ts}}
    /\ UNCHANGED <<now, arrived, ring>>

\* What the vCPUs of the guests may show.
LoadsOf(vm) == {f \in [DOMAIN Loads[vm] -> UNION {Loads[vm][c] : c \in DOMAIN Loads[vm]}] :
                   \A c \in DOMAIN f : f[c] \in Loads[vm][c]}
LoadsNow == {f \in [arrived -> UNION {LoadsOf(vm) : vm \in Vm}] :
                \A vm \in arrived : f[vm] \in LoadsOf(vm)}

Next ==
    \/ Tick
    \/ \E vm \in Vm : Arrive(vm)
    \/ \E val \in Values : Measure(val)
    \/ \E load \in LoadsNow, o \in arrived \cup {NoOwner} : Round(load, o)

Spec == Init /\ [][Next]_vars
-----------------------------------------------------------------------------
Queues == {node} \cup {cpu[vm] : vm \in Vm} \cup {share[vm] : vm \in Vm}
Times == 0 .. MaxTime + 1

\* The type invariant: no queue that is trimmed outgrows max_sample_size, and
\* every queue is "sorted in chronological order" (util.h, node.h).
TypeOK ==
    /\ now \in 1 .. MaxTime /\ sampled \in 0 .. now
    /\ arrived \subseteq Vm /\ owner \in arrived \cup {NoOwner}
    /\ \A q \in Queues :
          /\ Chronological(q)
          /\ Samples(q) \subseteq [ts : 1 .. MaxTime, val : Int]
    /\ Len(node) <= MaxSize /\ \A vm \in Vm : Len(cpu[vm]) <= MaxSize

Newest(S) == {s \in S : Cardinality({r \in S : r.ts > s.ts}) < MaxSize}

\* A round leaves in the queue of the node the newest samples of those it had
\* and those in the store, in whatever slots they are, and changes none: reading
\* the same slots again and again neither brings back what was evicted nor
\* evicts what is newer.
KeepsNewest ==
    [][owner' # NoOwner /\ sampled' # sampled =>
          LET known == {s.ts : s \in Samples(node)}
              fresh == {s \in Samples(ring[owner']) : s.ts \notin known}
          IN  Samples(node') = Newest(Samples(node) \cup fresh)]_vars

\* The loads of the vCPUs can be joined by place, and a round adds to the load of
\* a node the mean of what its vCPUs show now and nothing else, although it joins
\* and merges all that the vCPUs remember again.
NodeLoadExact ==
    [][sampled' # sampled =>
          \A vm \in arrived :
              LET n    == Len(Loads[vm])
                  mean == SumFunction([c \in 1 .. n |-> LastOf(local'[vm][c]).val]) \div n
              IN  /\ Aligned(local'[vm])
                  /\ Samples(cpu'[vm]) = Newest(Samples(cpu[vm]) \cup {Sample(now, mean)})]_vars

PartsAt(vm, ts) == {s.val : s \in {r \in Samples(share[vm]) : r.ts = ts}}

\* The guests that a sample was first split among never hold more of it than
\* was measured, although every round splits it again, with other loads near
\* it, and other owners measure at the same time.  (A guest that came later, or
\* whose load could not be read then, may be given a part on top of that.)
SharesFit ==
    \A e \in split :
        SumFunction([vm \in e.vms |-> SumFunction([x \in PartsAt(vm, e.ts) |-> x])]) <= e.val

Away(a, b) == IF a > b THEN a - b ELSE b - a

\* get_nearst_data_point: the load that splits a sample is the nearest in time.
NearestIsNearest(q, ts) ==
    /\ Nearest(q, ts) \in Samples(q)
    /\ \A s \in Samples(q) : Away(Nearest(q, ts).ts, ts) <= Away(s.ts, ts)

\* average_value_since_ts, which the planner's maps of loads come from, takes
\* all samples that are not older, and no other.
SinceExact(q, ts) == SincePlaces(q, ts) = {i \in 1 .. Len(q) : q[i].ts >= ts}

\* range_average takes the samples from start on and before end, but for the
\* last sample of the queue.
RangeExact(q, start, end) ==
    RangePlaces(q, start, end) =
        {i \in 1 .. Len(q) - 1 : q[i].ts >= start /\ q[i].ts < end}

\* The searches find what they stand for in every queue that is reached, for
\* times before, between, at and after its samples.
SearchesExact ==
    \A q \in Queues : \A ts \in Times :
        /\ q # <<>> => NearestIsNearest(q, ts)
        /\ SinceExact(q, ts)
        /\ \A end \in Times : ts < end => RangeExact(q, ts, end)

\* "If the deque execeed the capacity, it will evict the oldest sample" (node.h,
\* pnode.h), for the queues that scatter_bw_sample fills.
EvictsOldest == \A vm \in Vm : Len(share[vm]) <= MaxSize
=============================================================================
