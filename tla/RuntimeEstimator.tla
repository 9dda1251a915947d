-------------------------- MODULE RuntimeEstimator --------------------------
(***************************************************************************)
(* runtime_estimator and the two queues it reads, for one VM.  In every    *)
(* round the daemon notes whether the VM runs a workload, then how many of *)
(* its nodes are active, each only if it changed and each with the second  *)
(* it is at that moment; then the planner brings the estimator up to date. *)
(* The length of a run is counted in nodes times seconds.                  *)
(***************************************************************************)
EXTENDS SampleQueue, FiniteSetsExt, Functions

CONSTANT MaxNodes \* the nodes of the VM

ASSUME RuntimeAssumption == MaxNodes \in Nat \ {0}

VARIABLES
    estStep,  \* what the round does next
    idleq, \* idleness_sampleq: 1 while a workload runs, else 0
    nodeq, \* num_active_node_sampleq
    est    \* est_map[vm]: the runs measured, newest last, and the start of this one

estVars == <<now, estStep, idleq, nodeq, est>>

Idle == -1 \* "means it's currently idle"

EstInit ==
    /\ now = 1 /\ estStep = "idleness"
    /\ idleq = <<>> /\ nodeq = <<>>
    /\ est = [made |-> FALSE, runs |-> <<>>, start |-> Idle]

\* get_idleness_sample and get_num_active_node_sample
Noted(q, val) == IF q = <<>> \/ LastOf(q).val # val THEN Append(q, Sample(now, val)) ELSE q

\* Mutant: a cpu has a load in the round it is found in.
NoteIdlenessAny(busy) ==
    /\ estStep = "idleness"
    /\ idleq' = Noted(idleq, busy)
    /\ estStep' = "nodes"
    /\ UNCHANGED <<now, nodeq, est>>

\* A cpu has no load yet in the round it is found in (cpu::init, and then
\* update_usage with the same time): the first sample is 0.
NoteIdleness(busy) ==
    /\ estStep = "idleness" /\ (idleq = <<>> => busy = 0)
    /\ idleq' = Noted(idleq, busy)
    /\ estStep' = "nodes"
    /\ UNCHANGED <<now, nodeq, est>>

NoteNodes(n) ==
    /\ estStep = "nodes"
    /\ nodeq' = Noted(nodeq, n)
    /\ estStep' = "update"
    /\ UNCHANGED <<now, idleq, est>>

Earlier(a, b) == IF a < b THEN a ELSE b
Later(a, b) == IF a > b THEN a ELSE b

\* Mutant: the records are not cut to the run.
AreaUnclipped(start, end) ==
    LET first == FloorPlace(nodeq, start)
        last == FloorPlace(nodeq, end)
        Until(j) == IF j = last THEN end ELSE nodeq[j + 1].ts
    IN  SumFunction([j \in first .. last |-> (Until(j) - nodeq[j].ts) * nodeq[j].val])

\* get_related_node_records, and the sum over them
Area(start, end) ==
    LET first == FloorPlace(nodeq, start)
        last == FloorPlace(nodeq, end)
        Until(j) == IF j = last THEN end ELSE Earlier(nodeq[j + 1].ts, end)
    IN  SumFunction([j \in first .. last |->
                        (Until(j) - Later(nodeq[j].ts, start)) * nodeq[j].val])

\* The runs that crawl_runtime_since_ts_ux_ms finds from time ts on.
RunsSince(ts) == {i \in SincePlaces(idleq, ts) : idleq[i].val = 1}

\* crawl_runtime_since_ts_ux_ms: the average of the runs since ts, as what it
\* adds to the runs measured (nothing for its -1)
Crawled(ts) ==
    LET runs == RunsSince(ts) IN
    IF runs = {} THEN <<>>
    ELSE <<SumFunction([i \in runs |-> Area(idleq[i].ts, idleq[i + 1].ts)])
               \div Cardinality(runs)>>

Busy == LastOf(idleq).val = 1

\* The entry is made when the VM is seen idle.
MakeEntry ==
    /\ ~est.made /\ ~Busy
    /\ est' = [made |-> TRUE, runs |-> Crawled(0), start |-> Idle]

RunBegins ==
    /\ est.made /\ Busy /\ est.start = Idle
    /\ est' = [est EXCEPT !.start = LastOf(idleq).ts]

RunEnds ==
    /\ est.made /\ ~Busy /\ est.start # Idle
    /\ est' = [est EXCEPT !.runs = @ \o Crawled(est.start), !.start = Idle]

NoNews ==
    /\ Busy = (~est.made \/ est.start # Idle)
    /\ UNCHANGED est

\* runtime_estimator::update
Update ==
    /\ estStep = "update"
    /\ MakeEntry \/ RunBegins \/ RunEnds \/ NoNews
    /\ estStep' = "sleep"
    /\ UNCHANGED <<now, idleq, nodeq>>

\* A second passes; the daemon sleeps for at least one.
EstTick ==
    /\ now < MaxTime /\ now' = now + 1
    /\ estStep' \in IF estStep = "sleep" THEN {"sleep", "idleness"} ELSE {estStep}
    /\ UNCHANGED <<idleq, nodeq, est>>

EstNext ==
    \/ \E busy \in 0 .. 1 : NoteIdleness(busy)
    \/ \E n \in 0 .. MaxNodes : NoteNodes(n)
    \/ Update \/ EstTick

EstSpec == EstInit /\ [][EstNext]_estVars

\* The average of the runs measured that gives the newest half of the weight.
Average == LET A[k \in 1 .. Len(est.runs)] ==
                   IF k = 1 THEN est.runs[1] ELSE (est.runs[k] + A[k - 1]) \div 2
           IN  A[Len(est.runs)]

\* remaining_runtime_in_sec, for an entry with a run: a start of -1 ms is at 0 s.
Remaining(nodes) ==
    Average \div nodes - (now - IF est.start = Idle THEN 0 ELSE est.start)
-----------------------------------------------------------------------------
\* The type invariant; the queues are in order, although their samples are noted
\* at different moments of a round.
EstTypeOK ==
    /\ now \in 1 .. MaxTime /\ estStep \in {"idleness", "nodes", "update", "sleep"}
    /\ Chronological(idleq) /\ Samples(idleq) \subseteq [ts : 1 .. now, val : 0 .. 1]
    /\ Chronological(nodeq) /\ Samples(nodeq) \subseteq [ts : 1 .. now, val : 0 .. MaxNodes]
    /\ est.made \in BOOLEAN /\ est.start \in {Idle} \cup 1 .. now
    /\ \A k \in 1 .. Len(est.runs) : est.runs[k] \in Nat

\* "assert(start_idx>=0 && end_idx >=0)", "assert(i+1 < idleq.size() &&
\* idleq[i+1].second == 0)": every run that is crawled has its end, and lies
\* within what is known of the active nodes.
RunsCovered ==
    estStep = "update" /\ ~Busy =>
        \A i \in RunsSince(IF est.start = Idle THEN 0 ELSE est.start) :
            /\ i < Len(idleq) /\ idleq[i + 1].val = 0
            /\ FloorPlace(nodeq, idleq[i].ts) >= 1 /\ FloorPlace(nodeq, idleq[i + 1].ts) >= 1

NodesAt(t) == LET known == {i \in 1 .. Len(nodeq) : nodeq[i].ts <= t} IN nodeq[Max(known)].val

\* After each round the estimator has measured every run that ended exactly once,
\* as the sum of the active nodes over its seconds, and knows the start of the
\* run that goes on.
RunsMeasured ==
    estStep = "sleep" =>
        LET begins == {i \in 1 .. Len(idleq) : idleq[i].val = 1}
            ended == begins \ {Len(idleq)}
            Seconds(i) == idleq[i].ts .. idleq[i + 1].ts - 1
            RunOf(k) == CHOOSE i \in ended : Cardinality({j \in ended : j <= i}) = k
        IN  /\ Len(est.runs) = Cardinality(ended)
            /\ \A k \in 1 .. Cardinality(ended) :
                  est.runs[k] = SumFunction([t \in Seconds(RunOf(k)) |-> NodesAt(t)])
            /\ est.start = IF Busy THEN LastOf(idleq).ts ELSE Idle

\* "-1 means it's currently idle" (runtime_estimator.h): nothing of the next run of
\* an idle VM has elapsed.
IdleHasWholeRun ==
    estStep = "sleep" /\ est.start = Idle /\ est.runs # <<>> =>
        \A n \in 1 .. MaxNodes : Remaining(n) >= 0
=============================================================================
