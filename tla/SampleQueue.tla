---------------------------- MODULE SampleQueue ----------------------------
(***************************************************************************)
(* sample_queue<T> and the searches of util.h: a queue is a sequence of    *)
(* samples [ts, val], the oldest first, with at most one sample for a ts.  *)
(* Places in a queue start at 1 here and at 0 in the code.                 *)
(***************************************************************************)
EXTENDS Integers, Sequences, FiniteSets

CONSTANTS
    MaxTime, \* bound: the time stamps that occur
    MaxSize  \* max_sample_size

VARIABLE now \* time(0), which the samples are stamped with

ASSUME SampleQueueAssumption ==
    MaxTime \in Nat \ {0} /\ MaxSize \in Nat \ {0}

Sample(ts, val) == [ts |-> ts, val |-> val]
NoSample == Sample(-1, -1)

Chronological(q) == \A i \in 1 .. Len(q) - 1 : q[i].ts < q[i + 1].ts
LastOf(q) == q[Len(q)]
Samples(q) == {q[i] : i \in 1 .. Len(q)}

(***************************************************************************)
(* The loop shared by the searches: halve lo .. hi until the sample is     *)
(* found, or lo is the place of the first later sample and hi = lo - 1.    *)
(***************************************************************************)
Halve(q, low, high, ts) ==
    LET Cut[r \in (1 .. Len(q) + 1) \X (0 .. Len(q))] ==
            LET lo == r[1]
                hi == r[2]
                mid == lo + (hi - lo) \div 2
            IN  IF lo > hi THEN [found |-> FALSE, lo |-> lo, hi |-> hi]
                ELSE IF q[mid].ts = ts THEN [found |-> TRUE, lo |-> mid, hi |-> mid]
                ELSE IF ts < q[mid].ts THEN Cut[<<lo, mid - 1>>]
                ELSE Cut[<<mid + 1, hi>>]
    IN  Cut[<<low, high>>]

\* Mutant: the place of the last earlier sample.
InsertPlaceBefore(q, low, high, ts) ==
    LET end == Halve(q, 1, Len(q), ts)
    IN  [at |-> IF end.found THEN end.lo ELSE IF end.hi = 0 THEN 1 ELSE end.hi, dup |-> end.found]

\* return_insert_index
InsertPlace(q, low, high, ts) ==
    IF q = <<>> \/ ts < q[low].ts THEN [at |-> 1, dup |-> FALSE]
    ELSE IF ts > q[high].ts THEN [at |-> high + 1, dup |-> FALSE]
    ELSE LET end == Halve(q, low, high, ts) IN [at |-> end.lo, dup |-> end.found]

\* floor_idx_of_sampleq, for the whole queue; 0 is the code's -1
FloorPlace(q, ts) ==
    IF q = <<>> \/ ts < q[1].ts THEN 0
    ELSE IF ts >= LastOf(q).ts THEN Len(q)
    ELSE Halve(q, 1, Len(q), ts).hi

InsertedAt(q, i, s) == SubSeq(q, 1, i - 1) \o <<s>> \o SubSeq(q, i, Len(q))

\* insert_sample; the size of the queue is not looked at.
Inserted(q, s) ==
    IF q = <<>> \/ s.ts > LastOf(q).ts THEN Append(q, s)
    ELSE IF s.ts < q[1].ts THEN <<s>> \o q
    ELSE LET end == Halve(q, 1, Len(q), s.ts)
         IN  IF end.found THEN q ELSE InsertedAt(q, end.lo, s)

\* Mutant: the newest sample makes room.
EvictedNewest(q) == IF Len(q) > MaxSize THEN SubSeq(q, 1, MaxSize) ELSE q

Evicted(q) == IF Len(q) > MaxSize THEN Tail(q) ELSE q

\* One sample in crawl_samples_from_xs, get_cpu_usage_sample, merge_sample_queue.
Taken(q, s) ==
    LET place == InsertPlace(q, 1, Len(q), s.ts)
    IN  Evicted(IF place.dup THEN q ELSE InsertedAt(q, place.at, s))

\* All samples of a sequence, in its order.
TakenAll(q, new) ==
    LET Upto[i \in 0 .. Len(new)] == IF i = 0 THEN q ELSE Taken(Upto[i - 1], new[i])
    IN  Upto[Len(new)]

\* get_nearst_data_point
Nearest(q, ts) ==
    IF q = <<>> THEN NoSample
    ELSE IF ts < q[1].ts THEN q[1]
    ELSE IF ts > LastOf(q).ts THEN LastOf(q)
    ELSE LET end == Halve(q, 1, Len(q), ts)
         IN  IF ts - q[end.hi].ts <= q[end.lo].ts - ts THEN q[end.hi] ELSE q[end.lo]

\* The places that average_value_since_ts adds up.
SincePlaces(q, ts) == InsertPlace(q, 1, Len(q), ts).at .. Len(q)

\* Mutant: the place of the end is not looked for.
RangePlacesOpen(q, start, end) == InsertPlace(q, 1, Len(q), start).at .. Len(q) - 1

\* The places that range_average adds up: the last sample never is one.
RangePlaces(q, start, end) ==
    LET first == InsertPlace(q, 1, Len(q), start).at
        stop == InsertPlace(q, IF first < Len(q) THEN first ELSE Len(q), Len(q), end).at
    IN  {i \in first .. stop - 1 : i < Len(q)}
=============================================================================
