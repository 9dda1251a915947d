----------------------- MODULE TopoChangeStatus_proof -----------------------
(***************************************************************************)
(* The invariants of TopoChangeStatus for every window, number of nodes    *)
(* and length of a second.                                                 *)
(***************************************************************************)
EXTENDS TopoChangeStatus, TLAPS

\* The goal of a change, how many nodes it moves, is a natural number.
LEMMA DistanceType == \A n, m \in Nat : Distance(n, m) \in Nat
BY DEF Distance

\* The start of a change, truncated to a whole second, lies less than a second
\* before its begin.
LEMMA SecondsType == \A t \in Nat : Seconds(t) \in Nat /\ Seconds(t) > t - Tick
BY TimeAssumption DEF Seconds

\* The inductive invariant: the three safety invariants together with the
\* relation of the (rounded) start to the clock.
IInv ==
    /\ TypeOK
    /\ ProgressBelowGoal
    /\ CoolDownCounts
    /\ OnlyRecentCounts
    /\ tc.type = "undergo_topo_change" => tc.start > began - Tick

\* A fresh record satisfies the invariant.
LEMMA InitInv == Init => IInv
BY CoolDownAssumption, NodesAssumption, TimeAssumption
DEF Init, IInv, TypeOK, ProgressBelowGoal, CoolDownCounts, OnlyRecentCounts,
    NewStatus, Status, StatusType

USE CoolDownAssumption, NodesAssumption, TimeAssumption

\* change_begin establishes the invariant anew for the change it starts.
LEMMA BeginInv == IInv /\ Begin => IInv'
<1> SUFFICES ASSUME IInv,
                    NEW n \in NodeCount, NEW m \in NodeCount, n # m,
                    tc' = ChangeBegin(tc, n, m, Seconds(now)),
                    began' = now, counted' = 0, UNCHANGED <<now, last, rested>>
             PROVE  IInv'
  BY DEF Begin
<1> USE DEF IInv, TypeOK
<1>1. Seconds(now) \in Nat /\ Seconds(now) > now - Tick
  BY SecondsType
<1>2. tc' = [type |-> "undergo_topo_change", cd |-> tc.cd,
             start |-> Seconds(now), from |-> n, to |-> m, progress |-> 0]
  BY DEF ChangeBegin, Status
<1>3. TypeOK'
  BY <1>1, <1>2 DEF Status, StatusType, NodeCount
<1>4. ProgressBelowGoal'
  BY <1>2 DEF ProgressBelowGoal, Distance, NodeCount
<1> QED
  BY <1>1, <1>2, <1>3, <1>4 DEF CoolDownCounts, OnlyRecentCounts

\* finished_one_node keeps the invariant, whether or not the entry counts.
LEMMA FinishedInv == IInv /\ Finished => IInv'
<1> SUFFICES ASSUME IInv, NEW ts \in 0 .. now,
                    tc' = FinishedOneNode(tc, ts),
                    counted' = IF Counts(tc, ts) THEN counted + 1 ELSE counted,
                    last' = IF Counts(tc, ts) THEN ts ELSE last,
                    rested' = IF tc'.type # tc.type THEN 0 ELSE rested,
                    UNCHANGED <<now, began>>
             PROVE  IInv'
  BY DEF Finished
<1> USE DEF IInv, TypeOK
<1>1. CASE ~Counts(tc, ts)
  BY <1>1 DEF FinishedOneNode, ProgressBelowGoal, CoolDownCounts, OnlyRecentCounts
<1>2. CASE Counts(tc, ts) /\ tc.progress + 1 = Distance(tc.from, tc.to)
  <2>1. tc' = [type |-> "cool_down", cd |-> CoolDown, start |-> tc.start,
               from |-> tc.from, to |-> tc.to, progress |-> 0]
    BY <1>2 DEF FinishedOneNode, Status
  <2>2. TypeOK' /\ rested' = 0
    BY <1>2, <2>1 DEF Status, StatusType, Counts
  <2> QED
    BY <1>2, <2>1, <2>2
    DEF Counts, Status, ProgressBelowGoal, CoolDownCounts, OnlyRecentCounts
<1>3. CASE Counts(tc, ts) /\ tc.progress + 1 # Distance(tc.from, tc.to)
  <2>1. tc' = [type |-> "undergo_topo_change", cd |-> tc.cd, start |-> tc.start,
               from |-> tc.from, to |-> tc.to, progress |-> tc.progress + 1]
    BY <1>3 DEF FinishedOneNode, Status, Counts
  <2>2. TypeOK'
    BY <1>3, <2>1 DEF Status, StatusType
  <2>3. Distance(tc.from, tc.to) \in Nat
    BY DistanceType DEF Status
  <2> QED
    BY <1>3, <2>1, <2>2, <2>3
    DEF Counts, Status, ProgressBelowGoal, CoolDownCounts, OnlyRecentCounts
<1> QED
  BY <1>1, <1>2, <1>3

\* reduce_cool_down_cd keeps the invariant.
LEMMA CrawlInv == IInv /\ Crawl => IInv'
<1> SUFFICES ASSUME IInv, Crawl PROVE IInv'
  OBVIOUS
<1> USE DEF IInv, TypeOK
<1>1. CASE tc.type # "cool_down"
  BY <1>1 DEF Crawl, ReduceCoolDown, ProgressBelowGoal, CoolDownCounts,
              OnlyRecentCounts
<1>2. CASE tc.type = "cool_down"
  <2>1. tc' = [type |-> IF tc.cd - 1 <= 0 THEN "topo_change_ready" ELSE tc.type,
               cd |-> tc.cd - 1, start |-> tc.start, from |-> tc.from,
               to |-> tc.to, progress |-> tc.progress]
    BY <1>2 DEF Crawl, ReduceCoolDown, Status
  <2>2. rested' = rested + 1 /\ UNCHANGED <<now, began, counted, last>>
    BY <1>2 DEF Crawl
  <2>3. TypeOK'
    BY <1>2, <2>1, <2>2 DEF Status, StatusType, CoolDownCounts
  <2> QED
    BY <1>2, <2>1, <2>2, <2>3
    DEF Status, ProgressBelowGoal, CoolDownCounts, OnlyRecentCounts
<1> QED
  BY <1>1, <1>2

\* Every call keeps the invariant.
LEMMA NextInv == IInv /\ [Next]_vars => IInv'
<1> SUFFICES ASSUME IInv, [Next]_vars PROVE IInv'
  OBVIOUS
<1>1. CASE Begin
  BY <1>1, BeginInv
<1>2. CASE Finished
  BY <1>2, FinishedInv
<1>3. CASE Crawl
  BY <1>3, CrawlInv
<1>4. CASE Advance
  BY <1>4 DEF Advance, IInv, TypeOK, ProgressBelowGoal, CoolDownCounts,
              OnlyRecentCounts
<1>5. CASE UNCHANGED vars
  BY <1>5 DEF vars, IInv, TypeOK, ProgressBelowGoal, CoolDownCounts,
              OnlyRecentCounts
<1> QED
  BY <1>1, <1>2, <1>3, <1>4, <1>5 DEF Next

\* Every reachable status object has its type.
THEOREM TypeCorrect == Spec => []TypeOK
BY InitInv, NextInv, PTL DEF Spec, IInv

\* The == of topo_change_finished_one_node cannot be stepped over, whatever
\* the order of changes, restarts and late completions.
THEOREM ProgressSafe == Spec => []ProgressBelowGoal
BY InitInv, NextInv, PTL DEF Spec, IInv

\* The assertion of reduce_cool_down_cd holds.
THEOREM CoolDownSafe == Spec => []CoolDownCounts
BY InitInv, NextInv, PTL DEF Spec, IInv

\* A completion a second older than the change never counts for it.
THEOREM RecentSafe == Spec => []OnlyRecentCounts
BY InitInv, NextInv, PTL DEF Spec, IInv

\* A change ends after as many completions as nodes, a cool-down after the
\* whole window.
THEOREM EndsSafe == Spec => EndsComplete
<1> DEFINE A == /\ (tc.type = "undergo_topo_change" /\ tc'.type = "cool_down")
                       => counted' = Distance(tc.from, tc.to)
                /\ (tc.type = "cool_down" /\ tc'.type = "topo_change_ready")
                       => rested' = CoolDown
                /\ (tc.type = "undergo_topo_change" /\ tc'.type = "topo_change_ready")
                       => FALSE
<1>1. IInv /\ [Next]_vars => [A]_vars
  <2> SUFFICES ASSUME IInv, Next PROVE A
    BY DEF vars
  <2> USE DEF IInv, TypeOK
  <2>1. CASE Begin
    BY <2>1 DEF Begin, ChangeBegin, Status
  <2>2. CASE Finished
    BY <2>2 DEF Finished, FinishedOneNode, Counts, Status, ProgressBelowGoal
  <2>3. CASE Crawl
    BY <2>3 DEF Crawl, ReduceCoolDown, Status, CoolDownCounts
  <2>4. CASE Advance
    BY <2>4 DEF Advance
  <2> QED
    BY <2>1, <2>2, <2>3, <2>4 DEF Next
<1> QED
  BY <1>1, InitInv, NextInv, PTL DEF Spec, EndsComplete
=============================================================================
