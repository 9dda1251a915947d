---------------------------- MODULE StatusObject ----------------------------
(***************************************************************************)
(* topo_change_status.{h,cpp}: what the daemon knows of a topology change  *)
(* of one VM, as a record and the operators of the class.  A change from n *)
(* to m nodes is under way until |n - m| completions have been read from   *)
(* the guest's log, then the VM cools down for CoolDown crawls             *)
(* (TOPO_CHNAGENESS_TIME_WINDOW_SECS), then it is ready for another one.   *)
(***************************************************************************)
EXTENDS Integers

CONSTANTS
    CoolDown,   \* crawls a VM rests after a change
    MaxNodes    \* nodes a VM can have

ASSUME CoolDownAssumption == CoolDown \in Nat \ {0}
ASSUME NodesAssumption    == MaxNodes \in Nat \ {0}

Distance(n, m) == IF n < m THEN m - n ELSE n - m

NodeCount  == 1 .. MaxNodes
StatusType == {"undergo_topo_change", "cool_down", "topo_change_ready"}

\* The members of topo_change_status that decide something.
Status == [type : StatusType, cd : 0 .. CoolDown, start : Nat,
           from : 0 .. MaxNodes, to : 0 .. MaxNodes, progress : Nat]

\* The constructor; what it leaves uninitialised is written before it is read.
NewStatus == [type |-> "topo_change_ready", cd |-> 0, start |-> 0,
              from |-> 0, to |-> 0, progress |-> 0]

\* Mutant: the progress of the change before is not reset.
ChangeBeginKeepsProgress(s, n, m, t) ==
    [s EXCEPT !.type = "undergo_topo_change", !.from = n, !.to = m,
              !.start = t]

ChangeBegin(s, n, m, t) ==
    [s EXCEPT !.type = "undergo_topo_change", !.from = n, !.to = m,
              !.start = t, !.progress = 0]

\* Mutant: the timestamp of the completion is not looked at.
CountsAny(s, ts) == s.type = "undergo_topo_change"

Counts(s, ts) == s.type = "undergo_topo_change" /\ ts > s.start

\* Mutant: the change ends one node early.
FinishedEarly(s, ts) ==
    IF ~Counts(s, ts) THEN s
    ELSE IF s.progress + 1 >= Distance(s.from, s.to) - 1
         THEN [s EXCEPT !.type = "cool_down", !.cd = CoolDown, !.progress = 0]
         ELSE [s EXCEPT !.progress = @ + 1]

FinishedOneNode(s, ts) ==
    IF ~Counts(s, ts) THEN s
    ELSE IF s.progress + 1 = Distance(s.from, s.to)
         THEN [s EXCEPT !.type = "cool_down", !.cd = CoolDown, !.progress = 0]
         ELSE [s EXCEPT !.progress = @ + 1]

IsUndergo(s) == s.type \in {"undergo_topo_change", "cool_down"}

\* Mutant: no early return, any status is counted down.
ReduceAlways(s) ==
    [s EXCEPT !.cd = @ - 1,
              !.type = IF s.cd - 1 <= 0 THEN "topo_change_ready" ELSE @]

\* Mutant: the comparison misses zero.
ReduceBelowZero(s) ==
    IF s.type # "cool_down" \/ s.cd = 0 THEN s
    ELSE [s EXCEPT !.cd = @ - 1,
                   !.type = IF s.cd - 1 < 0 THEN "topo_change_ready" ELSE @]

ReduceCoolDown(s) ==
    IF s.type # "cool_down" THEN s
    ELSE [s EXCEPT !.cd = @ - 1,
                   !.type = IF s.cd - 1 <= 0 THEN "topo_change_ready" ELSE @]
=============================================================================
