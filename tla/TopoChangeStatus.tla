-------------------------- MODULE TopoChangeStatus --------------------------
(***************************************************************************)
(* The status object of one VM (StatusObject) driven by any legal order of *)
(* calls: changes that begin, completions read from the log of the guest,  *)
(* crawls that count the cool-down, and a clock in milliseconds against    *)
(* which completions and beginnings are compared.                          *)
(***************************************************************************)
EXTENDS StatusObject

CONSTANTS
    Tick,       \* milliseconds in a second: time(0)*1000 is a multiple of it
    MaxTime     \* bound: the clock stops there

ASSUME TimeAssumption == Tick \in Nat \ {0} /\ MaxTime \in Nat

-----------------------------------------------------------------------------
VARIABLES
    tc,        \* the status object of the VM
    now,       \* the clock, in milliseconds
    began,     \* history: the clock when the change began
    counted,   \* history: the completions that counted for it
    last,      \* history: the timestamp of the last of them
    rested     \* history: the crawls since it ended

vars == <<tc, now, began, counted, last, rested>>

\* time(0)*1000
Seconds(t) == (t \div Tick) * Tick

Init ==
    /\ tc = NewStatus
    /\ now = 0
    /\ began = 0 /\ counted = 0 /\ last = 0 /\ rested = 0

\* The engine calls it for a VM whose number of nodes changes, at any time:
\* the planner does not leave a VM alone because it is changing.
Begin ==
    /\ \E n, m \in NodeCount :
          /\ n # m
          /\ tc' = ChangeBegin(tc, n, m, Seconds(now))
    /\ began' = now
    /\ counted' = 0
    /\ UNCHANGED <<now, last, rested>>

\* The crawl of the guest's log meets "topo change succeeded"; the guest
\* wrote it at some time ts up to now, for this change or an earlier one.
Finished ==
    /\ \E ts \in 0 .. now :
          /\ tc' = FinishedOneNode(tc, ts)
          /\ counted' = IF Counts(tc, ts) THEN counted + 1 ELSE counted
          /\ last' = IF Counts(tc, ts) THEN ts ELSE last
    /\ rested' = IF tc'.type # tc.type THEN 0 ELSE rested
    /\ UNCHANGED <<now, began>>

\* Once per crawl of the daemon, for every VM.
Crawl ==
    /\ tc' = ReduceCoolDown(tc)
    /\ rested' = IF tc.type = "cool_down" THEN rested + 1 ELSE rested
    /\ UNCHANGED <<now, began, counted, last>>

Advance ==
    /\ now < MaxTime
    /\ now' = now + 1
    /\ UNCHANGED <<tc, began, counted, last, rested>>

Next == Begin \/ Finished \/ Crawl \/ Advance

Spec == Init /\ [][Next]_vars
-----------------------------------------------------------------------------
\* The type invariant.
TypeOK ==
    /\ tc \in Status
    /\ now \in Nat /\ began \in Nat /\ counted \in Nat
    /\ last \in Nat /\ rested \in Nat

\* The end of a change is tested with ==, so a completion too many would leave
\* the VM changing for ever: while a change is under way, its progress is the
\* number of completions that counted and stays below the goal, however often
\* it is restarted and whatever is left in the log from earlier changes.
ProgressBelowGoal ==
    tc.type = "undergo_topo_change" =>
        /\ tc.progress = counted
        /\ tc.progress < Distance(tc.from, tc.to)

\* The counter of the cool-down is never stuck nor negative (the assertion in
\* reduce_cool_down_cd): with the crawls already rested it is the whole window.
CoolDownCounts ==
    tc.type = "cool_down" => tc.cd > 0 /\ tc.cd + rested = CoolDown

\* The start is rounded down to a second, so a completion written before the
\* change began can count for it; but never one a full second older.
OnlyRecentCounts ==
    counted > 0 => last > began - Tick

\* A VM leaves the change only with as many completions as nodes it gained or
\* lost, and leaves the cool-down only after the whole window.
EndsComplete ==
    [][ /\ (tc.type = "undergo_topo_change" /\ tc'.type = "cool_down")
               => counted' = Distance(tc.from, tc.to)
        /\ (tc.type = "cool_down" /\ tc'.type = "topo_change_ready")
               => rested' = CoolDown
        /\ (tc.type = "undergo_topo_change" /\ tc'.type = "topo_change_ready")
               => FALSE ]_vars
=============================================================================
