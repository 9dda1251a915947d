------------------------------ MODULE VmLogger ------------------------------
(***************************************************************************)
(* vm_logger: the log file of one VM.  The guest leaves log entries in the *)
(* slots of the store, the daemon writes some of its own; both wait in     *)
(* recent_entries, in the order of their times, until they are older than  *)
(* the window, so that late entries still find their place.                *)
(***************************************************************************)
EXTENDS SampleQueue, FiniteSetsExt

CONSTANTS
    Window,    \* time_window_in_sec
    Skew,      \* bound: how far the guest's clock is ahead or behind
    LogSlots,  \* external: slots in the store
    MaxEntries \* bound: the entries written

ASSUME LoggerAssumption ==
    /\ Window \in Nat /\ Window < MaxTime /\ Skew \in Nat
    /\ LogSlots \in Nat \ {0} /\ MaxEntries \in Nat

VARIABLES
    logStep,  \* what the round does next, or "closed"
    slots,    \* external: the entries in the store
    written,  \* the entries written so far, which numbers them
    last,     \* last_xs_ux_ts_ms
    recent,   \* recent_entries
    file,     \* log_file
    accepted, \* history: the entries that insert_log_entry took
    handled   \* history: how often each entry was read as new

logVars == <<now, logStep, slots, written, last, recent, file, accepted, handled>>

LogInit ==
    /\ now = Window + 1 /\ logStep = "crawl"
    /\ slots = <<>> /\ written = 0 /\ last = 0
    /\ recent = <<>> /\ file = <<>> /\ accepted = {}
    /\ handled = [n \in 1 .. MaxEntries |-> 0]

LogTick ==
    /\ logStep # "closed" /\ now < MaxTime /\ now' = now + 1
    /\ UNCHANGED <<logStep, slots, written, last, recent, file, accepted, handled>>

\* External: the guest, whose clock does not run backwards, writes an entry to its
\* next slot.
Newer(ts) == \A i \in 1 .. Len(slots) : slots[i].ts <= ts

GuestWrites(ts) ==
    /\ logStep # "closed" /\ written < MaxEntries /\ Newer(ts)
    /\ written' = written + 1
    /\ slots' = IF Len(slots) < LogSlots THEN Append(slots, Sample(ts, written'))
                ELSE [slots EXCEPT ![Min({i \in 1 .. LogSlots :
                          \A j \in 1 .. LogSlots : slots[i].val <= slots[j].val})] =
                              Sample(ts, written')]
    /\ UNCHANGED <<now, logStep, last, recent, file, accepted, handled>>

\* Mutant: ">=" for ">"
FreshOrSame == {i \in 1 .. Len(slots) : slots[i].ts >= last}

\* get_new_log_entries
Fresh == {i \in 1 .. Len(slots) : slots[i].ts > last}

\* ceiling_idx_of_in_mem_entries
Ceiling(q, ts) == InsertPlace(q, 1, Len(q), ts).at

\* Mutant: the window is not looked at.
AcceptsAll(e) == TRUE

Accepts(e) == e.ts >= now - Window

\* insert_log_entry
Logged(q, e) == IF Accepts(e) THEN InsertedAt(q, Ceiling(q, e.ts), e) ELSE q

\* crawl_log_entries_from_xs; what is done for "topo change succeeded" is in
\* TopoDaemon.
Crawl ==
    /\ logStep = "crawl" /\ logStep' = "flush"
    /\ LET Upto[i \in 0 .. Len(slots)] ==
               IF i = 0 THEN recent
               ELSE IF i \in Fresh THEN Logged(Upto[i - 1], slots[i]) ELSE Upto[i - 1]
       IN  recent' = Upto[Len(slots)]
    /\ accepted' = accepted \cup {e \in {slots[i] : i \in Fresh} : Accepts(e)}
    /\ handled' = [n \in 1 .. MaxEntries |->
                      handled[n] + Cardinality({i \in Fresh : slots[i].val = n})]
    /\ last' = Max({last} \cup {slots[i].ts : i \in Fresh})
    /\ UNCHANGED <<now, slots, written, file>>

\* "begin shrinking node", "begin expanding node": the round is over.
DaemonWrites ==
    /\ logStep = "crawl" /\ written < MaxEntries
    /\ written' = written + 1
    /\ recent' = Logged(recent, Sample(now, written'))
    /\ accepted' = accepted \cup {Sample(now, written')}
    /\ UNCHANGED <<now, logStep, slots, last, file, handled>>

\* flush_log_to_disk: the file and the entries that remain
Flushed(valid) ==
    LET n == Ceiling(recent, valid) - 1
    IN  [file |-> file \o SubSeq(recent, 1, n), recent |-> SubSeq(recent, n + 1, Len(recent))]

Flush ==
    /\ logStep = "flush" /\ logStep' = "crawl"
    /\ file' = Flushed(now - Window).file
    /\ recent' = Flushed(now - Window).recent
    /\ UNCHANGED <<now, slots, written, last, accepted, handled>>

\* ~vm_logger, at the end of the guest or of the daemon
Close ==
    /\ logStep = "crawl" /\ logStep' = "closed"
    /\ file' = Flushed(now).file
    /\ recent' = Flushed(now).recent
    /\ UNCHANGED <<now, slots, written, last, accepted, handled>>

LogNext ==
    \/ LogTick
    \/ \E ts \in (now - Skew) .. (now + Skew) : ts > 0 /\ GuestWrites(ts)
    \/ Crawl \/ Flush \/ DaemonWrites \/ Close

LogSpec == LogInit /\ [][LogNext]_logVars
-----------------------------------------------------------------------------
Sorted(q) == \A i \in 1 .. Len(q) - 1 : q[i].ts <= q[i + 1].ts

\* The type invariant.
LogTypeOK ==
    /\ now \in 1 .. MaxTime /\ logStep \in {"crawl", "flush", "closed"}
    /\ Len(slots) <= LogSlots /\ written \in 0 .. MaxEntries /\ last \in Nat
    /\ Sorted(recent)
    /\ handled \in [1 .. MaxEntries -> Nat]

\* The lines of the file are in the order of their times, although the clocks
\* of the guest and of the daemon differ and entries of both are mixed.
FileSorted == Sorted(file)

\* The slots are read again in every round, yet no entry is taken twice; one that
\* was taken is in the file once, or waits to be written; and when the file is
\* closed only entries of the present second or later are left out.
WrittenOnce ==
    /\ \A n \in 1 .. MaxEntries : handled[n] <= 1
    /\ Len(file) + Len(recent) = Cardinality(accepted)
    /\ Samples(file) \cup Samples(recent) = accepted
    /\ logStep = "closed" => \A e \in Samples(recent) : e.ts >= now
=============================================================================
