-------------------------- MODULE SampleQueue_proof --------------------------
(***************************************************************************)
(* Queues of samples, and the components that keep some.  The first part   *)
(* is about SampleQueue alone: a search halves a part of an ascending      *)
(* queue, from which follows where a sample is put and what a search       *)
(* returns.  The second is about BandwidthSamples, for any number of       *)
(* guests, vCPUs, slots and places: the queues stay in order, the searches *)
(* find what they stand for, the newest samples are kept, the loads are    *)
(* exact and the parts of a sample fit in it.  The third is about          *)
(* VmLogger: the log is in order and every entry is in it once.  The       *)
(* fourth is about RuntimeEstimator: every run is measured once, from its  *)
(* begin to its end.                                                       *)
(***************************************************************************)
EXTENDS BandwidthSamples, VmLogger, RuntimeEstimator, DataLemmas, SequenceTheorems, TLAPS

\* A queue of samples; the order is not asked for.
Queue == Seq([ts : Int, val : Int])

\* What the searches and insertions rely on.
Ascends(q) == \A i, j \in 1 .. Len(q) : i < j => q[i].ts <= q[j].ts

\* One step of the searches, where f is what the next ones come to.
Narrowed(q, ts, f, lo, hi) ==
    LET mid == lo + (hi - lo) \div 2 IN
    IF lo > hi THEN [found |-> FALSE, lo |-> lo, hi |-> hi]
    ELSE IF q[mid].ts = ts THEN [found |-> TRUE, lo |-> mid, hi |-> mid]
    ELSE IF ts < q[mid].ts THEN f[<<lo, mid - 1>>]
    ELSE f[<<mid + 1, hi>>]

\* f is what the searches of q for ts come to, between any two places.
Steps(q, ts, f) ==
    \A lo \in 1 .. Len(q) + 1, hi \in 0 .. Len(q) : f[<<lo, hi>>] = Narrowed(q, ts, f, lo, hi)

\* The recursion of the searches is well defined.
LEMMA HalveSteps ==
    ASSUME NEW q \in Queue, NEW ts \in Int,
           NEW low \in 1 .. Len(q) + 1, NEW high \in 0 .. Len(q)
    PROVE  \E f : Halve(q, low, high, ts) = f[<<low, high>>] /\ Steps(q, ts, f)
<1> DEFINE D == (1 .. Len(q) + 1) \X (0 .. Len(q))
           R == [found : BOOLEAN, lo : Int, hi : Int]
           size == [r \in D |-> IF r[1] <= r[2] THEN r[2] - r[1] + 1 ELSE 0]
           Mid(r) == r[1] + (r[2] - r[1]) \div 2
           Cut(g, r) == IF r[1] > r[2] THEN [found |-> FALSE, lo |-> r[1], hi |-> r[2]]
                        ELSE IF q[Mid(r)].ts = ts
                             THEN [found |-> TRUE, lo |-> Mid(r), hi |-> Mid(r)]
                        ELSE IF ts < q[Mid(r)].ts THEN g[<<r[1], Mid(r) - 1>>]
                        ELSE g[<<Mid(r) + 1, r[2]>>]
           step == [g \in [D -> R] |-> [r \in D |-> Cut(g, r)]]
           Good(f) == f = [r \in D |-> Cut(f, r)]
<1>1. Len(q) \in Nat
  BY DEF Queue
<1>2. ASSUME NEW r \in D, r[1] <= r[2]
      PROVE  /\ Mid(r) \in r[1] .. r[2] /\ Mid(r) \in Int
             /\ <<r[1], Mid(r) - 1>> \in D /\ size[<<r[1], Mid(r) - 1>>] < size[r]
             /\ <<Mid(r) + 1, r[2]>> \in D /\ size[<<Mid(r) + 1, r[2]>>] < size[r]
  <2> DEFINE m == Mid(r)
  <2>1. r[1] \in 1 .. Len(q) + 1 /\ r[2] \in 0 .. Len(q)
    OBVIOUS
  <2>2. m \in r[1] .. r[2] /\ m \in Int
    BY <1>1, <1>2, <2>1
  <2> HIDE DEF m
  <2>3. <<r[1], m - 1>> \in D /\ <<m + 1, r[2]>> \in D
    BY <1>1, <2>1, <2>2
  <2>4. size[<<r[1], m - 1>>] < size[r] /\ size[<<m + 1, r[2]>>] < size[r]
    BY <1>1, <1>2, <2>1, <2>2, <2>3
  <2> QED
    BY <2>2, <2>3, <2>4 DEF m
<1>3. size \in [D -> 0 .. Len(q)]
  BY <1>1
<1>4. step \in [[D -> R] -> [D -> R]]
  <2>1. ASSUME NEW g \in [D -> R], NEW r \in D PROVE Cut(g, r) \in R
    <3>1. r[1] \in Int /\ r[2] \in Int
      BY <1>1
    <3>2. CASE r[1] > r[2]
      BY <3>1, <3>2
    <3>3. CASE r[1] <= r[2]
      <4>1. Mid(r) \in Int /\ g[<<r[1], Mid(r) - 1>>] \in R /\ g[<<Mid(r) + 1, r[2]>>] \in R
        BY <1>2, <3>3
      <4> HIDE DEF Mid, D
      <4> QED
        BY <3>1, <4>1
    <3> QED
      BY <3>1, <3>2, <3>3
  <2> HIDE DEF Cut, D, R
  <2> QED
    BY <2>1
<1>5. ASSUME NEW g \in [D -> R], NEW h \in [D -> R], NEW r \in D,
             \A s \in D : size[s] < size[r] => g[s] = h[s]
      PROVE  step[g][r] = step[h][r]
  <2>1. Cut(g, r) = Cut(h, r)
    <3>1. CASE r[1] > r[2]
      BY <3>1
    <3>2. CASE r[1] <= r[2]
      <4>1. /\ g[<<r[1], Mid(r) - 1>>] = h[<<r[1], Mid(r) - 1>>]
            /\ g[<<Mid(r) + 1, r[2]>>] = h[<<Mid(r) + 1, r[2]>>]
        BY <1>2, <1>5, <3>2
      <4> HIDE DEF Mid, D
      <4> QED
        BY <4>1
    <3> QED
      BY <1>1, <3>1, <3>2
  <2> HIDE DEF Cut, D, R
  <2> QED
    BY <2>1
<1>6. PICK g \in [D -> R] : g = step[g]
  <2>1. R # {}
    <3>1. [found |-> TRUE, lo |-> 0, hi |-> 0] \in R
      OBVIOUS
    <3> QED
      BY <3>1
  <2>2. DefinesFcn(D, R, Len(q), size, step)
    <3> HIDE DEF D, R, size, step
    <3> QED
      BY <1>1, <1>3, <1>4, <1>5, <2>1 DEF DefinesFcn
  <2> HIDE DEF D, R, size, step
  <2> QED
    BY <2>2, Recursion
<1>7. Good(g)
  <2> HIDE DEF Cut, D, R
  <2> QED
    BY <1>6
<1> DEFINE f == CHOOSE f : Good(f)
<1>8. Good(f)
  <2> HIDE DEF Good
  <2> QED
    BY <1>7
<1>9. Halve(q, low, high, ts) = f[<<low, high>>]
  BY DEF Halve
<1> HIDE DEF f
<1>10. ASSUME NEW lo \in 1 .. Len(q) + 1, NEW hi \in 0 .. Len(q)
       PROVE  f[<<lo, hi>>] = Cut(f, <<lo, hi>>)
  <2>1. <<lo, hi>> \in D
    OBVIOUS
  <2> HIDE DEF Cut, D
  <2> QED
    BY <1>8, <2>1
<1>11. \A lo \in 1 .. Len(q) + 1, hi \in 0 .. Len(q) : f[<<lo, hi>>] = Cut(f, <<lo, hi>>)
  BY <1>10
<1>12. Steps(q, ts, f)
  <2>1. ASSUME NEW lo \in 1 .. Len(q) + 1, NEW hi \in 0 .. Len(q)
        PROVE  Cut(f, <<lo, hi>>) = Narrowed(q, ts, f, lo, hi)
    BY DEF Narrowed
  <2> HIDE DEF Cut
  <2> QED
    BY <1>11, <2>1 DEF Steps
<1> QED
  BY <1>9, <1>12

\* What a search of q for ts ends with: a sample of that time, or the place
\* where there should be one.
Ends(q, ts, e) ==
    IF e.found THEN e.lo \in 1 .. Len(q) /\ e.hi = e.lo /\ q[e.lo].ts = ts
    ELSE /\ e.lo \in 1 .. Len(q) + 1 /\ e.hi = e.lo - 1
         /\ \A i \in 1 .. Len(q) : IF i < e.lo THEN q[i].ts < ts ELSE q[i].ts > ts

\* The searches find it, if what is searched for is not outside lo .. hi.
LEMMA HalveEnds ==
    ASSUME NEW q \in Queue, Ascends(q), NEW ts \in Int,
           NEW low \in 1 .. Len(q) + 1, NEW high \in 0 .. Len(q), low <= high + 1,
           \A i \in 1 .. Len(q) : (i < low => q[i].ts < ts) /\ (i > high => q[i].ts > ts)
    PROVE  Ends(q, ts, Halve(q, low, high, ts)) /\ Halve(q, low, high, ts).found \in BOOLEAN
<1>1. PICK f : Halve(q, low, high, ts) = f[<<low, high>>] /\ Steps(q, ts, f)
  BY HalveSteps
<1> DEFINE Around(lo, hi) == \A i \in 1 .. Len(q) :
                                 (i < lo => q[i].ts < ts) /\ (i > hi => q[i].ts > ts)
           Right(lo, hi) == Ends(q, ts, f[<<lo, hi>>]) /\ f[<<lo, hi>>].found \in BOOLEAN
           B == {n \in Nat : \A lo \in 1 .. Len(q) + 1, hi \in 0 .. Len(q) :
                    (lo <= hi + 1 /\ hi + 1 - lo <= n /\ Around(lo, hi)) => Right(lo, hi)}
<1>2. Len(q) \in Nat /\ \A i \in 1 .. Len(q) : q[i].ts \in Int
  <2> DEFINE S == [ts : Int, val : Int]
  <2>1. q \in Seq(S) /\ \A s \in S : s.ts \in Int
    BY DEF Queue
  <2> HIDE DEF S
  <2> QED
    BY <2>1
<1>3. ASSUME NEW lo \in 1 .. Len(q) + 1, NEW hi \in 0 .. Len(q), lo = hi + 1, Around(lo, hi)
      PROVE  Right(lo, hi)
  <2>1. f[<<lo, hi>>] = [found |-> FALSE, lo |-> lo, hi |-> hi]
    <3>1. f[<<lo, hi>>] = Narrowed(q, ts, f, lo, hi)
      BY <1>1 DEF Steps
    <3>2. lo > hi
      BY <1>2, <1>3
    <3> QED
      BY <3>1, <3>2 DEF Narrowed
  <2> QED
    BY <1>2, <1>3, <2>1 DEF Ends
<1>4. 0 \in B
  <2>1. ASSUME NEW lo \in 1 .. Len(q) + 1, NEW hi \in 0 .. Len(q), lo <= hi + 1, hi + 1 - lo <= 0
        PROVE  lo = hi + 1
    BY <1>2, <2>1
  <2> HIDE DEF Around, Right
  <2> QED
    BY <1>3, <2>1
<1>5. ASSUME NEW n \in Nat, n \in B PROVE n + 1 \in B
  <2> SUFFICES ASSUME NEW lo \in 1 .. Len(q) + 1, NEW hi \in 0 .. Len(q), lo <= hi + 1,
                      hi + 1 - lo <= n + 1, Around(lo, hi)
               PROVE  Right(lo, hi)
    OBVIOUS
  <2>1. CASE lo = hi + 1
    BY <1>3, <2>1
  <2>2. CASE lo <= hi
    <3> DEFINE mid == lo + (hi - lo) \div 2
    <3>1. mid \in lo .. hi /\ mid \in 1 .. Len(q)
      <4>1. lo \in Int /\ hi \in Int /\ lo >= 1 /\ hi <= Len(q)
        BY <1>2
      <4>2. mid \in lo .. hi
        BY <4>1, <2>2
      <4> HIDE DEF mid
      <4> QED
        BY <1>2, <4>1, <4>2
    <3>2. f[<<lo, hi>>] = IF q[mid].ts = ts THEN [found |-> TRUE, lo |-> mid, hi |-> mid]
                          ELSE IF ts < q[mid].ts THEN f[<<lo, mid - 1>>]
                          ELSE f[<<mid + 1, hi>>]
      <4>1. f[<<lo, hi>>] = Narrowed(q, ts, f, lo, hi)
        BY <1>1 DEF Steps
      <4>2. ~(lo > hi)
        BY <1>2, <2>2
      <4> QED
        BY <4>1, <4>2 DEF Narrowed
    <3> HIDE DEF mid
    <3>3. CASE q[mid].ts = ts
      BY <3>1, <3>2, <3>3 DEF Ends
    <3>4. CASE ts < q[mid].ts
      <4>1. mid - 1 \in 0 .. Len(q) /\ lo <= (mid - 1) + 1 /\ (mid - 1) + 1 - lo <= n
        BY <1>2, <2>2, <3>1
      <4>2. Around(lo, mid - 1)
        <5> SUFFICES ASSUME NEW i \in 1 .. Len(q)
                     PROVE  (i < lo => q[i].ts < ts) /\ (i > mid - 1 => q[i].ts > ts)
          OBVIOUS
        <5>1. i > mid - 1 => q[i].ts >= q[mid].ts
          BY <1>2, <3>1 DEF Ascends
        <5> QED
          BY <1>2, <3>1, <3>4, <5>1
      <4>3. Right(lo, mid - 1)
        <5> HIDE DEF Around, Right
        <5> QED
          BY <1>5, <4>1, <4>2
      <4>4. f[<<lo, hi>>] = f[<<lo, mid - 1>>]
        BY <1>2, <3>1, <3>2, <3>4
      <4> QED
        BY <4>3, <4>4
    <3>5. CASE ts > q[mid].ts
      <4>1. mid + 1 \in 1 .. Len(q) + 1 /\ mid + 1 <= hi + 1 /\ hi + 1 - (mid + 1) <= n
        BY <1>2, <2>2, <3>1
      <4>2. Around(mid + 1, hi)
        <5> SUFFICES ASSUME NEW i \in 1 .. Len(q)
                     PROVE  (i < mid + 1 => q[i].ts < ts) /\ (i > hi => q[i].ts > ts)
          OBVIOUS
        <5>1. i < mid + 1 => q[i].ts <= q[mid].ts
          BY <1>2, <3>1 DEF Ascends
        <5> QED
          BY <1>2, <3>1, <3>5, <5>1
      <4>3. Right(mid + 1, hi)
        <5> HIDE DEF Around, Right
        <5> QED
          BY <1>5, <4>1, <4>2
      <4>4. f[<<lo, hi>>] = f[<<mid + 1, hi>>]
        BY <1>2, <3>1, <3>2, <3>5
      <4> QED
        BY <4>3, <4>4
    <3> QED
      BY <1>2, <3>1, <3>3, <3>4, <3>5
  <2> QED
    BY <1>2, <2>1, <2>2
<1>6. high + 1 - low \in B
  <2>1. high + 1 - low \in Nat
    BY <1>2
  <2> HIDE DEF B
  <2> QED
    BY <1>4, <1>5, <2>1, Induction
<1>7. Right(low, high)
  <2>1. Around(low, high) /\ high + 1 - low <= high + 1 - low
    BY <1>2
  <2> HIDE DEF Around, Right
  <2> QED
    BY <1>6, <2>1
<1> QED
  BY <1>1, <1>7

-----------------------------------------------------------------------------
(* The place of a time in a queue. *)

\* A queue in chronological order, stated for any two places.
Ordered(q) == \A i, j \in 1 .. Len(q) : i < j => q[i].ts < q[j].ts

\* Every place of a queue holds a sample with a time.
LEMMA QueueTimes ==
    ASSUME NEW q \in Queue
    PROVE  Len(q) \in Nat /\ \A i \in 1 .. Len(q) : q[i].ts \in Int /\ q[i].val \in Int
<1> DEFINE S == [ts : Int, val : Int]
<1>1. q \in Seq(S) /\ \A s \in S : s.ts \in Int /\ s.val \in Int
  BY DEF Queue
<1> HIDE DEF S
<1> QED
  BY <1>1

\* The time of the first sample.
LEMMA FirstTime ==
    ASSUME NEW q \in Queue, q # <<>>
    PROVE  Len(q) # 0 /\ q[1].ts \in Int
<1>1. Len(q) \in Nat /\ Len(q) # 0
  BY DEF Queue
<1>2. 1 \in 1 .. Len(q)
  BY <1>1
<1> QED
  BY <1>1, <1>2, QueueTimes

\* An element of a queue is a sample.
LEMMA QueueElement ==
    ASSUME NEW q \in Queue, NEW i \in 1 .. Len(q)
    PROVE  q[i] \in [ts : Int, val : Int]
<1> DEFINE S == [ts : Int, val : Int]
<1>1. q \in Seq(S)
  BY DEF Queue
<1> HIDE DEF S
<1>2. q[i] \in S
  BY <1>1
<1> QED
  BY <1>2 DEF S

\* The order of neighbours is that of all.
LEMMA OrderedIsChronological ==
    ASSUME NEW q \in Queue
    PROVE  Chronological(q) <=> Ordered(q)
<1>1. Len(q) \in Nat /\ \A i \in 1 .. Len(q) : q[i].ts \in Int
  BY QueueTimes
<1>2. ASSUME Ordered(q), NEW i \in 1 .. Len(q) - 1 PROVE q[i].ts < q[i + 1].ts
  BY <1>1, <1>2 DEF Ordered
<1>3. ASSUME Chronological(q) PROVE Ordered(q)
  <2> DEFINE B == {n \in Nat : \A i \in 1 .. Len(q) :
                                  (n > 0 /\ i + n <= Len(q)) => q[i].ts < q[i + n].ts}
  <2>1. 0 \in B
    OBVIOUS
  <2>2. ASSUME NEW n \in Nat, n \in B PROVE n + 1 \in B
    <3> SUFFICES ASSUME NEW i \in 1 .. Len(q), i + (n + 1) <= Len(q)
                 PROVE  q[i].ts < q[i + (n + 1)].ts
      OBVIOUS
    <3>1. i + n \in 1 .. Len(q) - 1 /\ i + n \in 1 .. Len(q) /\ (i + n) + 1 = i + (n + 1)
          /\ (i + n) + 1 \in 1 .. Len(q)
      BY <1>1
    <3>2. q[i + n].ts < q[(i + n) + 1].ts
      BY <1>3, <3>1 DEF Chronological
    <3>3. CASE n = 0
      BY <3>1, <3>2, <3>3
    <3>4. CASE n > 0
      <4>1. q[i].ts < q[i + n].ts
        BY <2>2, <3>1, <3>4
      <4>2. q[i + n].ts < q[i + (n + 1)].ts
        BY <3>1, <3>2
      <4>3. q[i].ts \in Int /\ q[i + n].ts \in Int /\ q[i + (n + 1)].ts \in Int
        BY <1>1, <3>1
      <4> QED
        BY <4>1, <4>2, <4>3
    <3> QED
      BY <3>3, <3>4
  <2>3. Nat \subseteq B
    <3> HIDE DEF B
    <3> QED
      BY <2>1, <2>2, Induction
  <2>4. ASSUME NEW i \in 1 .. Len(q), NEW j \in 1 .. Len(q), i < j PROVE q[i].ts < q[j].ts
    <3>1. j - i \in Nat /\ j - i > 0 /\ i + (j - i) = j
      BY <1>1, <2>4
    <3>2. j - i \in B
      <4> HIDE DEF B
      <4> QED
        BY <2>3, <3>1
    <3> QED
      BY <1>1, <3>1, <3>2
  <2> QED
    BY <2>4 DEF Ordered
<1> QED
  BY <1>2, <1>3 DEF Chronological

\* What the place of ts in a queue should be: that of the sample of this time, or
\* the one at which a sample of this time is to be put.
Placed(q, ts, p) ==
    IF p.dup THEN p.at \in 1 .. Len(q) /\ q[p.at].ts = ts
    ELSE /\ p.at \in 1 .. Len(q) + 1
         /\ \A i \in 1 .. Len(q) : IF i < p.at THEN q[i].ts < ts ELSE q[i].ts > ts

\* return_insert_index finds it from any place on that is not after it.
LEMMA PlaceFrom ==
    ASSUME NEW q \in Queue, Ascends(q), q # <<>>, NEW ts \in Int, NEW low \in 1 .. Len(q),
           q[low].ts <= ts, \A i \in 1 .. Len(q) : i < low => q[i].ts < ts,
           NEW p, p = InsertPlace(q, low, Len(q), ts)
    PROVE  Placed(q, ts, p) /\ p.dup \in BOOLEAN
<1>1. Len(q) \in Nat /\ Len(q) # 0 /\ \A i \in 1 .. Len(q) : q[i].ts \in Int
  BY QueueTimes DEF Queue
<1>2. ~(ts < q[low].ts)
  BY <1>1
<1>3. CASE ts > q[Len(q)].ts
  <2>1. p = [at |-> Len(q) + 1, dup |-> FALSE]
    BY <1>2, <1>3 DEF InsertPlace
  <2>2. \A i \in 1 .. Len(q) : q[i].ts < ts
    BY <1>1, <1>3 DEF Ascends
  <2> QED
    BY <1>1, <2>1, <2>2 DEF Placed
<1>4. CASE ~(ts > q[Len(q)].ts)
  <2> DEFINE end == Halve(q, low, Len(q), ts)
  <2>1. p = [at |-> end.lo, dup |-> end.found]
    BY <1>2, <1>4 DEF InsertPlace
  <2>2. Ends(q, ts, end) /\ end.found \in BOOLEAN
    BY <1>1, HalveEnds
  <2> HIDE DEF end
  <2> QED
    BY <2>1, <2>2 DEF Ends, Placed
<1> QED
  BY <1>3, <1>4

\* And in the whole queue, whatever the time.
LEMMA PlaceInAll ==
    ASSUME NEW q \in Queue, Ascends(q), NEW ts \in Int,
           NEW p, p = InsertPlace(q, 1, Len(q), ts)
    PROVE  Placed(q, ts, p) /\ p.dup \in BOOLEAN
<1>1. Len(q) \in Nat /\ \A i \in 1 .. Len(q) : q[i].ts \in Int
  BY QueueTimes
<1>2. CASE q = <<>> \/ ts < q[1].ts
  <2>1. p = [at |-> 1, dup |-> FALSE]
    BY <1>2 DEF InsertPlace
  <2>2. \A i \in 1 .. Len(q) : q[i].ts > ts
    BY <1>1, <1>2 DEF Ascends
  <2>3. p.at = 1 /\ p.dup = FALSE /\ 1 \in 1 .. Len(q) + 1
    BY <1>1, <2>1
  <2>4. \A i \in 1 .. Len(q) : ~(i < 1)
    BY <1>1
  <2> QED
    BY <2>2, <2>3, <2>4 DEF Placed
<1>3. CASE q # <<>> /\ ~(ts < q[1].ts)
  <2>1. 1 \in 1 .. Len(q)
    BY <1>1, <1>3 DEF Queue
  <2> QED
    BY <1>1, <1>3, <2>1, PlaceFrom
<1> QED
  BY <1>2, <1>3

\* r is q with s put at place i.
PutAt(S, q, i, s, r) ==
    /\ r \in Seq(S) /\ Len(r) = Len(q) + 1
    /\ \A j \in 1 .. Len(q) + 1 :
          r[j] = IF j < i THEN q[j] ELSE IF j = i THEN s ELSE q[j - 1]

\* An element is put at a place of a sequence.
LEMMA InsertedAtPlaces ==
    ASSUME NEW S, NEW q \in Seq(S), NEW s \in S, NEW i \in 1 .. Len(q) + 1,
           NEW r, r = InsertedAt(q, i, s)
    PROVE  PutAt(S, q, i, s, r)
<1> DEFINE a == SubSeq(q, 1, i - 1)
           b == SubSeq(q, i, Len(q))
<1>1. Len(q) \in Nat /\ i \in Int /\ \A j \in 1 .. Len(q) : q[j] \in S
  OBVIOUS
<1>2. /\ a \in Seq(S) /\ Len(a) = i - 1 /\ \A j \in 1 .. i - 1 : a[j] = q[j]
  <2>1. \A j \in 1 .. i - 1 : q[j] \in S
    BY <1>1
  <2> QED
    BY <1>1, <2>1, SubSeqProperties
<1>3. /\ b \in Seq(S) /\ Len(b) = Len(q) + 1 - i
      /\ \A j \in 1 .. Len(q) - i + 1 : b[j] = q[i + j - 1]
  <2>1. \A j \in i .. Len(q) : q[j] \in S
    BY <1>1
  <2> QED
    BY <1>1, <2>1, SubSeqProperties
<1> DEFINE c == a \o <<s>>
<1>4. r = c \o b
  BY DEF InsertedAt
<1> HIDE DEF a, b
<1>5. /\ c \in Seq(S) /\ Len(c) = i
      /\ \A j \in 1 .. i : c[j] = IF j < i THEN a[j] ELSE s
  <2>1. <<s>> \in Seq(S) /\ Len(<<s>>) = 1 /\ <<s>>[1] = s
    OBVIOUS
  <2> QED
    BY <1>1, <1>2, <2>1, ConcatProperties
<1> HIDE DEF c
<1>6. /\ r \in Seq(S) /\ Len(r) = Len(q) + 1
      /\ \A j \in 1 .. Len(q) + 1 : r[j] = IF j <= i THEN c[j] ELSE b[j - i]
  <2>1. /\ c \o b \in Seq(S) /\ Len(c \o b) = Len(c) + Len(b)
        /\ \A j \in 1 .. Len(c) + Len(b) :
              (c \o b)[j] = IF j <= Len(c) THEN c[j] ELSE b[j - Len(c)]
    BY <1>3, <1>5, ConcatProperties
  <2>2. Len(c) + Len(b) = Len(q) + 1
    BY <1>1, <1>3, <1>5
  <2> QED
    BY <1>4, <1>5, <2>1, <2>2
<1>7. ASSUME NEW j \in 1 .. Len(q) + 1
      PROVE  r[j] = IF j < i THEN q[j] ELSE IF j = i THEN s ELSE q[j - 1]
  <2>1. CASE j <= i
    BY <1>1, <1>2, <1>5, <1>6, <2>1
  <2>2. CASE j > i
    <3>1. j - i \in 1 .. Len(q) - i + 1 /\ i + (j - i) - 1 = j - 1
      BY <1>1, <2>2
    <3> QED
      BY <1>1, <1>3, <1>6, <2>2, <3>1
  <2> QED
    BY <1>1, <2>1, <2>2
<1> QED
  BY <1>6, <1>7 DEF PutAt

-----------------------------------------------------------------------------
(* Samples that are put in and taken out. *)

\* The queues in order whose samples are in T.
Lines(T) == {q \in Seq(T) : Ordered(q)}

\* Those that are trimmed are not too long.
ShortLines(T) == {q \in Lines(T) : Len(q) <= MaxSize}

\* The members of T are samples.
Sampled(T) == T \subseteq [ts : Int, val : Int]

\* They are queues.
LEMMA LineIsQueue ==
    ASSUME NEW T, Sampled(T), NEW q \in Lines(T)
    PROVE  /\ q \in Queue /\ q \in Seq(T) /\ Ascends(q) /\ Ordered(q)
           /\ Len(q) \in Nat /\ DOMAIN q = 1 .. Len(q)
           /\ \A i \in 1 .. Len(q) : q[i] \in T /\ q[i].ts \in Int
<1>1. q \in Seq(T) /\ Ordered(q)
  BY DEF Lines
<1>2. q \in Queue
  BY <1>1, SeqMonotonic DEF Sampled, Queue
<1>3. Len(q) \in Nat /\ DOMAIN q = 1 .. Len(q) /\ \A i \in 1 .. Len(q) : q[i] \in T
  BY <1>1
<1>4. \A i \in 1 .. Len(q) : q[i].ts \in Int
  BY <1>2, QueueTimes
<1>5. Ascends(q)
  BY <1>1, <1>3, <1>4 DEF Ordered, Ascends
<1> QED
  BY <1>1, <1>2, <1>3, <1>4, <1>5

\* Place i is where a sample of time ts comes.
ComesAt(q, i, ts) == \A j \in 1 .. Len(q) : IF j < i THEN q[j].ts < ts ELSE q[j].ts > ts

\* A sample that is put where it comes.
LEMMA PutInLine ==
    ASSUME NEW T, Sampled(T), NEW q \in Lines(T), NEW s \in T,
           NEW i \in 1 .. Len(q) + 1, ComesAt(q, i, s.ts), NEW r, PutAt(T, q, i, s, r)
    PROVE  r \in Lines(T) /\ Len(r) = Len(q) + 1 /\ Samples(r) = Samples(q) \cup {s}
<1>1. /\ q \in Seq(T) /\ Ordered(q) /\ Len(q) \in Nat
      /\ \A j \in 1 .. Len(q) : q[j] \in T /\ q[j].ts \in Int
  BY LineIsQueue
<1>2. /\ s.ts \in Int
      /\ \A j \in 1 .. Len(q) : IF j < i THEN q[j].ts < s.ts ELSE q[j].ts > s.ts
  BY DEF Sampled, ComesAt
<1>3. /\ r \in Seq(T) /\ Len(r) = Len(q) + 1
      /\ \A j \in 1 .. Len(q) + 1 :
            r[j] = IF j < i THEN q[j] ELSE IF j = i THEN s ELSE q[j - 1]
  BY DEF PutAt
<1>4. ASSUME NEW j \in 1 .. Len(q) + 1, NEW k \in 1 .. Len(q) + 1, j < k
      PROVE  r[j].ts < r[k].ts
  <2>1. CASE k < i
    <3>1. j \in 1 .. Len(q) /\ k \in 1 .. Len(q) /\ j < i
      BY <1>1, <1>4, <2>1
    <3>2. r[j] = q[j] /\ r[k] = q[k]
      BY <1>2, <1>3, <2>1, <3>1
    <3> QED
      BY <1>1, <1>4, <3>1, <3>2 DEF Ordered
  <2>2. CASE k = i
    BY <1>1, <1>2, <1>3, <1>4, <2>2
  <2>3. CASE k > i
    <3>1. k - 1 \in 1 .. Len(q) /\ r[k] = q[k - 1] /\ q[k - 1].ts > s.ts
      BY <1>1, <1>2, <1>3, <2>3
    <3>2. CASE j > i
      <4>1. j - 1 \in 1 .. Len(q) /\ r[j] = q[j - 1] /\ j - 1 < k - 1
        BY <1>1, <1>2, <1>3, <1>4, <3>2
      <4> QED
        BY <1>1, <3>1, <4>1 DEF Ordered
    <3>3. CASE j = i
      BY <1>2, <1>3, <3>1, <3>3
    <3>4. CASE j < i
      <4>1. j \in 1 .. Len(q) /\ r[j] = q[j] /\ j < k - 1
        BY <1>1, <1>2, <1>3, <1>4, <2>3, <3>4
      <4> QED
        BY <1>1, <3>1, <4>1 DEF Ordered
    <3> QED
      BY <3>2, <3>3, <3>4
  <2> QED
    BY <2>1, <2>2, <2>3
<1>5. r \in Lines(T)
  BY <1>2, <1>3, <1>4 DEF Lines, Ordered
<1>6. Samples(r) \subseteq Samples(q) \cup {s}
  <2> SUFFICES ASSUME NEW j \in 1 .. Len(q) + 1 PROVE r[j] \in Samples(q) \cup {s}
    BY <1>3 DEF Samples
  <2>1. j < i => j \in 1 .. Len(q)
    BY <1>1
  <2>2. j > i => j - 1 \in 1 .. Len(q)
    BY <1>1
  <2> QED
    BY <1>2, <1>3, <2>1, <2>2 DEF Samples
<1>7. Samples(q) \cup {s} \subseteq Samples(r)
  <2>1. s = r[i]
    BY <1>3
  <2>2. ASSUME NEW j \in 1 .. Len(q) PROVE \E k \in 1 .. Len(q) + 1 : q[j] = r[k]
    <3>1. CASE j < i
      <4>1. j \in 1 .. Len(q) + 1 /\ r[j] = q[j]
        BY <1>1, <1>2, <1>3, <3>1
      <4> QED
        BY <4>1
    <3>2. CASE j >= i
      <4>1. j + 1 \in 1 .. Len(q) + 1 /\ j + 1 > i /\ (j + 1) - 1 = j
        BY <1>1, <3>2
      <4>2. ~(j + 1 < i) /\ j + 1 # i
        BY <1>1, <3>2
      <4>3. r[j + 1] = q[j]
        BY <1>2, <1>3, <4>1, <4>2
      <4> QED
        BY <4>1, <4>3
    <3> QED
      BY <3>1, <3>2
  <2> QED
    BY <1>2, <1>3, <2>1, <2>2 DEF Samples
<1> QED
  BY <1>2, <1>3, <1>5, <1>6, <1>7

\* The first sample is the one that makes room.
LEMMA TailOfLine ==
    ASSUME NEW T, Sampled(T), NEW q \in Lines(T), q # <<>>
    PROVE  /\ Tail(q) \in Lines(T) /\ Len(Tail(q)) = Len(q) - 1
           /\ q[1] \in T /\ Samples(q) = Samples(Tail(q)) \cup {q[1]}
           /\ \A s \in Samples(Tail(q)) : s.ts > q[1].ts
<1>1. /\ q \in Seq(T) /\ Ordered(q) /\ Len(q) \in Nat /\ Len(q) > 0
      /\ \A j \in 1 .. Len(q) : q[j] \in T /\ q[j].ts \in Int
  <2>1. q \in Seq(T)
    BY LineIsQueue
  <2>2. Len(q) # 0
    BY <2>1
  <2> QED
    BY <2>2, LineIsQueue
<1>2. /\ Tail(q) \in Seq(T) /\ Len(Tail(q)) = Len(q) - 1
      /\ \A j \in 1 .. Len(q) - 1 : Tail(q)[j] = q[j + 1]
  BY <1>1
<1> DEFINE r == Tail(q)
<1> HIDE DEF r
<1>3. ASSUME NEW j \in 1 .. Len(q) - 1 PROVE j + 1 \in 1 .. Len(q) /\ 1 < j + 1
  BY <1>1
<1>4. Ordered(r)
  <2>1. ASSUME NEW j \in 1 .. Len(q) - 1, NEW k \in 1 .. Len(q) - 1, j < k
        PROVE  r[j].ts < r[k].ts
    <3>1. j + 1 < k + 1
      BY <2>1
    <3> QED
      BY <1>1, <1>2, <1>3, <3>1 DEF Ordered, r
  <2> QED
    BY <1>2, <2>1 DEF Ordered, r
<1>5. Samples(q) = Samples(r) \cup {q[1]}
  <2>1. ASSUME NEW j \in 1 .. Len(q), j # 1
        PROVE  j - 1 \in 1 .. Len(q) - 1 /\ r[j - 1] = q[j]
    BY <1>1, <1>2, <2>1 DEF r
  <2> QED
    BY <1>1, <1>2, <1>3, <2>1 DEF Samples, r
<1>6. \A s \in Samples(r) : s.ts > q[1].ts
  BY <1>1, <1>2, <1>3 DEF Samples, Ordered, r
<1> QED
  BY <1>1, <1>2, <1>4, <1>5, <1>6 DEF Lines, r

\* r is q with s taken: nothing changes if there is a sample of that time, and
\* where there is no room the oldest of them makes it.
TakesOne(T, q, s, r) ==
    /\ r \in ShortLines(T)
    /\ \/ r = q /\ \E t \in Samples(q) : t.ts = s.ts
       \/ /\ \A t \in Samples(q) : t.ts # s.ts
          /\ Len(q) < MaxSize /\ Samples(r) = Samples(q) \cup {s}
       \/ /\ \A t \in Samples(q) : t.ts # s.ts
          /\ Len(q) = MaxSize /\ Len(r) = MaxSize
          /\ \E m : /\ Samples(q) \cup {s} = Samples(r) \cup {m}
                    /\ \A x \in Samples(r) : x.ts > m.ts

\* That is what the crawls and merges do with a sample.
LEMMA TakenExactly ==
    ASSUME NEW T, Sampled(T), NEW q \in ShortLines(T), NEW s \in T,
           NEW r, r = Taken(q, s)
    PROVE  TakesOne(T, q, s, r)
<1>1. q \in Lines(T) /\ Len(q) <= MaxSize /\ Len(q) \in Nat /\ MaxSize \in Nat
  BY LineIsQueue, SampleQueueAssumption DEF ShortLines
<1>2. s.ts \in Int /\ \A i \in 1 .. Len(q) : q[i].ts \in Int
  BY <1>1, LineIsQueue DEF Sampled
<1> DEFINE p == InsertPlace(q, 1, Len(q), s.ts)
           t == InsertedAt(q, p.at, s)
<1>3. Placed(q, s.ts, p) /\ p.dup \in BOOLEAN
  <2>1. q \in Queue /\ Ascends(q)
    BY <1>1, LineIsQueue
  <2> QED
    BY <1>2, <2>1, PlaceInAll
<1>4. r = Evicted(IF p.dup THEN q ELSE t)
  BY DEF Taken
<1> HIDE DEF p
<1>5. CASE p.dup
  <2>1. p.at \in 1 .. Len(q) /\ q[p.at].ts = s.ts
    BY <1>3, <1>5 DEF Placed
  <2>2. r = q
    BY <1>1, <1>4, <1>5 DEF Evicted
  <2> QED
    BY <2>1, <2>2 DEF TakesOne, Samples
<1>6. CASE ~p.dup
  <2>1. /\ p.at \in 1 .. Len(q) + 1 /\ q \in Seq(T)
        /\ \A i \in 1 .. Len(q) : IF i < p.at THEN q[i].ts < s.ts ELSE q[i].ts > s.ts
    BY <1>1, <1>3, <1>6, LineIsQueue DEF Placed
  <2>2. PutAt(T, q, p.at, s, t)
    BY <2>1, InsertedAtPlaces
  <2> HIDE DEF t
  <2>3. t \in Lines(T) /\ Len(t) = Len(q) + 1 /\ Samples(t) = Samples(q) \cup {s}
    <3> DEFINE k == p.at
    <3>1. k \in 1 .. Len(q) + 1 /\ ComesAt(q, k, s.ts) /\ PutAt(T, q, k, s, t)
      BY <2>1, <2>2 DEF ComesAt
    <3> HIDE DEF k
    <3> QED
      BY <1>1, <3>1, PutInLine
  <2>4. \A x \in Samples(q) : x.ts # s.ts
    BY <1>2, <2>1 DEF Samples
  <2>5. r = Evicted(t)
    BY <1>4, <1>6
  <2>6. CASE Len(q) < MaxSize
    <3>1. r = t /\ Len(t) <= MaxSize
      BY <1>1, <2>3, <2>5, <2>6 DEF Evicted
    <3> QED
      BY <2>3, <2>4, <2>6, <3>1 DEF TakesOne, ShortLines
  <2>7. CASE ~(Len(q) < MaxSize)
    <3>1. Len(q) = MaxSize /\ t # <<>>
      <4>1. t = <<>> => Len(t) = 0
        OBVIOUS
      <4> QED
        BY <1>1, <2>3, <2>7, <4>1
    <3>2. r = Tail(t)
      BY <1>1, <2>3, <2>5, <3>1 DEF Evicted
    <3>3. /\ r \in Lines(T) /\ Len(r) = MaxSize
          /\ Samples(t) = Samples(r) \cup {t[1]}
          /\ \A x \in Samples(r) : x.ts > t[1].ts
      BY <1>1, <2>3, <3>1, <3>2, TailOfLine
    <3>4. r \in ShortLines(T)
      BY <1>1, <3>3 DEF ShortLines
    <3> QED
      BY <2>3, <2>4, <3>1, <3>3, <3>4 DEF TakesOne
  <2> QED
    BY <2>6, <2>7
<1> QED
  BY <1>3, <1>5, <1>6

\* The queue stays in order, and no longer than it may be.
LEMMA TakenInLine ==
    ASSUME NEW T, Sampled(T), NEW q \in ShortLines(T), NEW s \in T,
           NEW r, r = Taken(q, s)
    PROVE  r \in ShortLines(T)
BY TakenExactly DEF TakesOne

-----------------------------------------------------------------------------
(* Queues that take many samples. *)

\* The queue after each sample that is taken.
TakesAll(T, q, new, f) ==
    /\ f[0] = q /\ TakenAll(q, new) = f[Len(new)]
    /\ \A i \in 0 .. Len(new) : f[i] \in ShortLines(T)
    /\ \A i \in 1 .. Len(new) : f[i] = Taken(f[i - 1], new[i])

\* The recursion of crawl_samples_from_xs is well defined.
LEMMA TakenAllSteps ==
    ASSUME NEW T, Sampled(T), NEW q \in ShortLines(T), NEW new \in Seq(T)
    PROVE  \E f : TakesAll(T, q, new, f)
<1> DEFINE S == ShortLines(T)
           n == Len(new)
           step == [i \in 1 .. n |-> [x \in S |-> Taken(x, new[i])]]
           Good(f) == f = [i \in 0 .. n |-> IF i = 0 THEN q ELSE Taken(f[i - 1], new[i])]
<1>1. q \in S /\ n \in Nat /\ \A i \in 1 .. n : new[i] \in T
  OBVIOUS
<1>2. step \in [1 .. n -> [S -> S]]
  <2>1. ASSUME NEW i \in 1 .. n, NEW x \in S PROVE Taken(x, new[i]) \in S
    BY <1>1, TakenInLine
  <2> HIDE DEF S
  <2> QED
    BY <2>1
<1> HIDE DEF S
<1>3. PICK g \in [0 .. n -> S] : g[0] = q /\ \A i \in 1 .. n : g[i] = step[i][g[i - 1]]
  <2>1. Carries(S, q, n, step)
    <3> HIDE DEF step
    <3> QED
      BY <1>1, <1>2 DEF Carries
  <2> HIDE DEF step, n
  <2> QED
    BY <2>1, Iteration
<1>4. Good(g)
  <2>1. ASSUME NEW i \in 0 .. n, i # 0 PROVE g[i] = Taken(g[i - 1], new[i])
    <3>1. i \in 1 .. n /\ i - 1 \in 0 .. n /\ g[i - 1] \in S
      BY <1>1, <2>1
    <3>2. step[i][g[i - 1]] = Taken(g[i - 1], new[i])
      BY <3>1
    <3> HIDE DEF step
    <3> QED
      BY <1>3, <3>1, <3>2
  <2> QED
    BY <1>3, <2>1
<1> DEFINE f == CHOOSE f : Good(f)
<1>5. Good(f)
  <2> HIDE DEF Good
  <2> QED
    BY <1>4
<1>6. TakenAll(q, new) = f[n]
  BY DEF TakenAll
<1> HIDE DEF f
<1>7. f[0] = q /\ \A i \in 1 .. n : f[i] = Taken(f[i - 1], new[i])
  BY <1>1, <1>5
<1> DEFINE B == {k \in Nat : k <= n => f[k] \in S}
<1>8. 0 \in B
  BY <1>1, <1>7
<1>9. ASSUME NEW k \in Nat, k \in B PROVE k + 1 \in B
  <2> SUFFICES ASSUME k + 1 <= n PROVE f[k + 1] \in S
    OBVIOUS
  <2>1. k + 1 \in 1 .. n /\ (k + 1) - 1 = k /\ f[k] \in S
    BY <1>1, <1>9
  <2>2. f[k + 1] = Taken(f[k], new[k + 1])
    BY <1>7, <2>1
  <2> QED
    BY <1>1, <2>1, <2>2, TakenInLine DEF S
<1>10. \A i \in 0 .. n : f[i] \in S
  <2>1. Nat \subseteq B
    <3> HIDE DEF B
    <3> QED
      BY <1>8, <1>9, Induction
  <2> QED
    BY <1>1, <2>1
<1> QED
  BY <1>6, <1>7, <1>10 DEF TakesAll, S

\* They leave the queue in order, and no longer than it may be.
LEMMA TakenAllInLine ==
    ASSUME NEW T, Sampled(T), NEW q \in ShortLines(T), NEW new \in Seq(T)
    PROVE  TakenAll(q, new) \in ShortLines(T)
<1>1. PICK f : TakesAll(T, q, new, f)
  BY TakenAllSteps
<1>2. Len(new) \in 0 .. Len(new)
  OBVIOUS
<1> QED
  BY <1>1, <1>2 DEF TakesAll

\* insert_sample keeps the order of a queue, however long it is, and leaves in it
\* what was there and a sample of the time of s.
LEMMA InsertedInLine ==
    ASSUME NEW T, Sampled(T), NEW q \in Lines(T), NEW s \in T,
           NEW r, r = Inserted(q, s)
    PROVE  /\ r \in Lines(T)
           /\ \/ Samples(r) = Samples(q) /\ \E t \in Samples(q) : t.ts = s.ts
              \/ Samples(r) = Samples(q) \cup {s}
<1>1. /\ q \in Queue /\ q \in Seq(T) /\ Ascends(q) /\ Ordered(q) /\ Len(q) \in Nat
      /\ \A j \in 1 .. Len(q) : q[j] \in T /\ q[j].ts \in Int
  BY LineIsQueue
<1>2. s.ts \in Int
  BY DEF Sampled
<1>3. CASE q = <<>> \/ s.ts > LastOf(q).ts
  <2>1. r = Append(q, s)
    BY <1>3 DEF Inserted
  <2>2. PutAt(T, q, Len(q) + 1, s, r)
    <3>1. \A j \in 1 .. Len(q) : r[j] = q[j]
      BY <1>1, <2>1
    <3>2. r \in Seq(T) /\ Len(r) = Len(q) + 1 /\ r[Len(q) + 1] = s
      BY <1>1, <2>1
    <3>3. \A j \in 1 .. Len(q) + 1 : j < Len(q) + 1 => j \in 1 .. Len(q)
      BY <1>1
    <3>4. \A j \in 1 .. Len(q) + 1 : ~(j < Len(q) + 1) => j = Len(q) + 1
      BY <1>1
    <3> QED
      BY <3>1, <3>2, <3>3, <3>4 DEF PutAt
  <2>3. \A j \in 1 .. Len(q) : j < Len(q) + 1 /\ q[j].ts < s.ts
    BY <1>1, <1>2, <1>3 DEF Ascends, LastOf
  <2>4. Len(q) + 1 \in 1 .. Len(q) + 1 /\ ComesAt(q, Len(q) + 1, s.ts)
    BY <1>1, <2>3 DEF ComesAt
  <2> QED
    BY <2>2, <2>4, PutInLine
<1>4. CASE q # <<>> /\ ~(s.ts > LastOf(q).ts) /\ s.ts < q[1].ts
  <2>1. r = <<s>> \o q
    BY <1>4 DEF Inserted
  <2>2. PutAt(T, q, 1, s, r)
    <3>1. <<s>> \in Seq(T) /\ Len(<<s>>) = 1 /\ <<s>>[1] = s
      OBVIOUS
    <3>2. /\ r \in Seq(T) /\ Len(r) = Len(q) + 1
          /\ \A j \in 1 .. 1 + Len(q) : r[j] = IF j <= 1 THEN s ELSE q[j - 1]
      BY <1>1, <2>1, <3>1, ConcatProperties
    <3>3. \A j \in 1 .. Len(q) + 1 : ~(j < 1) /\ (j <= 1 <=> j = 1) /\ j \in 1 .. 1 + Len(q)
      BY <1>1
    <3> QED
      BY <3>2, <3>3 DEF PutAt
  <2>3. \A j \in 1 .. Len(q) : ~(j < 1) /\ q[j].ts > s.ts
    BY <1>1, <1>2, <1>4 DEF Ascends
  <2>4. 1 \in 1 .. Len(q) + 1 /\ ComesAt(q, 1, s.ts)
    BY <1>1, <2>3 DEF ComesAt
  <2> QED
    BY <2>2, <2>4, PutInLine
<1>5. CASE q # <<>> /\ ~(s.ts > LastOf(q).ts) /\ ~(s.ts < q[1].ts)
  <2> DEFINE end == Halve(q, 1, Len(q), s.ts)
  <2>1. r = IF end.found THEN q ELSE InsertedAt(q, end.lo, s)
    BY <1>5 DEF Inserted
  <2>2. Ends(q, s.ts, end) /\ end.found \in BOOLEAN
    <3>1. 1 \in 1 .. Len(q) + 1 /\ Len(q) \in 0 .. Len(q) /\ 1 <= Len(q) + 1
      BY <1>1
    <3>2. \A i \in 1 .. Len(q) : ~(i < 1) /\ ~(i > Len(q))
      BY <1>1
    <3> QED
      BY <1>1, <1>2, <3>1, <3>2, HalveEnds
  <2> HIDE DEF end
  <2>3. CASE end.found
    <3>1. r = q /\ end.lo \in 1 .. Len(q) /\ q[end.lo].ts = s.ts
      BY <2>1, <2>2, <2>3 DEF Ends
    <3> QED
      BY <3>1 DEF Samples
  <2>4. CASE ~end.found
    <3>1. /\ end.lo \in 1 .. Len(q) + 1 /\ r = InsertedAt(q, end.lo, s)
          /\ \A j \in 1 .. Len(q) : IF j < end.lo THEN q[j].ts < s.ts ELSE q[j].ts > s.ts
      BY <2>1, <2>2, <2>4 DEF Ends
    <3>2. PutAt(T, q, end.lo, s, r)
      BY <1>1, <3>1, InsertedAtPlaces
    <3>3. end.lo \in 1 .. Len(q) + 1 /\ ComesAt(q, end.lo, s.ts)
      BY <3>1 DEF ComesAt
    <3> QED
      BY <3>2, <3>3, PutInLine
  <2> QED
    BY <2>2, <2>3, <2>4
<1> QED
  BY <1>3, <1>4, <1>5

-----------------------------------------------------------------------------
(* The searches are exact in a queue that is in order. *)

\* A place divides the earlier samples from the others.
LEMMA PlaceDivides ==
    ASSUME NEW T, Sampled(T), NEW q \in Lines(T), NEW ts \in Int, NEW p, Placed(q, ts, p)
    PROVE  /\ p.at \in 1 .. Len(q) + 1
           /\ \A i \in 1 .. Len(q) : q[i].ts >= ts <=> i >= p.at
<1>1. /\ Ordered(q) /\ Len(q) \in Nat /\ \A i \in 1 .. Len(q) : q[i].ts \in Int
  BY LineIsQueue
<1>2. CASE p.dup
  <2>1. p.at \in 1 .. Len(q) /\ q[p.at].ts = ts
    BY <1>2 DEF Placed
  <2>2. ASSUME NEW i \in 1 .. Len(q) PROVE q[i].ts >= ts <=> i >= p.at
    <3>1. i < p.at => q[i].ts < ts
      BY <1>1, <2>1 DEF Ordered
    <3>2. i > p.at => q[i].ts > ts
      BY <1>1, <2>1 DEF Ordered
    <3> QED
      BY <1>1, <2>1, <3>1, <3>2
  <2> QED
    BY <1>1, <2>1, <2>2
<1>3. CASE ~p.dup
  <2>1. /\ p.at \in 1 .. Len(q) + 1
        /\ \A i \in 1 .. Len(q) : IF i < p.at THEN q[i].ts < ts ELSE q[i].ts > ts
    BY <1>3 DEF Placed
  <2> QED
    BY <1>1, <2>1
<1> QED
  BY <1>2, <1>3

\* return_insert_index, from the first place on.
LEMMA FirstPlace ==
    ASSUME NEW T, Sampled(T), NEW q \in Lines(T), NEW ts \in Int,
           NEW k, k = InsertPlace(q, 1, Len(q), ts).at
    PROVE  k \in 1 .. Len(q) + 1 /\ \A i \in 1 .. Len(q) : q[i].ts >= ts <=> i >= k
<1> DEFINE p == InsertPlace(q, 1, Len(q), ts)
<1>1. q \in Queue /\ Ascends(q)
  BY LineIsQueue
<1>2. Placed(q, ts, p)
  BY <1>1, PlaceInAll
<1> HIDE DEF p
<1>3. p.at \in 1 .. Len(q) + 1 /\ \A i \in 1 .. Len(q) : q[i].ts >= ts <=> i >= p.at
  BY <1>2, PlaceDivides
<1>4. k = p.at
  BY DEF p
<1> QED
  BY <1>3, <1>4

\* average_value_since_ts.
LEMMA SinceRight ==
    ASSUME NEW T, Sampled(T), NEW q \in Lines(T), NEW ts \in Int
    PROVE  SinceExact(q, ts)
<1> DEFINE k == InsertPlace(q, 1, Len(q), ts).at
<1>1. k \in 1 .. Len(q) + 1 /\ (\A i \in 1 .. Len(q) : q[i].ts >= ts <=> i >= k)
      /\ Len(q) \in Nat
  BY FirstPlace, LineIsQueue
<1>2. SincePlaces(q, ts) = k .. Len(q)
  BY DEF SincePlaces
<1> HIDE DEF k
<1>3. k .. Len(q) = {i \in 1 .. Len(q) : q[i].ts >= ts}
  BY <1>1
<1> QED
  BY <1>2, <1>3 DEF SinceExact

\* range_average.
LEMMA RangeRight ==
    ASSUME NEW T, Sampled(T), NEW q \in Lines(T), NEW start \in Int, NEW end \in Int, start < end
    PROVE  RangeExact(q, start, end)
<1> DEFINE first == InsertPlace(q, 1, Len(q), start).at
           low == IF first < Len(q) THEN first ELSE Len(q)
           p == InsertPlace(q, low, Len(q), end)
<1>1. /\ q \in Queue /\ Ascends(q) /\ Ordered(q) /\ Len(q) \in Nat
      /\ \A i \in 1 .. Len(q) : q[i].ts \in Int
  BY LineIsQueue
<1>2. first \in 1 .. Len(q) + 1 /\ \A i \in 1 .. Len(q) : q[i].ts >= start <=> i >= first
  BY FirstPlace
<1>3. RangePlaces(q, start, end) = {i \in first .. p.at - 1 : i < Len(q)}
  BY DEF RangePlaces
<1> HIDE DEF first
<1>4. {i \in first .. p.at - 1 : i < Len(q)} =
          {i \in 1 .. Len(q) - 1 : q[i].ts >= start /\ q[i].ts < end}
  <2>1. CASE q = <<>>
    <3>1. p.at = 1 /\ Len(q) = 0
      BY <2>1 DEF InsertPlace
    <3> HIDE DEF p
    <3> QED
      BY <1>2, <3>1
  <2>2. CASE q # <<>> /\ end < q[low].ts
    <3>1. p.at = 1
      BY <2>2 DEF InsertPlace
    <3> HIDE DEF p
    <3>2. low \in 1 .. Len(q)
      BY <1>1, <1>2, <2>2 DEF Queue
    <3>3. ASSUME NEW i \in 1 .. Len(q) - 1, q[i].ts >= start, q[i].ts < end PROVE FALSE
      <4>1. i \in 1 .. Len(q) /\ i >= first
        BY <1>1, <1>2, <3>3
      <4>2. low <= i
        BY <1>1, <1>2, <4>1
      <4>3. q[low].ts <= q[i].ts
        BY <1>1, <3>2, <4>1, <4>2 DEF Ascends
      <4> QED
        BY <1>1, <2>2, <3>2, <3>3, <4>1, <4>3
    <3> HIDE DEF low
    <3> QED
      BY <1>1, <1>2, <3>1, <3>3
  <2>3. CASE q # <<>> /\ ~(end < q[low].ts)
    <3>1. low \in 1 .. Len(q)
      BY <1>1, <1>2, <2>3 DEF Queue
    <3>2. q[low].ts <= end /\ \A i \in 1 .. Len(q) : i < low => q[i].ts < end
      BY <1>1, <2>3, <3>1 DEF Ordered
    <3> HIDE DEF low
    <3>3. Placed(q, end, p)
      BY <1>1, <2>3, <3>1, <3>2, PlaceFrom
    <3> HIDE DEF p
    <3>4. p.at \in 1 .. Len(q) + 1 /\ \A i \in 1 .. Len(q) : q[i].ts >= end <=> i >= p.at
      BY <3>3, PlaceDivides
    <3>5. ASSUME NEW i \in Int
          PROVE  (i \in first .. p.at - 1 /\ i < Len(q))
                     <=> (i \in 1 .. Len(q) - 1 /\ q[i].ts >= start /\ q[i].ts < end)
      <4>1. CASE i \in 1 .. Len(q)
        <5>1. (q[i].ts >= start <=> i >= first) /\ (q[i].ts < end <=> i < p.at)
          BY <1>1, <1>2, <3>4, <4>1
        <5> QED
          BY <1>1, <1>2, <3>4, <4>1, <5>1
      <4>2. CASE i \notin 1 .. Len(q)
        BY <1>1, <1>2, <3>4, <4>2
      <4> QED
        BY <4>1, <4>2
    <3>6. first .. p.at - 1 \subseteq Int /\ 1 .. Len(q) - 1 \subseteq Int
      BY <1>1, <1>2, <3>4
    <3> QED
      BY <3>5, <3>6
  <2> QED
    BY <2>1, <2>2, <2>3
<1> QED
  BY <1>3, <1>4 DEF RangeExact

\* get_nearst_data_point.
LEMMA NearestRight ==
    ASSUME NEW T, Sampled(T), NEW q \in Lines(T), q # <<>>, NEW ts \in Int
    PROVE  NearestIsNearest(q, ts)
<1> DEFINE n == Len(q)
<1>1. /\ q \in Queue /\ Ascends(q) /\ Ordered(q) /\ n \in Nat /\ n > 0
      /\ \A i \in 1 .. n : q[i].ts \in Int
  <2>1. q \in Seq(T)
    BY LineIsQueue
  <2>2. Len(q) # 0
    BY <2>1
  <2> QED
    BY <2>2, LineIsQueue
<1> SUFFICES \E k \in 1 .. n : /\ Nearest(q, ts) = q[k]
                               /\ \A i \in 1 .. n : Away(q[k].ts, ts) <= Away(q[i].ts, ts)
  BY DEF NearestIsNearest, Samples
<1>2. CASE ts < q[1].ts
  <2>1. Nearest(q, ts) = q[1]
    BY <1>2 DEF Nearest
  <2>2. 1 \in 1 .. n
    BY <1>1
  <2>3. ASSUME NEW i \in 1 .. n PROVE Away(q[1].ts, ts) <= Away(q[i].ts, ts)
    <3>1. q[1].ts <= q[i].ts /\ q[1].ts \in Int /\ q[i].ts \in Int
      BY <1>1, <2>2 DEF Ascends
    <3> QED
      BY <1>2, <3>1 DEF Away
  <2> QED
    BY <2>1, <2>2, <2>3
<1>3. CASE ~(ts < q[1].ts) /\ ts > LastOf(q).ts
  <2>1. Nearest(q, ts) = q[n]
    BY <1>3 DEF Nearest, LastOf
  <2>2. n \in 1 .. n
    BY <1>1
  <2>3. ASSUME NEW i \in 1 .. n PROVE Away(q[n].ts, ts) <= Away(q[i].ts, ts)
    <3>1. q[n].ts >= q[i].ts /\ q[n].ts \in Int /\ q[i].ts \in Int
      BY <1>1, <2>2 DEF Ascends
    <3> QED
      BY <1>3, <3>1 DEF Away, LastOf
  <2> QED
    BY <2>1, <2>2, <2>3
<1>4. CASE ~(ts < q[1].ts) /\ ~(ts > LastOf(q).ts)
  <2> DEFINE end == Halve(q, 1, n, ts)
  <2>1. Nearest(q, ts) = IF ts - q[end.hi].ts <= q[end.lo].ts - ts THEN q[end.hi] ELSE q[end.lo]
    BY <1>4 DEF Nearest
  <2>2. Ends(q, ts, end) /\ end.found \in BOOLEAN
    <3>1. 1 \in 1 .. n + 1 /\ n \in 0 .. n /\ 1 <= n + 1
      BY <1>1
    <3>2. \A i \in 1 .. n : ~(i < 1) /\ ~(i > n)
      BY <1>1
    <3> QED
      BY <1>1, <3>1, <3>2, HalveEnds
  <2> HIDE DEF end
  <2>3. CASE end.found
    <3>1. end.lo \in 1 .. n /\ end.hi = end.lo /\ q[end.lo].ts = ts
      BY <2>2, <2>3 DEF Ends
    <3>2. Nearest(q, ts) = q[end.lo]
      BY <2>1, <3>1
    <3>3. \A i \in 1 .. n : Away(q[end.lo].ts, ts) <= Away(q[i].ts, ts)
      BY <1>1, <3>1 DEF Away
    <3> QED
      BY <3>1, <3>2, <3>3
  <2>4. CASE ~end.found
    <3>1. /\ end.lo \in 1 .. n + 1 /\ end.hi = end.lo - 1
          /\ \A i \in 1 .. n : IF i < end.lo THEN q[i].ts < ts ELSE q[i].ts > ts
      BY <2>2, <2>4 DEF Ends
    <3>2. end.lo # 1
      <4>1. 1 \in 1 .. n /\ ~(q[1].ts > ts)
        BY <1>1, <1>4
      <4> QED
        BY <3>1, <4>1
    <3>3. end.lo # n + 1
      <4>1. n \in 1 .. n /\ n < n + 1 /\ ~(q[n].ts < ts)
        BY <1>1, <1>4 DEF LastOf
      <4> QED
        BY <3>1, <4>1
    <3> DEFINE a == end.hi
               b == end.lo
    <3>4. /\ a \in 1 .. n /\ b \in 1 .. n /\ a = b - 1 /\ q[a].ts < ts /\ q[b].ts > ts
          /\ q[a].ts \in Int /\ q[b].ts \in Int
      BY <1>1, <3>1, <3>2, <3>3
    <3> HIDE DEF a, b
    <3>5. ASSUME NEW i \in 1 .. n PROVE q[i].ts <= q[a].ts \/ q[i].ts >= q[b].ts
      <4>1. i <= a \/ i >= b
        BY <3>4
      <4> QED
        BY <1>1, <3>4, <4>1 DEF Ascends
    <3>6. ASSUME NEW i \in 1 .. n
          PROVE  /\ ts - q[a].ts <= Away(q[i].ts, ts) \/ q[b].ts - ts <= Away(q[i].ts, ts)
                 /\ Away(q[a].ts, ts) = ts - q[a].ts /\ Away(q[b].ts, ts) = q[b].ts - ts
                 /\ Away(q[i].ts, ts) \in Int
      <4>1. q[i].ts \in Int
        BY <1>1
      <4>2. Away(q[a].ts, ts) = ts - q[a].ts /\ Away(q[b].ts, ts) = q[b].ts - ts
        BY <3>4 DEF Away
      <4>3. CASE q[i].ts <= q[a].ts
        <5>1. Away(q[i].ts, ts) = ts - q[i].ts
          BY <3>4, <4>1, <4>3 DEF Away
        <5> QED
          BY <3>4, <4>1, <4>2, <4>3, <5>1
      <4>4. CASE q[i].ts >= q[b].ts
        <5>1. Away(q[i].ts, ts) = q[i].ts - ts
          BY <3>4, <4>1, <4>4 DEF Away
        <5>2. q[b].ts - ts <= q[i].ts - ts /\ q[i].ts - ts \in Int
          BY <3>4, <4>1, <4>4
        <5> QED
          BY <4>2, <5>1, <5>2
      <4> QED
        BY <3>5, <4>3, <4>4
    <3>7. CASE ts - q[a].ts <= q[b].ts - ts
      <4>1. Nearest(q, ts) = q[a]
        BY <2>1, <3>7 DEF a, b
      <4>2. \A i \in 1 .. n : Away(q[a].ts, ts) <= Away(q[i].ts, ts)
        BY <3>4, <3>6, <3>7
      <4> QED
        BY <3>4, <4>1, <4>2
    <3>8. CASE ~(ts - q[a].ts <= q[b].ts - ts)
      <4>1. Nearest(q, ts) = q[b]
        BY <2>1, <3>8 DEF a, b
      <4>2. \A i \in 1 .. n : Away(q[b].ts, ts) <= Away(q[i].ts, ts)
        BY <3>4, <3>6, <3>8
      <4> QED
        BY <3>4, <4>1, <4>2
    <3> QED
      BY <3>7, <3>8
  <2> QED
    BY <2>2, <2>3, <2>4
<1> QED
  BY <1>2, <1>3, <1>4
-----------------------------------------------------------------------------
(* The state. *)

\* Samples with a time of the clock, and those of a bandwidth.
Timed == [ts : 1 .. MaxTime, val : Int]
Measured == [ts : 1 .. MaxTime, val : Nat]

\* The vCPUs of a guest's node.
Vcpus(vm) == DOMAIN Loads[vm]

\* The queues of the vCPUs of a node.
Deques(D) == [D -> {q \in Seq(Timed) : Len(q) <= LocalSize}]

\* What the queues are at any time, those that the type invariant leaves out included.
QueuesOK ==
    /\ now \in 1 .. MaxTime /\ sampled \in 0 .. now
    /\ arrived \subseteq Vm /\ owner \in arrived \cup {NoOwner}
    /\ ring \in [Vm -> Seq(Measured)]
    /\ \A vm \in Vm : local[vm] \in Deques(Vcpus(vm))
    /\ cpu \in [Vm -> ShortLines(Timed)]
    /\ node \in ShortLines(Timed) /\ share \in [Vm -> Lines(Timed)]

\* They hold samples.
LEMMA Sampling == Sampled(Timed) /\ Sampled(Measured) /\ Measured \subseteq Timed
<1>1. 1 .. MaxTime \subseteq Int
  BY SampleQueueAssumption
<1> QED
  BY <1>1 DEF Sampled, Timed, Measured

\* The empty queue is in order.
LEMMA EmptyLine == ASSUME NEW S PROVE <<>> \in ShortLines(S)
<1>1. <<>> \in Seq(S) /\ Len(<<>>) = 0 /\ 0 <= MaxSize
  BY SampleQueueAssumption
<1>2. \A i \in 1 .. 0 : FALSE
  OBVIOUS
<1>3. Ordered(<<>>)
  BY <1>1, <1>2 DEF Ordered
<1> QED
  BY <1>1, <1>3 DEF ShortLines, Lines

\* The order of a queue does not depend on what its samples are.
LEMMA LineOfMore ==
    ASSUME NEW S, NEW U, S \subseteq U, NEW q \in ShortLines(S)
    PROVE  q \in ShortLines(U)
<1>1. q \in Seq(U)
  BY DEF ShortLines, Lines
<1> QED
  BY <1>1 DEF ShortLines, Lines

\* The initial state.
LEMMA InitQueuesOK == Init => QueuesOK
<1> SUFFICES ASSUME Init PROVE QueuesOK
  OBVIOUS
<1>1. <<>> \in ShortLines(Timed) /\ <<>> \in Lines(Timed)
  BY EmptyLine DEF ShortLines
<1>2. \A vm \in Vm : local[vm] \in Deques(Vcpus(vm))
  <2>1. \A S : <<>> \in Seq(S) /\ Len(<<>>) = 0 /\ 0 <= LocalSize
    BY BandwidthAssumption
  <2> QED
    BY <2>1 DEF Init, Deques, Vcpus
<1> QED
  BY <1>1, <1>2, SampleQueueAssumption DEF Init, QueuesOK

\* The guest measures: all of its slots still hold samples.
LEMMA MeasureQueuesOK ==
    ASSUME QueuesOK, NEW val \in Values, Measure(val)
    PROVE  QueuesOK'
<1>1. Sample(now, val) \in Measured
  BY BandwidthAssumption DEF QueuesOK, Sample, Measured
<1> DEFINE stored == ring[owner]
           times == {stored[i].ts : i \in 1 .. Len(stored)}
           new == IF Len(stored) < RingSize THEN Append(stored, Sample(now, val))
                  ELSE [i \in 1 .. RingSize |->
                           IF stored[i].ts = Min(times) THEN Sample(now, val) ELSE stored[i]]
<1>2. owner \in Vm /\ stored \in Seq(Measured)
  BY DEF QueuesOK, Measure
<1>3. new \in Seq(Measured)
  <2> HIDE DEF times
  <2>1. CASE Len(stored) < RingSize
    BY <1>1, <1>2, <2>1
  <2>2. CASE ~(Len(stored) < RingSize)
    <3>1. RingSize \in Nat /\ \A i \in 1 .. RingSize : stored[i] \in Measured
      BY <1>2, <2>2, BandwidthAssumption
    <3>2. new \in [1 .. RingSize -> Measured]
      BY <1>1, <2>2, <3>1
    <3> HIDE DEF new
    <3> QED
      BY <3>1, <3>2
  <2> QED
    BY <2>1, <2>2
<1>4. ring' = [ring EXCEPT ![owner] = new]
  BY DEF Measure
<1> HIDE DEF new
<1>5. ring' \in [Vm -> Seq(Measured)]
  BY <1>2, <1>3, <1>4 DEF QueuesOK
<1> QED
  BY <1>5 DEF QueuesOK, Measure

\* A load is pushed.
LEMMA PushedOK ==
    ASSUME NEW q \in Seq(Timed), Len(q) <= LocalSize, NEW s \in Timed
    PROVE  Pushed(q, s) \in Seq(Timed) /\ Len(Pushed(q, s)) <= LocalSize
<1> DEFINE long == Append(q, s)
<1>1. long \in Seq(Timed) /\ long # <<>> /\ Len(long) = Len(q) + 1 /\ Len(q) \in Nat
  OBVIOUS
<1>2. Pushed(q, s) = IF Len(long) > LocalSize THEN Tail(long) ELSE long
  BY DEF Pushed
<1> HIDE DEF long
<1>3. LocalSize \in Nat
  BY BandwidthAssumption
<1>4. Tail(long) \in Seq(Timed) /\ Len(Tail(long)) = Len(long) - 1
  BY <1>1
<1> QED
  BY <1>1, <1>2, <1>3, <1>4

\* The places that are joined.
Places(deques) == 1 .. Max({Len(deques[c]) : c \in DOMAIN deques})

\* The vCPUs that remember a sample at place i.
HoldersOf(deques, i) == {c \in DOMAIN deques : i <= Len(deques[c])}

\* The longest queue exists, and every place has a first queue that has it.
LEMMA PlacesHeld ==
    ASSUME NEW n \in Nat \ {0}, NEW deques \in Deques(1 .. n)
    PROVE  /\ \E m \in Nat : Places(deques) = 1 .. m
           /\ \A i \in Places(deques) :
                 /\ Min(HoldersOf(deques, i)) \in HoldersOf(deques, i)
                 /\ HoldersOf(deques, i) \subseteq 1 .. n
<1> DEFINE L == {Len(deques[c]) : c \in DOMAIN deques}
           U == {u \in Nat : \A x \in L : x <= u}
<1>1. DOMAIN deques = 1 .. n /\ \A c \in 1 .. n : Len(deques[c]) \in 0 .. LocalSize
  <2>1. DOMAIN deques = 1 .. n
    BY DEF Deques
  <2>2. ASSUME NEW c \in 1 .. n PROVE Len(deques[c]) \in 0 .. LocalSize
    <3>1. deques[c] \in Seq(Timed) /\ Len(deques[c]) <= LocalSize
      BY DEF Deques
    <3>2. Len(deques[c]) \in Nat /\ LocalSize \in Nat
      BY <3>1, BandwidthAssumption
    <3> QED
      BY <3>1, <3>2
  <2> QED
    BY <2>1, <2>2
<1>2. LocalSize \in U /\ L \subseteq Nat /\ Len(deques[1]) \in L
  <2>1. LocalSize \in Nat /\ 1 \in 1 .. n
    BY BandwidthAssumption
  <2>2. \A x \in L : x \in 0 .. LocalSize
    BY <1>1
  <2>3. Len(deques[1]) \in L
    BY <1>1, <2>1
  <2> HIDE DEF L
  <2> QED
    BY <2>1, <2>2, <2>3
<1>3. PICK m \in U : \A k \in U : m <= k
  <2>1. U \subseteq Nat /\ U # {}
    BY <1>2
  <2> HIDE DEF U
  <2> QED
    BY <2>1, LeastNumber
<1>4. m \in L
  <2> SUFFICES ASSUME m \notin L PROVE FALSE
    OBVIOUS
  <2>1. \A x \in L : x \in Nat /\ x <= m /\ x # m
    BY <1>2, <1>3
  <2>2. Len(deques[1]) \in Nat /\ Len(deques[1]) < m
    BY <1>2, <2>1
  <2>3. m - 1 \in Nat /\ \A x \in L : x <= m - 1
    <3> HIDE DEF L
    <3> QED
      BY <2>1, <2>2
  <2> QED
    BY <1>3, <2>3
<1>5. Max(L) \in L /\ \A x \in L : Max(L) >= x
  <2>1. \A x \in L : m >= x
    BY <1>2, <1>3
  <2> HIDE DEF L
  <2> QED
    BY <1>4, <2>1 DEF Max
<1>6. Max(L) \in Nat /\ Places(deques) = 1 .. Max(L)
  BY <1>2, <1>5 DEF Places
<1>7. ASSUME NEW i \in Places(deques)
      PROVE  /\ Min(HoldersOf(deques, i)) \in HoldersOf(deques, i)
             /\ HoldersOf(deques, i) \subseteq 1 .. n
  <2>1. PICK c \in 1 .. n : Len(deques[c]) = Max(L)
    BY <1>1, <1>5
  <2>2. c \in HoldersOf(deques, i) /\ HoldersOf(deques, i) \subseteq 1 .. n
    BY <1>1, <1>6, <1>7, <2>1 DEF HoldersOf
  <2>3. PICK k \in HoldersOf(deques, i) : \A j \in HoldersOf(deques, i) : k <= j
    BY <2>2, LeastNumber
  <2> QED
    BY <2>2, <2>3 DEF Min
<1> HIDE DEF L, U
<1> QED
  BY <1>6, <1>7

\* The loads of the vCPUs are joined to samples of one node.
LEMMA MergedOK ==
    ASSUME NEW n \in Nat \ {0}, NEW deques \in Deques(1 .. n)
    PROVE  Merged(deques) \in Seq(Timed)
<1> DEFINE H(i) == HoldersOf(deques, i)
           total(i) == SumFunction([c \in H(i) |-> deques[c][i].val])
           value(i) == Sample(deques[Min(H(i))][i].ts, total(i) \div Len(deques))
<1>1. PICK m \in Nat : Places(deques) = 1 .. m
  BY PlacesHeld
<1>2. \A i \in 1 .. m : Min(H(i)) \in H(i) /\ H(i) \subseteq 1 .. n
  BY <1>1, PlacesHeld
<1>3. Len(deques) = n
  <2>1. deques \in Seq({q \in Seq(Timed) : Len(q) <= LocalSize}) /\ DOMAIN deques = 1 .. n
    BY DEF Deques
  <2> QED
    BY <2>1
<1>4. \A i \in 1 .. m : \A c \in H(i) : deques[c][i] \in Timed
  BY <1>2 DEF Deques, HoldersOf
<1>5. \A i \in 1 .. m : total(i) \in Int
  <2> SUFFICES ASSUME NEW i \in 1 .. m PROVE total(i) \in Int
    OBVIOUS
  <2>1. IsFiniteSet(H(i))
    BY <1>2, FS_Interval, FS_Subset
  <2>2. [c \in H(i) |-> deques[c][i].val] \in [H(i) -> Int]
    BY <1>4 DEF Timed
  <2> HIDE DEF H
  <2> QED
    BY <2>1, <2>2, TotalType
<1>6. \A i \in 1 .. m : value(i) \in Timed
  <2> SUFFICES ASSUME NEW i \in 1 .. m PROVE value(i) \in Timed
    OBVIOUS
  <2>1. total(i) \div Len(deques) \in Int
    <3> HIDE DEF total
    <3> QED
      BY <1>3, <1>5
  <2>2. deques[Min(H(i))][i].ts \in 1 .. MaxTime
    BY <1>2, <1>4 DEF Timed
  <2> HIDE DEF total, H
  <2> QED
    BY <2>1, <2>2 DEF Sample, Timed
<1>7. Merged(deques) = [i \in Places(deques) |-> value(i)]
  BY DEF Merged, Places, HoldersOf
<1> HIDE DEF value
<1> QED
  BY <1>1, <1>6, <1>7

\* The first place is the nearest there is, or there is no sample.
LEMMA NearestType ==
    ASSUME NEW q \in ShortLines(Timed), NEW ts \in Int
    PROVE  Nearest(q, ts).val \in Int
<1>1. CASE q = <<>>
  BY <1>1 DEF Nearest, NoSample, Sample
<1>2. CASE q # <<>>
  <2>1. q \in Lines(Timed) /\ q \in Seq(Timed)
    BY DEF ShortLines, Lines
  <2>2. Nearest(q, ts) \in Samples(q)
    BY <1>2, <2>1, Sampling, NearestRight DEF NearestIsNearest
  <2>3. \A i \in 1 .. Len(q) : q[i] \in Timed
    BY <2>1
  <2>4. Nearest(q, ts) \in Timed
    BY <2>2, <2>3 DEF Samples
  <2> QED
    BY <2>4 DEF Timed
<1> QED
  BY <1>1, <1>2

\* The loads that a sample is split by, in all.
LoadsAt(loads, d) == [w \in Counted(loads, d) |-> Nearest(loads[w], d.ts).val]

\* The loads of the guests are queues in order.
Loaded(loads) == arrived \subseteq Vm /\ loads \in [Vm -> ShortLines(Timed)]

\* They are not negative.
LEMMA LoadsCounted ==
    ASSUME NEW loads, Loaded(loads), NEW d \in Measured
    PROVE  /\ IsFiniteSet(Counted(loads, d)) /\ Counted(loads, d) \subseteq Vm
           /\ LoadsAt(loads, d) \in [Counted(loads, d) -> Nat]
<1>1. IsFiniteSet(Counted(loads, d)) /\ Counted(loads, d) \subseteq Vm
  <2>1. Counted(loads, d) \subseteq Vm
    BY DEF Loaded, Counted
  <2> QED
    BY <2>1, BandwidthAssumption, FS_Subset
<1>2. ASSUME NEW w \in Counted(loads, d) PROVE Nearest(loads[w], d.ts).val \in Nat
  <2>1. d.ts \in Int /\ loads[w] \in ShortLines(Timed)
    BY <1>1, SampleQueueAssumption DEF Measured, Loaded
  <2>2. Nearest(loads[w], d.ts).val \in Int
    BY <2>1, NearestType
  <2>3. Nearest(loads[w], d.ts).val >= 0
    BY DEF Counted
  <2> QED
    BY <2>2, <2>3
<1> QED
  BY <1>1, <1>2 DEF LoadsAt

\* The rounded parts of a number are natural and no more than what they are of.
LEMMA PartIsLess ==
    ASSUME NEW a \in Nat \ {0}, NEW m \in Nat
    PROVE  m \div a \in Nat /\ a * (m \div a) <= m
OBVIOUS

\* The parts of a sample fit in it.
LEMMA SplitsFit ==
    ASSUME NEW loads, Loaded(loads), NEW d \in Measured
    PROVE  /\ \A vm \in Counted(loads, d) : SplitOf(loads, d, vm) \in Nat
           /\ SumFunction([vm \in Counted(loads, d) |-> SplitOf(loads, d, vm)]) <= d.val
<1> DEFINE C == Counted(loads, d)
           f == LoadsAt(loads, d)
           all == SumFunction(f)
           h == [vm \in C |-> SplitOf(loads, d, vm)]
<1>1. IsFiniteSet(C) /\ f \in [C -> Nat] /\ f \in [C -> Int]
  BY LoadsCounted
<1>2. all \in Nat /\ d.val \in Nat
  <2>1. all \in Nat
    <3> HIDE DEF C, f
    <3> QED
      BY <1>1, TotalNatural
  <2> QED
    BY <2>1 DEF Measured
<1>3. \A vm \in C : SplitOf(loads, d, vm) = IF all = 0 THEN 0 ELSE (d.val * f[vm]) \div all
  BY DEF SplitOf, LoadsAt
<1>4. CASE all = 0
  <2>1. h \in [C -> Int] /\ \A vm \in C : h[vm] = 0 /\ SplitOf(loads, d, vm) \in Nat
    BY <1>3, <1>4
  <2>2. \A vm \in C : 1 * h[vm] <= 0 * f[vm]
    BY <1>1, <2>1
  <2>3. 1 * SumFunction(h) <= 0 * SumFunction(f) /\ SumFunction(h) \in Int
    <3> HIDE DEF C, f, h
    <3> QED
      BY <1>1, <2>1, <2>2, TotalScaled, TotalType
  <2>4. SumFunction(h) <= d.val
    <3> HIDE DEF h
    <3> QED
      BY <1>2, <2>3
  <2> QED
    BY <2>1, <2>4
<1>5. CASE all # 0
  <2>1. ASSUME NEW vm \in C
        PROVE  SplitOf(loads, d, vm) \in Nat /\ all * SplitOf(loads, d, vm) <= d.val * f[vm]
    <3>1. d.val * f[vm] \in Nat
      BY <1>1, <1>2
    <3>2. SplitOf(loads, d, vm) = (d.val * f[vm]) \div all
      BY <1>3, <1>5
    <3> HIDE DEF f, C, all
    <3> QED
      BY <1>2, <1>5, <3>1, <3>2, PartIsLess
  <2>2. h \in [C -> Int] /\ \A vm \in C : all * h[vm] <= d.val * f[vm]
    BY <2>1
  <2>3. all * SumFunction(h) <= d.val * all /\ SumFunction(h) \in Int
    <3> HIDE DEF C, h, f
    <3> QED
      BY <1>1, <1>2, <2>2, TotalScaled, TotalType
  <2>4. SumFunction(h) <= d.val
    <3> HIDE DEF h, all
    <3> QED
      BY <1>2, <1>5, <2>3
  <2> QED
    BY <2>1, <2>4
<1> QED
  BY <1>4, <1>5

\* The part of a guest of a sample.
PartOf(loads, d, vm) == Sample(d.ts, SplitOf(loads, d, vm))

\* The queue of a guest's node after each sample that is scattered.
Scatters(loads, grabbed, vm, f) ==
    /\ f[0] = share[vm] /\ Scattered(loads, grabbed)[vm] = f[Len(grabbed)]
    /\ \A i \in 0 .. Len(grabbed) : f[i] \in Lines(Timed)
    /\ \A i \in 1 .. Len(grabbed) :
          f[i] = IF vm \notin Counted(loads, grabbed[i]) THEN f[i - 1]
                 ELSE Inserted(f[i - 1], PartOf(loads, grabbed[i], vm))

\* The recursion of scatter_bw_sample is well defined.
LEMMA ScatterSteps ==
    ASSUME share \in [Vm -> Lines(Timed)],
           NEW loads, Loaded(loads), NEW grabbed \in Seq(Measured), NEW vm \in Vm
    PROVE  \E f : Scatters(loads, grabbed, vm, f)
<1> DEFINE S == Lines(Timed)
           n == Len(grabbed)
           Put(x, i) == IF vm \notin Counted(loads, grabbed[i]) THEN x
                        ELSE Inserted(x, PartOf(loads, grabbed[i], vm))
           step == [i \in 1 .. n |-> [x \in S |-> Put(x, i)]]
           Good(f) == f = [i \in 0 .. n |-> IF i = 0 THEN share[vm] ELSE Put(f[i - 1], i)]
<1>1. share[vm] \in S /\ n \in Nat /\ \A i \in 1 .. n : grabbed[i] \in Measured
  OBVIOUS
<1>2. ASSUME NEW x \in S, NEW i \in 1 .. n PROVE Put(x, i) \in S
  <2>1. CASE vm \notin Counted(loads, grabbed[i])
    BY <2>1
  <2>2. CASE vm \in Counted(loads, grabbed[i])
    <3>1. SplitOf(loads, grabbed[i], vm) \in Nat
      BY <1>1, <2>2, SplitsFit
    <3>2. PartOf(loads, grabbed[i], vm) \in Timed
      BY <1>1, <3>1 DEF PartOf, Sample, Timed, Measured
    <3>3. Inserted(x, PartOf(loads, grabbed[i], vm)) \in S
      BY <3>2, Sampling, InsertedInLine
    <3> QED
      BY <2>2, <3>3
  <2> QED
    BY <2>1, <2>2
<1> HIDE DEF S, Put
<1>3. step \in [1 .. n -> [S -> S]]
  BY <1>2
<1>4. PICK g \in [0 .. n -> S] : g[0] = share[vm] /\ \A i \in 1 .. n : g[i] = step[i][g[i - 1]]
  <2>1. Carries(S, share[vm], n, step)
    <3> HIDE DEF step
    <3> QED
      BY <1>1, <1>3 DEF Carries
  <2> HIDE DEF step, n
  <2> QED
    BY <2>1, Iteration
<1>5. Good(g)
  <2>1. ASSUME NEW i \in 0 .. n, i # 0 PROVE g[i] = Put(g[i - 1], i)
    <3>1. i \in 1 .. n /\ i - 1 \in 0 .. n /\ g[i - 1] \in S
      BY <1>1, <2>1
    <3>2. step[i][g[i - 1]] = Put(g[i - 1], i)
      BY <3>1
    <3> HIDE DEF step
    <3> QED
      BY <1>4, <3>1, <3>2
  <2> QED
    BY <1>4, <2>1
<1> DEFINE f == CHOOSE f : Good(f)
<1>6. Good(f)
  <2> HIDE DEF Good
  <2> QED
    BY <1>5
<1>7. Scattered(loads, grabbed)[vm] = f[n]
  BY DEF Scattered, Put, PartOf
<1> HIDE DEF f
<1>8. f[0] = share[vm] /\ \A i \in 1 .. n : f[i] = Put(f[i - 1], i)
  BY <1>1, <1>6
<1> DEFINE B == {k \in Nat : k <= n => f[k] \in S}
<1>9. 0 \in B
  BY <1>1, <1>8
<1>10. ASSUME NEW k \in Nat, k \in B PROVE k + 1 \in B
  <2> SUFFICES ASSUME k + 1 <= n PROVE f[k + 1] \in S
    OBVIOUS
  <2>1. k + 1 \in 1 .. n /\ (k + 1) - 1 = k /\ f[k] \in S
    BY <1>1, <1>10
  <2>2. f[k + 1] = Put(f[k], k + 1)
    BY <1>8, <2>1
  <2> QED
    BY <1>2, <2>1, <2>2
<1>11. \A i \in 0 .. n : f[i] \in S
  <2>1. Nat \subseteq B
    <3> HIDE DEF B
    <3> QED
      BY <1>9, <1>10, Induction
  <2> QED
    BY <1>1, <2>1
<1> QED
  BY <1>7, <1>8, <1>11 DEF Scatters, S, Put

\* What r adds to q, of the first k samples that are scattered: nothing but the
\* parts of vm, and something for each of them.
Parts(loads, grabbed, vm, k, q, r) ==
    /\ Samples(q) \subseteq Samples(r)
    /\ \A s \in Samples(r) \ Samples(q) :
          \E j \in 1 .. k : vm \in Counted(loads, grabbed[j]) /\ s = PartOf(loads, grabbed[j], vm)
    /\ \A j \in 1 .. k : vm \in Counted(loads, grabbed[j]) =>
                            \E s \in Samples(r) : s.ts = grabbed[j].ts

\* That is what scatter_bw_sample does.
LEMMA ScatteredParts ==
    ASSUME share \in [Vm -> Lines(Timed)],
           NEW loads, Loaded(loads), NEW grabbed \in Seq(Measured), NEW vm \in Vm,
           NEW r, r = Scattered(loads, grabbed)[vm]
    PROVE  r \in Lines(Timed) /\ Parts(loads, grabbed, vm, Len(grabbed), share[vm], r)
<1> DEFINE n == Len(grabbed)
           P(k, x) == Parts(loads, grabbed, vm, k, share[vm], x)
<1>1. PICK f : Scatters(loads, grabbed, vm, f)
  BY ScatterSteps
<1>2. /\ f[0] = share[vm] /\ r = f[n] /\ n \in Nat
      /\ \A i \in 0 .. n : f[i] \in Lines(Timed)
      /\ \A i \in 1 .. n :
            f[i] = IF vm \notin Counted(loads, grabbed[i]) THEN f[i - 1]
                   ELSE Inserted(f[i - 1], PartOf(loads, grabbed[i], vm))
  BY <1>1 DEF Scatters
<1>3. \A i \in 1 .. n : grabbed[i] \in Measured
  OBVIOUS
<1> DEFINE B == {k \in Nat : k <= n => P(k, f[k])}
<1>4. 0 \in B
  <2>1. \A j \in 1 .. 0 : FALSE
    OBVIOUS
  <2>2. P(0, f[0])
    BY <1>2, <2>1 DEF Parts
  <2> QED
    BY <2>2
<1>5. ASSUME NEW k \in Nat, k \in B PROVE k + 1 \in B
  <2> SUFFICES ASSUME k + 1 <= n PROVE P(k + 1, f[k + 1])
    OBVIOUS
  <2> DEFINE d == grabbed[k + 1]
             s == PartOf(loads, d, vm)
  <2>1. k + 1 \in 1 .. n /\ (k + 1) - 1 = k /\ k \in 0 .. n /\ k <= n /\ d \in Measured
    BY <1>2, <1>3
  <2>2. /\ f[k] \in Lines(Timed) /\ P(k, f[k])
        /\ f[k + 1] = IF vm \notin Counted(loads, d) THEN f[k] ELSE Inserted(f[k], s)
    BY <1>2, <1>5, <2>1
  <2>3. \A j \in 1 .. k + 1 : j \in 1 .. k \/ j = k + 1
    OBVIOUS
  <2>4. 1 .. k \subseteq 1 .. k + 1
    OBVIOUS
  <2>5. CASE vm \notin Counted(loads, d)
    BY <2>2, <2>3, <2>4, <2>5 DEF Parts
  <2>6. CASE vm \in Counted(loads, d)
    <3>1. s \in Timed /\ s.ts = d.ts
      <4>1. SplitOf(loads, d, vm) \in Nat
        BY <2>1, <2>6, SplitsFit
      <4> QED
        BY <2>1, <4>1 DEF PartOf, Sample, Timed, Measured
    <3> HIDE DEF s
    <3>2. \/ Samples(f[k + 1]) = Samples(f[k]) /\ \E t \in Samples(f[k]) : t.ts = s.ts
          \/ Samples(f[k + 1]) = Samples(f[k]) \cup {s}
      BY <2>2, <2>6, <3>1, Sampling, InsertedInLine
    <3>3. Samples(f[k]) \subseteq Samples(f[k + 1])
      BY <3>2
    <3>4. \E t \in Samples(f[k + 1]) : t.ts = d.ts
      BY <3>1, <3>2
    <3>5. Samples(share[vm]) \subseteq Samples(f[k + 1])
      BY <2>2, <3>3 DEF Parts
    <3>6. ASSUME NEW t \in Samples(f[k + 1]) \ Samples(share[vm])
          PROVE  \E j \in 1 .. k + 1 :
                    vm \in Counted(loads, grabbed[j]) /\ t = PartOf(loads, grabbed[j], vm)
      <4>1. CASE t \in Samples(f[k])
        BY <2>2, <2>4, <3>6, <4>1 DEF Parts
      <4>2. CASE t \notin Samples(f[k])
        <5>1. t = PartOf(loads, grabbed[k + 1], vm) /\ k + 1 \in 1 .. k + 1
          BY <3>2, <3>6, <4>2 DEF s
        <5> QED
          BY <2>6, <5>1
      <4> QED
        BY <4>1, <4>2
    <3>7. ASSUME NEW j \in 1 .. k + 1, vm \in Counted(loads, grabbed[j])
          PROVE  \E t \in Samples(f[k + 1]) : t.ts = grabbed[j].ts
      <4>1. CASE j \in 1 .. k
        BY <2>2, <3>3, <3>7, <4>1 DEF Parts
      <4>2. CASE j = k + 1
        BY <3>4, <4>2
      <4> QED
        BY <2>3, <4>1, <4>2
    <3> QED
      BY <3>5, <3>6, <3>7 DEF Parts
  <2> QED
    BY <2>5, <2>6
<1>6. n \in B
  <2> HIDE DEF B
  <2> QED
    BY <1>2, <1>4, <1>5, Induction
<1> QED
  BY <1>2, <1>6

\* It leaves a queue for every guest.
LEMMA ScatteredFcn ==
    ASSUME NEW loads, NEW grabbed
    PROVE  /\ DOMAIN Scattered(loads, grabbed) = Vm
           /\ Scattered(loads, grabbed) = [vm \in Vm |-> Scattered(loads, grabbed)[vm]]
BY DEF Scattered

\* get_cpu_usage_sample: the loads of the vCPUs of a guest that is there.
LEMMA WatchedOK ==
    ASSUME QueuesOK, NEW vm \in Vm, NEW load, \A c \in Vcpus(vm) : load[c] \in Int
    PROVE  Watched(vm, load) \in Deques(Vcpus(vm))
<1>1. /\ local[vm] \in [Vcpus(vm) -> {q \in Seq(Timed) : Len(q) <= LocalSize}]
      /\ now \in 1 .. MaxTime
  BY DEF QueuesOK, Deques
<1> DEFINE s(c) == Sample(now, IF local[vm][c] = <<>> THEN 0 ELSE load[c])
<1>2. \A c \in Vcpus(vm) : s(c) \in Timed
  BY <1>1 DEF Sample, Timed
<1>3. \A c \in Vcpus(vm) : Pushed(local[vm][c], s(c)) \in {q \in Seq(Timed) : Len(q) <= LocalSize}
  <2> HIDE DEF s
  <2> QED
    BY <1>1, <1>2, PushedOK
<1>4. Watched(vm, load) = [c \in Vcpus(vm) |-> Pushed(local[vm][c], s(c))]
  BY DEF Watched, Vcpus
<1> HIDE DEF s
<1> QED
  BY <1>3, <1>4 DEF Deques

\* The loads of a guest's vCPUs are numbers.
LEMMA LoadsAreNumbers ==
    ASSUME NEW load \in LoadsNow, NEW vm \in arrived, vm \in Vm
    PROVE  \A c \in Vcpus(vm) : load[vm][c] \in Int
<1>1. load[vm] \in LoadsOf(vm)
  BY DEF LoadsNow
<1>2. \A c \in Vcpus(vm) : load[vm][c] \in Loads[vm][c]
  BY <1>1 DEF LoadsOf, Vcpus
<1>3. \A c \in Vcpus(vm) : Loads[vm][c] \in SUBSET Int
  BY LoadsAssumption DEF Vcpus
<1> QED
  BY <1>2, <1>3

\* A guest's node has vCPUs.
LEMMA VcpusExist == ASSUME NEW vm \in Vm PROVE \E n \in Nat \ {0} : Vcpus(vm) = 1 .. n
BY LoadsAssumption DEF Vcpus

\* The samples that a round reads.
Grabbed(o) == IF o = NoOwner THEN <<>> ELSE TakenAll(<<>>, ring[o])

\* They are those of a queue in order.
LEMMA GrabbedOK ==
    ASSUME QueuesOK, NEW o \in arrived \cup {NoOwner}
    PROVE  Grabbed(o) \in ShortLines(Measured) /\ Grabbed(o) \in ShortLines(Timed)
<1>1. CASE o = NoOwner
  BY <1>1, EmptyLine DEF Grabbed
<1>2. CASE o # NoOwner
  <2>1. ring[o] \in Seq(Measured)
    BY <1>2 DEF QueuesOK
  <2>2. Grabbed(o) \in ShortLines(Measured)
    BY <1>2, <2>1, EmptyLine, Sampling, TakenAllInLine DEF Grabbed
  <2> QED
    BY <2>2, Sampling, LineOfMore
<1> QED
  BY <1>1, <1>2

\* A round: update_node of every guest's node, update_vnode_map.
LEMMA RoundQueuesOK ==
    ASSUME QueuesOK, NEW load \in LoadsNow, NEW o \in arrived \cup {NoOwner}, Round(load, o)
    PROVE  QueuesOK' /\ cpu' \in [Vm -> ShortLines(Timed)]
<1>1. \A vm \in Vm : local'[vm] \in Deques(Vcpus(vm))
  <2> SUFFICES ASSUME NEW vm \in Vm PROVE local'[vm] \in Deques(Vcpus(vm))
    OBVIOUS
  <2>1. local'[vm] = IF vm \in arrived THEN Watched(vm, load[vm]) ELSE local[vm]
    BY DEF Round
  <2>2. CASE vm \in arrived
    BY <2>1, <2>2, LoadsAreNumbers, WatchedOK
  <2>3. CASE vm \notin arrived
    BY <2>1, <2>3 DEF QueuesOK
  <2> QED
    BY <2>2, <2>3
<1>2. cpu' \in [Vm -> ShortLines(Timed)]
  <2>1. cpu' = [vm \in Vm |->
                   IF vm \in arrived THEN TakenAll(cpu[vm], Merged(local'[vm])) ELSE cpu[vm]]
    BY DEF Round
  <2>2. ASSUME NEW vm \in Vm PROVE TakenAll(cpu[vm], Merged(local'[vm])) \in ShortLines(Timed)
    <3>1. cpu[vm] \in ShortLines(Timed)
      BY DEF QueuesOK
    <3>2. PICK n \in Nat \ {0} : Vcpus(vm) = 1 .. n
      BY VcpusExist
    <3>3. Merged(local'[vm]) \in Seq(Timed)
      BY <1>1, <3>2, MergedOK
    <3> QED
      BY <3>1, <3>3, Sampling, TakenAllInLine
  <2>3. \A vm \in Vm : cpu[vm] \in ShortLines(Timed)
    BY DEF QueuesOK
  <2> QED
    BY <2>1, <2>2, <2>3
<1>3. Grabbed(o) \in Seq(Measured) /\ Grabbed(o) \in Seq(Timed)
  BY GrabbedOK DEF ShortLines, Lines
<1>4. node' \in ShortLines(Timed)
  <2>1. node' = TakenAll(node, Grabbed(o)) /\ node \in ShortLines(Timed)
    BY DEF Round, Grabbed, QueuesOK
  <2> QED
    BY <1>3, <2>1, Sampling, TakenAllInLine
<1>5. share' \in [Vm -> Lines(Timed)]
  <2>1. share' = Scattered(cpu', Grabbed(o)) /\ Loaded(cpu') /\ share \in [Vm -> Lines(Timed)]
    BY <1>2 DEF Round, Grabbed, QueuesOK, Loaded
  <2>2. share' = [vm \in Vm |-> share'[vm]]
    BY <2>1, ScatteredFcn
  <2>3. \A vm \in Vm : share'[vm] \in Lines(Timed)
    BY <1>3, <2>1, ScatteredParts
  <2> QED
    BY <2>2, <2>3
<1>6. now' = now /\ sampled' = now /\ arrived' = arrived /\ owner' = o /\ ring' = ring
  BY DEF Round
<1> QED
  BY <1>1, <1>2, <1>4, <1>5, <1>6 DEF QueuesOK

\* The queues stay in order.
LEMMA StepQueuesOK == QueuesOK /\ [Next]_vars => QueuesOK'
<1> SUFFICES ASSUME QueuesOK, [Next]_vars PROVE QueuesOK'
  OBVIOUS
<1>1. CASE Tick
  BY <1>1, SampleQueueAssumption DEF QueuesOK, Tick
<1>2. ASSUME NEW vm \in Vm, Arrive(vm) PROVE QueuesOK'
  BY <1>2 DEF QueuesOK, Arrive
<1>3. ASSUME NEW val \in Values, Measure(val) PROVE QueuesOK'
  BY <1>3, MeasureQueuesOK
<1>4. ASSUME NEW load \in LoadsNow, NEW o \in arrived \cup {NoOwner}, Round(load, o)
      PROVE  QueuesOK'
  BY <1>4, RoundQueuesOK
<1>5. CASE UNCHANGED vars
  BY <1>5 DEF QueuesOK, vars
<1> QED
  BY <1>1, <1>2, <1>3, <1>4, <1>5 DEF Next
-----------------------------------------------------------------------------
(* The theorems. *)

\* What the order of the queues gives for the searches.
LEMMA LineFacts ==
    ASSUME NEW q \in Lines(Timed)
    PROVE  /\ Chronological(q) /\ Samples(q) \subseteq [ts : 1 .. MaxTime, val : Int]
           /\ q # <<>> => \A ts \in Times : NearestIsNearest(q, ts)
           /\ \A ts \in Times : SinceExact(q, ts)
           /\ \A ts, end \in Times : ts < end => RangeExact(q, ts, end)
<1>1. q \in Queue /\ Ordered(q) /\ \A i \in 1 .. Len(q) : q[i] \in Timed
  BY Sampling, LineIsQueue
<1>2. Times \subseteq Int
  BY SampleQueueAssumption DEF Times
<1>3. Chronological(q)
  BY <1>1, OrderedIsChronological
<1>4. Samples(q) \subseteq [ts : 1 .. MaxTime, val : Int]
  BY <1>1 DEF Samples, Timed
<1>5. q # <<>> => \A ts \in Times : NearestIsNearest(q, ts)
  BY <1>2, Sampling, NearestRight
<1>6. \A ts \in Times : SinceExact(q, ts)
  BY <1>2, Sampling, SinceRight
<1>7. \A ts, end \in Times : ts < end => RangeExact(q, ts, end)
  BY <1>2, Sampling, RangeRight
<1> QED
  BY <1>3, <1>4, <1>5, <1>6, <1>7

\* All queues are in order.
LEMMA QueuesAreLines == ASSUME QueuesOK PROVE \A q \in Queues : q \in Lines(Timed)
<1>1. ASSUME NEW vm \in Vm PROVE cpu[vm] \in Lines(Timed) /\ share[vm] \in Lines(Timed)
  BY DEF QueuesOK, ShortLines
<1>2. node \in Lines(Timed)
  BY DEF QueuesOK, ShortLines
<1> QED
  BY <1>1, <1>2 DEF Queues

\* The invariant is reached with every step.
LEMMA QueuesStayOK == Spec => []QueuesOK
<1> QED
  BY InitQueuesOK, StepQueuesOK, PTL DEF Spec

\* The type invariant: every queue is in chronological order, and those that are
\* trimmed hold max_sample_size samples at most, whatever is measured, in
\* whatever order the slots in the store are read, and however often.
THEOREM TypeCorrect == Spec => []TypeOK
<1>1. QueuesOK => TypeOK
  <2> SUFFICES ASSUME QueuesOK PROVE TypeOK
    OBVIOUS
  <2>1. \A q \in Queues : /\ Chronological(q)
                          /\ Samples(q) \subseteq [ts : 1 .. MaxTime, val : Int]
    BY QueuesAreLines, LineFacts
  <2>2. Len(node) <= MaxSize /\ \A vm \in Vm : Len(cpu[vm]) <= MaxSize
    BY DEF QueuesOK, ShortLines
  <2> QED
    BY <2>1, <2>2 DEF QueuesOK, TypeOK
<1> QED
  BY <1>1, QueuesStayOK, PTL

\* The searches of sample_queue find what they stand for in every queue that is
\* reached: the load that splits a sample is the nearest in time, and the
\* averages take the samples of their interval.
THEOREM SearchesAreExact == Spec => []SearchesExact
<1>1. QueuesOK => SearchesExact
  <2> SUFFICES ASSUME QueuesOK PROVE SearchesExact
    OBVIOUS
  <2>1. \A q \in Queues :
           /\ q # <<>> => \A ts \in Times : NearestIsNearest(q, ts)
           /\ \A ts \in Times : SinceExact(q, ts)
           /\ \A ts, end \in Times : ts < end => RangeExact(q, ts, end)
    BY QueuesAreLines, LineFacts
  <2> QED
    BY <2>1 DEF SearchesExact
<1> QED
  BY <1>1, QueuesStayOK, PTL

-----------------------------------------------------------------------------
(* The parts of the samples. *)

\* A sample that was split left a part with each guest that it was split among,
\* and the queues of the guests hold parts of such samples only.
SplitOK ==
    /\ split \subseteq [ts : 1 .. MaxTime, val : Nat, vms : SUBSET Vm]
    /\ \A vm \in Vm : \A s \in Samples(share[vm]) : \E e \in split : e.ts = s.ts
    /\ \A e \in split : \A vm \in e.vms : \E s \in Samples(share[vm]) : s.ts = e.ts

\* The parts of e that guest vm holds, and all parts of it.
PartsHeld(e) == SumFunction([vm \in e.vms |-> SumFunction([x \in PartsAt(vm, e.ts) |-> x])])

\* Two samples of a queue in order have different times.
LEMMA OneForATime ==
    ASSUME NEW S, Sampled(S), NEW q \in Lines(S), NEW s \in Samples(q), NEW t \in Samples(q),
           s.ts = t.ts
    PROVE  s = t
<1>1. Ordered(q) /\ Len(q) \in Nat /\ \A i \in 1 .. Len(q) : q[i].ts \in Int
  BY LineIsQueue
<1>2. PICK i \in 1 .. Len(q), j \in 1 .. Len(q) : s = q[i] /\ t = q[j]
  BY DEF Samples
<1>3. ~(i < j) /\ ~(j < i)
  BY <1>1, <1>2 DEF Ordered
<1> QED
  BY <1>1, <1>2, <1>3

\* A round splits what it reads for the first time, and keeps what was split.
NewlySplit(o) == {[ts |-> d.ts, val |-> d.val, vms |-> Counted(cpu', d)] :
                     d \in {s \in Samples(Grabbed(o)) : \A e \in split : e.ts # s.ts}}

\* What a round does to the queues of the guests.
Rounds(o) ==
    /\ share \in [Vm -> Lines(Timed)] /\ share' \in [Vm -> Lines(Timed)]
    /\ Grabbed(o) \in ShortLines(Measured) /\ Loaded(cpu')
    /\ \A vm \in Vm : Parts(cpu', Grabbed(o), vm, Len(Grabbed(o)), share[vm], share'[vm])
    /\ split' = split \cup NewlySplit(o)

\* That is how it does it.
LEMMA RoundRounds ==
    ASSUME QueuesOK, NEW load \in LoadsNow, NEW o \in arrived \cup {NoOwner}, Round(load, o)
    PROVE  Rounds(o)
<1>1. cpu' \in [Vm -> ShortLines(Timed)] /\ QueuesOK'
  BY RoundQueuesOK
<1>2. share' = Scattered(cpu', Grabbed(o)) /\ split' = split \cup NewlySplit(o)
  BY DEF Round, Grabbed, NewlySplit
<1>3. share \in [Vm -> Lines(Timed)] /\ share' \in [Vm -> Lines(Timed)] /\ Loaded(cpu')
  BY <1>1 DEF QueuesOK, Loaded
<1>4. Grabbed(o) \in ShortLines(Measured) /\ Grabbed(o) \in Seq(Measured)
  BY GrabbedOK DEF ShortLines, Lines
<1>5. \A vm \in Vm : Parts(cpu', Grabbed(o), vm, Len(Grabbed(o)), share[vm], share'[vm])
  BY <1>2, <1>3, <1>4, ScatteredParts
<1> QED
  BY <1>2, <1>3, <1>4, <1>5 DEF Rounds

\* The samples that are read, by their places.
LEMMA GrabbedSamples ==
    ASSUME NEW o, Grabbed(o) \in ShortLines(Measured)
    PROVE  /\ \A j \in 1 .. Len(Grabbed(o)) : Grabbed(o)[j] \in Samples(Grabbed(o))
           /\ \A d \in Samples(Grabbed(o)) : /\ d \in Measured
                                             /\ \E j \in 1 .. Len(Grabbed(o)) : Grabbed(o)[j] = d
<1>1. Grabbed(o) \in Seq(Measured)
  BY DEF ShortLines, Lines
<1> QED
  BY <1>1 DEF Samples

\* A part that a round adds is one of a sample that it reads.
LEMMA AddedPart ==
    ASSUME NEW o, Rounds(o), NEW vm \in Vm, NEW s \in Samples(share'[vm]) \ Samples(share[vm])
    PROVE  \E d \in Samples(Grabbed(o)) :
              vm \in Counted(cpu', d) /\ s = PartOf(cpu', d, vm) /\ s.ts = d.ts
<1>1. PICK j \in 1 .. Len(Grabbed(o)) :
         vm \in Counted(cpu', Grabbed(o)[j]) /\ s = PartOf(cpu', Grabbed(o)[j], vm)
  BY DEF Rounds, Parts
<1>2. Grabbed(o)[j] \in Samples(Grabbed(o))
  BY GrabbedSamples DEF Rounds
<1>3. s.ts = Grabbed(o)[j].ts
  BY <1>1 DEF PartOf, Sample
<1> QED
  BY <1>1, <1>2, <1>3

\* The history is true after it.
LEMMA RoundSplitOK ==
    ASSUME SplitOK, NEW o, Rounds(o)
    PROVE  SplitOK'
<1>1. split' \subseteq [ts : 1 .. MaxTime, val : Nat, vms : SUBSET Vm]
  <2>1. \A d \in Samples(Grabbed(o)) : d.ts \in 1 .. MaxTime /\ d.val \in Nat
    <3>1. \A d \in Samples(Grabbed(o)) : d \in Measured
      BY GrabbedSamples DEF Rounds
    <3> QED
      BY <3>1 DEF Measured
  <2>2. \A d \in Samples(Grabbed(o)) : Counted(cpu', d) \subseteq Vm
    BY GrabbedSamples, LoadsCounted DEF Rounds
  <2> QED
    BY <2>1, <2>2 DEF Rounds, NewlySplit, SplitOK
<1>2. ASSUME NEW vm \in Vm, NEW s \in Samples(share'[vm]) PROVE \E e \in split' : e.ts = s.ts
  <2>1. CASE s \in Samples(share[vm])
    BY <2>1 DEF SplitOK, Rounds
  <2>2. CASE s \notin Samples(share[vm])
    <3>1. PICK d \in Samples(Grabbed(o)) : s.ts = d.ts
      BY <1>2, <2>2, AddedPart
    <3>2. CASE \E e \in split : e.ts = d.ts
      BY <3>1, <3>2 DEF Rounds
    <3>3. CASE \A e \in split : e.ts # d.ts
      <4>1. [ts |-> d.ts, val |-> d.val, vms |-> Counted(cpu', d)] \in NewlySplit(o)
        BY <3>3 DEF NewlySplit
      <4> QED
        BY <3>1, <4>1 DEF Rounds
    <3> QED
      BY <3>2, <3>3
  <2> QED
    BY <2>1, <2>2
<1>3. ASSUME NEW e \in split', NEW vm \in e.vms
      PROVE  \E s \in Samples(share'[vm]) : s.ts = e.ts
  <2>1. vm \in Vm
    BY <1>1, <1>3
  <2>2. CASE e \in split
    BY <1>3, <2>1, <2>2 DEF SplitOK, Rounds, Parts
  <2>3. CASE e \notin split
    <3>1. PICK d \in Samples(Grabbed(o)) :
             e = [ts |-> d.ts, val |-> d.val, vms |-> Counted(cpu', d)]
      BY <2>3 DEF Rounds, NewlySplit
    <3>2. PICK j \in 1 .. Len(Grabbed(o)) : Grabbed(o)[j] = d
      BY GrabbedSamples DEF Rounds
    <3>3. vm \in Counted(cpu', Grabbed(o)[j]) /\ e.ts = Grabbed(o)[j].ts
      BY <1>3, <3>1, <3>2
    <3> QED
      BY <2>1, <3>3 DEF Rounds, Parts
  <2> QED
    BY <2>2, <2>3
<1> QED
  BY <1>1, <1>2, <1>3 DEF SplitOK

\* What was split once is not split anew.
LEMMA PartsStay ==
    ASSUME SplitOK, NEW o, Rounds(o), NEW e \in split
    PROVE  PartsHeld(e)' = PartsHeld(e)
<1>1. \A vm \in e.vms : PartsAt(vm, e.ts)' = PartsAt(vm, e.ts)
  <2> SUFFICES ASSUME NEW vm \in e.vms
               PROVE  {r \in Samples(share'[vm]) : r.ts = e.ts}
                      = {r \in Samples(share[vm]) : r.ts = e.ts}
    BY DEF PartsAt
  <2>1. vm \in Vm
    BY DEF SplitOK
  <2>2. Samples(share[vm]) \subseteq Samples(share'[vm])
    BY <2>1 DEF Rounds, Parts
  <2>3. PICK s \in Samples(share[vm]) : s.ts = e.ts
    BY DEF SplitOK
  <2>4. ASSUME NEW r \in Samples(share'[vm]), r.ts = e.ts PROVE r = s
    <3>1. share'[vm] \in Lines(Timed) /\ s \in Samples(share'[vm]) /\ r.ts = s.ts
      BY <2>1, <2>2, <2>3, <2>4 DEF Rounds
    <3> QED
      BY <3>1, Sampling, OneForATime
  <2> QED
    BY <2>2, <2>3, <2>4
<1>2. [vm \in e.vms |-> SumFunction([x \in PartsAt(vm, e.ts)' |-> x])]
      = [vm \in e.vms |-> SumFunction([x \in PartsAt(vm, e.ts) |-> x])]
  BY <1>1
<1> QED
  BY <1>2 DEF PartsHeld

\* What is split now is split by the loads of now.
LEMMA PartsNow ==
    ASSUME SplitOK, NEW o, Rounds(o),
           NEW d \in Samples(Grabbed(o)), \A e \in split : e.ts # d.ts,
           NEW vm \in Counted(cpu', d)
    PROVE  PartsAt(vm, d.ts)' = {SplitOf(cpu', d, vm)} /\ SplitOf(cpu', d, vm) \in Int
<1>1. Grabbed(o) \in ShortLines(Measured) /\ Grabbed(o) \in Lines(Measured) /\ Loaded(cpu')
  BY DEF Rounds, ShortLines
<1>2. d \in Measured /\ vm \in Vm
  BY <1>1, GrabbedSamples, LoadsCounted
<1>3. SplitOf(cpu', d, vm) \in Int
  <2>1. \A w \in Counted(cpu', d) : SplitOf(cpu', d, w) \in Nat
    BY <1>1, <1>2, SplitsFit
  <2>2. SplitOf(cpu', d, vm) \in Nat
    BY <2>1
  <2> QED
    BY <2>2
<1>4. ASSUME NEW r \in Samples(share'[vm]), r.ts = d.ts PROVE r.val = SplitOf(cpu', d, vm)
  <2>1. r \notin Samples(share[vm])
    BY <1>2, <1>4 DEF SplitOK
  <2>2. PICK c \in Samples(Grabbed(o)) : r = PartOf(cpu', c, vm) /\ r.ts = c.ts
    BY <1>2, <2>1, AddedPart
  <2>3. c = d
    BY <1>1, <1>4, <2>2, Sampling, OneForATime
  <2> QED
    BY <2>2, <2>3 DEF PartOf, Sample
<1>5. \E r \in Samples(share'[vm]) : r.ts = d.ts
  <2>1. PICK j \in 1 .. Len(Grabbed(o)) : Grabbed(o)[j] = d
    BY <1>1, GrabbedSamples
  <2> QED
    BY <1>2, <2>1 DEF Rounds, Parts
<1>6. {r.val : r \in {s \in Samples(share'[vm]) : s.ts = d.ts}} = {SplitOf(cpu', d, vm)}
  BY <1>4, <1>5
<1> QED
  BY <1>3, <1>6 DEF PartsAt

\* The parts of what is split now fit in it.
LEMMA PartsNowFit ==
    ASSUME SplitOK, NEW o, Rounds(o), NEW e \in NewlySplit(o)
    PROVE  PartsHeld(e)' <= e.val
<1>1. PICK d \in Samples(Grabbed(o)) :
         /\ \A c \in split : c.ts # d.ts
         /\ e = [ts |-> d.ts, val |-> d.val, vms |-> Counted(cpu', d)]
  BY DEF NewlySplit
<1> DEFINE C == Counted(cpu', d)
<1>2. \A vm \in C : /\ PartsAt(vm, d.ts)' = {SplitOf(cpu', d, vm)}
                    /\ SplitOf(cpu', d, vm) \in Int
  BY <1>1, PartsNow
<1>3. \A vm \in C : SumFunction([x \in PartsAt(vm, d.ts)' |-> x]) = SplitOf(cpu', d, vm)
  BY <1>2, TotalOfOne
<1>4. [vm \in C |-> SumFunction([x \in PartsAt(vm, d.ts)' |-> x])]
      = [vm \in C |-> SplitOf(cpu', d, vm)]
  BY <1>3
<1>5. d \in Measured /\ Loaded(cpu')
  BY GrabbedSamples DEF Rounds
<1>6. SumFunction([vm \in C |-> SplitOf(cpu', d, vm)]) <= d.val
  BY <1>5, SplitsFit
<1>7. PartsHeld(e)' = SumFunction([vm \in C |-> SumFunction([x \in PartsAt(vm, d.ts)' |-> x])])
  BY <1>1 DEF PartsHeld
<1>8. e.val = d.val
  BY <1>1
<1> QED
  BY <1>4, <1>6, <1>7, <1>8

\* The inductive invariant of the shares.
SharesInv == QueuesOK /\ SplitOK /\ SharesFit

\* Other steps split nothing.
LEMMA SharesUnchanged ==
    ASSUME SplitOK, SharesFit, UNCHANGED <<share, split>>
    PROVE  SplitOK' /\ SharesFit'
BY DEF SplitOK, SharesFit, PartsAt

\* A round keeps the parts of each sample within what was measured.
LEMMA RoundSharesFit ==
    ASSUME SplitOK, SharesFit, NEW o, Rounds(o)
    PROVE  SharesFit'
<1>1. ASSUME NEW e \in split' PROVE PartsHeld(e)' <= e.val
  <2>1. CASE e \in split
    <3>1. PartsHeld(e) <= e.val
      BY <2>1 DEF SharesFit, PartsHeld
    <3> QED
      BY <2>1, <3>1, PartsStay
  <2>2. CASE e \in NewlySplit(o)
    BY <2>2, PartsNowFit
  <2> QED
    BY <2>1, <2>2 DEF Rounds
<1> QED
  BY <1>1 DEF SharesFit, PartsHeld

\* The guests that a sample was first split among never hold more of it than was
\* measured, with however many guests, vCPUs and slots: a round that splits the
\* sample again, with other loads near it, finds their parts in place.
THEOREM SharesAlwaysFit == Spec => []SharesFit
<1>1. Init => SharesInv
  <2> SUFFICES ASSUME Init PROVE SharesInv
    OBVIOUS
  <2>1. \A vm \in Vm : Samples(share[vm]) = {}
    BY DEF Init, Samples
  <2> QED
    BY <2>1, InitQueuesOK DEF Init, SharesInv, SplitOK, SharesFit
<1>2. SharesInv /\ [Next]_vars => SharesInv'
  <2> SUFFICES ASSUME SharesInv, [Next]_vars PROVE SharesInv'
    OBVIOUS
  <2> USE DEF SharesInv
  <2>1. QueuesOK'
    BY StepQueuesOK
  <2>2. CASE Tick
    BY <2>1, <2>2, SharesUnchanged DEF Tick
  <2>3. ASSUME NEW vm \in Vm, Arrive(vm) PROVE SharesInv'
    BY <2>1, <2>3, SharesUnchanged DEF Arrive
  <2>4. ASSUME NEW val \in Values, Measure(val) PROVE SharesInv'
    BY <2>1, <2>4, SharesUnchanged DEF Measure
  <2>5. ASSUME NEW load \in LoadsNow, NEW o \in arrived \cup {NoOwner}, Round(load, o)
        PROVE  SharesInv'
    <3>1. Rounds(o)
      BY <2>5, RoundRounds
    <3> QED
      BY <2>1, <3>1, RoundSplitOK, RoundSharesFit
  <2>6. CASE UNCHANGED vars
    BY <2>1, <2>6, SharesUnchanged DEF vars
  <2> QED
    BY <2>2, <2>3, <2>4, <2>5, <2>6 DEF Next
<1>3. SharesInv => SharesFit
  BY DEF SharesInv
<1> QED
  BY <1>1, <1>2, <1>3, PTL DEF Spec
-----------------------------------------------------------------------------
(* The newest samples are kept. *)

\* The times of a queue.
TimesOf(q) == {s.ts : s \in Samples(q)}

\* There are as many samples, and as many times, as places in a queue in order.
LEMMA LineCount ==
    ASSUME NEW T, Sampled(T), NEW q \in Lines(T)
    PROVE  /\ IsFiniteSet(Samples(q)) /\ Cardinality(Samples(q)) = Len(q)
           /\ IsFiniteSet(TimesOf(q)) /\ Cardinality(TimesOf(q)) = Len(q)
<1> DEFINE n == Len(q)
           at == [i \in 1 .. n |-> q[i]]
           when == [i \in 1 .. n |-> q[i].ts]
<1>1. Ordered(q) /\ n \in Nat /\ \A i \in 1 .. n : q[i].ts \in Int
  BY LineIsQueue
<1>2. IsFiniteSet(1 .. n) /\ Cardinality(1 .. n) = n
  BY <1>1, FS_Interval
<1>3. \A i, j \in 1 .. n : q[i].ts = q[j].ts => i = j
  <2> SUFFICES ASSUME NEW i \in 1 .. n, NEW j \in 1 .. n, q[i].ts = q[j].ts PROVE i = j
    OBVIOUS
  <2>1. ~(i < j) /\ ~(j < i)
    BY <1>1 DEF Ordered
  <2> QED
    BY <1>1, <2>1
<1>4. at \in Bijection(1 .. n, Samples(q))
  BY <1>3 DEF Samples, Bijection, Injection, Surjection, IsInjective
<1>5. when \in Bijection(1 .. n, TimesOf(q))
  BY <1>3 DEF Samples, TimesOf, Bijection, Injection, Surjection, IsInjective
<1>6. ExistsBijection(1 .. n, Samples(q)) /\ ExistsBijection(1 .. n, TimesOf(q))
  BY <1>4, <1>5 DEF ExistsBijection
<1> HIDE DEF n
<1>7. /\ IsFiniteSet(Samples(q)) /\ Cardinality(Samples(q)) = n
      /\ IsFiniteSet(TimesOf(q)) /\ Cardinality(TimesOf(q)) = n
  BY <1>2, <1>6, FS_Bijection
<1> QED
  BY <1>7 DEF n

\* q holds samples of A, and what it does not hold is older; if there is such a
\* sample, the queue is full.
Top(A, q) ==
    /\ Samples(q) \subseteq A
    /\ \A a \in A \ Samples(q) : \A t \in Samples(q) : a.ts < t.ts
    /\ Samples(q) = A \/ Len(q) = MaxSize

\* So it holds the newest.
LEMMA TopIsNewest ==
    ASSUME NEW T, Sampled(T), NEW q \in ShortLines(T),
           NEW A, A \subseteq T, IsFiniteSet(A), Top(A, q)
    PROVE  Samples(q) = Newest(A)
<1>1. /\ q \in Lines(T) /\ Len(q) <= MaxSize /\ Len(q) \in Nat /\ MaxSize \in Nat
      /\ IsFiniteSet(Samples(q)) /\ Cardinality(Samples(q)) = Len(q)
  BY LineCount, LineIsQueue, SampleQueueAssumption DEF ShortLines
<1>2. \A a \in A : a.ts \in Int
  BY DEF Sampled
<1> DEFINE After(s) == {r \in A : r.ts > s.ts}
<1>3. \A s \in A : IsFiniteSet(After(s)) /\ Cardinality(After(s)) \in Nat
  BY FS_Subset, FS_CardinalityType
<1>4. ASSUME NEW s \in Samples(q) PROVE Cardinality(After(s)) < MaxSize
  <2>1. s \in A /\ s \notin After(s)
    BY <1>2 DEF Top
  <2>2. After(s) \subseteq Samples(q)
    <3> SUFFICES ASSUME NEW r \in A, r.ts > s.ts PROVE r \in Samples(q)
      OBVIOUS
    <3>1. r \notin Samples(q) => r.ts < s.ts
      BY DEF Top
    <3> QED
      BY <1>2, <2>1, <3>1
  <2>3. Cardinality(After(s)) <= Len(q) /\ Cardinality(After(s)) # Len(q)
    <3> HIDE DEF After
    <3> QED
      BY <1>1, <2>1, <2>2, FS_Subset
  <2> HIDE DEF After
  <2> QED
    BY <1>1, <1>3, <2>1, <2>3
<1>5. ASSUME NEW s \in A, s \notin Samples(q) PROVE ~(Cardinality(After(s)) < MaxSize)
  <2>1. Len(q) = MaxSize /\ \A t \in Samples(q) : t \in A /\ s.ts < t.ts
    BY <1>5 DEF Top
  <2>2. Samples(q) \subseteq After(s)
    BY <1>2, <2>1
  <2>3. Len(q) <= Cardinality(After(s))
    <3> HIDE DEF After
    <3> QED
      BY <1>1, <1>3, <2>2, FS_Subset
  <2> HIDE DEF After
  <2> QED
    BY <1>1, <1>3, <2>1, <2>3
<1>6. Newest(A) = {s \in A : Cardinality(After(s)) < MaxSize}
  BY DEF Newest
<1>7. Samples(q) \subseteq A
  BY DEF Top
<1> HIDE DEF After
<1> QED
  BY <1>4, <1>5, <1>6, <1>7

\* A sample is taken: it is new among those of A, or its time is known there.
LEMMA TopTakes ==
    ASSUME NEW T, Sampled(T), NEW q, NEW s \in T, NEW r, TakesOne(T, q, s, r),
           NEW A, A \subseteq T, Top(A, q), NEW B,
           \/ B = A /\ \E a \in A : a.ts = s.ts
           \/ B = A \cup {s} /\ \A a \in A : a.ts # s.ts
    PROVE  Top(B, r)
<1>1. s.ts \in Int /\ \A a \in A : a.ts \in Int
  BY DEF Sampled
<1>2. /\ Samples(q) \subseteq A /\ \A a \in A \ Samples(q) : \A t \in Samples(q) : a.ts < t.ts
      /\ Samples(q) = A \/ Len(q) = MaxSize
  BY DEF Top
<1>3. CASE r = q /\ \E t \in Samples(q) : t.ts = s.ts
  BY <1>2, <1>3
<1>4. CASE /\ \A t \in Samples(q) : t.ts # s.ts
           /\ Len(q) < MaxSize /\ Samples(r) = Samples(q) \cup {s}
  <2>1. Samples(q) = A
    BY <1>2, <1>4, SampleQueueAssumption
  <2>2. B = Samples(r)
    BY <1>4, <2>1
  <2> QED
    BY <2>2 DEF Top
<1>5. ASSUME \A t \in Samples(q) : t.ts # s.ts, Len(q) = MaxSize, Len(r) = MaxSize,
             NEW m, Samples(q) \cup {s} = Samples(r) \cup {m}, \A x \in Samples(r) : x.ts > m.ts
      PROVE  Top(B, r)
  <2>1. m \in Samples(q) \/ m = s
    BY <1>5
  <2>2. m.ts \in Int /\ m \notin Samples(r)
    <3>1. m.ts \in Int
      BY <1>1, <1>2, <2>1
    <3> QED
      BY <1>5, <3>1
  <2>3. CASE B = A /\ \E a \in A : a.ts = s.ts
    <3>1. PICK a \in A : a.ts = s.ts
      BY <2>3
    <3>2. a \notin Samples(q)
      BY <1>5, <3>1
    <3>3. \A t \in Samples(q) : s.ts < t.ts
      BY <1>2, <3>1, <3>2
    <3>4. m = s
      <4> SUFFICES ASSUME m # s PROVE FALSE
        OBVIOUS
      <4>1. m \in Samples(q) /\ s \in Samples(r)
        BY <1>5, <2>1
      <4>2. s.ts < m.ts /\ s.ts > m.ts
        BY <1>5, <3>3, <4>1
      <4> QED
        BY <1>1, <2>2, <4>2
    <3>5. s \notin Samples(q) /\ s \notin Samples(r)
      BY <1>5, <2>2, <3>4
    <3>6. Samples(r) = Samples(q)
      BY <1>5, <3>4, <3>5
    <3> QED
      BY <1>2, <1>5, <2>3, <3>6 DEF Top
  <2>4. CASE B = A \cup {s} /\ \A a \in A : a.ts # s.ts
    <3>1. Samples(r) \subseteq B
      BY <1>2, <1>5, <2>4
    <3>2. ASSUME NEW b \in B \ Samples(r), NEW x \in Samples(r) PROVE b.ts < x.ts
      <4>1. b.ts \in Int /\ x.ts \in Int
        BY <1>1, <2>4, <3>1, <3>2
      <4>2. CASE b = m
        <5>1. x.ts > m.ts
          BY <1>5
        <5> QED
          BY <4>1, <4>2, <5>1
      <4>3. CASE b # m
        <5>1. b \in A \ Samples(q)
          BY <1>5, <2>4, <3>2, <4>3
        <5>2. CASE x \in Samples(q)
          BY <1>2, <5>1, <5>2
        <5>3. CASE x \notin Samples(q)
          <6>1. x = s /\ m # s /\ m \in Samples(q)
            BY <1>5, <2>1, <2>2, <5>3
          <6>2. b.ts < m.ts /\ m.ts < x.ts
            <7>1. b.ts < m.ts
              BY <1>2, <5>1, <6>1
            <7>2. x.ts > m.ts
              BY <1>5
            <7> QED
              BY <2>2, <4>1, <7>1, <7>2
          <6> QED
            BY <2>2, <4>1, <6>2
        <5> QED
          BY <5>2, <5>3
      <4> QED
        BY <4>2, <4>3
    <3> QED
      BY <1>5, <3>1, <3>2 DEF Top
  <2> QED
    BY <2>3, <2>4
<1> QED
  BY <1>3, <1>4, <1>5 DEF TakesOne

\* The samples of S with a time that N does not have.
NewIn(N, S) == {s \in S : s.ts \notin {t.ts : t \in N}}

\* The samples of a sequence are of different times.
Different(new) == \A i, j \in 1 .. Len(new) : i # j => new[i].ts # new[j].ts

\* The newest are kept of what was there and what is new.
LEMMA TopTakesAll ==
    ASSUME NEW T, Sampled(T), NEW q \in ShortLines(T), NEW new \in Seq(T), Different(new)
    PROVE  Top(Samples(q) \cup NewIn(Samples(q), Samples(new)), TakenAll(q, new))
<1> DEFINE n == Len(new)
           First(k) == {new[j] : j \in 1 .. k}
           A(k) == Samples(q) \cup NewIn(Samples(q), First(k))
<1>1. PICK f : TakesAll(T, q, new, f)
  BY TakenAllSteps
<1>2. /\ f[0] = q /\ TakenAll(q, new) = f[n] /\ n \in Nat
      /\ \A i \in 0 .. n : f[i] \in ShortLines(T)
      /\ \A i \in 1 .. n : f[i] = Taken(f[i - 1], new[i])
  BY <1>1 DEF TakesAll
<1>3. (\A i \in 1 .. n : new[i] \in T) /\ Samples(q) \subseteq T
  BY DEF Samples, ShortLines, Lines
<1> DEFINE B == {k \in Nat : k <= n => Top(A(k), f[k])}
<1>4. 0 \in B
  <2>1. \A j \in 1 .. 0 : FALSE
    OBVIOUS
  <2>2. A(0) = Samples(q)
    BY <2>1 DEF NewIn
  <2>3. Top(A(0), f[0])
    BY <1>2, <2>2 DEF Top
  <2> HIDE DEF A
  <2> QED
    BY <2>3
<1>5. ASSUME NEW k \in Nat, k \in B PROVE k + 1 \in B
  <2> SUFFICES ASSUME k + 1 <= n PROVE Top(A(k + 1), f[k + 1])
    OBVIOUS
  <2> DEFINE s == new[k + 1]
  <2>1. k + 1 \in 1 .. n /\ (k + 1) - 1 = k /\ k \in 0 .. n /\ k <= n /\ s \in T
    BY <1>2, <1>3
  <2>2. f[k] \in ShortLines(T) /\ Top(A(k), f[k]) /\ f[k + 1] = Taken(f[k], s)
    <3> HIDE DEF A
    <3> QED
      BY <1>2, <1>5, <2>1
  <2>3. TakesOne(T, f[k], s, f[k + 1])
    BY <2>1, <2>2, TakenExactly
  <2>4. \A j \in 1 .. k : j \in 1 .. n /\ j # k + 1
    BY <1>2, <2>1
  <2>5. First(k + 1) = First(k) \cup {s}
    <3>1. \A j \in 1 .. k + 1 : j \in 1 .. k \/ j = k + 1
      OBVIOUS
    <3>2. 1 .. k \subseteq 1 .. k + 1 /\ k + 1 \in 1 .. k + 1
      OBVIOUS
    <3> QED
      BY <3>1, <3>2
  <2>6. A(k) \subseteq T
    BY <1>3, <2>4 DEF NewIn
  <2>7. \A t \in First(k) : t.ts # s.ts
    BY <2>1, <2>4 DEF Different
  <2>8. \/ A(k + 1) = A(k) /\ \E a \in A(k) : a.ts = s.ts
        \/ A(k + 1) = A(k) \cup {s} /\ \A a \in A(k) : a.ts # s.ts
    <3> HIDE DEF First, s
    <3>1. CASE \E t \in Samples(q) : t.ts = s.ts
      BY <2>5, <3>1 DEF NewIn
    <3>2. CASE \A t \in Samples(q) : t.ts # s.ts
      BY <2>5, <2>7, <3>2 DEF NewIn
    <3> QED
      BY <3>1, <3>2
  <2> HIDE DEF A, s
  <2> QED
    BY <2>1, <2>2, <2>3, <2>6, <2>8, TopTakes
<1>6. n \in B
  <2> HIDE DEF B
  <2> QED
    BY <1>2, <1>4, <1>5, Induction
<1>7. First(n) = Samples(new)
  BY DEF Samples
<1>8. Top(A(n), f[n])
  <2> HIDE DEF A, First
  <2> QED
    BY <1>2, <1>6
<1> HIDE DEF First
<1> QED
  BY <1>2, <1>7, <1>8

\* The newest of N and the newest of R are the newest of both.
LEMMA TopOfTop ==
    ASSUME NEW T, Sampled(T), NEW N, N \subseteq T, NEW R, R \subseteq T,
           NEW g \in ShortLines(T), Top(R, g), NEW q \in ShortLines(T),
           Top(N \cup NewIn(N, Samples(g)), q)
    PROVE  Top(N \cup NewIn(N, R), q)
<1> DEFINE A == N \cup NewIn(N, Samples(g))
           B == N \cup NewIn(N, R)
<1>1. /\ q \in Lines(T) /\ Len(q) <= MaxSize /\ Len(q) \in Nat
      /\ g \in Lines(T) /\ Len(g) <= MaxSize /\ Len(g) \in Nat /\ MaxSize \in Nat
  BY LineIsQueue, SampleQueueAssumption DEF ShortLines
<1>2. A \subseteq B /\ B \subseteq T /\ \A t \in T : t.ts \in Int
  BY DEF Top, NewIn, Sampled
<1>3. ASSUME NEW a \in B \ A PROVE Len(q) = MaxSize /\ \A x \in Samples(q) : a.ts < x.ts
  <2>1. a \in R /\ a \notin Samples(g)
    BY <1>3 DEF NewIn
  <2>2. Len(g) = MaxSize /\ \A t \in Samples(g) : a.ts < t.ts
    BY <2>1 DEF Top
  <2>3. \A t \in Samples(g) : \E y \in A : y.ts = t.ts
    BY DEF NewIn
  <2>4. ASSUME \/ Samples(q) = A
               \/ \E x \in Samples(q) : ~(a.ts < x.ts)
        PROVE  TimesOf(g) \subseteq TimesOf(q)
    <3> SUFFICES ASSUME NEW t \in Samples(g) PROVE \E y \in Samples(q) : y.ts = t.ts
      BY DEF TimesOf
    <3>1. PICK y \in A : y.ts = t.ts
      BY <2>3
    <3>2. CASE Samples(q) = A
      BY <3>1, <3>2
    <3>3. CASE \E x \in Samples(q) : ~(a.ts < x.ts)
      <4>1. PICK x \in Samples(q) : ~(a.ts < x.ts)
        BY <3>3
      <4>2. a.ts \in Int /\ x.ts \in Int /\ y.ts \in Int /\ a.ts < y.ts
        BY <1>2, <2>2, <3>1 DEF Top
      <4>3. y \notin Samples(q) => y.ts < x.ts
        BY <3>1 DEF Top
      <4> QED
        BY <3>1, <4>1, <4>2, <4>3
    <3> QED
      BY <2>4, <3>2, <3>3
  <2>5. /\ IsFiniteSet(TimesOf(q)) /\ Cardinality(TimesOf(q)) = Len(q)
        /\ IsFiniteSet(TimesOf(g)) /\ Cardinality(TimesOf(g)) = Len(g)
    BY <1>1, LineCount
  <2>6. TimesOf(g) \subseteq TimesOf(q) => Len(q) = MaxSize /\ TimesOf(g) = TimesOf(q)
    <3> SUFFICES ASSUME TimesOf(g) \subseteq TimesOf(q)
                 PROVE  Len(q) = MaxSize /\ TimesOf(g) = TimesOf(q)
      OBVIOUS
    <3>1. Len(g) <= Len(q) /\ (Len(q) = Len(g) => TimesOf(q) = TimesOf(g))
      BY <2>5, FS_Subset
    <3> QED
      BY <1>1, <2>2, <3>1
  <2>7. Len(q) = MaxSize
    BY <2>4, <2>6 DEF Top
  <2>8. ASSUME NEW x \in Samples(q), ~(a.ts < x.ts) PROVE FALSE
    <3>1. x.ts \in TimesOf(q) /\ TimesOf(g) = TimesOf(q)
      BY <2>4, <2>6, <2>8 DEF TimesOf
    <3>2. \A u \in TimesOf(g) : a.ts < u
      BY <2>2 DEF TimesOf
    <3> QED
      BY <2>8, <3>1, <3>2
  <2> QED
    BY <2>7, <2>8
<1>4. Samples(q) \subseteq B
  BY <1>2 DEF Top
<1>5. \A b \in B \ Samples(q) : \A x \in Samples(q) : b.ts < x.ts
  <2> SUFFICES ASSUME NEW b \in B \ Samples(q), NEW x \in Samples(q) PROVE b.ts < x.ts
    OBVIOUS
  <2>1. CASE b \in A
    BY <2>1 DEF Top
  <2>2. CASE b \notin A
    BY <1>3, <2>2
  <2> QED
    BY <2>1, <2>2
<1>6. Samples(q) = B \/ Len(q) = MaxSize
  <2>1. CASE A = B
    BY <2>1 DEF Top
  <2>2. CASE A # B
    BY <1>2, <1>3, <2>2
  <2> QED
    BY <2>1, <2>2
<1> QED
  BY <1>4, <1>5, <1>6 DEF Top

\* The slots of a guest in the store hold samples of different times.
SlotsDiffer == \A vm \in Vm : Different(ring[vm])

\* A slot is filled with a sample of now, which no other slot has.
LEMMA MeasureSlotsDiffer ==
    ASSUME QueuesOK, SlotsDiffer, NEW val \in Values, Measure(val)
    PROVE  SlotsDiffer'
<1> DEFINE stored == ring[owner]
           times == {stored[i].ts : i \in 1 .. Len(stored)}
           s == Sample(now, val)
           new == IF Len(stored) < RingSize THEN Append(stored, s)
                  ELSE [i \in 1 .. RingSize |->
                           IF stored[i].ts = Min(times) THEN s ELSE stored[i]]
<1>1. /\ owner \in Vm /\ stored \in Seq(Measured) /\ Different(stored)
      /\ ring \in [Vm -> Seq(Measured)] /\ ring' = [ring EXCEPT ![owner] = new]
  BY DEF QueuesOK, Measure, SlotsDiffer
<1>2. (\A i \in 1 .. Len(stored) : stored[i].ts # now) /\ s.ts = now
  BY DEF Measure, Sample
<1>3. Different(new)
  <2> HIDE DEF times, s
  <2>1. CASE Len(stored) < RingSize
    <3>0. s \in Measured
      BY BandwidthAssumption DEF QueuesOK, Sample, Measured, s
    <3>1. /\ new = Append(stored, s) /\ Len(new) = Len(stored) + 1 /\ Len(stored) \in Nat
          /\ new[Len(stored) + 1] = s
          /\ \A i \in 1 .. Len(stored) : new[i] = stored[i]
      <4>1. new = Append(stored, s)
        BY <2>1
      <4> HIDE DEF new, stored
      <4> QED
        BY <1>1, <3>0, <4>1
    <3> HIDE DEF new, stored
    <3>2. \A i \in 1 .. Len(new) : i \in 1 .. Len(stored) \/ i = Len(stored) + 1
      BY <3>1
    <3> QED
      BY <1>1, <1>2, <3>1, <3>2 DEF Different
  <2>2. CASE ~(Len(stored) < RingSize)
    <3>1. new = [i \in 1 .. RingSize |-> IF stored[i].ts = Min(times) THEN s ELSE stored[i]]
      BY <2>2
    <3>2. Len(new) = RingSize /\ RingSize \in Nat /\ Len(stored) \in Nat
      BY <1>1, <3>1, BandwidthAssumption
    <3>3. \A i \in 1 .. Len(new) :
             i \in 1 .. Len(stored) /\ new[i] = IF stored[i].ts = Min(times) THEN s ELSE stored[i]
      BY <2>2, <3>1, <3>2
    <3> HIDE DEF new, stored
    <3> QED
      BY <1>1, <1>2, <3>3 DEF Different
  <2> QED
    BY <2>1, <2>2
<1> HIDE DEF new, stored
<1>4. \A vm \in Vm : ring'[vm] = ring[vm] \/ ring'[vm] = new
  BY <1>1
<1> QED
  BY <1>3, <1>4 DEF SlotsDiffer

\* The inductive invariant of the slots.
SlotsInv == QueuesOK /\ SlotsDiffer

\* A round keeps the newest samples of the node and the store.
LEMMA RoundKeepsNewest ==
    ASSUME SlotsInv, NEW load \in LoadsNow, NEW o \in arrived \cup {NoOwner}, o # NoOwner,
           Round(load, o)
    PROVE  Samples(node') = Newest(Samples(node) \cup NewIn(Samples(node), Samples(ring[o])))
<1> DEFINE N == Samples(node)
           R == Samples(ring[o])
           g == Grabbed(o)
<1>1. /\ node \in ShortLines(Timed) /\ ring[o] \in Seq(Timed) /\ Different(ring[o])
      /\ <<>> \in ShortLines(Timed) /\ g \in ShortLines(Timed)
      /\ Samples(<<>>) = {} /\ Sampled(Timed)
  <2>1. o \in Vm /\ ring[o] \in Seq(Measured)
    BY DEF SlotsInv, QueuesOK
  <2>2. Samples(<<>>) = {}
    BY DEF Samples
  <2> QED
    BY <2>1, <2>2, Sampling, EmptyLine, GrabbedOK DEF SlotsInv, SlotsDiffer, QueuesOK
<1>2. g = TakenAll(<<>>, ring[o]) /\ node' = TakenAll(node, g)
  BY DEF Grabbed, Round
<1>3. Top(R, g)
  <2>1. Top(Samples(<<>>) \cup NewIn(Samples(<<>>), R), g)
    <3> HIDE DEF g
    <3> QED
      BY <1>1, <1>2, TopTakesAll
  <2>2. Samples(<<>>) \cup NewIn(Samples(<<>>), R) = R
    BY <1>1 DEF NewIn
  <2> QED
    BY <2>1, <2>2
<1>4. g \in Seq(Timed) /\ g \in Lines(Timed) /\ node \in Lines(Timed)
  BY <1>1 DEF ShortLines, Lines
<1>5. Different(g)
  <2>1. Ordered(g) /\ Len(g) \in Nat /\ \A i \in 1 .. Len(g) : g[i].ts \in Int
    BY <1>1, <1>4, LineIsQueue
  <2> SUFFICES ASSUME NEW i \in 1 .. Len(g), NEW j \in 1 .. Len(g), i # j
               PROVE  g[i].ts # g[j].ts
    BY DEF Different
  <2>2. i < j \/ j < i
    BY <2>1
  <2> QED
    BY <2>1, <2>2 DEF Ordered
<1>6. Top(N \cup NewIn(N, Samples(g)), node') /\ node' \in ShortLines(Timed)
  <2> HIDE DEF g
  <2> QED
    BY <1>1, <1>2, <1>4, <1>5, TopTakesAll, TakenAllInLine
<1>7. N \subseteq Timed /\ R \subseteq Timed
  <2>1. /\ \A i \in 1 .. Len(node) : node[i] \in Timed
        /\ \A i \in 1 .. Len(ring[o]) : ring[o][i] \in Timed
    BY <1>1, <1>4, LineIsQueue
  <2> QED
    BY <2>1 DEF Samples
<1>8. Top(N \cup NewIn(N, R), node')
  <2> HIDE DEF N, R, g
  <2> QED
    BY <1>1, <1>3, <1>6, <1>7, TopOfTop
<1>9. IsFiniteSet(N \cup NewIn(N, R)) /\ N \cup NewIn(N, R) \subseteq Timed
  <2>1. IsFiniteSet(N)
    BY <1>1, <1>4, LineCount
  <2>2. IsFiniteSet(R)
    <3> DEFINE at == [i \in 1 .. Len(ring[o]) |-> ring[o][i]]
    <3>1. at \in Surjection(1 .. Len(ring[o]), R)
      BY DEF Samples, Surjection
    <3>2. IsFiniteSet(1 .. Len(ring[o]))
      BY <1>1, FS_Interval
    <3> HIDE DEF at, R
    <3> QED
      BY <3>1, <3>2, FS_Surjection
  <2>3. NewIn(N, R) \subseteq R
    BY DEF NewIn
  <2>4. IsFiniteSet(NewIn(N, R))
    <3> HIDE DEF N, R
    <3> QED
      BY <2>2, <2>3, FS_Subset
  <2>5. IsFiniteSet(N \cup NewIn(N, R))
    <3> HIDE DEF N, R
    <3> QED
      BY <2>1, <2>4, FS_Union
  <2> QED
    BY <1>7, <2>3, <2>5
<1> HIDE DEF N, R
<1>10. Samples(node') = Newest(N \cup NewIn(N, R))
  BY <1>1, <1>6, <1>8, <1>9, TopIsNewest
<1> QED
  BY <1>10 DEF N, R

\* A round leaves in the queue of the node the newest samples of those it had and
\* those in the store, in whatever slots and however many they are, and reading the
\* same slots again neither brings back what was evicted nor evicts what is newer.
THEOREM NewestAreKept == Spec => KeepsNewest
<1> DEFINE A == owner' # NoOwner /\ sampled' # sampled =>
                   LET known == {s.ts : s \in Samples(node)}
                       fresh == {s \in Samples(ring[owner']) : s.ts \notin known}
                   IN  Samples(node') = Newest(Samples(node) \cup fresh)
<1>1. Init => SlotsInv
  <2> SUFFICES ASSUME Init PROVE SlotsInv
    OBVIOUS
  <2>1. \A i \in 1 .. 0 : FALSE
    OBVIOUS
  <2>2. \A vm \in Vm : ring[vm] = <<>> /\ Len(<<>>) = 0
    BY DEF Init
  <2> QED
    BY <2>1, <2>2, InitQueuesOK DEF SlotsInv, SlotsDiffer, Different
<1>2. SlotsInv /\ [Next]_vars => SlotsInv'
  <2> SUFFICES ASSUME SlotsInv, [Next]_vars PROVE SlotsInv'
    OBVIOUS
  <2>1. QueuesOK'
    BY StepQueuesOK DEF SlotsInv
  <2>2. ASSUME UNCHANGED ring PROVE SlotsInv'
    BY <2>1, <2>2 DEF SlotsInv, SlotsDiffer
  <2>3. ASSUME NEW val \in Values, Measure(val) PROVE SlotsInv'
    BY <2>1, <2>3, MeasureSlotsDiffer DEF SlotsInv
  <2>4. (\E val \in Values : Measure(val)) \/ UNCHANGED ring
    BY DEF Next, Tick, Arrive, Round, vars
  <2> QED
    BY <2>2, <2>3, <2>4
<1>3. SlotsInv /\ [Next]_vars => [A]_vars
  <2> SUFFICES ASSUME SlotsInv, Next, owner' # NoOwner, sampled' # sampled PROVE A
    OBVIOUS
  <2>1. PICK load \in LoadsNow, o \in arrived \cup {NoOwner} : Round(load, o)
    BY DEF Next, Tick, Arrive, Measure
  <2>2. owner' = o
    BY <2>1 DEF Round
  <2>3. Samples(node') = Newest(Samples(node) \cup NewIn(Samples(node), Samples(ring[owner'])))
    BY <2>1, <2>2, RoundKeepsNewest
  <2> QED
    BY <2>3 DEF NewIn
<1> QED
  BY <1>1, <1>2, <1>3, PTL DEF Spec, KeepsNewest
-----------------------------------------------------------------------------
(* The load of a node. *)

\* The samples that are pushed out by the next one.
Dropped(n) == IF n + 1 > LocalSize THEN 1 ELSE 0

\* A load is pushed: the others move up.
LEMMA PushedPlaces ==
    ASSUME NEW q \in Seq(Timed), NEW s \in Timed, NEW r, r = Pushed(q, s)
    PROVE  /\ Len(r) = Len(q) + 1 - Dropped(Len(q))
           /\ \A i \in 1 .. Len(r) :
                 r[i] = IF i + Dropped(Len(q)) <= Len(q) THEN q[i + Dropped(Len(q))] ELSE s
<1> DEFINE long == Append(q, s)
<1>1. /\ long \in Seq(Timed) /\ long # <<>> /\ Len(long) = Len(q) + 1 /\ Len(q) \in Nat
      /\ \A i \in 1 .. Len(q) + 1 : long[i] = IF i <= Len(q) THEN q[i] ELSE s
  OBVIOUS
<1>2. r = IF Len(long) > LocalSize THEN Tail(long) ELSE long
  BY DEF Pushed
<1> HIDE DEF long
<1>3. LocalSize \in Nat
  BY BandwidthAssumption
<1>4. CASE Len(long) > LocalSize
  <2>1. r = Tail(long) /\ Dropped(Len(q)) = 1
    BY <1>1, <1>2, <1>4 DEF Dropped
  <2>2. Len(r) = Len(q) /\ \A i \in 1 .. Len(q) : r[i] = long[i + 1]
    BY <1>1, <2>1
  <2>3. \A i \in 1 .. Len(q) : i + 1 \in 1 .. Len(q) + 1
    BY <1>1
  <2> QED
    BY <1>1, <2>1, <2>2, <2>3
<1>5. CASE ~(Len(long) > LocalSize)
  <2>1. r = long /\ Dropped(Len(q)) = 0
    BY <1>1, <1>2, <1>3, <1>5 DEF Dropped
  <2> QED
    BY <1>1, <2>1
<1> QED
  BY <1>4, <1>5

\* The deques of vCPUs that are watched together.
Together(n, deques, len) ==
    /\ deques \in Deques(1 .. n) /\ len \in Nat
    /\ \A c \in 1 .. n : Len(deques[c]) = len
    /\ \A c \in 1 .. n : \A i \in 1 .. len : deques[c][i].ts = deques[1][i].ts

\* They are joined place by place.
LEMMA MergedTogether ==
    ASSUME NEW n \in Nat \ {0}, NEW deques, NEW len, Together(n, deques, len)
    PROVE  /\ Merged(deques) \in Seq(Timed) /\ Len(Merged(deques)) = len
           /\ \A i \in 1 .. len :
                 Merged(deques)[i] =
                    Sample(deques[1][i].ts,
                           SumFunction([c \in 1 .. n |-> deques[c][i].val]) \div n)
<1> DEFINE total(i) == SumFunction([c \in HoldersOf(deques, i) |-> deques[c][i].val])
<1>1. /\ deques \in Deques(1 .. n) /\ len \in Nat /\ 1 \in 1 .. n
      /\ \A c \in 1 .. n : Len(deques[c]) = len
      /\ \A c \in 1 .. n : \A i \in 1 .. len : deques[c][i].ts = deques[1][i].ts
  BY DEF Together
<1>2. DOMAIN deques = 1 .. n /\ Len(deques) = n
  <2>1. deques \in Seq({q \in Seq(Timed) : Len(q) <= LocalSize}) /\ DOMAIN deques = 1 .. n
    BY <1>1 DEF Deques
  <2> QED
    BY <2>1
<1>3. Places(deques) = 1 .. len
  <2>1. {Len(deques[c]) : c \in DOMAIN deques} = {len}
    BY <1>1, <1>2
  <2>2. Max({len}) = len
    BY <1>1 DEF Max
  <2> QED
    BY <2>1, <2>2 DEF Places
<1>4. \A i \in 1 .. len : HoldersOf(deques, i) = 1 .. n
  BY <1>1, <1>2 DEF HoldersOf
<1>5. \A i \in 1 .. len : Min(HoldersOf(deques, i)) \in 1 .. n
  BY <1>1, <1>3, <1>4, PlacesHeld
<1>6. Merged(deques) =
         [i \in Places(deques) |->
             Sample(deques[Min(HoldersOf(deques, i))][i].ts, total(i) \div Len(deques))]
  BY DEF Merged, Places, HoldersOf
<1>7. \A i \in 1 .. len : /\ total(i) = SumFunction([c \in 1 .. n |-> deques[c][i].val])
                          /\ deques[Min(HoldersOf(deques, i))][i].ts = deques[1][i].ts
  BY <1>1, <1>4, <1>5
<1>8. \A i \in 1 .. len :
         Merged(deques)[i] =
            Sample(deques[1][i].ts, SumFunction([c \in 1 .. n |-> deques[c][i].val]) \div n)
  <2> HIDE DEF total
  <2> QED
    BY <1>2, <1>3, <1>6, <1>7
<1>9. Merged(deques) \in Seq(Timed)
  BY <1>1, MergedOK
<1>10. Len(Merged(deques)) = len
  <2>1. DOMAIN Merged(deques) = 1 .. len
    BY <1>3, <1>6
  <2> QED
    BY <1>1, <1>9, <2>1
<1> QED
  BY <1>8, <1>9, <1>10

\* A time that q has, or has evicted: a sample of this time changes q no more.
Known(ts, q) == \/ ts \in TimesOf(q)
                \/ Len(q) = MaxSize /\ \A t \in Samples(q) : ts < t.ts

\* What is known is not taken again.
LEMMA KnownIsLeft ==
    ASSUME NEW T, Sampled(T), NEW q \in ShortLines(T), NEW s \in T, NEW r, TakesOne(T, q, s, r),
           Known(s.ts, q)
    PROVE  Samples(r) = Samples(q) /\ Len(r) = Len(q)
<1>1. s.ts \in Int
  BY DEF Sampled
<1>2. CASE r = q
  BY <1>2
<1>3. ASSUME \A t \in Samples(q) : t.ts # s.ts, Len(q) = MaxSize, Len(r) = MaxSize,
             NEW m, Samples(q) \cup {s} = Samples(r) \cup {m}, \A x \in Samples(r) : x.ts > m.ts
      PROVE  Samples(r) = Samples(q) /\ Len(r) = Len(q)
  <2>1. \A t \in Samples(q) : s.ts < t.ts /\ t.ts \in Int
    <3>1. q \in Lines(T)
      BY DEF ShortLines
    <3>2. \A t \in Samples(q) : t.ts \in Int
      BY <3>1, LineIsQueue DEF Samples
    <3> QED
      BY <1>3, <3>2 DEF Known, TimesOf
  <2>2. m = s
    <3> SUFFICES ASSUME m # s PROVE FALSE
      OBVIOUS
    <3>1. m \in Samples(q) /\ s \in Samples(r)
      BY <1>3
    <3>2. s.ts < m.ts /\ s.ts > m.ts /\ m.ts \in Int
      BY <1>3, <2>1, <3>1
    <3> QED
      BY <1>1, <3>2
  <2>3. s \notin Samples(r) /\ s \notin Samples(q)
    <3>1. ~(s.ts > s.ts)
      BY <1>1
    <3> QED
      BY <1>3, <2>2, <3>1
  <2> QED
    BY <1>3, <2>2, <2>3
<1>4. CASE (\A t \in Samples(q) : t.ts # s.ts) /\ Len(q) < MaxSize
  <2>1. ~(Len(q) = MaxSize)
    BY <1>4, LineIsQueue, SampleQueueAssumption DEF ShortLines
  <2> QED
    BY <1>4, <2>1 DEF Known, TimesOf
<1> QED
  BY <1>2, <1>3, <1>4 DEF TakesOne

\* A sample that is newer than all is taken, and what was known stays known.
LEMMA NewestIsTaken ==
    ASSUME NEW T, Sampled(T), NEW q \in ShortLines(T), NEW s \in T, NEW r, TakesOne(T, q, s, r),
           \A t \in Samples(q) : t.ts < s.ts
    PROVE  /\ s \in Samples(r) /\ Samples(r) \subseteq Samples(q) \cup {s}
           /\ Top(Samples(q) \cup {s}, r)
           /\ \A ts \in Int : ts < s.ts /\ Known(ts, q) => Known(ts, r)
<1>1. s.ts \in Int /\ \A t \in Samples(q) : t.ts \in Int /\ t \in T
  <2>1. q \in Lines(T)
    BY DEF ShortLines
  <2>2. \A t \in Samples(q) : t.ts \in Int /\ t \in T
    BY <2>1, LineIsQueue DEF Samples
  <2> QED
    BY <2>2 DEF Sampled
<1>2. \A t \in Samples(q) : t.ts # s.ts
  BY <1>1
<1>3. Top(Samples(q), q)
  BY DEF Top
<1>4. Top(Samples(q) \cup {s}, r)
  <2>1. Samples(q) \subseteq T
    BY <1>1
  <2> QED
    BY <1>2, <1>3, <2>1, TopTakes
<1>5. Samples(r) \subseteq Samples(q) \cup {s}
  BY <1>4 DEF Top
<1>6. CASE Len(q) < MaxSize /\ Samples(r) = Samples(q) \cup {s}
  <2>1. ~(Len(q) = MaxSize)
    BY <1>6, LineIsQueue, SampleQueueAssumption DEF ShortLines
  <2>2. \A ts : Known(ts, q) => Known(ts, r)
    BY <1>6, <2>1 DEF Known, TimesOf
  <2> QED
    BY <1>4, <1>6, <2>2
<1>7. ASSUME Len(q) = MaxSize, Len(r) = MaxSize,
             NEW m, Samples(q) \cup {s} = Samples(r) \cup {m}, \A x \in Samples(r) : x.ts > m.ts
      PROVE  s \in Samples(r) /\ \A ts \in Int : ts < s.ts /\ Known(ts, q) => Known(ts, r)
  <2>1. s \in Samples(r)
    <3> SUFFICES ASSUME s \notin Samples(r) PROVE FALSE
      OBVIOUS
    <3>1. m = s /\ r[1] \in Samples(r)
      <4>1. 1 \in 1 .. MaxSize
        BY SampleQueueAssumption
      <4> QED
        BY <1>7, <4>1 DEF Samples
    <3>2. r[1].ts > s.ts /\ r[1] \in Samples(q)
      BY <1>5, <1>7, <3>1
    <3>3. r[1].ts < s.ts /\ r[1].ts \in Int
      BY <1>1, <3>2
    <3> QED
      BY <1>1, <3>2, <3>3
  <2>2. ASSUME NEW ts \in Int, ts < s.ts, Known(ts, q) PROVE Known(ts, r)
    <3>1. CASE ts \in TimesOf(q)
      <4>1. PICK t \in Samples(q) : t.ts = ts
        BY <3>1 DEF TimesOf
      <4>2. CASE t \in Samples(r)
        BY <4>1, <4>2 DEF Known, TimesOf
      <4>3. CASE t \notin Samples(r)
        <5>1. t = m
          BY <1>7, <4>3
        <5>2. \A x \in Samples(r) : x.ts \in Int /\ x.ts > ts
          BY <1>1, <1>5, <1>7, <4>1, <5>1
        <5>3. \A x \in Samples(r) : ts < x.ts
          BY <5>2
        <5> QED
          BY <1>7, <5>3 DEF Known
      <4> QED
        BY <4>2, <4>3
    <3>2. CASE \A t \in Samples(q) : ts < t.ts
      <4>1. \A x \in Samples(r) : ts < x.ts
        BY <1>5, <2>2, <3>2
      <4> QED
        BY <1>7, <4>1 DEF Known
    <3> QED
      BY <2>2, <3>1, <3>2 DEF Known
  <2> QED
    BY <2>1, <2>2
<1> QED
  BY <1>2, <1>4, <1>5, <1>6, <1>7 DEF TakesOne

\* new ends with a sample of ts, and all others are known.
LastIsNew(new, ts, q) ==
    /\ new # <<>> /\ LastOf(new).ts = ts
    /\ \A i \in 1 .. Len(new) - 1 : Known(new[i].ts, q)
    /\ \A t \in Samples(q) : t.ts < ts

\* Only the last one is taken then.
LEMMA LastIsTaken ==
    ASSUME NEW T, Sampled(T), NEW q \in ShortLines(T), NEW new \in Seq(T), NEW ts,
           LastIsNew(new, ts, q)
    PROVE  LET s == LastOf(new)
               r == TakenAll(q, new)
           IN  /\ s \in Samples(r) /\ Samples(r) \subseteq Samples(q) \cup {s}
               /\ Top(Samples(q) \cup {s}, r) /\ r \in ShortLines(T)
               /\ \A u \in Int : u < ts /\ Known(u, q) => Known(u, r)
<1> DEFINE n == Len(new)
           s == new[n]
<1>1. PICK f : TakesAll(T, q, new, f)
  BY TakenAllSteps
<1>2. /\ f[0] = q /\ TakenAll(q, new) = f[n] /\ n \in Nat
      /\ \A i \in 0 .. n : f[i] \in ShortLines(T)
      /\ \A i \in 1 .. n : f[i] = Taken(f[i - 1], new[i])
  BY <1>1 DEF TakesAll
<1>3. n # 0 /\ (\A i \in 1 .. n : new[i] \in T) /\ s.ts = ts
      /\ (\A i \in 1 .. n - 1 : Known(new[i].ts, q)) /\ \A t \in Samples(q) : t.ts < ts
  BY DEF LastIsNew, LastOf
<1> DEFINE Same(r) == Samples(r) = Samples(q) /\ Len(r) = Len(q)
           B == {k \in Nat : k <= n - 1 => Same(f[k])}
<1>4. 0 \in B
  BY <1>2
<1>5. ASSUME NEW k \in Nat, k \in B PROVE k + 1 \in B
  <2> SUFFICES ASSUME k + 1 <= n - 1 PROVE Same(f[k + 1])
    OBVIOUS
  <2>1. k + 1 \in 1 .. n - 1 /\ k + 1 \in 1 .. n /\ (k + 1) - 1 = k /\ k \in 0 .. n /\ k <= n - 1
    BY <1>2
  <2>2. f[k] \in ShortLines(T) /\ Same(f[k]) /\ f[k + 1] = Taken(f[k], new[k + 1])
    BY <1>2, <1>5, <2>1
  <2>3. new[k + 1] \in T /\ Known(new[k + 1].ts, q)
    BY <1>3, <2>1
  <2>4. TakesOne(T, f[k], new[k + 1], f[k + 1])
    BY <2>2, <2>3, TakenExactly
  <2>5. Known(new[k + 1].ts, f[k])
    BY <2>2, <2>3 DEF Known, TimesOf
  <2>6. Samples(f[k + 1]) = Samples(f[k]) /\ Len(f[k + 1]) = Len(f[k])
    BY <2>2, <2>3, <2>4, <2>5, KnownIsLeft
  <2> QED
    BY <2>2, <2>6
<1>6. n - 1 \in Nat /\ n - 1 \in 0 .. n /\ n \in 0 .. n /\ n \in 1 .. n
  BY <1>2, <1>3
<1>7. Same(f[n - 1])
  <2>1. n - 1 \in B
    <3> HIDE DEF B
    <3> QED
      BY <1>4, <1>5, <1>6, Induction
  <2> QED
    BY <1>6, <2>1
<1>8. TakesOne(T, f[n - 1], s, f[n]) /\ f[n - 1] \in ShortLines(T) /\ f[n] \in ShortLines(T)
  <2>1. f[n - 1] \in ShortLines(T) /\ f[n] \in ShortLines(T) /\ f[n] = Taken(f[n - 1], s) /\ s \in T
    BY <1>2, <1>3, <1>6
  <2> QED
    BY <2>1, TakenExactly
<1>9. \A t \in Samples(f[n - 1]) : t.ts < s.ts
  BY <1>3, <1>7
<1> HIDE DEF n
<1>10. /\ s \in Samples(f[n]) /\ Samples(f[n]) \subseteq Samples(f[n - 1]) \cup {s}
       /\ Top(Samples(f[n - 1]) \cup {s}, f[n])
       /\ \A u \in Int : u < s.ts /\ Known(u, f[n - 1]) => Known(u, f[n])
  <2>1. s \in T
    BY <1>3, <1>6
  <2> DEFINE b == f[n - 1]
             r == f[n]
  <2>2. b \in ShortLines(T) /\ TakesOne(T, b, s, r) /\ \A t \in Samples(b) : t.ts < s.ts
    BY <1>8, <1>9
  <2> HIDE DEF s, b, r
  <2>3. /\ s \in Samples(r) /\ Samples(r) \subseteq Samples(b) \cup {s}
        /\ Top(Samples(b) \cup {s}, r)
    BY <2>1, <2>2, NewestIsTaken
  <2>4. \A u \in Int : u < s.ts /\ Known(u, b) => Known(u, r)
    BY <2>1, <2>2, NewestIsTaken
  <2> QED
    BY <2>3, <2>4 DEF b, r
<1>11. \A u : Known(u, q) => Known(u, f[n - 1])
  BY <1>7 DEF Known, TimesOf
<1>12. LastOf(new) = s
  BY DEF LastOf, n
<1> HIDE DEF s
<1> QED
  BY <1>2, <1>3, <1>7, <1>8, <1>10, <1>11, <1>12

\* What the vCPUs of a guest's node remember was sampled in the same rounds, and
\* all of it is known to the queue of the node.
Remembered(n, deques, len, final, q) ==
    /\ Together(n, deques, len)
    /\ \A i \in 1 .. len : deques[1][i].ts <= final /\ Known(deques[1][i].ts, q)
    /\ \A t \in Samples(q) : t.ts <= final

\* The load of every node is the mean of what its vCPUs remember.
LoadsOK == \A vm \in Vm : \E len : Remembered(Len(Loads[vm]), local[vm], len, sampled, cpu[vm])

\* The vCPUs of a guest's node after a round.
LEMMA VcpusTogether ==
    ASSUME QueuesOK, NEW vm \in Vm, NEW load, \A c \in Vcpus(vm) : load[c] \in Int,
           NEW n, n = Len(Loads[vm]), NEW len, Together(n, local[vm], len),
           NEW next, next = Watched(vm, load), NEW drop, drop = Dropped(len)
    PROVE  /\ n \in Nat \ {0} /\ len \in Nat /\ drop \in 0 .. 1 /\ drop <= len
           /\ Together(n, next, len + 1 - drop)
           /\ \A i \in 1 .. len + 1 - drop :
                 next[1][i].ts = IF i + drop <= len THEN local[vm][1][i + drop].ts ELSE now
<1>1. n \in Nat \ {0} /\ Vcpus(vm) = 1 .. n /\ 1 \in 1 .. n
  BY LoadsAssumption DEF Vcpus
<1>2. /\ local[vm] \in Deques(1 .. n) /\ len \in Nat
      /\ \A c \in 1 .. n : Len(local[vm][c]) = len
      /\ \A c \in 1 .. n : \A i \in 1 .. len : local[vm][c][i].ts = local[vm][1][i].ts
  BY DEF Together
<1>3. drop \in 0 .. 1 /\ drop <= len
  BY <1>2, BandwidthAssumption DEF Dropped
<1>4. next \in Deques(1 .. n)
  BY <1>1, WatchedOK
<1> DEFINE s(c) == Sample(now, IF local[vm][c] = <<>> THEN 0 ELSE load[c])
<1>5. \A c \in 1 .. n : next[c] = Pushed(local[vm][c], s(c))
  BY <1>1 DEF Watched, Vcpus
<1>6. \A c \in 1 .. n : s(c) \in Timed /\ s(c).ts = now
  <2>1. now \in 1 .. MaxTime
    BY DEF QueuesOK
  <2> QED
    BY <1>1, <2>1 DEF Sample, Timed
<1> HIDE DEF s
<1>7. ASSUME NEW c \in 1 .. n
      PROVE  /\ Len(next[c]) = len + 1 - drop
             /\ \A i \in 1 .. len + 1 - drop :
                   next[c][i] = IF i + drop <= len THEN local[vm][c][i + drop] ELSE s(c)
  <2>1. local[vm][c] \in Seq(Timed)
    BY <1>2 DEF Deques
  <2> QED
    BY <1>2, <1>5, <1>6, <2>1, PushedPlaces
<1>8. ASSUME NEW c \in 1 .. n, NEW i \in 1 .. len + 1 - drop
      PROVE  next[c][i].ts = IF i + drop <= len THEN local[vm][1][i + drop].ts ELSE now
  <2>1. CASE i + drop <= len
    <3>1. i + drop \in 1 .. len
      BY <1>2, <1>3, <2>1
    <3> QED
      BY <1>2, <1>7, <2>1, <3>1
  <2>2. CASE ~(i + drop <= len)
    BY <1>6, <1>7, <2>2
  <2> QED
    BY <2>1, <2>2
<1>9. len + 1 - drop \in Nat
  BY <1>2, <1>3
<1> QED
  BY <1>1, <1>2, <1>3, <1>4, <1>7, <1>8, <1>9 DEF Together

\* The mean of what the vCPUs show.
MeanOf(n, deques) == SumFunction([c \in 1 .. n |-> LastOf(deques[c]).val]) \div n

\* What a round takes for guest vm: next is what its vCPUs remember, q the queue of
\* its node.
Takes(vm, load, n, len, next, q) ==
    /\ QueuesOK /\ sampled < now /\ vm \in Vm /\ \A c \in Vcpus(vm) : load[c] \in Int
    /\ n = Len(Loads[vm]) /\ Remembered(n, local[vm], len, sampled, cpu[vm])
    /\ next = Watched(vm, load) /\ q = TakenAll(cpu[vm], Merged(next))

\* A round adds it to the load of the node.
LEMMA RoundAddsMean ==
    ASSUME NEW vm, NEW load, NEW n, NEW len, NEW next, NEW q, Takes(vm, load, n, len, next, q)
    PROVE  /\ Aligned(next)
           /\ Samples(q) = Newest(Samples(cpu[vm]) \cup {Sample(now, MeanOf(n, next))})
           /\ Remembered(n, next, len + 1 - Dropped(len), now, q)
<1> USE DEF Takes
<1> DEFINE drop == Dropped(len)
           final == len + 1 - drop
           merged == Merged(next)
           s == LastOf(merged)
<1>1. /\ Together(n, local[vm], len)
      /\ \A i \in 1 .. len : local[vm][1][i].ts <= sampled /\ Known(local[vm][1][i].ts, cpu[vm])
      /\ \A t \in Samples(cpu[vm]) : t.ts <= sampled
  BY DEF Remembered
<1>2. /\ n \in Nat \ {0} /\ len \in Nat /\ drop \in 0 .. 1 /\ drop <= len
      /\ Together(n, next, final)
      /\ \A i \in 1 .. final :
            next[1][i].ts = IF i + drop <= len THEN local[vm][1][i + drop].ts ELSE now
  BY <1>1, VcpusTogether
<1> HIDE DEF drop
<1>3. final \in 1 .. final /\ final \in Nat /\ ~(final + drop <= len)
  BY <1>2
<1>4. /\ merged \in Seq(Timed) /\ Len(merged) = final
      /\ \A i \in 1 .. final :
            merged[i] = Sample(next[1][i].ts, SumFunction([c \in 1 .. n |-> next[c][i].val]) \div n)
  <2>1. n \in Nat \ {0} /\ Together(n, next, final)
    BY <1>2
  <2> HIDE DEF final
  <2> QED
    BY <2>1, MergedTogether
<1>5. /\ sampled \in Int /\ now \in Int /\ cpu[vm] \in ShortLines(Timed) /\ cpu[vm] \in Lines(Timed)
      /\ Samples(cpu[vm]) \subseteq Timed
  <2>1. now \in 1 .. MaxTime /\ sampled \in 0 .. now /\ cpu[vm] \in ShortLines(Timed)
    BY DEF QueuesOK
  <2>2. cpu[vm] \in Seq(Timed)
    BY <2>1 DEF ShortLines, Lines
  <2> QED
    BY <2>1, <2>2 DEF ShortLines, Samples
<1>6. s = Sample(now, MeanOf(n, next)) /\ s.ts = now /\ s \in Timed
  <2>1. \A c \in 1 .. n : LastOf(next[c]) = next[c][final]
    BY <1>2 DEF Together, LastOf
  <2>2. [c \in 1 .. n |-> next[c][final].val] = [c \in 1 .. n |-> LastOf(next[c]).val]
    BY <2>1
  <2>3. s = merged[final] /\ next[1][final].ts = now
    BY <1>2, <1>3, <1>4 DEF LastOf
  <2> HIDE DEF merged, s, final
  <2>4. s = Sample(now, MeanOf(n, next))
    BY <1>3, <1>4, <2>2, <2>3 DEF MeanOf
  <2>5. s \in Timed
    BY <1>3, <1>4, <2>3
  <2> QED
    BY <2>4, <2>5 DEF Sample
<1>7. LastIsNew(merged, now, cpu[vm])
  <2>1. merged # <<>>
    <3>1. Len(<<>>) = 0
      OBVIOUS
    <3> QED
      BY <1>2, <1>3, <1>4, <3>1
  <2>2. ASSUME NEW i \in 1 .. Len(merged) - 1 PROVE Known(merged[i].ts, cpu[vm])
    <3>1. i \in 1 .. final /\ i + drop <= len /\ i + drop \in 1 .. len
      BY <1>2, <1>3, <1>4, <2>2
    <3>2. merged[i].ts = next[1][i].ts
      <4> DEFINE v == SumFunction([c \in 1 .. n |-> next[c][i].val]) \div n
      <4>1. merged[i] = Sample(next[1][i].ts, v)
        BY <1>4, <3>1
      <4> HIDE DEF merged, v
      <4> QED
        BY <4>1 DEF Sample
    <3>3. next[1][i].ts = local[vm][1][i + drop].ts
      BY <1>2, <3>1
    <3> QED
      BY <1>1, <3>1, <3>2, <3>3
  <2>3. \A t \in Samples(cpu[vm]) : t.ts < now
    <3>1. \A t \in Samples(cpu[vm]) : t.ts \in Int /\ t.ts <= sampled
      BY <1>1, <1>5, Sampling DEF Sampled
    <3> QED
      BY <1>5, <3>1
  <2> HIDE DEF merged, s, final
  <2> QED
    BY <1>6, <2>1, <2>2, <2>3 DEF LastIsNew, s
<1>8. /\ s \in Samples(q) /\ Samples(q) \subseteq Samples(cpu[vm]) \cup {s}
      /\ Top(Samples(cpu[vm]) \cup {s}, q) /\ q \in ShortLines(Timed)
      /\ \A u \in Int : u < now /\ Known(u, cpu[vm]) => Known(u, q)
  BY <1>4, <1>5, <1>7, Sampling, LastIsTaken
<1> HIDE DEF merged, s
<1>9. Samples(q) = Newest(Samples(cpu[vm]) \cup {s})
  <2>1. IsFiniteSet(Samples(cpu[vm]) \cup {s})
    BY <1>5, Sampling, LineCount, FS_AddElement
  <2>2. Samples(cpu[vm]) \cup {s} \subseteq Timed
    BY <1>5, <1>6
  <2> QED
    BY <1>8, <2>1, <2>2, Sampling, TopIsNewest
<1>10. Aligned(next)
  <2>1. DOMAIN next = 1 .. n
    BY <1>2 DEF Together, Deques
  <2>2. \A c \in 1 .. n : DOMAIN next[c] = 1 .. final
    BY <1>2 DEF Together, Deques
  <2>3. \A c \in 1 .. n : \A i \in 1 .. final : next[c][i].ts = next[1][i].ts
    BY <1>2 DEF Together
  <2> HIDE DEF final
  <2>4. ASSUME NEW c \in 1 .. n, NEW d \in 1 .. n, NEW i \in 1 .. final
        PROVE  next[c][i].ts = next[d][i].ts
    <3>1. next[c][i].ts = next[1][i].ts /\ next[d][i].ts = next[1][i].ts
      BY <2>3
    <3> QED
      BY <3>1
  <2>5. ASSUME NEW c \in DOMAIN next, NEW d \in DOMAIN next,
               NEW i \in DOMAIN next[c] \cap DOMAIN next[d]
        PROVE  next[c][i].ts = next[d][i].ts
    <3>1. c \in 1 .. n /\ d \in 1 .. n
      BY <2>1
    <3>2. i \in 1 .. final
      BY <2>2, <3>1
    <3> QED
      BY <2>4, <3>1, <3>2
  <2> QED
    BY <2>5 DEF Aligned
<1>11. ASSUME NEW i \in 1 .. final PROVE next[1][i].ts <= now /\ Known(next[1][i].ts, q)
  <2>1. CASE i + drop <= len
    <3>1. i + drop \in 1 .. len /\ next[1][i].ts = local[vm][1][i + drop].ts
      BY <1>2, <2>1
    <3>2. local[vm][1][i + drop].ts \in Int
      <4>1. local[vm][1] \in Seq(Timed) /\ Len(local[vm][1]) = len
        <5>1. 1 \in 1 .. n /\ local[vm] \in Deques(1 .. n)
          BY <1>1, <1>2 DEF Together
        <5>2. local[vm][1] \in Seq(Timed)
          BY <5>1 DEF Deques
        <5> QED
          BY <1>1, <5>1, <5>2 DEF Together
      <4>2. local[vm][1][i + drop] \in Timed
        BY <3>1, <4>1
      <4> QED
        BY <4>2, Sampling DEF Sampled
    <3>3. local[vm][1][i + drop].ts <= sampled /\ Known(local[vm][1][i + drop].ts, cpu[vm])
      BY <1>1, <3>1
    <3>4. local[vm][1][i + drop].ts < now
      BY <1>5, <3>2, <3>3
    <3> QED
      BY <1>5, <1>8, <3>1, <3>2, <3>3, <3>4
  <2>2. CASE ~(i + drop <= len)
    <3>1. next[1][i].ts = now
      BY <1>2, <2>2
    <3> QED
      BY <1>5, <1>6, <1>8, <3>1 DEF Known, TimesOf
  <2> QED
    BY <2>1, <2>2
<1>12. \A t \in Samples(q) : t.ts <= now
  <2>1. \A t \in Samples(cpu[vm]) : t.ts \in Int /\ t.ts <= sampled
    BY <1>1, <1>5, Sampling DEF Sampled
  <2> QED
    BY <1>5, <1>6, <1>8, <2>1
<1>13. Remembered(n, next, final, now, q)
  BY <1>2, <1>11, <1>12 DEF Remembered
<1> QED
  BY <1>6, <1>9, <1>10, <1>13 DEF drop

\* The inductive invariant of the loads.
LoadsInv == QueuesOK /\ LoadsOK

\* A round, for one of the guests that are there.
LEMMA RoundOfGuest ==
    ASSUME LoadsInv, NEW load \in LoadsNow, NEW o, Round(load, o), NEW vm \in arrived
    PROVE  /\ Aligned(local'[vm])
           /\ Samples(cpu'[vm]) =
                 Newest(Samples(cpu[vm]) \cup {Sample(now, MeanOf(Len(Loads[vm]), local'[vm]))})
           /\ \E len : Remembered(Len(Loads[vm]), local'[vm], len, now, cpu'[vm])
<1>1. vm \in Vm /\ QueuesOK /\ sampled < now
  BY DEF LoadsInv, QueuesOK, Round
<1>2. \A c \in Vcpus(vm) : load[vm][c] \in Int
  BY <1>1, LoadsAreNumbers
<1>3. local'[vm] = Watched(vm, load[vm]) /\ cpu'[vm] = TakenAll(cpu[vm], Merged(local'[vm]))
  BY <1>1 DEF Round
<1>4. PICK len : Remembered(Len(Loads[vm]), local[vm], len, sampled, cpu[vm])
  BY <1>1 DEF LoadsInv, LoadsOK
<1> DEFINE n == Len(Loads[vm])
           next == local'[vm]
           q == cpu'[vm]
           shown == load[vm]
<1>5. next = Watched(vm, shown) /\ q = TakenAll(cpu[vm], Merged(next))
  BY <1>3
<1>6. \A c \in Vcpus(vm) : shown[c] \in Int
  BY <1>2
<1>7. n = Len(Loads[vm]) /\ Remembered(n, local[vm], len, sampled, cpu[vm])
  BY <1>4
<1> HIDE DEF n, next, q, shown
<1>8. /\ Aligned(next)
      /\ Samples(q) = Newest(Samples(cpu[vm]) \cup {Sample(now, MeanOf(n, next))})
      /\ Remembered(n, next, len + 1 - Dropped(len), now, q)
  <2>1. Takes(vm, shown, n, len, next, q)
    BY <1>1, <1>5, <1>6, <1>7 DEF Takes
  <2> QED
    BY <2>1, RoundAddsMean
<1> QED
  BY <1>8 DEF n, next, q

\* Nothing is remembered at first.
LEMMA InitLoadsOK == Init => LoadsOK
<1> SUFFICES ASSUME Init, NEW vm \in Vm
             PROVE  Remembered(Len(Loads[vm]), local[vm], 0, sampled, cpu[vm])
  BY DEF LoadsOK
<1>1. \A i \in 1 .. 0 : FALSE
  OBVIOUS
<1>2. Len(Loads[vm]) \in Nat /\ Vcpus(vm) = 1 .. Len(Loads[vm])
  BY LoadsAssumption DEF Vcpus
<1>3. local[vm] \in Deques(1 .. Len(Loads[vm]))
  BY <1>2, InitQueuesOK DEF QueuesOK
<1>4. \A c \in 1 .. Len(Loads[vm]) : Len(local[vm][c]) = 0
  BY <1>2 DEF Init, Vcpus
<1>5. Samples(cpu[vm]) = {}
  BY <1>1 DEF Init, Samples
<1> QED
  BY <1>1, <1>3, <1>4, <1>5 DEF Remembered, Together

\* The vCPUs and the queue of a node stay in step.
LEMMA StepLoadsInv == LoadsInv /\ [Next]_vars => LoadsInv'
<1> SUFFICES ASSUME LoadsInv, [Next]_vars PROVE LoadsInv'
  OBVIOUS
<1>1. QueuesOK'
  BY StepQueuesOK DEF LoadsInv
<1>2. ASSUME UNCHANGED <<local, cpu, sampled>> PROVE LoadsInv'
  BY <1>1, <1>2 DEF LoadsInv, LoadsOK
<1>3. ASSUME NEW load \in LoadsNow, NEW o \in arrived \cup {NoOwner}, Round(load, o)
      PROVE  LoadsInv'
  <2> SUFFICES ASSUME NEW vm \in Vm
               PROVE  \E len : Remembered(Len(Loads[vm]), local'[vm], len, sampled', cpu'[vm])
    BY <1>1 DEF LoadsInv, LoadsOK
  <2>1. sampled' = now
    BY <1>3 DEF Round
  <2>2. CASE vm \in arrived
    BY <1>3, <2>1, <2>2, RoundOfGuest
  <2>3. CASE vm \notin arrived
    <3>1. local'[vm] = local[vm] /\ cpu'[vm] = cpu[vm]
      BY <1>3, <2>3 DEF Round
    <3>2. PICK len : Remembered(Len(Loads[vm]), local[vm], len, sampled, cpu[vm])
      BY DEF LoadsInv, LoadsOK
    <3>3. sampled \in Int /\ now \in Int /\ sampled < now
      BY <1>3 DEF LoadsInv, QueuesOK, Round
    <3>4. Together(Len(Loads[vm]), local[vm], len)
      BY <3>2 DEF Remembered
    <3>5. \A i \in 1 .. len : local[vm][1][i].ts \in Int
      <4>1. PICK n \in Nat \ {0} : Vcpus(vm) = 1 .. n /\ n = Len(Loads[vm])
        BY LoadsAssumption DEF Vcpus
      <4>2. local[vm][1] \in Seq(Timed) /\ Len(local[vm][1]) = len
        BY <3>4, <4>1 DEF Together, Deques
      <4>3. \A i \in 1 .. len : local[vm][1][i] \in Timed
        BY <4>2
      <4> QED
        BY <4>3, Sampling DEF Sampled
    <3>6. \A t \in Samples(cpu[vm]) : t.ts \in Int
      <4>1. cpu[vm] \in Lines(Timed)
        BY DEF LoadsInv, QueuesOK, ShortLines
      <4> QED
        BY <4>1, Sampling, LineIsQueue DEF Samples
    <3>7. Remembered(Len(Loads[vm]), local[vm], len, now, cpu[vm])
      BY <3>2, <3>3, <3>5, <3>6 DEF Remembered
    <3> QED
      BY <2>1, <3>1, <3>7
  <2> QED
    BY <2>2, <2>3
<1>4. \/ UNCHANGED <<local, cpu, sampled>>
      \/ \E load \in LoadsNow, o \in arrived \cup {NoOwner} : Round(load, o)
  BY DEF Next, Tick, Arrive, Measure, vars
<1> QED
  BY <1>2, <1>3, <1>4

\* The assertion of get_cpu_usage_sample holds, and a round adds to the load of a
\* node the mean of what its vCPUs show now and nothing else, for any number of
\* vCPUs and whatever the sizes of their queues and the node's are.
THEOREM NodeLoadsAreExact == Spec => NodeLoadExact
<1> DEFINE A == sampled' # sampled =>
                   \A vm \in arrived :
                      LET n    == Len(Loads[vm])
                          mean == SumFunction([c \in 1 .. n |-> LastOf(local'[vm][c]).val]) \div n
                      IN  /\ Aligned(local'[vm])
                          /\ Samples(cpu'[vm]) = Newest(Samples(cpu[vm]) \cup {Sample(now, mean)})
<1>1. Init => LoadsInv
  BY InitQueuesOK, InitLoadsOK DEF LoadsInv
<1>2. LoadsInv /\ [Next]_vars => LoadsInv'
  BY StepLoadsInv
<1>3. LoadsInv /\ [Next]_vars => [A]_vars
  <2> SUFFICES ASSUME LoadsInv, Next, sampled' # sampled, NEW vm \in arrived
               PROVE  /\ Aligned(local'[vm])
                      /\ Samples(cpu'[vm]) =
                            Newest(Samples(cpu[vm]) \cup
                                   {Sample(now, MeanOf(Len(Loads[vm]), local'[vm]))})
    BY DEF MeanOf
  <2>1. PICK load \in LoadsNow, o \in arrived \cup {NoOwner} : Round(load, o)
    BY DEF Next, Tick, Arrive, Measure
  <2> QED
    BY <2>1, RoundOfGuest
<1> QED
  BY <1>1, <1>2, <1>3, PTL DEF Spec, NodeLoadExact

-----------------------------------------------------------------------------
(***************************************************************************)
(* vm_logger.  Its queue may hold several entries of one time.  What is in *)
(* the file and what waits behind it is one queue, which a flush leaves as *)
(* it is and an entry is put into.                                         *)
(***************************************************************************)

\* Where return_insert_index puts a sample of time ts in an ascending queue.
LEMMA PlaceInOrder ==
    ASSUME NEW q \in Queue, Ascends(q), NEW ts \in Int,
           NEW k, k = InsertPlace(q, 1, Len(q), ts).at
    PROVE  /\ k \in 1 .. Len(q) + 1
           /\ \A i \in 1 .. Len(q) : (i < k => q[i].ts <= ts) /\ (i >= k => q[i].ts >= ts)
<1> DEFINE p == InsertPlace(q, 1, Len(q), ts)
<1>1. Placed(q, ts, p) /\ k = p.at
  BY PlaceInAll
<1> HIDE DEF p
<1>2. Len(q) \in Nat /\ \A i \in 1 .. Len(q) : q[i].ts \in Int
  BY QueueTimes
<1>3. CASE p.dup
  <2>1. k \in 1 .. Len(q) /\ q[k].ts = ts
    BY <1>1, <1>3 DEF Placed
  <2> QED
    BY <1>2, <2>1 DEF Ascends
<1>4. CASE ~p.dup
  <2>1. /\ k \in 1 .. Len(q) + 1
        /\ \A i \in 1 .. Len(q) : IF i < k THEN q[i].ts < ts ELSE q[i].ts > ts
    BY <1>1, <1>4 DEF Placed
  <2> QED
    BY <1>2, <2>1
<1> QED
  BY <1>3, <1>4

\* A sample that is put there keeps the queue ascending.
LEMMA PutAscends ==
    ASSUME NEW q \in Queue, Ascends(q), NEW s \in [ts : Int, val : Int],
           NEW k \in 1 .. Len(q) + 1,
           \A i \in 1 .. Len(q) : (i < k => q[i].ts <= s.ts) /\ (i >= k => q[i].ts >= s.ts),
           NEW r, PutAt([ts : Int, val : Int], q, k, s, r)
    PROVE  r \in Queue /\ Ascends(r) /\ Len(r) = Len(q) + 1
<1>1. Len(q) \in Nat /\ (\A i \in 1 .. Len(q) : q[i].ts \in Int) /\ s.ts \in Int
  BY QueueTimes
<1>2. /\ r \in Queue /\ Len(r) = Len(q) + 1
      /\ \A j \in 1 .. Len(q) + 1 :
            r[j] = IF j < k THEN q[j] ELSE IF j = k THEN s ELSE q[j - 1]
  BY DEF PutAt, Queue
<1>3. ASSUME NEW i \in 1 .. Len(q) + 1, NEW j \in 1 .. Len(q) + 1, i < j
      PROVE  r[i].ts <= r[j].ts
  <2>1. CASE j < k
    <3>1. i \in 1 .. Len(q) /\ j \in 1 .. Len(q) /\ i < k
      BY <1>1, <1>3, <2>1
    <3>2. r[i] = q[i] /\ r[j] = q[j]
      BY <1>2, <2>1, <3>1
    <3> QED
      BY <1>1, <1>3, <3>1, <3>2 DEF Ascends
  <2>2. CASE j = k
    <3>1. i \in 1 .. Len(q) /\ i < k
      BY <1>1, <1>3, <2>2
    <3>2. r[i] = q[i] /\ r[j] = s
      BY <1>2, <2>2, <3>1
    <3> QED
      BY <3>1, <3>2
  <2>3. CASE j > k
    <3>1. j - 1 \in 1 .. Len(q) /\ r[j] = q[j - 1] /\ q[j - 1].ts >= s.ts
      BY <1>1, <1>2, <2>3
    <3>2. CASE i > k
      <4>1. i - 1 \in 1 .. Len(q) /\ i - 1 < j - 1 /\ ~(i < k) /\ i # k
        BY <1>1, <1>3, <3>2
      <4>2. r[i] = q[i - 1]
        BY <1>2, <4>1
      <4> QED
        BY <1>1, <3>1, <4>1, <4>2 DEF Ascends
    <3>3. CASE i = k
      BY <1>2, <3>1, <3>3
    <3>4. CASE i < k
      <4>1. i \in 1 .. Len(q) /\ r[i] = q[i] /\ q[i].ts <= s.ts
        BY <1>1, <1>2, <1>3, <2>3, <3>4
      <4> QED
        BY <1>1, <3>1, <4>1
    <3> QED
      BY <3>2, <3>3, <3>4
  <2> QED
    BY <2>1, <2>2, <2>3
<1>4. Ascends(r)
  BY <1>2, <1>3 DEF Ascends
<1> QED
  BY <1>2, <1>4

\* What is put into the second of two sequences is put into both.
LEMMA PutBehind ==
    ASSUME NEW S, NEW f \in Seq(S), NEW q \in Seq(S), NEW s, NEW k \in 1 .. Len(q) + 1,
           NEW r, PutAt(S, q, k, s, r)
    PROVE  PutAt(S, f \o q, Len(f) + k, s, f \o r) /\ Len(f) + k \in 1 .. Len(f \o q) + 1
<1>1. /\ r \in Seq(S) /\ Len(r) = Len(q) + 1
      /\ \A j \in 1 .. Len(q) + 1 :
            r[j] = IF j < k THEN q[j] ELSE IF j = k THEN s ELSE q[j - 1]
  BY DEF PutAt
<1>2. Len(f) \in Nat /\ Len(q) \in Nat
  OBVIOUS
<1>3. /\ Len(f \o q) = Len(f) + Len(q)
      /\ \A i \in 1 .. Len(f) + Len(q) :
            (f \o q)[i] = IF i <= Len(f) THEN f[i] ELSE q[i - Len(f)]
  BY ConcatProperties
<1>4. /\ f \o r \in Seq(S) /\ Len(f \o r) = Len(f) + Len(r)
      /\ \A i \in 1 .. Len(f) + Len(r) :
            (f \o r)[i] = IF i <= Len(f) THEN f[i] ELSE r[i - Len(f)]
  BY <1>1, ConcatProperties
<1> DEFINE w == f \o q
           v == f \o r
           n == Len(f)
<1> HIDE DEF w, v
<1>5. ASSUME NEW j \in 1 .. Len(w) + 1
      PROVE  v[j] = IF j < n + k THEN w[j] ELSE IF j = n + k THEN s ELSE w[j - 1]
  <2>1. CASE j <= n
    BY <1>1, <1>2, <1>3, <1>4, <2>1 DEF w, v
  <2>2. CASE j > n
    <3>1. j - n \in 1 .. Len(q) + 1 /\ v[j] = r[j - n]
      BY <1>1, <1>2, <1>3, <1>4, <2>2 DEF w, v
    <3>2. CASE j < n + k
      <4>1. j - n < k /\ j \in 1 .. n + Len(q)
        BY <1>2, <3>1, <3>2
      <4>2. w[j] = q[j - n]
        BY <1>2, <1>3, <2>2, <4>1 DEF w
      <4> QED
        BY <1>1, <3>1, <3>2, <4>1, <4>2
    <3>3. CASE j = n + k
      BY <1>1, <1>2, <3>1, <3>3
    <3>4. CASE j > n + k
      <4>1. j - n > k /\ j - 1 \in 1 .. n + Len(q) /\ j - 1 > n /\ (j - 1) - n = (j - n) - 1
        BY <1>2, <3>1, <3>4
      <4>2. w[j - 1] = q[(j - n) - 1]
        BY <1>2, <1>3, <4>1 DEF w
      <4>3. r[j - n] = q[(j - n) - 1]
        BY <1>1, <1>2, <3>1, <4>1
      <4> QED
        BY <1>2, <3>1, <3>4, <4>2, <4>3
    <3> QED
      BY <1>2, <3>1, <3>2, <3>3, <3>4
  <2> QED
    BY <1>2, <1>3, <2>1, <2>2 DEF w
<1>6. PutAt(S, w, n + k, s, v) /\ n + k \in 1 .. Len(w) + 1
  <2>1. Len(v) = Len(w) + 1 /\ v \in Seq(S) /\ n + k \in 1 .. Len(w) + 1
    BY <1>1, <1>2, <1>3, <1>4 DEF w, v
  <2> HIDE DEF n
  <2> QED
    BY <1>5, <2>1 DEF PutAt
<1> QED
  BY <1>6 DEF w, v

\* The elements of a queue that something was put into.
LEMMA PutSamples ==
    ASSUME NEW S, NEW q \in Seq(S), NEW s, NEW k \in 1 .. Len(q) + 1,
           NEW r, PutAt(S, q, k, s, r)
    PROVE  Samples(r) = Samples(q) \cup {s}
<1>1. /\ r \in Seq(S) /\ Len(r) = Len(q) + 1 /\ Len(q) \in Nat
      /\ \A j \in 1 .. Len(q) + 1 :
            r[j] = IF j < k THEN q[j] ELSE IF j = k THEN s ELSE q[j - 1]
  BY DEF PutAt
<1>2. Samples(r) \subseteq Samples(q) \cup {s}
  <2> SUFFICES ASSUME NEW j \in 1 .. Len(q) + 1 PROVE r[j] \in Samples(q) \cup {s}
    BY <1>1 DEF Samples
  <2>1. j < k => j \in 1 .. Len(q)
    BY <1>1
  <2>2. j > k => j - 1 \in 1 .. Len(q)
    BY <1>1
  <2> QED
    BY <1>1, <2>1, <2>2 DEF Samples
<1>3. Samples(q) \cup {s} \subseteq Samples(r)
  <2>1. s = r[k]
    BY <1>1
  <2>2. ASSUME NEW j \in 1 .. Len(q) PROVE \E l \in 1 .. Len(q) + 1 : q[j] = r[l]
    <3>1. CASE j < k
      <4>1. j \in 1 .. Len(q) + 1 /\ r[j] = q[j]
        BY <1>1, <3>1
      <4> QED
        BY <4>1
    <3>2. CASE j >= k
      <4>1. j + 1 \in 1 .. Len(q) + 1 /\ j + 1 > k /\ (j + 1) - 1 = j
        BY <1>1, <3>2
      <4>2. ~(j + 1 < k) /\ j + 1 # k
        BY <1>1, <3>2
      <4>3. r[j + 1] = q[j]
        BY <1>1, <4>1, <4>2
      <4> QED
        BY <4>1, <4>3
    <3> QED
      BY <1>1, <3>1, <3>2
  <2> QED
    BY <1>1, <2>1, <2>2 DEF Samples
<1> QED
  BY <1>2, <1>3

-----------------------------------------------------------------------------
\* A log entry.
Entry == [ts : Int, val : Int]

\* The entries acc, each of them once, in the order of their times.
IsLog(w, acc) ==
    /\ w \in Queue /\ Ascends(w)
    /\ IsFiniteSet(acc) /\ Samples(w) = acc /\ Len(w) = Cardinality(acc)

LogTyped ==
    /\ now \in Int /\ Window \in Nat /\ logStep \in {"crawl", "flush", "closed"}
    /\ written \in Nat /\ last \in Int
    /\ slots \in Queue /\ recent \in Queue /\ file \in Queue
    /\ handled \in [1 .. MaxEntries -> Nat]

\* What is in the file, with what waits behind it, is what was accepted; what waits
\* is not older than the file, because nothing older than the window is accepted.
LogOrdered ==
    /\ IsLog(file \o recent, accepted)
    /\ logStep # "closed" => \A i \in 1 .. Len(file) : file[i].ts <= now - Window
    /\ logStep = "closed" => \A i \in 1 .. Len(recent) : recent[i].ts >= now

\* The entries are told apart by their numbers.
Numbered ==
    /\ \A i, j \in 1 .. Len(slots) : slots[i].val = slots[j].val => i = j
    /\ \A i \in 1 .. Len(slots) : slots[i].val <= written
    /\ \A e \in accepted : e.val <= written
    /\ \A n \in 1 .. MaxEntries : n > written => handled[n] = 0

\* Those that were read are not read again.
ReadOnce ==
    /\ \A i \in 1 .. Len(slots) : slots[i] \in accepted => slots[i].ts <= last
    /\ \A i \in 1 .. Len(slots), n \in 1 .. MaxEntries :
          slots[i].val = n /\ handled[n] # 0 => slots[i].ts <= last
    /\ \A n \in 1 .. MaxEntries : handled[n] <= 1

LogInv == LogTyped /\ LogOrdered /\ Numbered /\ ReadOnce

\* insert_log_entry keeps what waits in order.
LEMMA LoggedAscends ==
    ASSUME NEW q \in Queue, Ascends(q), NEW e \in Entry, now \in Int, Window \in Nat
    PROVE  /\ Logged(q, e) \in Queue /\ Ascends(Logged(q, e))
           /\ Accepts(e) => \E k \in 1 .. Len(q) + 1 :
                 /\ PutAt(Entry, q, k, e, Logged(q, e))
                 /\ \A i \in 1 .. Len(q) : (i < k => q[i].ts <= e.ts) /\ (i >= k => q[i].ts >= e.ts)
<1>1. CASE ~Accepts(e)
  BY <1>1 DEF Logged
<1>2. CASE Accepts(e)
  <2> DEFINE k == Ceiling(q, e.ts)
             r == Logged(q, e)
  <2>1. e.ts \in Int /\ q \in Seq(Entry)
    BY DEF Entry, Queue
  <2>2. /\ k \in 1 .. Len(q) + 1
        /\ \A i \in 1 .. Len(q) : (i < k => q[i].ts <= e.ts) /\ (i >= k => q[i].ts >= e.ts)
    <3>1. k = InsertPlace(q, 1, Len(q), e.ts).at
      BY DEF Ceiling
    <3> HIDE DEF k
    <3> QED
      BY <2>1, <3>1, PlaceInOrder
  <2>3. r = InsertedAt(q, k, e)
    BY <1>2 DEF Logged
  <2> HIDE DEF k, r
  <2>4. PutAt(Entry, q, k, e, r)
    BY <2>1, <2>2, <2>3, InsertedAtPlaces
  <2>5. r \in Queue /\ Ascends(r)
    BY <2>2, <2>4, PutAscends DEF Entry
  <2> QED
    BY <2>2, <2>4, <2>5 DEF r
<1> QED
  BY <1>1, <1>2

\* What follows in an ascending queue is ascending.
LEMMA SuffixAscends ==
    ASSUME NEW f \in Queue, NEW q \in Queue, Ascends(f \o q)
    PROVE  Ascends(f) /\ Ascends(q)
<1> DEFINE w == f \o q
<1>1. /\ Len(f) \in Nat /\ Len(q) \in Nat
      /\ Len(w) = Len(f) + Len(q)
      /\ \A i \in 1 .. Len(f) + Len(q) : w[i] = IF i <= Len(f) THEN f[i] ELSE q[i - Len(f)]
  BY ConcatProperties DEF Queue
<1>2. ASSUME NEW i \in 1 .. Len(q), NEW j \in 1 .. Len(q), i < j
      PROVE  q[i].ts <= q[j].ts
  <2>1. /\ Len(f) + i \in 1 .. Len(w) /\ Len(f) + j \in 1 .. Len(w) /\ Len(f) + i < Len(f) + j
        /\ ~(Len(f) + i <= Len(f)) /\ ~(Len(f) + j <= Len(f))
        /\ (Len(f) + i) - Len(f) = i /\ (Len(f) + j) - Len(f) = j
    BY <1>1, <1>2
  <2>2. w[Len(f) + i] = q[i] /\ w[Len(f) + j] = q[j]
    BY <1>1, <2>1
  <2>3. w[Len(f) + i].ts <= w[Len(f) + j].ts
    <3> HIDE DEF w
    <3> QED
      BY <2>1 DEF Ascends, w
  <2> QED
    BY <2>2, <2>3
<1>3. ASSUME NEW i \in 1 .. Len(f), NEW j \in 1 .. Len(f), i < j
      PROVE  f[i].ts <= f[j].ts
  <2>1. i \in 1 .. Len(w) /\ j \in 1 .. Len(w) /\ w[i] = f[i] /\ w[j] = f[j]
    BY <1>1
  <2>2. w[i].ts <= w[j].ts
    <3> HIDE DEF w
    <3> QED
      BY <1>3, <2>1 DEF Ascends, w
  <2> QED
    BY <2>1, <2>2
<1> QED
  BY <1>2, <1>3 DEF Ascends

\* An entry that is accepted is put behind the file.
LEMMA LoggedOnce ==
    ASSUME NEW f \in Queue, NEW q \in Queue, NEW acc, IsLog(f \o q, acc),
           NEW e \in Entry, e \notin acc, Accepts(e), now \in Int, Window \in Nat,
           \A i \in 1 .. Len(f) : f[i].ts <= now - Window
    PROVE  IsLog(f \o Logged(q, e), acc \cup {e})
<1> DEFINE r == Logged(q, e)
           w == f \o q
           v == f \o r
<1>1. /\ f \in Seq(Entry) /\ q \in Seq(Entry) /\ Len(f) \in Nat /\ Len(q) \in Nat
      /\ e.ts \in Int /\ e.ts >= now - Window
      /\ \A i \in 1 .. Len(f) : f[i].ts \in Int
  BY QueueTimes DEF Entry, Queue, Accepts
<1>2. /\ w \in Queue /\ Ascends(w) /\ Len(w) = Len(f) + Len(q) /\ w \in Seq(Entry)
      /\ \A i \in 1 .. Len(f) + Len(q) : w[i] = IF i <= Len(f) THEN f[i] ELSE q[i - Len(f)]
  BY <1>1, ConcatProperties DEF IsLog, Queue, Entry
<1>3. Ascends(q)
  BY <1>2, SuffixAscends
<1>4. PICK k \in 1 .. Len(q) + 1 :
         /\ PutAt(Entry, q, k, e, r)
         /\ \A i \in 1 .. Len(q) : (i < k => q[i].ts <= e.ts) /\ (i >= k => q[i].ts >= e.ts)
  <2> HIDE DEF r
  <2> QED
    BY <1>3, LoggedAscends DEF r
<1> HIDE DEF r
<1> DEFINE n == Len(f) + k
<1>5. PutAt(Entry, w, n, e, v) /\ n \in 1 .. Len(w) + 1
  BY <1>1, <1>4, PutBehind
<1>6. \A i \in 1 .. Len(w) : (i < n => w[i].ts <= e.ts) /\ (i >= n => w[i].ts >= e.ts)
  <2> SUFFICES ASSUME NEW i \in 1 .. Len(w)
               PROVE  (i < n => w[i].ts <= e.ts) /\ (i >= n => w[i].ts >= e.ts)
    OBVIOUS
  <2>1. CASE i <= Len(f)
    <3>1. i \in 1 .. Len(f) /\ w[i] = f[i] /\ i < n
      BY <1>1, <1>2, <2>1
    <3>2. f[i].ts <= now - Window /\ f[i].ts \in Int
      BY <1>1, <3>1
    <3> HIDE DEF w
    <3> QED
      BY <1>1, <3>1, <3>2
  <2>2. CASE ~(i <= Len(f))
    <3>1. i - Len(f) \in 1 .. Len(q) /\ w[i] = q[i - Len(f)]
      BY <1>1, <1>2, <2>2
    <3>2. (i < n <=> i - Len(f) < k) /\ (i >= n <=> i - Len(f) >= k)
      BY <1>1, <1>2
    <3> HIDE DEF w, n
    <3> QED
      BY <1>4, <3>1, <3>2
  <2> QED
    BY <2>1, <2>2
<1> HIDE DEF w, v, n
<1>7. v \in Queue /\ Ascends(v) /\ Len(v) = Len(w) + 1
  BY <1>2, <1>5, <1>6, PutAscends DEF Entry
<1>8. Samples(v) = Samples(w) \cup {e}
  BY <1>2, <1>5, PutSamples
<1>9. IsFiniteSet(acc) /\ Samples(w) = acc /\ Len(w) = Cardinality(acc)
  BY DEF IsLog, w
<1>10. IsFiniteSet(acc \cup {e}) /\ Cardinality(acc \cup {e}) = Cardinality(acc) + 1
  BY <1>9, FS_AddElement
<1> QED
  BY <1>7, <1>8, <1>9, <1>10 DEF IsLog, v, r

\* What is in the slots.
LEMMA SlotTypes ==
    ASSUME LogTyped
    PROVE  /\ Len(slots) \in Nat
           /\ \A i \in 1 .. Len(slots) :
                 slots[i] \in Entry /\ slots[i].ts \in Int /\ slots[i].val \in Int
           /\ Fresh \subseteq 1 .. Len(slots)
           /\ \A i \in 1 .. Len(slots) : i \in Fresh <=> slots[i].ts > last
<1>1. slots \in Seq(Entry)
  BY DEF LogTyped, Queue, Entry
<1>2. \A i \in 1 .. Len(slots) : slots[i] \in Entry
  BY <1>1, ElementOfSeq
<1>3. \A i \in 1 .. Len(slots) : slots[i].ts \in Int /\ slots[i].val \in Int
  BY <1>2 DEF Entry
<1> QED
  BY <1>1, <1>2, <1>3 DEF Fresh

\* What was accepted are entries.
LEMMA AcceptedTypes ==
    ASSUME LogTyped, LogOrdered
    PROVE  \A e \in accepted : e \in Entry /\ e.val \in Int /\ e.ts \in Int
<1> DEFINE w == file \o recent
<1>1. w \in Seq(Entry) /\ Samples(w) = accepted
  BY DEF LogOrdered, IsLog, Queue, Entry
<1> HIDE DEF w
<1>2. \A i \in 1 .. Len(w) : w[i] \in Entry
  BY <1>1, ElementOfSeq
<1>3. \A e \in accepted : e \in Entry
  BY <1>1, <1>2 DEF Samples
<1> QED
  BY <1>3 DEF Entry

\* The log after each slot that was read.
Crawls(f) ==
    /\ f[0] = recent /\ recent' = f[Len(slots)]
    /\ \A i \in 0 .. Len(slots) : f[i] \in Queue /\ Ascends(f[i])
    /\ \A i \in 1 .. Len(slots) :
          f[i] = IF i \in Fresh THEN Logged(f[i - 1], slots[i]) ELSE f[i - 1]

\* The recursion of crawl_log_entries_from_xs is well defined.
LEMMA CrawlSteps ==
    ASSUME LogTyped, Ascends(recent), Crawl
    PROVE  \E f : Crawls(f)
<1> DEFINE S == {q \in Queue : Ascends(q)}
           n == Len(slots)
           Next1(x, i) == IF i \in Fresh THEN Logged(x, slots[i]) ELSE x
           step1 == [i \in 1 .. n |-> [x \in S |-> Next1(x, i)]]
           Good(f) == f = [i \in 0 .. n |-> IF i = 0 THEN recent ELSE Next1(f[i - 1], i)]
<1>1. /\ recent \in S /\ n \in Nat /\ now \in Int /\ Window \in Nat
      /\ \A i \in 1 .. n : slots[i] \in Entry
  BY SlotTypes DEF LogTyped
<1>2. ASSUME NEW i \in 1 .. n, NEW x \in S PROVE Next1(x, i) \in S
  BY <1>1, LoggedAscends
<1> HIDE DEF Next1
<1>3. step1 \in [1 .. n -> [S -> S]]
  <2> HIDE DEF S
  <2> QED
    BY <1>2
<1> HIDE DEF S
<1>4. PICK g \in [0 .. n -> S] : g[0] = recent /\ \A i \in 1 .. n : g[i] = step1[i][g[i - 1]]
  <2>1. Carries(S, recent, n, step1)
    <3> HIDE DEF step1
    <3> QED
      BY <1>1, <1>3 DEF Carries
  <2> HIDE DEF step1, n
  <2> QED
    BY <2>1, Iteration
<1>5. Good(g)
  <2>1. ASSUME NEW i \in 0 .. n, i # 0 PROVE g[i] = Next1(g[i - 1], i)
    <3>1. i \in 1 .. n /\ i - 1 \in 0 .. n /\ g[i - 1] \in S
      BY <1>1, <2>1
    <3>2. step1[i][g[i - 1]] = Next1(g[i - 1], i)
      BY <3>1
    <3> HIDE DEF step1
    <3> QED
      BY <1>4, <3>1, <3>2
  <2> QED
    BY <1>4, <2>1
<1> DEFINE f == CHOOSE f : Good(f)
<1>6. Good(f)
  <2> HIDE DEF Good
  <2> QED
    BY <1>5
<1>7. recent' = f[n]
  BY DEF Crawl, Next1
<1> HIDE DEF f
<1>8. f[0] = recent /\ \A i \in 1 .. n : f[i] = Next1(f[i - 1], i)
  BY <1>1, <1>6
<1> DEFINE B == {k \in Nat : k <= n => f[k] \in S}
<1>9. 0 \in B
  BY <1>1, <1>8
<1>10. ASSUME NEW k \in Nat, k \in B PROVE k + 1 \in B
  <2> SUFFICES ASSUME k + 1 <= n PROVE f[k + 1] \in S
    OBVIOUS
  <2>1. k + 1 \in 1 .. n /\ (k + 1) - 1 = k /\ f[k] \in S
    BY <1>1, <1>10
  <2>2. f[k + 1] = Next1(f[k], k + 1)
    BY <1>8, <2>1
  <2> QED
    BY <1>2, <2>1, <2>2
<1>11. \A i \in 0 .. n : f[i] \in S
  <2>1. Nat \subseteq B
    <3> HIDE DEF B
    <3> QED
      BY <1>9, <1>10, Induction
  <2> QED
    BY <1>1, <2>1
<1> QED
  BY <1>7, <1>8, <1>11 DEF Crawls, S, Next1

\* What the crawl has accepted when it has read i slots.
AcceptedUpto(i) == accepted \cup {slots[j] : j \in {k \in Fresh : k <= i /\ Accepts(slots[k])}}

\* It takes every slot it has not read before, once.
LEMMA CrawlLog ==
    ASSUME LogInv, logStep # "closed", NEW f, Crawls(f), NEW n, n = Len(slots)
    PROVE  IsLog(file \o f[n], AcceptedUpto(n))
<1>1. /\ n \in Nat /\ file \in Queue /\ now \in Int /\ Window \in Nat
      /\ \A i \in 1 .. n : slots[i] \in Entry
      /\ \A i \in 1 .. Len(file) : file[i].ts <= now - Window
      /\ Fresh \subseteq 1 .. n
  BY SlotTypes DEF LogInv, LogTyped, LogOrdered
<1>2. ASSUME NEW i \in Fresh PROVE slots[i] \notin AcceptedUpto(i - 1)
  <2>1. i \in 1 .. n /\ ~(slots[i].ts <= last)
    <3>1. i \in 1 .. n /\ slots[i].ts > last /\ slots[i].ts \in Int /\ last \in Int
      BY SlotTypes DEF LogInv, LogTyped
    <3> QED
      BY <3>1
  <2>2. slots[i] \notin accepted
    BY <2>1 DEF LogInv, ReadOnce
  <2>3. ASSUME NEW j \in Fresh, j <= i - 1 PROVE slots[j] # slots[i]
    <3>1. j \in 1 .. n /\ j # i
      BY <1>1, <2>1, <2>3
    <3> QED
      BY <2>1, <3>1 DEF LogInv, Numbered
  <2> QED
    BY <2>2, <2>3 DEF AcceptedUpto
<1> DEFINE B == {i \in Nat : i <= n => IsLog(file \o f[i], AcceptedUpto(i))}
<1>3. 0 \in B
  <2>1. AcceptedUpto(0) = accepted
    BY <1>1 DEF AcceptedUpto
  <2> QED
    BY <2>1 DEF Crawls, LogInv, LogOrdered
<1>4. ASSUME NEW i \in Nat, i \in B PROVE i + 1 \in B
  <2> SUFFICES ASSUME i + 1 <= n PROVE IsLog(file \o f[i + 1], AcceptedUpto(i + 1))
    OBVIOUS
  <2> DEFINE k == i + 1
  <2>1. k \in 1 .. n /\ k - 1 = i /\ i \in 0 .. n /\ IsLog(file \o f[i], AcceptedUpto(i))
    BY <1>1, <1>4
  <2>2. \A j \in Fresh : j <= k <=> (j <= i \/ j = k)
    BY <1>1
  <2> HIDE DEF k
  <2>3. f[i] \in Queue /\ f[k] = IF k \in Fresh THEN Logged(f[i], slots[k]) ELSE f[i]
    BY <2>1 DEF Crawls
  <2>4. CASE k \in Fresh /\ Accepts(slots[k])
    <3>1. AcceptedUpto(k) = AcceptedUpto(i) \cup {slots[k]}
      BY <2>2, <2>4 DEF AcceptedUpto
    <3>2. slots[k] \notin AcceptedUpto(i) /\ slots[k] \in Entry
      BY <1>1, <1>2, <2>1, <2>4
    <3>3. IsLog(file \o Logged(f[i], slots[k]), AcceptedUpto(i) \cup {slots[k]})
      BY <1>1, <2>1, <2>3, <2>4, <3>2, LoggedOnce
    <3>4. IsLog(file \o f[k], AcceptedUpto(k))
      BY <2>3, <2>4, <3>1, <3>3
    <3> QED
      BY <3>4 DEF k
  <2>5. CASE ~(k \in Fresh /\ Accepts(slots[k]))
    <3>1. AcceptedUpto(k) = AcceptedUpto(i)
      BY <2>2, <2>5 DEF AcceptedUpto
    <3>2. f[k] = f[i]
      BY <2>3, <2>5 DEF Logged
    <3>3. IsLog(file \o f[k], AcceptedUpto(k))
      BY <2>1, <3>1, <3>2
    <3> QED
      BY <3>3 DEF k
  <2> QED
    BY <2>4, <2>5
<1>5. Nat \subseteq B
  <2> HIDE DEF B
  <2> QED
    BY <1>3, <1>4, Induction
<1> QED
  BY <1>1, <1>5

\* The newest time there is among the slots, or that was known.
LEMMA LastRead ==
    ASSUME LogTyped, NEW new, new = Max({last} \cup {slots[i].ts : i \in Fresh})
    PROVE  new \in Int /\ new >= last /\ \A i \in 1 .. Len(slots) : slots[i].ts <= new
<1> DEFINE S == {last} \cup {slots[i].ts : i \in Fresh}
<1>1. /\ Len(slots) \in Nat /\ last \in Int
      /\ \A i \in 1 .. Len(slots) : slots[i].ts \in Int
      /\ Fresh \subseteq 1 .. Len(slots)
  BY SlotTypes DEF LogTyped
<1>2. IsFiniteSet(S) /\ S # {} /\ S \subseteq Int
  <2>1. IsFiniteSet(1 .. Len(slots))
    BY <1>1, FS_Interval
  <2>2. IsFiniteSet(Fresh)
    BY <1>1, <2>1, FS_Subset
  <2> DEFINE h == [i \in Fresh |-> slots[i].ts]
  <2>3. IsFiniteSet({h[i] : i \in Fresh})
    <3>1. DOMAIN h = Fresh
      OBVIOUS
    <3> HIDE DEF h
    <3> QED
      BY <2>2, <3>1, FiniteImage
  <2>4. S = {h[i] : i \in Fresh} \cup {last}
    OBVIOUS
  <2>5. IsFiniteSet(S)
    <3> HIDE DEF h, S
    <3> QED
      BY <2>3, <2>4, FS_AddElement
  <2> QED
    BY <1>1, <2>5
<1>3. new \in S /\ \A x \in S : new >= x
  <2> HIDE DEF S
  <2>1. \E m \in S : \A x \in S : m >= x
    BY <1>2, Greatest
  <2> QED
    BY <2>1 DEF Max, S
<1>4. \A i \in 1 .. Len(slots) : slots[i].ts <= new
  <2> SUFFICES ASSUME NEW i \in 1 .. Len(slots) PROVE slots[i].ts <= new
    OBVIOUS
  <2>1. CASE i \in Fresh
    BY <1>1, <1>2, <1>3, <2>1
  <2>2. CASE i \notin Fresh
    <3>1. slots[i].ts <= last
      BY <1>1, <2>2 DEF Fresh
    <3> QED
      BY <1>1, <1>2, <1>3, <3>1
  <2> QED
    BY <2>1, <2>2
<1> QED
  BY <1>1, <1>2, <1>3, <1>4

\* crawl_log_entries_from_xs.
LEMMA CrawlInv == ASSUME LogInv, Crawl PROVE LogInv'
<1>1. LogTyped /\ LogOrdered /\ Numbered /\ ReadOnce
  BY DEF LogInv
<1>2. /\ logStep = "crawl" /\ logStep' = "flush" /\ UNCHANGED <<now, slots, written, file>>
      /\ accepted' = accepted \cup {e \in {slots[i] : i \in Fresh} : Accepts(e)}
      /\ handled' = [n \in 1 .. MaxEntries |->
                        handled[n] + Cardinality({i \in Fresh : slots[i].val = n})]
      /\ last' = Max({last} \cup {slots[i].ts : i \in Fresh})
  <2>1. /\ logStep = "crawl" /\ logStep' = "flush" /\ UNCHANGED <<now, slots, written, file>>
    BY DEF Crawl
  <2>2. accepted' = accepted \cup {e \in {slots[i] : i \in Fresh} : Accepts(e)}
    BY DEF Crawl
  <2>3. handled' = [n \in 1 .. MaxEntries |->
                        handled[n] + Cardinality({i \in Fresh : slots[i].val = n})]
    BY DEF Crawl
  <2>4. last' = Max({last} \cup {slots[i].ts : i \in Fresh})
    BY DEF Crawl
  <2> QED
    BY <2>1, <2>2, <2>3, <2>4
<1> DEFINE n == Len(slots)
<1>3. /\ n \in Nat /\ Fresh \subseteq 1 .. n
      /\ \A i \in 1 .. n : slots[i] \in Entry /\ slots[i].ts \in Int
      /\ \A i \in 1 .. n : i \in Fresh <=> slots[i].ts > last
  BY <1>1, SlotTypes
<1>4. Ascends(recent)
  BY <1>1, SuffixAscends DEF LogOrdered, IsLog, LogTyped
<1>5. PICK f : Crawls(f)
  BY <1>1, <1>4, CrawlSteps
<1>6. recent' = f[n] /\ recent' \in Queue
  BY <1>3, <1>5 DEF Crawls
<1>7. AcceptedUpto(n) = accepted'
  <2>1. AcceptedUpto(n) = accepted \cup {slots[j] : j \in {k \in Fresh : Accepts(slots[k])}}
    BY <1>3 DEF AcceptedUpto
  <2> QED
    BY <1>2, <2>1
<1>8. IsLog(file \o recent, accepted)'
  <2>1. IsLog(file \o f[n], AcceptedUpto(n))
    BY <1>2, <1>5, CrawlLog
  <2> QED
    BY <1>2, <1>6, <1>7, <2>1 DEF IsLog
<1>9. last' \in Int /\ last' >= last /\ \A i \in 1 .. n : slots[i].ts <= last'
  BY <1>1, <1>2, LastRead
<1>10. ASSUME NEW k \in 1 .. MaxEntries
       PROVE  /\ handled'[k] \in Nat /\ handled'[k] <= 1
              /\ k > written => handled'[k] = 0
  <2> DEFINE H == {i \in Fresh : slots[i].val = k}
  <2>1. handled[k] \in Nat /\ handled[k] <= 1 /\ handled'[k] = handled[k] + Cardinality(H)
    BY <1>1, <1>2 DEF LogTyped, ReadOnce
  <2>2. CASE H = {}
    <3>1. Cardinality(H) = 0
      BY <2>2, FS_EmptySet
    <3> QED
      BY <1>1, <2>1, <3>1 DEF Numbered
  <2>3. CASE H # {}
    <3>1. PICK i \in 1 .. n : i \in Fresh /\ slots[i].val = k
      BY <1>3, <2>3
    <3>2. H = {i}
      BY <1>1, <1>3, <3>1 DEF Numbered
    <3>3. Cardinality(H) = 1
      BY <3>2, FS_Singleton
    <3>4. handled[k] = 0
      <4>1. ~(slots[i].ts <= last)
        BY <1>1, <1>3, <3>1 DEF LogTyped
      <4> QED
        BY <1>1, <3>1, <4>1 DEF ReadOnce
    <3>5. ~(k > written)
      BY <1>1, <3>1 DEF Numbered, LogTyped
    <3> QED
      BY <2>1, <3>3, <3>4, <3>5
  <2> QED
    BY <2>2, <2>3
<1>11. LogTyped'
  <2>1. handled' \in [1 .. MaxEntries -> Nat]
    BY <1>2, <1>10
  <2> QED
    BY <1>1, <1>2, <1>6, <1>9, <2>1 DEF LogTyped
<1>12. LogOrdered'
  BY <1>1, <1>2, <1>8 DEF LogOrdered
<1>13. Numbered'
  <2>1. \A e \in accepted' : e.val <= written
    <3>1. \A i \in 1 .. n : slots[i].val <= written
      BY <1>1 DEF Numbered
    <3> QED
      BY <1>1, <1>2, <1>3, <3>1 DEF Numbered
  <2>2. \A k \in 1 .. MaxEntries : k > written => handled'[k] = 0
    BY <1>10
  <2> QED
    BY <1>1, <1>2, <2>1, <2>2 DEF Numbered
<1>14. ReadOnce'
  <2>1. \A i \in 1 .. Len(slots') : slots'[i].ts <= last'
    BY <1>2, <1>9
  <2> QED
    BY <1>10, <2>1 DEF ReadOnce
<1> QED
  BY <1>11, <1>12, <1>13, <1>14 DEF LogInv

\* An entry of the guest has a number of its own and takes the place of one slot.
LEMMA GuestWritesInv == ASSUME LogInv, NEW ts \in Int, GuestWrites(ts) PROVE LogInv'
<1> DEFINE s == [ts |-> ts, val |-> written + 1]
           n == Len(slots)
<1>1. LogTyped /\ LogOrdered /\ Numbered /\ ReadOnce
  BY DEF LogInv
<1>2. /\ logStep # "closed" /\ written' = written + 1 /\ written \in Nat /\ last \in Int
      /\ UNCHANGED <<now, logStep, last, recent, file, accepted, handled>>
      /\ \/ slots' = Append(slots, s)
         \/ \E m : slots' = [slots EXCEPT ![m] = s]
  <2>1. \A val : Sample(ts, val) = [ts |-> ts, val |-> val]
    BY DEF Sample
  <2> QED
    BY <1>1, <2>1 DEF GuestWrites, LogTyped
<1>3. s \in Entry /\ slots \in Seq(Entry) /\ n \in Nat
  BY <1>1 DEF LogTyped, Entry, Queue
<1>4. slots' \in Seq(Entry)
      /\ \E m : \A i \in 1 .. Len(slots') :
            IF i = m THEN slots'[i] = s ELSE i \in 1 .. n /\ slots'[i] = slots[i]
  <2> HIDE DEF s
  <2>1. CASE slots' = Append(slots, s)
    <3>1. slots' \in Seq(Entry) /\ Len(slots') = n + 1
          /\ \A i \in 1 .. n + 1 : slots'[i] = IF i = n + 1 THEN s ELSE slots[i]
      BY <1>3, <2>1, AppendProperties
    <3>2. \A i \in 1 .. Len(slots') :
             IF i = n + 1 THEN slots'[i] = s ELSE i \in 1 .. n /\ slots'[i] = slots[i]
      BY <1>3, <3>1
    <3> HIDE DEF n
    <3> QED
      BY <3>1, <3>2
  <2>2. ASSUME NEW m, slots' = [slots EXCEPT ![m] = s]
        PROVE  /\ slots' \in Seq(Entry)
               /\ \A i \in 1 .. Len(slots') :
                     IF i = m THEN slots'[i] = s ELSE i \in 1 .. n /\ slots'[i] = slots[i]
    <3>1. DOMAIN slots = 1 .. n
      BY <1>3
    <3>2. CASE m \in 1 .. n
      <4>1. /\ slots' \in Seq(Entry) /\ Len(slots') = n
            /\ \A i \in 1 .. n : slots'[i] = IF i = m THEN s ELSE slots[i]
        BY <1>3, <2>2, <3>2, ExceptSeq
      <4> QED
        BY <4>1
    <3>3. CASE m \notin 1 .. n
      <4>1. slots' = slots
        BY <1>3, <2>2, <3>1, <3>3
      <4> QED
        BY <1>3, <3>3, <4>1
    <3> QED
      BY <3>2, <3>3
  <2> QED
    BY <1>2, <2>1, <2>2
<1>5. PICK m : \A i \in 1 .. Len(slots') :
                  IF i = m THEN slots'[i] = s ELSE i \in 1 .. n /\ slots'[i] = slots[i]
  BY <1>4
<1>6. s.val = written + 1 /\ s.ts = ts
  OBVIOUS
<1>7. \A i \in 1 .. n : slots[i].val \in Int /\ slots[i].val <= written
  BY <1>1, SlotTypes DEF Numbered
<1> HIDE DEF s, n
<1>12. \A i \in 1 .. Len(slots') : i # m => slots'[i].val \in Int /\ slots'[i].val <= written
  BY <1>5, <1>7
<1>13. \A i \in 1 .. Len(slots') : i = m => slots'[i].val = written + 1 /\ slots'[i] = s
  BY <1>5, <1>6
<1>8. LogTyped'
  <2>1. slots' \in Queue /\ written' \in Nat
    BY <1>2, <1>4 DEF Queue, Entry
  <2> QED
    BY <1>1, <1>2, <2>1 DEF LogTyped
<1>9. LogOrdered'
  BY <1>1, <1>2 DEF LogOrdered
<1>10. Numbered'
  <2>1. \A i, j \in 1 .. Len(slots') : slots'[i].val = slots'[j].val => i = j
    <3> SUFFICES ASSUME NEW i \in 1 .. Len(slots'), NEW j \in 1 .. Len(slots'),
                        slots'[i].val = slots'[j].val
                 PROVE  i = j
      OBVIOUS
    <3>1. CASE i = m /\ j = m
      BY <3>1
    <3>2. CASE i = m /\ j # m
      BY <1>2, <1>12, <1>13, <3>2
    <3>3. CASE i # m /\ j = m
      BY <1>2, <1>12, <1>13, <3>3
    <3>4. CASE i # m /\ j # m
      <4>1. i \in 1 .. n /\ j \in 1 .. n /\ slots'[i] = slots[i] /\ slots'[j] = slots[j]
        BY <1>5, <3>4
      <4> QED
        BY <1>1, <4>1 DEF Numbered, n
    <3> QED
      BY <3>1, <3>2, <3>3, <3>4
  <2>2. \A i \in 1 .. Len(slots') : slots'[i].val <= written + 1
    <3> SUFFICES ASSUME NEW i \in 1 .. Len(slots') PROVE slots'[i].val <= written + 1
      OBVIOUS
    <3>1. CASE i = m
      BY <1>2, <1>13, <3>1
    <3>2. CASE i # m
      BY <1>2, <1>12, <3>2
    <3> QED
      BY <3>1, <3>2
  <2>3. \A e \in accepted : e.val <= written + 1
    BY <1>1, <1>2, AcceptedTypes DEF Numbered
  <2>4. \A k \in 1 .. MaxEntries : k > written + 1 => handled[k] = 0
    BY <1>1, <1>2 DEF Numbered
  <2> QED
    BY <1>2, <2>1, <2>2, <2>3, <2>4 DEF Numbered
<1>11. ReadOnce'
  <2>1. ASSUME NEW i \in 1 .. Len(slots'), slots'[i] \in accepted PROVE slots'[i].ts <= last
    <3>1. i # m
      <4>1. \A e \in accepted : e.val <= written /\ e.val \in Int
        BY <1>1, AcceptedTypes DEF Numbered
      <4> QED
        BY <1>2, <1>13, <2>1, <4>1
    <3> QED
      BY <1>1, <1>5, <2>1, <3>1 DEF ReadOnce, n
  <2>2. ASSUME NEW i \in 1 .. Len(slots'), NEW k \in 1 .. MaxEntries,
               slots'[i].val = k, handled[k] # 0
        PROVE  slots'[i].ts <= last
    <3>1. i # m
      <4>1. ~(k > written)
        BY <1>1, <2>2 DEF Numbered
      <4> QED
        BY <1>2, <1>13, <2>2, <4>1
    <3> QED
      BY <1>1, <1>5, <2>2, <3>1 DEF ReadOnce, n
  <2> QED
    BY <1>1, <1>2, <2>1, <2>2 DEF ReadOnce
<1> QED
  BY <1>8, <1>9, <1>10, <1>11 DEF LogInv

\* An entry of the daemon is accepted at once.
LEMMA DaemonWritesInv == ASSUME LogInv, DaemonWrites PROVE LogInv'
<1> DEFINE e == [ts |-> now, val |-> written + 1]
<1>1. LogTyped /\ LogOrdered /\ Numbered /\ ReadOnce
  BY DEF LogInv
<1>2. /\ logStep = "crawl" /\ written' = written + 1 /\ written \in Nat
      /\ recent' = Logged(recent, e) /\ accepted' = accepted \cup {e}
      /\ UNCHANGED <<now, logStep, slots, last, file, handled>>
  BY <1>1 DEF DaemonWrites, LogTyped, Sample
<1>3. e \in Entry /\ e.val = written + 1 /\ Accepts(e)
  BY <1>1 DEF LogTyped, Entry, Accepts
<1> HIDE DEF e
<1>4. \A a \in accepted : a.val <= written /\ a.val \in Int
  BY <1>1, AcceptedTypes DEF Numbered
<1>5. e \notin accepted /\ \A i \in 1 .. Len(slots) : slots[i] # e /\ slots[i].val <= written
  BY <1>1, <1>2, <1>3, <1>4, SlotTypes DEF Numbered
<1>6. Ascends(recent) /\ recent \in Queue /\ file \in Queue
  BY <1>1, SuffixAscends DEF LogOrdered, IsLog, LogTyped
<1>7. recent' \in Queue
  BY <1>1, <1>2, <1>3, <1>6, LoggedAscends DEF LogTyped
<1>8. IsLog(file \o recent', accepted')
  BY <1>1, <1>2, <1>3, <1>5, <1>6, LoggedOnce DEF LogOrdered, LogTyped
<1>9. LogTyped'
  BY <1>1, <1>2, <1>7 DEF LogTyped
<1>10. LogOrdered'
  BY <1>1, <1>2, <1>8 DEF LogOrdered, IsLog
<1>11. Numbered'
  <2>1. \A a \in accepted' : a.val <= written'
    BY <1>2, <1>3, <1>4
  <2>2. \A i \in 1 .. Len(slots) : slots[i].val <= written'
    BY <1>1, <1>2, <1>5, SlotTypes
  <2>3. \A k \in 1 .. MaxEntries : k > written' => handled[k] = 0
    BY <1>1, <1>2 DEF Numbered
  <2> QED
    BY <1>1, <1>2, <2>1, <2>2, <2>3 DEF Numbered
<1>12. ReadOnce'
  BY <1>1, <1>2, <1>5 DEF ReadOnce
<1> QED
  BY <1>9, <1>10, <1>11, <1>12 DEF LogInv

\* flush_log_to_disk cuts what waits in two.
LEMMA FlushedCuts ==
    ASSUME LogTyped, Ascends(recent), NEW valid \in Int, NEW r, r = Flushed(valid)
    PROVE  /\ r.file \in Queue /\ r.recent \in Queue
           /\ r.file \o r.recent = file \o recent
           /\ (\A i \in 1 .. Len(file) : file[i].ts <= valid)
                  => \A i \in 1 .. Len(r.file) : r.file[i].ts <= valid
           /\ \A i \in 1 .. Len(r.recent) : r.recent[i].ts >= valid
<1> DEFINE k == Ceiling(recent, valid)
           a == SubSeq(recent, 1, k - 1)
           b == SubSeq(recent, k, Len(recent))
<1>1. /\ recent \in Seq(Entry) /\ file \in Seq(Entry) /\ recent \in Queue
      /\ Len(recent) \in Nat /\ Len(file) \in Nat
      /\ \A i \in 1 .. Len(recent) : recent[i] \in Entry
  <2>1. recent \in Seq(Entry) /\ file \in Seq(Entry) /\ recent \in Queue
    BY DEF LogTyped, Entry, Queue
  <2>2. \A i \in 1 .. Len(recent) : recent[i] \in Entry
    BY <2>1, ElementOfSeq
  <2> QED
    BY <2>1, <2>2
<1>2. /\ k \in 1 .. Len(recent) + 1
      /\ \A i \in 1 .. Len(recent) :
            (i < k => recent[i].ts <= valid) /\ (i >= k => recent[i].ts >= valid)
  <2>1. k = InsertPlace(recent, 1, Len(recent), valid).at
    BY DEF Ceiling
  <2> HIDE DEF k
  <2> QED
    BY <1>1, <2>1, PlaceInOrder
<1>3. r.file = file \o a /\ r.recent = b
  <2>1. (k - 1) + 1 = k
    BY <1>1, <1>2
  <2> QED
    BY <2>1 DEF Flushed
<1> HIDE DEF k
<1>4. a \in Seq(Entry) /\ Len(a) = k - 1 /\ \A i \in 1 .. k - 1 : a[i] = recent[i]
  <2>1. \A i \in 1 .. k - 1 : recent[i] \in Entry
    BY <1>1, <1>2
  <2> QED
    BY <1>1, <1>2, <2>1, SubSeqProperties
<1>5. /\ b \in Seq(Entry) /\ Len(b) = Len(recent) + 1 - k
      /\ \A i \in 1 .. Len(recent) + 1 - k : b[i] = recent[k + i - 1]
  <2>1. \A i \in k .. Len(recent) : recent[i] \in Entry
    BY <1>1, <1>2
  <2>2. /\ SubSeq(recent, k, Len(recent)) \in Seq(Entry)
        /\ Len(SubSeq(recent, k, Len(recent))) =
               IF k <= Len(recent) THEN Len(recent) - k + 1 ELSE 0
        /\ \A i \in 1 .. Len(recent) - k + 1 :
               SubSeq(recent, k, Len(recent))[i] = recent[k + i - 1]
    BY <1>1, <1>2, <2>1, SubSeqProperties
  <2> QED
    BY <1>1, <1>2, <2>2
<1> HIDE DEF a, b
<1>6. a \o b = recent
  <2>1. /\ a \o b \in Seq(Entry) /\ Len(a \o b) = Len(recent)
        /\ \A i \in 1 .. Len(recent) : (a \o b)[i] = IF i <= k - 1 THEN a[i] ELSE b[i - (k - 1)]
    BY <1>1, <1>2, <1>4, <1>5, ConcatProperties
  <2>2. ASSUME NEW i \in 1 .. Len(recent) PROVE (a \o b)[i] = recent[i]
    <3>1. CASE i <= k - 1
      <4>1. i \in 1 .. k - 1
        BY <1>1, <1>2, <3>1
      <4> QED
        BY <1>4, <2>1, <3>1, <4>1
    <3>2. CASE ~(i <= k - 1)
      <4>1. i - (k - 1) \in 1 .. Len(recent) + 1 - k /\ k + (i - (k - 1)) - 1 = i
        BY <1>1, <1>2, <3>2
      <4> QED
        BY <1>5, <2>1, <3>2, <4>1
    <3> QED
      BY <3>1, <3>2
  <2> QED
    BY <1>1, <2>1, <2>2, SeqEqual
<1>7. (file \o a) \o b = file \o recent
  <2>1. (file \o a) \o b = file \o (a \o b)
    <3>1. file \in Seq(Entry) /\ a \in Seq(Entry) /\ b \in Seq(Entry)
      BY <1>1, <1>4, <1>5
    <3> QED
      BY <3>1, ConcatAssociative
  <2> QED
    BY <1>6, <2>1
<1>8. file \o a \in Queue /\ b \in Queue
  BY <1>1, <1>4, <1>5, ConcatProperties DEF Queue, Entry
<1>9. \A i \in 1 .. Len(b) : b[i].ts >= valid
  <2> SUFFICES ASSUME NEW i \in 1 .. Len(b) PROVE b[i].ts >= valid
    OBVIOUS
  <2>1. k + i - 1 \in 1 .. Len(recent) /\ k + i - 1 >= k /\ b[i] = recent[k + i - 1]
    BY <1>1, <1>2, <1>5
  <2> QED
    BY <1>2, <2>1
<1>10. ASSUME \A i \in 1 .. Len(file) : file[i].ts <= valid,
              NEW i \in 1 .. Len(file \o a)
       PROVE  (file \o a)[i].ts <= valid
  <2>1. /\ i \in 1 .. Len(file) + (k - 1)
        /\ (file \o a)[i] = IF i <= Len(file) THEN file[i] ELSE a[i - Len(file)]
    <3>1. /\ Len(file \o a) = Len(file) + Len(a)
          /\ \A j \in 1 .. Len(file) + Len(a) :
                (file \o a)[j] = IF j <= Len(file) THEN file[j] ELSE a[j - Len(file)]
      BY <1>1, <1>4, ConcatProperties
    <3> QED
      BY <1>4, <1>10, <3>1
  <2>2. CASE i <= Len(file)
    BY <1>1, <1>10, <2>1, <2>2
  <2>3. CASE ~(i <= Len(file))
    <3>1. i - Len(file) \in 1 .. k - 1 /\ i - Len(file) \in 1 .. Len(recent) /\ i - Len(file) < k
      BY <1>1, <1>2, <2>1, <2>3
    <3> QED
      BY <1>2, <1>4, <2>1, <2>3, <3>1
  <2> QED
    BY <2>2, <2>3
<1> QED
  BY <1>3, <1>7, <1>8, <1>9, <1>10

\* A flush changes where the log is cut, not the log.
LEMMA FlushedLog ==
    ASSUME LogInv, NEW valid \in Int,
           file' = Flushed(valid).file, recent' = Flushed(valid).recent,
           UNCHANGED <<now, slots, written, last, accepted, handled>>,
           logStep' \in {"crawl", "flush", "closed"}
    PROVE  /\ LogTyped' /\ Numbered' /\ ReadOnce' /\ IsLog(file \o recent, accepted)'
           /\ (\A i \in 1 .. Len(file) : file[i].ts <= valid)
                  => \A i \in 1 .. Len(file') : file'[i].ts <= valid
           /\ \A i \in 1 .. Len(recent') : recent'[i].ts >= valid
<1>1. LogTyped /\ LogOrdered /\ Numbered /\ ReadOnce
  BY DEF LogInv
<1>2. Ascends(recent)
  BY <1>1, SuffixAscends DEF LogOrdered, IsLog, LogTyped
<1> DEFINE r == Flushed(valid)
<1>3. file' = r.file /\ recent' = r.recent
  OBVIOUS
<1> HIDE DEF r
<1>4. /\ r.file \in Queue /\ r.recent \in Queue
      /\ r.file \o r.recent = file \o recent
      /\ (\A i \in 1 .. Len(file) : file[i].ts <= valid)
             => \A i \in 1 .. Len(r.file) : r.file[i].ts <= valid
      /\ \A i \in 1 .. Len(r.recent) : r.recent[i].ts >= valid
  BY <1>1, <1>2, FlushedCuts DEF r
<1>5. LogTyped'
  BY <1>1, <1>3, <1>4 DEF LogTyped
<1>6. Numbered' /\ ReadOnce'
  BY <1>1 DEF Numbered, ReadOnce
<1>7. IsLog(file \o recent, accepted)'
  <2>1. file' \o recent' = file \o recent /\ accepted' = accepted
    BY <1>3, <1>4
  <2>2. IsLog(file \o recent, accepted)
    BY <1>1 DEF LogOrdered
  <2> QED
    BY <2>1, <2>2 DEF IsLog
<1> QED
  BY <1>3, <1>4, <1>5, <1>6, <1>7

\* flush_log_to_disk, at the end of a round.
LEMMA FlushInv == ASSUME LogInv, Flush PROVE LogInv'
<1>1. /\ logStep = "flush" /\ logStep' = "crawl"
      /\ file' = Flushed(now - Window).file /\ recent' = Flushed(now - Window).recent
      /\ UNCHANGED <<now, slots, written, last, accepted, handled>>
  BY DEF Flush
<1>2. now - Window \in Int /\ now' = now
      /\ \A i \in 1 .. Len(file) : file[i].ts <= now - Window
  BY <1>1 DEF LogInv, LogTyped, LogOrdered
<1>3. /\ LogTyped' /\ Numbered' /\ ReadOnce' /\ IsLog(file \o recent, accepted)'
      /\ \A i \in 1 .. Len(file') : file'[i].ts <= now - Window
  BY <1>1, <1>2, FlushedLog
<1>4. LogOrdered'
  BY <1>1, <1>2, <1>3 DEF LogOrdered
<1> QED
  BY <1>3, <1>4 DEF LogInv

\* ~vm_logger.
LEMMA CloseInv == ASSUME LogInv, Close PROVE LogInv'
<1>1. /\ logStep' = "closed"
      /\ file' = Flushed(now).file /\ recent' = Flushed(now).recent
      /\ UNCHANGED <<now, slots, written, last, accepted, handled>>
  BY DEF Close
<1>2. now \in Int /\ now' = now
  BY <1>1 DEF LogInv, LogTyped
<1>3. /\ LogTyped' /\ Numbered' /\ ReadOnce' /\ IsLog(file \o recent, accepted)'
      /\ \A i \in 1 .. Len(recent') : recent'[i].ts >= now
  BY <1>1, <1>2, FlushedLog
<1>4. LogOrdered'
  BY <1>1, <1>2, <1>3 DEF LogOrdered
<1> QED
  BY <1>3, <1>4 DEF LogInv

\* The clock.
LEMMA LogTickInv == ASSUME LogInv, LogTick PROVE LogInv'
<1>1. /\ logStep # "closed" /\ now' = now + 1
      /\ UNCHANGED <<logStep, slots, written, last, recent, file, accepted, handled>>
  BY DEF LogTick
<1>2. LogTyped /\ LogOrdered /\ Numbered /\ ReadOnce /\ now \in Int /\ Window \in Nat
  BY DEF LogInv, LogTyped
<1>3. \A i \in 1 .. Len(file) : file[i].ts <= now' - Window
  <2>1. \A i \in 1 .. Len(file) : file[i].ts \in Int
    BY <1>2, QueueTimes DEF LogTyped
  <2>2. \A i \in 1 .. Len(file) : file[i].ts <= now - Window
    BY <1>1, <1>2 DEF LogOrdered
  <2> QED
    BY <1>1, <1>2, <2>1, <2>2
<1>4. LogTyped' /\ Numbered' /\ ReadOnce'
  BY <1>1, <1>2 DEF LogTyped, Numbered, ReadOnce
<1>5. LogOrdered'
  BY <1>1, <1>2, <1>3 DEF LogOrdered, IsLog
<1> QED
  BY <1>4, <1>5 DEF LogInv

LEMMA LogInitInv == ASSUME LogInit PROVE LogInv
<1>1. /\ now = Window + 1 /\ logStep = "crawl" /\ slots = <<>> /\ written = 0 /\ last = 0
      /\ recent = <<>> /\ file = <<>> /\ accepted = {}
      /\ handled = [n \in 1 .. MaxEntries |-> 0]
      /\ Window \in Nat
  BY LoggerAssumption DEF LogInit
<1>2. LogTyped
  BY <1>1 DEF LogTyped, Queue
<1>3. LogOrdered
  <2>1. file \o recent = <<>>
    BY <1>1
  <2>2. IsFiniteSet({}) /\ Cardinality({}) = 0
    BY FS_EmptySet
  <2>3. IsLog(<<>>, {})
    BY <2>2 DEF IsLog, Queue, Ascends, Samples
  <2> QED
    BY <1>1, <2>1, <2>3 DEF LogOrdered
<1>4. Numbered /\ ReadOnce
  BY <1>1 DEF Numbered, ReadOnce
<1> QED
  BY <1>2, <1>3, <1>4 DEF LogInv

LEMMA LogStepInv ==
    ASSUME LogInv, [LogNext]_logVars
    PROVE  LogInv'
<1>1. CASE LogTick
  BY <1>1, LogTickInv
<1>2. ASSUME NEW ts \in (now - Skew) .. (now + Skew), GuestWrites(ts) PROVE LogInv'
  <2>1. ts \in Int
    OBVIOUS
  <2> QED
    BY <1>2, <2>1, GuestWritesInv
<1>3. CASE Crawl
  BY <1>3, CrawlInv
<1>4. CASE Flush
  BY <1>4, FlushInv
<1>5. CASE DaemonWrites
  BY <1>5, DaemonWritesInv
<1>6. CASE Close
  BY <1>6, CloseInv
<1>7. CASE UNCHANGED logVars
  <2>1. UNCHANGED <<now, logStep, slots, written, last, recent, file, accepted, handled>>
    BY <1>7 DEF logVars
  <2> QED
    BY <2>1 DEF LogInv, LogTyped, LogOrdered, IsLog, Numbered, ReadOnce
<1> QED
  BY <1>1, <1>2, <1>3, <1>4, <1>5, <1>6, <1>7 DEF LogNext

LEMMA LogInvariant == LogSpec => []LogInv
<1>1. LogInit => LogInv
  BY LogInitInv
<1>2. LogInv /\ [LogNext]_logVars => LogInv'
  BY LogStepInv
<1> QED
  BY <1>1, <1>2, PTL DEF LogSpec

\* Whatever times the guest and the daemon write, the lines of the log file are in the
\* order of their times (flush_log_to_disk, insert_log_entry).
THEOREM FilesAreSorted == LogSpec => []FileSorted
<1>1. LogInv => FileSorted
  <2> SUFFICES ASSUME LogInv PROVE FileSorted
    OBVIOUS
  <2>1. Ascends(file) /\ Len(file) \in Nat
    BY SuffixAscends DEF LogInv, LogOrdered, IsLog, LogTyped, Queue
  <2> QED
    BY <2>1 DEF FileSorted, Sorted, Ascends
<1> QED
  BY <1>1, LogInvariant, PTL

\* However often the slots of the store are read again, an entry is taken once; it is
\* in the file once or waits to be written, and what the last flush leaves out is not
\* older than the second in which the file was closed.
THEOREM EntriesAreWrittenOnce ==
    LogSpec => []WrittenOnce
<1>1. LogInv => WrittenOnce
  <2> SUFFICES ASSUME LogInv PROVE WrittenOnce
    OBVIOUS
  <2> DEFINE w == file \o recent
  <2>1. /\ file \in Seq(Entry) /\ recent \in Seq(Entry)
        /\ Len(file) \in Nat /\ Len(recent) \in Nat
        /\ Samples(w) = accepted /\ Len(w) = Cardinality(accepted)
    BY DEF LogInv, LogTyped, LogOrdered, IsLog, Queue, Entry
  <2>2. /\ Len(w) = Len(file) + Len(recent)
        /\ \A i \in 1 .. Len(file) + Len(recent) :
              w[i] = IF i <= Len(file) THEN file[i] ELSE recent[i - Len(file)]
    BY <2>1, ConcatProperties
  <2> HIDE DEF w
  <2>3. Samples(file) \cup Samples(recent) = Samples(w)
    <3>1. ASSUME NEW i \in 1 .. Len(file) PROVE file[i] \in Samples(w)
      <4>1. i \in 1 .. Len(w) /\ w[i] = file[i]
        BY <2>1, <2>2
      <4> QED
        BY <4>1 DEF Samples
    <3>2. ASSUME NEW i \in 1 .. Len(recent) PROVE recent[i] \in Samples(w)
      <4>1. /\ Len(file) + i \in 1 .. Len(w) /\ ~(Len(file) + i <= Len(file))
            /\ (Len(file) + i) - Len(file) = i
        BY <2>1, <2>2
      <4>2. w[Len(file) + i] = recent[i]
        BY <2>2, <4>1
      <4> QED
        BY <4>1, <4>2 DEF Samples
    <3>3. ASSUME NEW i \in 1 .. Len(w) PROVE w[i] \in Samples(file) \cup Samples(recent)
      <4>1. CASE i <= Len(file)
        <5>1. i \in 1 .. Len(file) /\ w[i] = file[i]
          BY <2>1, <2>2, <4>1
        <5> QED
          BY <5>1 DEF Samples
      <4>2. CASE ~(i <= Len(file))
        <5>1. i - Len(file) \in 1 .. Len(recent) /\ w[i] = recent[i - Len(file)]
          BY <2>1, <2>2, <4>2
        <5> QED
          BY <5>1 DEF Samples
      <4> QED
        BY <4>1, <4>2
    <3> QED
      BY <3>1, <3>2, <3>3 DEF Samples
  <2>4. Samples(file) \cup Samples(recent) = accepted
    BY <2>1, <2>3
  <2>5. Len(file) + Len(recent) = Cardinality(accepted)
    BY <2>1, <2>2
  <2>6. \A n \in 1 .. MaxEntries : handled[n] <= 1
    BY DEF LogInv, ReadOnce
  <2>7. logStep = "closed" => \A e \in Samples(recent) : e.ts >= now
    BY DEF LogInv, LogOrdered, Samples
  <2> QED
    BY <2>4, <2>5, <2>6, <2>7 DEF WrittenOnce
<1> QED
  BY <1>1, LogInvariant, PTL

\* The bounds that LogInv leaves open.
LogBounds ==
    /\ now \in 1 .. MaxTime /\ Len(slots) <= LogSlots /\ written <= MaxEntries
    /\ last >= 0 /\ \A i \in 1 .. Len(slots) : slots[i].ts >= 1

LEMMA LogBoundsStep ==
    ASSUME LogInv, LogBounds, [LogNext]_logVars PROVE LogBounds'
<1>1. /\ now \in 1 .. MaxTime /\ now \in Int /\ MaxTime \in Nat /\ written \in Nat /\ last \in Int
      /\ Len(slots) \in Nat /\ LogSlots \in Nat \ {0} /\ slots \in Queue
      /\ MaxEntries \in Nat
  BY SampleQueueAssumption, LoggerAssumption DEF LogBounds, LogInv, LogTyped, Queue
<1>2. CASE LogTick
  BY <1>1, <1>2 DEF LogTick, LogBounds
<1>3. ASSUME NEW ts \in Int, ts > 0, GuestWrites(ts) PROVE LogBounds'
  <2> DEFINE e == Sample(ts, written')
             m == Min({i \in 1 .. LogSlots : \A j \in 1 .. LogSlots : slots[i].val <= slots[j].val})
  <2>1. /\ written' = written + 1 /\ written < MaxEntries /\ UNCHANGED <<now, last>>
        /\ slots' = IF Len(slots) < LogSlots THEN Append(slots, e) ELSE [slots EXCEPT ![m] = e]
    BY <1>3 DEF GuestWrites
  <2>2. e \in [ts : Int, val : Int] /\ e.ts >= 1
    BY <1>1, <1>3, <2>1 DEF Sample
  <2> HIDE DEF e, m
  <2>3. CASE Len(slots) < LogSlots
    <3>1. /\ Len(slots') = Len(slots) + 1
          /\ \A i \in 1 .. Len(slots) + 1 : slots'[i] = IF i = Len(slots) + 1 THEN e ELSE slots[i]
      BY <1>1, <2>1, <2>2, <2>3, AppendProperties DEF Queue
    <3>2. \A i \in 1 .. Len(slots') : slots'[i].ts >= 1
      BY <1>1, <2>2, <3>1 DEF LogBounds
    <3> QED
      BY <1>1, <2>1, <2>3, <3>1, <3>2 DEF LogBounds
  <2>4. CASE ~(Len(slots) < LogSlots)
    <3>1. slots' = [slots EXCEPT ![m] = e]
      BY <2>1, <2>4
    <3>2. Len(slots') = Len(slots) /\ \A i \in 1 .. Len(slots) : slots'[i] \in {slots[i], e}
      BY <1>1, <3>1 DEF Queue
    <3> QED
      BY <1>1, <2>1, <2>2, <3>2 DEF LogBounds
  <2> QED
    BY <2>3, <2>4
<1>4. CASE Crawl
  <2> DEFINE T == {last} \cup {slots[i].ts : i \in Fresh}
  <2>1. last' = Max(T) /\ UNCHANGED <<now, slots, written>>
    BY <1>4 DEF Crawl
  <2>2. last' >= 0
    <3>1. Fresh \subseteq 1 .. Len(slots) /\ \A i \in 1 .. Len(slots) : slots[i].ts \in Int
      BY <1>1, QueueTimes DEF Fresh
    <3>2. T \subseteq Int /\ T # {} /\ IsFiniteSet(T)
      <4>1. IsFiniteSet(1 .. Len(slots))
        BY <1>1, FS_Interval
      <4>2. IsFiniteSet(Fresh)
        BY <3>1, <4>1, FS_Subset
      <4> DEFINE h == [i \in Fresh |-> slots[i].ts]
                 F == {slots[i].ts : i \in Fresh}
      <4>3. IsFiniteSet(F)
        <5>1. DOMAIN h = Fresh /\ F = {h[i] : i \in Fresh}
          OBVIOUS
        <5> HIDE DEF h, F
        <5> QED
          BY <4>2, <5>1, FiniteImage
      <4>4. IsFiniteSet({last} \cup F)
        <5> HIDE DEF F
        <5> QED
          BY <4>3, FS_Singleton, FS_Union
      <4> QED
        BY <1>1, <3>1, <4>4
    <3>3. \A t \in T : t >= 0
      BY <3>1 DEF LogBounds
    <3> HIDE DEF T
    <3>4. Max(T) \in T
      <4>1. PICK g \in T : \A t \in T : g >= t
        BY <3>2, Greatest
      <4> QED
        BY <4>1 DEF Max
    <3> QED
      BY <2>1, <3>3, <3>4
  <2> QED
    BY <2>1, <2>2 DEF LogBounds
<1>5. CASE Flush
  BY <1>5 DEF Flush, LogBounds
<1>6. CASE DaemonWrites
  BY <1>1, <1>6 DEF DaemonWrites, LogBounds
<1>7. CASE Close
  BY <1>7 DEF Close, LogBounds
<1>8. CASE UNCHANGED logVars
  BY <1>8 DEF logVars, LogBounds
<1>9. ASSUME NEW ts \in (now - Skew) .. (now + Skew), ts > 0, GuestWrites(ts) PROVE LogBounds'
  <2>1. ts \in Int
    BY <1>1, LoggerAssumption
  <2> QED
    BY <1>3, <1>9, <2>1
<1> QED
  BY <1>2, <1>4, <1>5, <1>6, <1>7, <1>8, <1>9 DEF LogNext

\* The type invariant of vm_logger: what waits is in order, whatever the clock of
\* the guest, and the store holds no more than its slots.
THEOREM LogTypeCorrect == LogSpec => []LogTypeOK
<1>1. LogInit => LogBounds
  <2> SUFFICES ASSUME LogInit PROVE LogBounds
    OBVIOUS
  <2>1. /\ Window \in Nat /\ Window < MaxTime /\ MaxTime \in Nat
        /\ LogSlots \in Nat /\ MaxEntries \in Nat
    BY SampleQueueAssumption, LoggerAssumption
  <2> QED
    BY <2>1 DEF LogInit, LogBounds
<1>2. LogInv /\ LogBounds => LogTypeOK
  <2> SUFFICES ASSUME LogInv, LogBounds PROVE LogTypeOK
    OBVIOUS
  <2>1. Ascends(recent) /\ Len(recent) \in Nat
    BY SuffixAscends DEF LogInv, LogOrdered, IsLog, LogTyped, Queue
  <2>2. Sorted(recent)
    BY <2>1 DEF Sorted, Ascends
  <2> QED
    BY <2>2 DEF LogTypeOK, LogInv, LogTyped, LogBounds
<1>3. LogInv /\ LogBounds /\ [LogNext]_logVars => LogBounds'
  BY LogBoundsStep
<1> QED
  BY <1>1, <1>2, <1>3, LogInvariant, PTL DEF LogSpec

-----------------------------------------------------------------------------
(***************************************************************************)
(* runtime_estimator.  A search finds the value that a queue had at any    *)
(* time it knows; the area of a run, which is added up by samples, is the  *)
(* sum of these values over its seconds.                                   *)
(***************************************************************************)

\* What nodeq says of a time, as the search finds it.
ValueAt(q, t) == q[FloorPlace(q, t)].val

\* floor_idx_of_sampleq finds the last sample that is not later.
LEMMA FloorIsLast ==
    ASSUME NEW q \in Queue, Ordered(q), q # <<>>, NEW t \in Int, q[1].ts <= t,
           NEW p, p = FloorPlace(q, t)
    PROVE  p \in 1 .. Len(q) /\ \A i \in 1 .. Len(q) : i <= p <=> q[i].ts <= t
<1>1. Len(q) \in Nat /\ Len(q) # 0 /\ \A i \in 1 .. Len(q) : q[i].ts \in Int
  BY QueueTimes DEF Queue
<1>2. Ascends(q)
  BY <1>1 DEF Ordered, Ascends
<1>3. ~(q = <<>> \/ t < q[1].ts)
  BY <1>1
<1>4. CASE t >= LastOf(q).ts
  <2>1. p = Len(q)
    BY <1>3, <1>4 DEF FloorPlace
  <2>2. \A i \in 1 .. Len(q) : q[i].ts <= t
    BY <1>1, <1>4 DEF Ordered, LastOf
  <2> QED
    BY <1>1, <2>1, <2>2
<1>5. CASE ~(t >= LastOf(q).ts)
  <2> DEFINE end == Halve(q, 1, Len(q), t)
  <2>1. p = end.hi
    BY <1>3, <1>5 DEF FloorPlace
  <2>2. Ends(q, t, end) /\ end.found \in BOOLEAN
    <3>1. 1 \in 1 .. Len(q) + 1 /\ Len(q) \in 0 .. Len(q) /\ 1 <= Len(q) + 1
          /\ \A i \in 1 .. Len(q) : ~(i < 1) /\ ~(i > Len(q))
      BY <1>1
    <3> QED
      BY <1>2, <3>1, HalveEnds
  <2> HIDE DEF end
  <2>3. CASE end.found
    <3>1. p \in 1 .. Len(q) /\ q[p].ts = t
      BY <2>1, <2>2, <2>3 DEF Ends
    <3> QED
      BY <1>1, <3>1 DEF Ordered
  <2>4. CASE ~end.found
    <3>1. /\ end.lo \in 1 .. Len(q) + 1 /\ p = end.lo - 1
          /\ \A i \in 1 .. Len(q) : IF i < end.lo THEN q[i].ts < t ELSE q[i].ts > t
      BY <2>1, <2>2, <2>4 DEF Ends
    <3>2. 1 < end.lo
      BY <1>1, <3>1
    <3> QED
      BY <1>1, <3>1, <3>2
  <2> QED
    BY <2>3, <2>4
<1> QED
  BY <1>4, <1>5

\* It is the value of the greatest place that is known by then.
LEMMA NodesAtFound ==
    ASSUME nodeq \in Queue, Ordered(nodeq), nodeq # <<>>, NEW t \in Int, nodeq[1].ts <= t
    PROVE  NodesAt(t) = ValueAt(nodeq, t)
<1> DEFINE S == {i \in 1 .. Len(nodeq) : nodeq[i].ts <= t}
           p == FloorPlace(nodeq, t)
<1>1. p \in 1 .. Len(nodeq) /\ \A i \in 1 .. Len(nodeq) : i <= p <=> nodeq[i].ts <= t
  BY FloorIsLast
<1>2. Len(nodeq) \in Nat
  BY QueueTimes
<1> HIDE DEF p
<1>3. p \in S /\ \A i \in S : p >= i
  BY <1>1, <1>2
<1>4. \A m \in S : (\A i \in S : m >= i) => m = p
  BY <1>1, <1>2, <1>3
<1>5. Max(S) = p
  <2> HIDE DEF S
  <2> QED
    BY <1>3, <1>4 DEF Max
<1> QED
  BY <1>5 DEF NodesAt, ValueAt, p

\* What is noted later does not change it.
LEMMA ValueStays ==
    ASSUME NEW q \in Queue, NEW s \in [ts : Int, val : Int], Ordered(q), q # <<>>,
           \A i \in 1 .. Len(q) : q[i].ts < s.ts,
           NEW t \in Int, q[1].ts <= t, t < s.ts
    PROVE  ValueAt(Append(q, s), t) = ValueAt(q, t)
<1> DEFINE r == Append(q, s)
           p == FloorPlace(q, t)
           o == FloorPlace(r, t)
<1>1. Len(q) \in Nat /\ Len(q) # 0 /\ \A i \in 1 .. Len(q) : q[i].ts \in Int
  BY QueueTimes DEF Queue
<1>2. /\ r \in Queue /\ Len(r) = Len(q) + 1
      /\ \A i \in 1 .. Len(q) + 1 : r[i] = IF i = Len(q) + 1 THEN s ELSE q[i]
  BY AppendProperties DEF Queue
<1> HIDE DEF r
<1>3. \A i \in 1 .. Len(q) : r[i] = q[i]
  BY <1>1, <1>2
<1>4. Ordered(r) /\ r # <<>> /\ r[1].ts <= t
  <2>1. r[1] = q[1] /\ r # <<>>
    BY <1>1, <1>2, <1>3
  <2>2. ASSUME NEW i \in 1 .. Len(r), NEW j \in 1 .. Len(r), i < j PROVE r[i].ts < r[j].ts
    <3>1. i \in 1 .. Len(q) /\ r[i] = q[i]
      BY <1>1, <1>2, <1>3, <2>2
    <3>2. CASE j = Len(q) + 1
      BY <1>1, <1>2, <3>1, <3>2
    <3>3. CASE j # Len(q) + 1
      <4>1. j \in 1 .. Len(q) /\ r[j] = q[j]
        BY <1>1, <1>2, <1>3, <3>3
      <4> QED
        BY <2>2, <3>1, <4>1 DEF Ordered
    <3> QED
      BY <3>2, <3>3
  <2> QED
    BY <2>1, <2>2 DEF Ordered
<1>5. p \in 1 .. Len(q) /\ \A i \in 1 .. Len(q) : i <= p <=> q[i].ts <= t
  BY FloorIsLast
<1>6. o \in 1 .. Len(r) /\ \A i \in 1 .. Len(r) : i <= o <=> r[i].ts <= t
  BY <1>2, <1>4, FloorIsLast
<1> HIDE DEF p, o
<1>7. o # Len(q) + 1
  BY <1>1, <1>2, <1>6
<1>8. o \in 1 .. Len(q) /\ p \in 1 .. Len(r) /\ r[o] = q[o] /\ r[p] = q[p]
  BY <1>1, <1>2, <1>3, <1>5, <1>6, <1>7
<1>9. o = p
  <2>1. p <= o
    BY <1>5, <1>6, <1>8
  <2>2. o <= p
    BY <1>5, <1>6, <1>8
  <2> QED
    BY <1>1, <1>8, <1>5, <2>1, <2>2
<1> QED
  BY <1>8, <1>9 DEF ValueAt, r, p, o

\* What is known of the nodes from time start on.
NodesKnown(start) ==
    /\ nodeq \in Queue /\ Ordered(nodeq) /\ nodeq # <<>>
    /\ start \in Int /\ nodeq[1].ts <= start

\* What place j adds to an area from start on, if it ends before the area does.
Whole(start, j) == (nodeq[j + 1].ts - Later(nodeq[j].ts, start)) * nodeq[j].val

\* The area until e is that of the places before the last one, and of the last one.
LEMMA AreaSplit ==
    ASSUME NEW start, NodesKnown(start), NEW e \in Int, start <= e,
           NEW a, a = FloorPlace(nodeq, start), NEW l, l = FloorPlace(nodeq, e)
    PROVE  /\ a \in 1 .. Len(nodeq) /\ l \in a .. Len(nodeq) /\ Len(nodeq) \in Nat
           /\ \A i \in 1 .. Len(nodeq) : i <= l <=> nodeq[i].ts <= e
           /\ Area(start, e) = (e - Later(nodeq[l].ts, start)) * nodeq[l].val
                                   + SumFunction([j \in a .. l - 1 |-> Whole(start, j)])
           /\ [j \in a .. l - 1 |-> Whole(start, j)] \in [a .. l - 1 -> Int]
<1>1. /\ nodeq \in Queue /\ Ordered(nodeq) /\ nodeq # <<>>
      /\ start \in Int /\ nodeq[1].ts <= start /\ Len(nodeq) \in Nat
      /\ \A i \in 1 .. Len(nodeq) : nodeq[i].ts \in Int /\ nodeq[i].val \in Int
  BY QueueTimes DEF NodesKnown
<1>2. 1 \in 1 .. Len(nodeq)
  BY <1>1 DEF Queue
<1>3. nodeq[1].ts <= e
  BY <1>1, <1>2
<1>4. a \in 1 .. Len(nodeq) /\ \A i \in 1 .. Len(nodeq) : i <= a <=> nodeq[i].ts <= start
  BY <1>1, FloorIsLast
<1>5. l \in 1 .. Len(nodeq) /\ \A i \in 1 .. Len(nodeq) : i <= l <=> nodeq[i].ts <= e
  BY <1>1, <1>3, FloorIsLast
<1>6. l \in a .. Len(nodeq)
  <2>1. nodeq[a].ts <= e
    BY <1>1, <1>4
  <2> QED
    BY <1>1, <1>4, <1>5, <2>1
<1> DEFINE S == a .. l - 1
           Piece(j) == ((IF j = l THEN e ELSE Earlier(nodeq[j + 1].ts, e))
                           - Later(nodeq[j].ts, start)) * nodeq[j].val
           f == [j \in S \cup {l} |-> Piece(j)]
           h == [j \in S |-> Whole(start, j)]
<1>7. Area(start, e) = SumFunction(f)
  <2>1. a .. l = S \cup {l}
    BY <1>1, <1>4, <1>6
  <2>2. Area(start, e) = SumFunction([j \in a .. l |-> Piece(j)])
    BY DEF Area
  <2> QED
    BY <2>1, <2>2
<1>8. ASSUME NEW j \in S PROVE Piece(j) = Whole(start, j) /\ Whole(start, j) \in Int
  <2>1. /\ j \in 1 .. Len(nodeq) /\ j + 1 \in 1 .. Len(nodeq) /\ j # l /\ j + 1 <= l
    BY <1>1, <1>4, <1>6
  <2>2. nodeq[j + 1].ts <= e /\ nodeq[j + 1].ts \in Int
    BY <1>1, <1>5, <2>1
  <2>3. Earlier(nodeq[j + 1].ts, e) = nodeq[j + 1].ts
    BY <2>2 DEF Earlier
  <2>4. Later(nodeq[j].ts, start) \in Int /\ nodeq[j].val \in Int
    BY <1>1, <2>1 DEF Later
  <2>5. Whole(start, j) \in Int
    BY <2>2, <2>4 DEF Whole
  <2> QED
    BY <2>1, <2>3, <2>5 DEF Whole
<1>9. Piece(l) = (e - Later(nodeq[l].ts, start)) * nodeq[l].val /\ Piece(l) \in Int
  <2>1. nodeq[l].ts \in Int /\ nodeq[l].val \in Int
    BY <1>1, <1>5
  <2>2. Later(nodeq[l].ts, start) \in Int
    BY <1>1, <2>1 DEF Later
  <2> QED
    BY <2>1, <2>2
<1> HIDE DEF Piece
<1>10. f \in [S \cup {l} -> Int] /\ h \in [S -> Int] /\ f[l] = Piece(l)
       /\ \A j \in S : h[j] = f[j]
  BY <1>8, <1>9
<1>11. IsFiniteSet(S) /\ l \notin S
  <2>1. l \notin S
    BY <1>1, <1>4, <1>6
  <2> QED
    BY <1>4, <1>5, <2>1, FS_Interval
<1> HIDE DEF f, h, S
<1>12. SumFunction(f) = f[l] + SumFunction(h)
  BY <1>10, <1>11, TotalNext
<1>13. Area(start, e) = (e - Later(nodeq[l].ts, start)) * nodeq[l].val + SumFunction(h)
  BY <1>7, <1>9, <1>10, <1>12
<1> QED
  BY <1>1, <1>4, <1>5, <1>6, <1>10, <1>13 DEF h, S

\* An area of no time.
LEMMA AreaOfNone == ASSUME NEW start, NodesKnown(start) PROVE Area(start, start) = 0
<1> DEFINE a == FloorPlace(nodeq, start)
           h == [j \in a .. a - 1 |-> Whole(start, j)]
<1>1. /\ start \in Int /\ start <= start
      /\ \A i \in 1 .. Len(nodeq) : nodeq[i].ts \in Int /\ nodeq[i].val \in Int
  BY QueueTimes DEF NodesKnown
<1>2. /\ a \in 1 .. Len(nodeq) /\ a <= a /\ Len(nodeq) \in Nat
      /\ \A i \in 1 .. Len(nodeq) : i <= a <=> nodeq[i].ts <= start
      /\ Area(start, start) = (start - Later(nodeq[a].ts, start)) * nodeq[a].val + SumFunction(h)
      /\ h \in [a .. a - 1 -> Int]
  <2> HIDE DEF a
  <2> QED
    BY <1>1, AreaSplit DEF a
<1> HIDE DEF a, h
<1>3. SumFunction(h) = 0
  <2>1. a .. a - 1 = {}
    BY <1>2
  <2> QED
    BY <1>2, <2>1, TotalOfNone
<1>4. start - Later(nodeq[a].ts, start) = 0 /\ nodeq[a].val \in Int
  <2>1. nodeq[a].ts <= start /\ nodeq[a].ts \in Int
    BY <1>1, <1>2
  <2> QED
    BY <1>1, <1>2, <2>1 DEF Later
<1> QED
  BY <1>2, <1>3, <1>4

\* An area that is a second longer.
LEMMA AreaNext ==
    ASSUME NEW start, NodesKnown(start), NEW e \in Int, start <= e
    PROVE  Area(start, e + 1) = Area(start, e) + ValueAt(nodeq, e)
<1> DEFINE a == FloorPlace(nodeq, start)
           l == FloorPlace(nodeq, e)
           m == FloorPlace(nodeq, e + 1)
           H(k) == [j \in a .. k |-> Whole(start, j)]
<1>1. /\ start \in Int /\ e + 1 \in Int /\ start <= e + 1 /\ Ordered(nodeq)
      /\ \A i \in 1 .. Len(nodeq) : nodeq[i].ts \in Int /\ nodeq[i].val \in Int
  BY QueueTimes DEF NodesKnown
<1>2. /\ a \in 1 .. Len(nodeq) /\ l \in a .. Len(nodeq) /\ Len(nodeq) \in Nat
      /\ \A i \in 1 .. Len(nodeq) : i <= l <=> nodeq[i].ts <= e
      /\ Area(start, e) = (e - Later(nodeq[l].ts, start)) * nodeq[l].val
                              + SumFunction(H(l - 1))
      /\ H(l - 1) \in [a .. l - 1 -> Int]
  <2> HIDE DEF a, l
  <2> QED
    BY AreaSplit DEF a, l
<1>3. /\ m \in a .. Len(nodeq)
      /\ \A i \in 1 .. Len(nodeq) : i <= m <=> nodeq[i].ts <= e + 1
      /\ Area(start, e + 1) = ((e + 1) - Later(nodeq[m].ts, start)) * nodeq[m].val
                                  + SumFunction(H(m - 1))
  <2> HIDE DEF a, m
  <2> QED
    BY <1>1, AreaSplit DEF a, m
<1>4. ValueAt(nodeq, e) = nodeq[l].val
  BY DEF ValueAt
<1> HIDE DEF a, l, m, H
<1> DEFINE c == Later(nodeq[l].ts, start)
           v == nodeq[l].val
           T == SumFunction(H(l - 1))
<1>5. c \in Int /\ v \in Int /\ T \in Int
  <2>1. l \in 1 .. Len(nodeq)
    BY <1>2
  <2>2. IsFiniteSet(a .. l - 1)
    BY <1>2, FS_Interval
  <2> QED
    BY <1>1, <1>2, <2>1, <2>2, TotalType DEF Later
<1>6. Area(start, e) = (e - c) * v + T
  BY <1>2
<1>7. Area(start, e + 1) = ((e + 1) - c) * v + T
  <2>1. CASE m = l
    BY <1>3, <2>1
  <2>2. CASE m # l
    <3>1. m = l + 1 /\ nodeq[m].ts = e + 1
      <4>1. nodeq[l].ts <= e + 1 /\ l \in 1 .. Len(nodeq)
        BY <1>1, <1>2
      <4>2. l <= m /\ m \in 1 .. Len(nodeq)
        BY <1>2, <1>3, <4>1
      <4>3. ~(m <= l) /\ l + 1 \in 1 .. Len(nodeq)
        BY <1>2, <2>2, <4>2
      <4>4. nodeq[m].ts = e + 1
        BY <1>1, <1>2, <1>3, <4>2, <4>3
      <4>5. nodeq[l + 1].ts = e + 1
        <5>1. l + 1 <= m /\ ~(l + 1 <= l)
          BY <1>2, <4>2, <4>3
        <5> QED
          BY <1>1, <1>2, <1>3, <4>3, <5>1
      <4>6. ~(l + 1 < m)
        BY <1>1, <4>2, <4>3, <4>4, <4>5 DEF Ordered
      <4> QED
        BY <1>2, <4>2, <4>3, <4>4, <4>6
    <3>2. ((e + 1) - Later(nodeq[m].ts, start)) * nodeq[m].val = 0
      <4>1. Later(nodeq[m].ts, start) = e + 1 /\ nodeq[m].val \in Int
        <5>1. m \in 1 .. Len(nodeq) /\ e + 1 > start
          BY <1>1, <1>2, <1>3
        <5> QED
          BY <1>1, <3>1, <5>1 DEF Later
      <4> QED
        BY <1>1, <4>1
    <3>3. H(m - 1) = H(l) /\ Whole(start, l) = ((e + 1) - c) * v
      BY <1>2, <3>1 DEF Whole
    <3>4. SumFunction(H(l)) = Whole(start, l) + T
      <4> DEFINE S == a .. l - 1
                 f == H(l)
                 h == H(l - 1)
      <4>1. S \cup {l} = a .. l /\ l \notin S
        BY <1>2
      <4>2. IsFiniteSet(S)
        BY <1>2, FS_Interval
      <4>3. Whole(start, l) \in Int
        BY <1>5, <3>3
      <4>4. h \in [S -> Int] /\ \A j \in S : h[j] = Whole(start, j) /\ h[j] \in Int
        <5>1. h \in [S -> Int]
          BY <1>2
        <5>2. \A j \in S : h[j] = Whole(start, j)
          BY DEF H
        <5> HIDE DEF h, S
        <5> QED
          BY <5>1, <5>2
      <4>5. f \in [S \cup {l} -> Int] /\ f[l] = Whole(start, l) /\ \A j \in S : h[j] = f[j]
        <5>1. f = [j \in S \cup {l} |-> Whole(start, j)]
          BY <4>1 DEF H
        <5> HIDE DEF f, h, S
        <5> QED
          BY <4>3, <4>4, <5>1
      <4> HIDE DEF S, f, h
      <4>6. SumFunction(f) = f[l] + SumFunction(h)
        BY <4>1, <4>2, <4>4, <4>5, TotalNext
      <4> QED
        BY <4>5, <4>6 DEF f, h
    <3> QED
      <4>1. ((e + 1) - c) * v \in Int
        BY <1>5
      <4> QED
        BY <1>3, <1>5, <3>2, <3>3, <3>4, <4>1
  <2> QED
    BY <2>1, <2>2
<1>8. ((e + 1) - c) * v = (e - c) * v + v
  BY <1>5
<1> QED
  BY <1>4, <1>5, <1>6, <1>7, <1>8

\* The active nodes of q, added up from the second lo to the one before hi.
NodeSeconds(q, lo, hi) == SumFunction([t \in lo .. hi - 1 |-> ValueAt(q, t)])

\* The values of a queue are numbers.
LEMMA ValuesAreNumbers ==
    ASSUME NEW q \in Queue, Ordered(q), q # <<>>, NEW t \in Int, q[1].ts <= t
    PROVE  ValueAt(q, t) \in Int
<1>1. FloorPlace(q, t) \in 1 .. Len(q)
  BY FloorIsLast
<1> QED
  BY <1>1, QueueTimes DEF ValueAt

\* The area of a run is what its seconds add up to.
LEMMA AreaIsSum ==
    ASSUME NEW start, NodesKnown(start), NEW end \in Int, start <= end
    PROVE  Area(start, end) = NodeSeconds(nodeq, start, end)
<1> DEFINE B == {n \in Nat : Area(start, start + n) = NodeSeconds(nodeq, start, start + n)}
<1>1. start \in Int /\ end - start \in Nat /\ start + (end - start) = end
  BY DEF NodesKnown
<1>2. ASSUME NEW t \in Int, start <= t PROVE ValueAt(nodeq, t) \in Int
  <2>1. nodeq \in Queue /\ Ordered(nodeq) /\ nodeq # <<>> /\ nodeq[1].ts <= start
        /\ nodeq[1].ts \in Int
    BY QueueTimes DEF NodesKnown, Queue
  <2>2. nodeq[1].ts <= t
    BY <1>1, <1>2, <2>1
  <2> QED
    BY <2>1, <2>2, ValuesAreNumbers
<1>3. 0 \in B
  <2>1. start + 0 = start /\ start .. start - 1 = {}
    BY <1>1
  <2>2. [t \in start .. start - 1 |-> ValueAt(nodeq, t)] \in [{} -> Int]
    BY <2>1
  <2>3. NodeSeconds(nodeq, start, start) = 0
    BY <2>2, TotalOfNone DEF NodeSeconds
  <2> QED
    BY <2>1, <2>3, AreaOfNone
<1>4. ASSUME NEW n \in Nat, n \in B PROVE n + 1 \in B
  <2> DEFINE e == start + n
             S == start .. e - 1
             f == [t \in S \cup {e} |-> ValueAt(nodeq, t)]
             h == [t \in S |-> ValueAt(nodeq, t)]
  <2>1. e \in Int /\ start <= e /\ start + (n + 1) = e + 1
    BY <1>1
  <2>2. S \cup {e} = start .. (e + 1) - 1 /\ e \notin S /\ \A t \in S : t \in Int /\ start <= t
    BY <1>1, <2>1
  <2>3. IsFiniteSet(S)
    BY <1>1, <2>1, FS_Interval
  <2>4. NodeSeconds(nodeq, start, e + 1) = SumFunction(f)
        /\ NodeSeconds(nodeq, start, e) = SumFunction(h)
    BY <2>2 DEF NodeSeconds
  <2> HIDE DEF e
  <2>5. h \in [S -> Int] /\ f \in [S \cup {e} -> Int] /\ f[e] = ValueAt(nodeq, e)
        /\ \A t \in S : h[t] = f[t]
    <3> HIDE DEF S
    <3> QED
      BY <1>2, <2>1, <2>2
  <2> HIDE DEF S, f, h
  <2>6. SumFunction(f) = f[e] + SumFunction(h)
    BY <2>2, <2>3, <2>5, TotalNext
  <2>7. Area(start, e + 1) = Area(start, e) + ValueAt(nodeq, e)
    BY <2>1, AreaNext
  <2>8. Area(start, e) = NodeSeconds(nodeq, start, e)
    BY <1>4 DEF e
  <2>9. SumFunction(h) \in Int /\ f[e] \in Int
    BY <2>3, <2>5, TotalType
  <2>10. Area(start, e + 1) = NodeSeconds(nodeq, start, e + 1)
    BY <2>4, <2>5, <2>6, <2>7, <2>8, <2>9
  <2> QED
    BY <2>1, <2>10
<1>5. Nat \subseteq B
  <2> HIDE DEF B
  <2> QED
    BY <1>3, <1>4, Induction
<1> QED
  BY <1>1, <1>5

\* While a queue grows, the seconds it has passed keep what they add up to.
LEMMA SecondsStay ==
    ASSUME NEW q \in Queue, NEW s \in [ts : Int, val : Int], Ordered(q), q # <<>>,
           \A i \in 1 .. Len(q) : q[i].ts < s.ts,
           NEW lo \in Int, q[1].ts <= lo, NEW hi \in Int, hi <= s.ts
    PROVE  NodeSeconds(Append(q, s), lo, hi) = NodeSeconds(q, lo, hi)
<1>1. s.ts \in Int /\ q[1].ts \in Int
  BY QueueTimes DEF Queue
<1>2. ASSUME NEW t \in lo .. hi - 1 PROVE ValueAt(Append(q, s), t) = ValueAt(q, t)
  <2>1. t \in Int /\ q[1].ts <= t /\ t < s.ts
    BY <1>1
  <2> QED
    BY <2>1, ValueStays
<1>3. [t \in lo .. hi - 1 |-> ValueAt(Append(q, s), t)] = [t \in lo .. hi - 1 |-> ValueAt(q, t)]
  BY <1>2
<1> QED
  BY <1>3 DEF NodeSeconds

-----------------------------------------------------------------------------
EstTyped ==
    /\ now \in Int /\ now >= 1 /\ estStep \in {"idleness", "nodes", "update", "sleep"}
    /\ idleq \in Queue /\ Ordered(idleq) /\ nodeq \in Queue /\ Ordered(nodeq)
    /\ \A i \in 1 .. Len(idleq) : 1 <= idleq[i].ts /\ idleq[i].ts <= now
    /\ \A i \in 1 .. Len(nodeq) : nodeq[i].ts <= now
    /\ est \in [made : BOOLEAN, runs : Seq(Int), start : Int]

\* A round notes idleness before nodes, and in the second of a later one: the nodes are
\* known from before the first run on.
InRound ==
    /\ estStep = "idleness" => \A i \in 1 .. Len(idleq) : idleq[i].ts < now
    /\ estStep \in {"idleness", "nodes"} => \A i \in 1 .. Len(nodeq) : nodeq[i].ts < now
    /\ estStep # "idleness" => idleq # <<>>
    /\ estStep # "nodes" /\ idleq # <<>> => nodeq # <<>>
    /\ Len(idleq) >= 2 => nodeq # <<>> /\ nodeq[1].ts < idleq[2].ts

\* The runs are at the even places.
Alternates(q) == \A i \in 1 .. Len(q) : q[i].val = IF i % 2 = 0 THEN 1 ELSE 0

\* The estimator e knows what the first n samples of p say, with the nodes in q.
Knows(e, n, p, q) ==
    /\ e.made <=> n > 0
    /\ e.start = IF n > 0 /\ n % 2 = 0 THEN p[n].ts ELSE Idle
    /\ IF n = 0 THEN Len(e.runs) = 0 ELSE 2 * Len(e.runs) + 1 <= n /\ n <= 2 * Len(e.runs) + 2
    /\ \A k \in 1 .. Len(e.runs) :
          e.runs[k] = NodeSeconds(q, p[2 * k].ts, p[2 * k + 1].ts)

\* It knows all, or all but the sample of this round.
Informed ==
    \E n \in Nat :
        /\ n = Len(idleq) \/ (estStep \in {"nodes", "update"} /\ n + 1 = Len(idleq))
        /\ Knows(est, n, idleq, nodeq)

EstInv == EstTyped /\ InRound /\ Alternates(idleq) /\ Informed

\* A sample that is noted is the newest.
LEMMA NotedIsNewest ==
    ASSUME NEW q \in Queue, Ordered(q), now \in Int, \A i \in 1 .. Len(q) : q[i].ts < now,
           NEW val \in Int, NEW r, r = Noted(q, val)
    PROVE  /\ r \in Queue /\ Ordered(r) /\ r # <<>> /\ Len(q) \in Nat
           /\ \A i \in 1 .. Len(q) : r[i] = q[i]
           /\ \/ r = q /\ q # <<>> /\ q[Len(q)].val = val
              \/ /\ r = Append(q, Sample(now, val)) /\ Len(r) = Len(q) + 1
                 /\ r[Len(q) + 1] = Sample(now, val)
                 /\ q # <<>> => q[Len(q)].val # val
<1>1. Len(q) \in Nat /\ \A i \in 1 .. Len(q) : q[i].ts \in Int
  BY QueueTimes
<1>2. CASE q = <<>> \/ LastOf(q).val # val
  <2> DEFINE s == Sample(now, val)
  <2>1. s \in [ts : Int, val : Int] /\ s.ts = now
    BY DEF Sample
  <2>2. r = Append(q, s)
    BY <1>2 DEF Noted
  <2> HIDE DEF s
  <2>3. /\ r \in Queue /\ Len(r) = Len(q) + 1
        /\ \A i \in 1 .. Len(q) + 1 : r[i] = IF i = Len(q) + 1 THEN s ELSE q[i]
    BY <2>1, <2>2, AppendProperties DEF Queue
  <2>4. r # <<>> /\ r[Len(q) + 1] = s /\ \A i \in 1 .. Len(q) : r[i] = q[i]
    <3>1. Len(r) # 0
      BY <1>1, <2>3
    <3> QED
      BY <1>1, <2>3, <3>1
  <2>5. ASSUME NEW i \in 1 .. Len(r), NEW j \in 1 .. Len(r), i < j PROVE r[i].ts < r[j].ts
    <3>1. i \in 1 .. Len(q) /\ r[i] = q[i]
      BY <1>1, <2>3, <2>4, <2>5
    <3>2. CASE j = Len(q) + 1
      BY <2>1, <2>4, <3>1, <3>2
    <3>3. CASE j # Len(q) + 1
      <4>1. j \in 1 .. Len(q) /\ r[j] = q[j]
        BY <1>1, <2>3, <2>4, <3>3
      <4> QED
        BY <2>5, <3>1, <4>1 DEF Ordered
    <3> QED
      BY <3>2, <3>3
  <2>6. Ordered(r)
    BY <2>5 DEF Ordered
  <2> QED
    BY <1>1, <1>2, <2>2, <2>3, <2>4, <2>6 DEF s, LastOf
<1>3. CASE ~(q = <<>> \/ LastOf(q).val # val)
  <2>1. r = q /\ q # <<>> /\ q[Len(q)].val = val
    BY <1>3 DEF Noted, LastOf
  <2> QED
    BY <1>1, <2>1
<1> QED
  BY <1>2, <1>3

\* get_idleness_sample.
LEMMA NoteIdlenessInv == ASSUME EstInv, NEW busy \in 0 .. 1, NoteIdleness(busy) PROVE EstInv'
<1>1. EstTyped /\ InRound /\ Alternates(idleq) /\ Informed
  BY DEF EstInv
<1>2. /\ estStep = "idleness" /\ (idleq = <<>> => busy = 0)
      /\ idleq' = Noted(idleq, busy) /\ estStep' = "nodes" /\ UNCHANGED <<now, nodeq, est>>
  BY DEF NoteIdleness
<1>3. /\ idleq \in Queue /\ Ordered(idleq) /\ now \in Int /\ now >= 1 /\ busy \in Int
      /\ \A i \in 1 .. Len(idleq) : idleq[i].ts < now
      /\ \A i \in 1 .. Len(idleq) : 1 <= idleq[i].ts
  BY <1>1, <1>2 DEF EstTyped, InRound
<1> DEFINE n == Len(idleq)
<1>4. /\ idleq' \in Queue /\ Ordered(idleq)' /\ idleq' # <<>> /\ n \in Nat
      /\ \A i \in 1 .. n : idleq'[i] = idleq[i]
      /\ \/ idleq' = idleq /\ idleq # <<>>
         \/ /\ Len(idleq') = n + 1 /\ idleq'[n + 1] = Sample(now, busy)
            /\ idleq # <<>> => idleq[n].val # busy
  <2> DEFINE r == idleq'
  <2>1. r = Noted(idleq, busy)
    BY <1>2
  <2> HIDE DEF r
  <2>2. /\ r \in Queue /\ Ordered(r) /\ r # <<>> /\ n \in Nat
        /\ \A i \in 1 .. n : r[i] = idleq[i]
        /\ \/ r = idleq /\ idleq # <<>>
           \/ /\ Len(r) = n + 1 /\ r[n + 1] = Sample(now, busy)
              /\ idleq # <<>> => idleq[n].val # busy
    BY <1>3, <2>1, NotedIsNewest
  <2> QED
    BY <2>2 DEF r, Ordered
<1>5. idleq = <<>> => n = 0
  OBVIOUS
<1>6. n = 0 => idleq = <<>>
  BY <1>3 DEF Queue
<1> HIDE DEF n
<1>7. Sample(now, busy).ts = now /\ Sample(now, busy).val = busy
  BY DEF Sample
<1>8. \A i \in 1 .. Len(idleq') : i \in 1 .. n \/ (i = n + 1 /\ Len(idleq') = n + 1)
  BY <1>4 DEF n
<1>9. EstTyped'
  <2>1. \A i \in 1 .. Len(idleq') : 1 <= idleq'[i].ts /\ idleq'[i].ts <= now
    <3> SUFFICES ASSUME NEW i \in 1 .. Len(idleq')
                 PROVE  1 <= idleq'[i].ts /\ idleq'[i].ts <= now
      OBVIOUS
    <3>1. CASE i \in 1 .. n
      <4>1. idleq'[i] = idleq[i]
        BY <1>4, <3>1
      <4> QED
        BY <1>1, <3>1, <4>1 DEF EstTyped, n
    <3>2. CASE ~(i \in 1 .. n)
      <4>1. idleq'[i] = Sample(now, busy)
        <5>1. i = n + 1 /\ Len(idleq') = n + 1
          BY <1>8, <3>2
        <5>2. idleq' # idleq
          BY <1>4, <5>1 DEF n
        <5> QED
          BY <1>4, <5>1, <5>2
      <4> QED
        BY <1>3, <1>7, <4>1
    <3> QED
      BY <3>1, <3>2
  <2> QED
    BY <1>1, <1>2, <1>4, <2>1 DEF EstTyped, Ordered
<1>10. InRound'
  <2>1. \A i \in 1 .. Len(nodeq) : nodeq[i].ts < now
    BY <1>1, <1>2 DEF InRound
  <2>2. ASSUME Len(idleq') >= 2 PROVE nodeq # <<>> /\ nodeq[1].ts < idleq'[2].ts
    <3>1. CASE n >= 2
      <4>1. idleq'[2] = idleq[2]
        BY <1>4, <3>1
      <4> QED
        BY <1>1, <3>1, <4>1 DEF InRound, n
    <3>2. CASE ~(n >= 2)
      <4>1. Len(idleq') = 2 /\ n = 1 /\ idleq'[2].ts = now
        <5>1. Len(idleq') # n
          BY <1>4, <2>2, <3>2
        <5>2. idleq' # idleq
          BY <5>1 DEF n
        <5>3. Len(idleq') = n + 1 /\ idleq'[n + 1] = Sample(now, busy)
          BY <1>4, <5>2
        <5>4. n = 1
          BY <1>4, <2>2, <3>2, <5>3
        <5> QED
          BY <1>7, <5>3, <5>4
      <4>2. nodeq # <<>>
        BY <1>1, <1>2, <1>5, <4>1 DEF InRound
      <4>3. 1 \in 1 .. Len(nodeq)
        BY <1>1, <4>2 DEF EstTyped, Queue
      <4> QED
        BY <2>1, <4>1, <4>2, <4>3
    <3> QED
      BY <3>1, <3>2
  <2> QED
    BY <1>1, <1>2, <1>4, <2>1, <2>2 DEF InRound
<1>11. Alternates(idleq)'
  <2>1. ASSUME NEW i \in 1 .. Len(idleq') PROVE idleq'[i].val = IF i % 2 = 0 THEN 1 ELSE 0
    <3>1. CASE i \in 1 .. n
      <4>1. idleq'[i] = idleq[i]
        BY <1>4, <3>1
      <4> QED
        BY <1>1, <3>1, <4>1 DEF Alternates, n
    <3>2. CASE ~(i \in 1 .. n)
      <4>1. i = n + 1 /\ Len(idleq') = n + 1
        BY <1>8, <3>2
      <4>2. idleq' # idleq
        BY <1>4, <4>1 DEF n
      <4>3. idleq'[i].val = busy /\ (idleq # <<>> => idleq[n].val # busy)
        BY <1>4, <1>7, <4>1, <4>2
      <4>4. CASE n = 0
        <5>1. busy = 0 /\ i = 1
          BY <1>2, <1>6, <4>1, <4>4
        <5> QED
          BY <4>3, <5>1
      <4>5. CASE n # 0
        <5>1. n \in 1 .. n /\ idleq # <<>>
          BY <1>4, <1>5, <4>5
        <5>2. idleq[n].val = IF n % 2 = 0 THEN 1 ELSE 0
          BY <1>1, <5>1 DEF Alternates, n
        <5>3. busy = IF n % 2 = 0 THEN 0 ELSE 1
          BY <4>3, <5>1, <5>2
        <5> QED
          BY <1>4, <4>1, <4>3, <5>3
      <4> QED
        BY <4>4, <4>5
    <3> QED
      BY <3>1, <3>2
  <2> QED
    BY <2>1 DEF Alternates
<1>12. Informed'
  <2>1. Knows(est, n, idleq, nodeq)
    BY <1>1, <1>2 DEF Informed, n
  <2>2. Len(est.runs) \in Nat
    BY <1>1 DEF EstTyped
  <2>3. Knows(est, n, idleq', nodeq)
    <3>1. n > 0 => idleq'[n].ts = idleq[n].ts
      BY <1>4
    <3>2. ASSUME NEW k \in 1 .. Len(est.runs)
          PROVE  idleq'[2 * k] = idleq[2 * k] /\ idleq'[2 * k + 1] = idleq[2 * k + 1]
      <4>1. 2 * k \in 1 .. n /\ 2 * k + 1 \in 1 .. n
        BY <1>4, <2>1, <2>2 DEF Knows
      <4> QED
        BY <1>4, <4>1
    <3> QED
      BY <2>1, <3>1, <3>2 DEF Knows
  <2>4. n = Len(idleq') \/ n + 1 = Len(idleq')
    BY <1>4 DEF n
  <2>5. \E l \in Nat : /\ \/ l = Len(idleq')
                          \/ estStep' \in {"nodes", "update"} /\ l + 1 = Len(idleq')
                       /\ Knows(est', l, idleq', nodeq')
    BY <1>2, <1>4, <2>3, <2>4
  <2> QED
    BY <2>5 DEF Informed, Knows, NodeSeconds, ValueAt, FloorPlace, LastOf, Halve
<1> QED
  BY <1>9, <1>10, <1>11, <1>12 DEF EstInv

\* get_num_active_node_sample.
LEMMA NoteNodesInv == ASSUME EstInv, NEW m \in 0 .. MaxNodes, NoteNodes(m) PROVE EstInv'
<1>1. EstTyped /\ InRound /\ Alternates(idleq) /\ Informed
  BY DEF EstInv
<1>2. /\ estStep = "nodes" /\ nodeq' = Noted(nodeq, m) /\ estStep' = "update"
      /\ UNCHANGED <<now, idleq, est>>
  BY DEF NoteNodes
<1>3. /\ nodeq \in Queue /\ Ordered(nodeq) /\ now \in Int /\ m \in Int
      /\ \A i \in 1 .. Len(nodeq) : nodeq[i].ts < now
  BY <1>1, <1>2 DEF EstTyped, InRound
<1> DEFINE n == Len(nodeq)
<1>4. /\ nodeq' \in Queue /\ Ordered(nodeq)' /\ nodeq' # <<>> /\ n \in Nat
      /\ \A i \in 1 .. n : nodeq'[i] = nodeq[i]
      /\ \/ nodeq' = nodeq
         \/ /\ nodeq' = Append(nodeq, Sample(now, m))
            /\ Len(nodeq') = n + 1 /\ nodeq'[n + 1] = Sample(now, m)
  <2> DEFINE r == nodeq'
  <2>1. r = Noted(nodeq, m)
    BY <1>2
  <2> HIDE DEF r
  <2>2. /\ r \in Queue /\ Ordered(r) /\ r # <<>> /\ n \in Nat
        /\ \A i \in 1 .. n : r[i] = nodeq[i]
        /\ \/ r = nodeq
           \/ /\ r = Append(nodeq, Sample(now, m))
              /\ Len(r) = n + 1 /\ r[n + 1] = Sample(now, m)
    BY <1>3, <2>1, NotedIsNewest
  <2> QED
    BY <2>2 DEF r, Ordered
<1>5. nodeq # <<>> => 1 \in 1 .. n
  BY <1>3 DEF Queue
<1> HIDE DEF n
<1>6. Sample(now, m).ts = now /\ Sample(now, m) \in [ts : Int, val : Int]
  BY <1>3 DEF Sample
<1>7. EstTyped'
  <2>1. \A i \in 1 .. Len(nodeq') : nodeq'[i].ts <= now
    <3> SUFFICES ASSUME NEW i \in 1 .. Len(nodeq') PROVE nodeq'[i].ts <= now
      OBVIOUS
    <3>1. CASE nodeq' = nodeq
      BY <1>1, <3>1 DEF EstTyped
    <3>2. CASE nodeq' # nodeq
      <4>1. Len(nodeq') = n + 1 /\ nodeq'[n + 1] = Sample(now, m)
        BY <1>4, <3>2
      <4>2. CASE i = n + 1
        BY <1>3, <1>6, <4>1, <4>2
      <4>3. CASE i # n + 1
        <5>1. i \in 1 .. n /\ nodeq'[i] = nodeq[i]
          BY <1>4, <4>1, <4>3
        <5> QED
          BY <1>1, <5>1 DEF EstTyped, n
      <4> QED
        BY <4>2, <4>3
    <3> QED
      BY <3>1, <3>2
  <2> QED
    BY <1>1, <1>2, <1>4, <2>1 DEF EstTyped, Ordered
<1>8. nodeq # <<>> => nodeq'[1] = nodeq[1]
  BY <1>4, <1>5
<1>9. InRound'
  <2>1. Len(idleq) >= 2 => nodeq' # <<>> /\ nodeq'[1].ts < idleq[2].ts
    BY <1>1, <1>4, <1>8 DEF InRound
  <2>2. idleq # <<>>
    BY <1>1, <1>2 DEF InRound
  <2> QED
    BY <1>2, <1>4, <2>1, <2>2 DEF InRound
<1>10. Alternates(idleq)'
  BY <1>1, <1>2 DEF Alternates
<1>11. Informed'
  <2>1. PICK l \in Nat :
          /\ l = Len(idleq) \/ l + 1 = Len(idleq)
          /\ Knows(est, l, idleq, nodeq)
    BY <1>1 DEF Informed
  <2>2. /\ Len(est.runs) \in Nat /\ Len(idleq) \in Nat
        /\ \A i \in 1 .. Len(idleq) : idleq[i].ts \in Int /\ idleq[i].ts <= now
    BY <1>1, QueueTimes DEF EstTyped
  <2>3. ASSUME NEW k \in 1 .. Len(est.runs)
        PROVE  NodeSeconds(nodeq', idleq[2 * k].ts, idleq[2 * k + 1].ts)
                   = NodeSeconds(nodeq, idleq[2 * k].ts, idleq[2 * k + 1].ts)
    <3>1. 2 * k \in 1 .. Len(idleq) /\ 2 * k + 1 \in 1 .. Len(idleq) /\ 2 \in 1 .. Len(idleq)
          /\ 2 <= 2 * k /\ 2 * k \in Int /\ 2 * k + 1 \in Int
      BY <2>1, <2>2 DEF Knows
    <3>2. nodeq # <<>> /\ nodeq[1].ts < idleq[2].ts
      BY <1>1, <2>2, <3>1 DEF InRound
    <3>3. nodeq[1].ts \in Int
      BY <1>3, <1>5, <3>2, QueueTimes DEF n
    <3> DEFINE lo == idleq[2 * k].ts
               hi == idleq[2 * k + 1].ts
    <3>4. lo \in Int /\ hi \in Int /\ hi <= now
      BY <2>2, <3>1
    <3>5. nodeq[1].ts <= lo
      <4>1. idleq[2].ts \in Int
        BY <2>2, <3>1
      <4>2. 2 = 2 * k \/ idleq[2].ts < lo
        <5>1. 2 = 2 * k \/ 2 < 2 * k
          BY <3>1
        <5> QED
          BY <1>1, <3>1, <5>1 DEF EstTyped, Ordered
      <4>3. idleq[2].ts <= lo
        <5>1. CASE 2 = 2 * k
          BY <4>1, <5>1
        <5>2. CASE idleq[2].ts < lo
          BY <3>4, <4>1, <5>2
        <5> QED
          BY <4>2, <5>1, <5>2
      <4> QED
        BY <3>2, <3>3, <3>4, <4>1, <4>3
    <3> HIDE DEF lo, hi
    <3>6. CASE nodeq' = nodeq
      BY <3>6
    <3>7. CASE nodeq' = Append(nodeq, Sample(now, m))
      <4> DEFINE s == Sample(now, m)
      <4>1. s \in [ts : Int, val : Int] /\ s.ts = now
        BY <1>6
      <4> HIDE DEF s
      <4>2. NodeSeconds(Append(nodeq, s), lo, hi) = NodeSeconds(nodeq, lo, hi)
        BY <1>3, <3>2, <3>4, <3>5, <4>1, SecondsStay
      <4> QED
        BY <3>7, <4>2 DEF s, lo, hi
    <3> QED
      BY <1>4, <3>6, <3>7
  <2>4. Knows(est, l, idleq, nodeq')
    BY <2>1, <2>3 DEF Knows
  <2>5. \E j \in Nat : /\ \/ j = Len(idleq')
                          \/ estStep' \in {"nodes", "update"} /\ j + 1 = Len(idleq')
                       /\ Knows(est', j, idleq', nodeq')
    BY <1>2, <2>1, <2>4
  <2> QED
    BY <2>5 DEF Informed, Knows, NodeSeconds, ValueAt, FloorPlace, LastOf, Halve
<1> QED
  BY <1>7, <1>9, <1>10, <1>11 DEF EstInv

\* A second passes.
LEMMA EstTickInv == ASSUME EstInv, EstTick PROVE EstInv'
<1>1. EstTyped /\ InRound /\ Alternates(idleq) /\ Informed
  BY DEF EstInv
<1>2. /\ now' = now + 1 /\ now \in Int /\ UNCHANGED <<idleq, nodeq, est>>
      /\ estStep' \in IF estStep = "sleep" THEN {"sleep", "idleness"} ELSE {estStep}
  BY <1>1 DEF EstTick, EstTyped
<1>3. /\ \A i \in 1 .. Len(idleq) : idleq[i].ts \in Int /\ idleq[i].ts <= now
      /\ \A i \in 1 .. Len(nodeq) : nodeq[i].ts \in Int /\ nodeq[i].ts <= now
  BY <1>1, QueueTimes DEF EstTyped
<1>4. /\ \A i \in 1 .. Len(idleq) : idleq[i].ts < now' /\ idleq[i].ts <= now'
      /\ \A i \in 1 .. Len(nodeq) : nodeq[i].ts < now' /\ nodeq[i].ts <= now'
  BY <1>2, <1>3
<1>5. EstTyped'
  <2>1. now' \in Int /\ now' >= 1 /\ estStep' \in {"idleness", "nodes", "update", "sleep"}
    BY <1>1, <1>2 DEF EstTyped
  <2> QED
    BY <1>1, <1>2, <1>4, <2>1 DEF EstTyped, Ordered
<1>6. InRound'
  BY <1>1, <1>2, <1>4 DEF InRound
<1>7. Alternates(idleq)'
  BY <1>1, <1>2 DEF Alternates
<1>8. Informed'
  <2>1. \E j \in Nat : /\ \/ j = Len(idleq')
                          \/ estStep' \in {"nodes", "update"} /\ j + 1 = Len(idleq')
                       /\ Knows(est', j, idleq', nodeq')
    BY <1>1, <1>2 DEF Informed
  <2> QED
    BY <2>1 DEF Informed, Knows, NodeSeconds, ValueAt, FloorPlace, LastOf, Halve
<1> QED
  BY <1>5, <1>6, <1>7, <1>8 DEF EstInv

LEMMA EstInitInv == EstInit => EstInv
<1> SUFFICES ASSUME EstInit PROVE EstInv
  OBVIOUS
<1>1. /\ now = 1 /\ estStep = "idleness" /\ idleq = <<>> /\ nodeq = <<>>
      /\ est = [made |-> FALSE, runs |-> <<>>, start |-> Idle]
  BY DEF EstInit
<1>2. EstTyped /\ InRound /\ Alternates(idleq)
  BY <1>1 DEF EstTyped, InRound, Alternates, Queue, Ordered, Idle
<1>3. Knows(est, 0, idleq, nodeq)
  BY <1>1 DEF Knows
<1>4. Informed
  BY <1>1, <1>3 DEF Informed
<1> QED
  BY <1>2, <1>4 DEF EstInv

\* What the search for the runs relies on at the end of a round.
LEMMA RunsKnown ==
    ASSUME EstTyped, InRound, NEW i \in 1 .. Len(idleq), i >= 2
    PROVE  NodesKnown(idleq[i].ts)
<1>1. /\ nodeq \in Queue /\ Ordered(nodeq) /\ idleq \in Queue /\ Ordered(idleq)
      /\ Len(idleq) \in Nat /\ \A j \in 1 .. Len(idleq) : idleq[j].ts \in Int
  BY QueueTimes DEF EstTyped
<1>2. 2 \in 1 .. Len(idleq) /\ Len(idleq) >= 2 /\ (i = 2 \/ 2 < i)
  BY <1>1
<1>3. nodeq # <<>> /\ nodeq[1].ts < idleq[2].ts
  BY <1>2 DEF InRound
<1>4. nodeq[1].ts \in Int
  BY <1>1, <1>3, FirstTime
<1>5. idleq[2].ts <= idleq[i].ts
  <2>1. CASE i = 2
    BY <1>1, <1>2, <2>1
  <2>2. CASE 2 < i
    BY <1>1, <1>2, <2>2 DEF Ordered
  <2> QED
    BY <1>2, <2>1, <2>2
<1> QED
  BY <1>1, <1>2, <1>3, <1>4, <1>5 DEF NodesKnown

\* The last run, from its start on.
LEMMA CrawledOne ==
    ASSUME EstTyped, InRound, Alternates(idleq), NEW n \in Nat, n + 1 = Len(idleq),
           n > 0, n % 2 = 0
    PROVE  /\ Crawled(idleq[n].ts) = <<NodeSeconds(nodeq, idleq[n].ts, idleq[n + 1].ts)>>
           /\ NodeSeconds(nodeq, idleq[n].ts, idleq[n + 1].ts) \in Int
<1>1. /\ idleq \in Queue /\ Ordered(idleq)
      /\ \A j \in 1 .. Len(idleq) : idleq[j].ts \in Int
      /\ n \in 1 .. Len(idleq) /\ n + 1 \in 1 .. Len(idleq) /\ n >= 2
  <2>1. idleq \in Queue /\ Ordered(idleq)
    BY DEF EstTyped
  <2>2. n \in 1 .. n + 1 /\ n + 1 \in 1 .. n + 1 /\ n >= 2
    OBVIOUS
  <2> QED
    BY <2>1, <2>2, QueueTimes
<1> DEFINE ts == idleq[n].ts
           p == InsertPlace(idleq, 1, Len(idleq), ts)
           A == Area(ts, idleq[n + 1].ts)
<1>2. Placed(idleq, ts, p) /\ p.dup \in BOOLEAN
  <2>1. Ascends(idleq) /\ ts \in Int
    BY <1>1 DEF Ordered, Ascends
  <2> QED
    BY <1>1, <2>1, PlaceInAll
<1>3. SincePlaces(idleq, ts) = p.at .. Len(idleq)
  BY DEF SincePlaces
<1> HIDE DEF p
<1>4. p.at = n
  <2>1. p.dup
    <3> SUFFICES ASSUME ~p.dup PROVE FALSE
      BY <1>2
    <3>1. IF n < p.at THEN ts < ts ELSE ts > ts
      BY <1>1, <1>2 DEF Placed
    <3>2. ts \in Int
      BY <1>1
    <3> QED
      BY <3>1, <3>2
  <2>2. p.at \in 1 .. Len(idleq) /\ idleq[p.at].ts = ts
    BY <1>2, <2>1 DEF Placed
  <2> QED
    BY <1>1, <2>2 DEF Ordered
<1>5. RunsSince(ts) = {n}
  <2>1. \A i \in n .. Len(idleq) : i = n \/ i = n + 1
    BY <1>1
  <2>2. idleq[n].val = 1
    BY <1>1 DEF Alternates
  <2>3. idleq[n + 1].val = 0
    <3>1. (n + 1) % 2 # 0
      OBVIOUS
    <3> QED
      BY <1>1, <3>1 DEF Alternates
  <2>4. SincePlaces(idleq, ts) = n .. Len(idleq)
    BY <1>3, <1>4
  <2>5. n \in n .. Len(idleq)
    BY <1>1
  <2> HIDE DEF ts
  <2> QED
    BY <2>1, <2>2, <2>3, <2>4, <2>5 DEF RunsSince
<1>6. NodesKnown(ts) /\ idleq[n + 1].ts \in Int /\ ts <= idleq[n + 1].ts
  <2>1. NodesKnown(ts)
    BY <1>1, RunsKnown
  <2>2. ts < idleq[n + 1].ts
    BY <1>1 DEF Ordered
  <2> QED
    BY <1>1, <2>1, <2>2
<1>7. A = NodeSeconds(nodeq, ts, idleq[n + 1].ts)
  <2> HIDE DEF ts
  <2> QED
    BY <1>6, AreaIsSum
<1>8. A \in Int
  <2> DEFINE S == ts .. idleq[n + 1].ts - 1
             f == [t \in S |-> ValueAt(nodeq, t)]
  <2>1. IsFiniteSet(S)
    <3>1. ts \in Int /\ idleq[n + 1].ts - 1 \in Int
      BY <1>6 DEF NodesKnown
    <3> HIDE DEF ts
    <3> QED
      BY <3>1, FS_Interval
  <2>2. f \in [S -> Int]
    <3>1. ASSUME NEW t \in S PROVE ValueAt(nodeq, t) \in Int
      <4>1. /\ nodeq \in Queue /\ Ordered(nodeq) /\ nodeq # <<>>
            /\ nodeq[1].ts <= ts /\ nodeq[1].ts \in Int
        BY <1>6, FirstTime DEF NodesKnown
      <4>2. t \in Int /\ nodeq[1].ts <= t
        BY <1>1, <4>1
      <4> QED
        BY <4>1, <4>2, ValuesAreNumbers
    <3> HIDE DEF S
    <3> QED
      BY <3>1
  <2>3. A = SumFunction(f)
    BY <1>7 DEF NodeSeconds
  <2> HIDE DEF f, S
  <2> QED
    BY <2>1, <2>2, <2>3, TotalType
<1>9. SumFunction([i \in {n} |-> Area(idleq[i].ts, idleq[i + 1].ts)]) = A
  <2> DEFINE f == [i \in {n} |-> Area(idleq[i].ts, idleq[i + 1].ts)]
  <2>1. f[n] = A /\ DOMAIN f = {n}
    OBVIOUS
  <2>2. f \in [{n} -> Int]
    <3>1. f = [i \in {n} |-> f[i]]
      OBVIOUS
    <3> HIDE DEF f, A
    <3> QED
      BY <1>8, <2>1, <3>1
  <2> HIDE DEF f, A
  <2>3. SumFunction(f) = f[n]
    BY <2>2, TotalOfSingle
  <2> QED
    BY <2>1, <2>3 DEF f
<1>10. Cardinality({n}) = 1
  BY FS_Singleton
<1>11. Crawled(ts) = <<A \div 1>>
  BY <1>5, <1>9, <1>10 DEF Crawled
<1> HIDE DEF A
<1>12. A \div 1 = A
  BY <1>8
<1> QED
  BY <1>7, <1>8, <1>11, <1>12

\* update.
LEMMA UpdateInv == ASSUME EstInv, Update PROVE EstInv'
<1>1. EstTyped /\ InRound /\ Alternates(idleq) /\ Informed
  BY DEF EstInv
<1>2. /\ estStep = "update" /\ estStep' = "sleep" /\ UNCHANGED <<now, idleq, nodeq>>
      /\ MakeEntry \/ RunBegins \/ RunEnds \/ NoNews
  BY DEF Update
<1>3. /\ idleq \in Queue /\ Ordered(idleq) /\ Len(idleq) \in Nat /\ Len(idleq) # 0
      /\ \A j \in 1 .. Len(idleq) : idleq[j].ts \in Int /\ idleq[j].ts >= 1
      /\ idleq # <<>> /\ nodeq # <<>>
      /\ est.runs \in Seq(Int) /\ est.made \in BOOLEAN /\ est.start \in Int
      /\ est \in [made : BOOLEAN, runs : Seq(Int), start : Int]
  <2>1. idleq # <<>> /\ nodeq # <<>>
    BY <1>1, <1>2 DEF InRound
  <2>2. /\ idleq \in Queue /\ Ordered(idleq)
        /\ \A j \in 1 .. Len(idleq) : idleq[j].ts >= 1
        /\ est \in [made : BOOLEAN, runs : Seq(Int), start : Int]
    BY <1>1 DEF EstTyped
  <2>3. Len(idleq) # 0
    BY <2>1, <2>2 DEF Queue
  <2>4. est.runs \in Seq(Int) /\ est.made \in BOOLEAN /\ est.start \in Int
    BY <2>2
  <2> QED
    BY <2>1, <2>2, <2>3, <2>4, QueueTimes
<1> DEFINE N == Len(idleq)
<1>4. Busy <=> N % 2 = 0
  <2>1. N \in 1 .. N
    BY <1>3
  <2>2. LastOf(idleq).val = IF N % 2 = 0 THEN 1 ELSE 0
    BY <1>1, <2>1 DEF Alternates, LastOf
  <2> QED
    BY <2>2 DEF Busy
<1>5. PICK n \in Nat : (n = N \/ n + 1 = N) /\ Knows(est, n, idleq, nodeq)
  BY <1>1, <1>2 DEF Informed
<1> HIDE DEF N
<1>6. /\ est.made <=> n > 0
      /\ est.start = IF n > 0 /\ n % 2 = 0 THEN idleq[n].ts ELSE Idle
      /\ IF n = 0 THEN Len(est.runs) = 0
         ELSE 2 * Len(est.runs) + 1 <= n /\ n <= 2 * Len(est.runs) + 2
      /\ \A k \in 1 .. Len(est.runs) :
            est.runs[k] = NodeSeconds(nodeq, idleq[2 * k].ts, idleq[2 * k + 1].ts)
  BY <1>5 DEF Knows
<1>7. est.start # Idle <=> (n > 0 /\ n % 2 = 0)
  <2>1. n > 0 => n \in 1 .. Len(idleq)
    BY <1>3, <1>5 DEF N
  <2> QED
    BY <1>3, <1>6, <2>1 DEF Idle
<1>8. Len(est.runs) \in Nat
  BY <1>3
<1>9. /\ est' \in [made : BOOLEAN, runs : Seq(Int), start : Int]
      /\ Knows(est', N, idleq, nodeq)
  <2>1. CASE n = N
    <3>1. n > 0 /\ est.made
      BY <1>3, <1>6, <2>1 DEF N
    <3>2. ~MakeEntry /\ ~RunBegins /\ ~RunEnds
      BY <1>4, <1>7, <2>1, <3>1 DEF MakeEntry, RunBegins, RunEnds
    <3>3. est' = est
      BY <1>2, <3>2 DEF NoNews
    <3> QED
      BY <1>3, <1>5, <2>1, <3>3
  <2>2. CASE n + 1 = N /\ n = 0
    <3>1. N = 1 /\ ~Busy /\ ~est.made /\ est.start = Idle
      BY <1>4, <1>6, <1>7, <2>2
    <3>2. MakeEntry
      BY <1>2, <3>1 DEF RunBegins, RunEnds, NoNews
    <3>3. Crawled(0) = <<>>
      <4>1. \A i \in SincePlaces(idleq, 0) : i = 1
        <5> DEFINE k == InsertPlace(idleq, 1, Len(idleq), 0).at
        <5>1. k \in 1 .. Len(idleq) + 1
          <6>1. Ascends(idleq)
            BY <1>3 DEF Ordered, Ascends
          <6> QED
            BY <1>3, <6>1, PlaceInOrder
        <5>2. SincePlaces(idleq, 0) = k .. 1
          BY <3>1 DEF SincePlaces, N
        <5> HIDE DEF k
        <5> QED
          BY <1>3, <5>1, <5>2
      <4>2. idleq[1].val = 0
        <5>1. 1 \in 1 .. Len(idleq) /\ 1 % 2 # 0
          BY <1>3
        <5> QED
          BY <1>1, <5>1 DEF Alternates
      <4>3. RunsSince(0) = {}
        BY <4>1, <4>2 DEF RunsSince
      <4> QED
        BY <4>3 DEF Crawled
    <3>4. est' = [made |-> TRUE, runs |-> <<>>, start |-> Idle]
      BY <3>2, <3>3 DEF MakeEntry
    <3>5. /\ est'.made = TRUE /\ est'.runs = <<>> /\ est'.start = Idle /\ Len(est'.runs) = 0
          /\ est' \in [made : BOOLEAN, runs : Seq(Int), start : Int]
      BY <3>4 DEF Idle
    <3> QED
      BY <3>1, <3>5 DEF Knows
  <2>3. CASE n + 1 = N /\ n > 0 /\ n % 2 # 0
    <3>1. N % 2 = 0 /\ Busy /\ est.made /\ est.start = Idle
      <4>1. N % 2 = 0
        BY <2>3
      <4> QED
        BY <1>4, <1>6, <1>7, <2>3, <4>1
    <3>2. RunBegins
      BY <1>2, <3>1 DEF MakeEntry, RunEnds, NoNews
    <3>3. est' = [est EXCEPT !.start = idleq[N].ts] /\ idleq[N].ts \in Int
      BY <1>3, <3>2 DEF RunBegins, LastOf, N
    <3>4. /\ est'.made = est.made /\ est'.runs = est.runs /\ est'.start = idleq[N].ts
          /\ est' \in [made : BOOLEAN, runs : Seq(Int), start : Int]
      BY <1>3, <3>3
    <3>5. 2 * Len(est.runs) + 1 <= N /\ N <= 2 * Len(est.runs) + 2 /\ N > 0 /\ N # 0
      <4> DEFINE L == Len(est.runs)
      <4>1. L \in Nat /\ 2 * L + 1 <= n /\ n <= 2 * L + 2
        BY <1>6, <1>8, <2>3
      <4> HIDE DEF L
      <4>2. n # 2 * L + 2
        BY <2>3, <4>1
      <4> QED
        BY <2>3, <4>1, <4>2 DEF L
    <3> QED
      BY <1>6, <3>1, <3>4, <3>5 DEF Knows
  <2>4. CASE n + 1 = N /\ n > 0 /\ n % 2 = 0
    <3>1. N % 2 # 0 /\ ~Busy /\ est.made /\ est.start # Idle /\ est.start = idleq[n].ts
      <4>1. N % 2 # 0
        BY <2>4
      <4> QED
        BY <1>4, <1>6, <1>7, <2>4, <4>1
    <3>2. RunEnds
      BY <1>2, <3>1 DEF MakeEntry, RunBegins, NoNews
    <3> DEFINE x == NodeSeconds(nodeq, idleq[n].ts, idleq[n + 1].ts)
    <3>3. Crawled(est.start) = <<x>> /\ x \in Int
      BY <1>1, <2>4, <3>1, CrawledOne DEF N
    <3> HIDE DEF x
    <3>4. est' = [est EXCEPT !.runs = est.runs \o <<x>>, !.start = Idle]
      BY <3>2, <3>3 DEF RunEnds
    <3> DEFINE r == est.runs \o <<x>>
               L == Len(est.runs)
    <3>5. /\ r \in Seq(Int) /\ Len(r) = L + 1 /\ r[L + 1] = x
          /\ \A k \in 1 .. L : r[k] = est.runs[k]
      <4>1. r = Append(est.runs, x)
        BY <1>3, <3>3
      <4> QED
        BY <1>3, <3>3, <4>1, AppendProperties
    <3> HIDE DEF r
    <3>6. /\ est'.made = est.made /\ est'.runs = r /\ est'.start = Idle
          /\ est' \in [made : BOOLEAN, runs : Seq(Int), start : Int]
      <4>1. est' = [est EXCEPT !.runs = r, !.start = Idle]
        BY <3>4 DEF r
      <4>2. Idle \in Int
        BY DEF Idle
      <4> HIDE DEF Idle
      <4>3. est'.made = est.made /\ est'.runs = r /\ est'.start = Idle
        BY <1>3, <4>1
      <4>4. est' = [made |-> est.made, runs |-> r, start |-> Idle]
        BY <1>3, <4>1
      <4> QED
        BY <1>3, <3>5, <4>2, <4>3, <4>4
    <3>7. n = 2 * (L + 1) /\ N = 2 * (L + 1) + 1
      <4>1. L \in Nat /\ 2 * L + 1 <= n /\ n <= 2 * L + 2
        BY <1>6, <1>8, <2>4
      <4> HIDE DEF L
      <4>2. n # 2 * L + 1
        BY <2>4, <4>1
      <4> QED
        BY <2>4, <4>1, <4>2
    <3>8. ASSUME NEW k \in 1 .. Len(r)
          PROVE  r[k] = NodeSeconds(nodeq, idleq[2 * k].ts, idleq[2 * k + 1].ts)
      <4>1. CASE k = L + 1
        BY <3>5, <3>7, <4>1 DEF x
      <4>2. CASE k # L + 1
        <5>1. k \in 1 .. L
          BY <1>8, <3>5, <4>2
        <5> QED
          BY <1>6, <3>5, <5>1
      <4> QED
        BY <4>1, <4>2
    <3>9. N # 0 /\ N > 0 /\ 2 * Len(r) + 1 <= N /\ N <= 2 * Len(r) + 2
      BY <1>8, <3>5, <3>7
    <3> QED
      BY <3>1, <3>6, <3>8, <3>9 DEF Knows
  <2> QED
    BY <1>5, <2>1, <2>2, <2>3, <2>4
<1>10. EstTyped'
  BY <1>1, <1>2, <1>9 DEF EstTyped, Ordered
<1>11. InRound'
  BY <1>1, <1>2, <1>3 DEF InRound
<1>12. Alternates(idleq)'
  BY <1>1, <1>2 DEF Alternates
<1>13. Informed'
  <2>1. \E j \in Nat : /\ \/ j = Len(idleq')
                          \/ estStep' \in {"nodes", "update"} /\ j + 1 = Len(idleq')
                       /\ Knows(est', j, idleq', nodeq')
    BY <1>2, <1>3, <1>9 DEF N
  <2> QED
    BY <2>1 DEF Informed, Knows, NodeSeconds, ValueAt, FloorPlace, LastOf, Halve
<1> QED
  BY <1>10, <1>11, <1>12, <1>13 DEF EstInv

LEMMA EstStepInv == ASSUME EstInv, [EstNext]_estVars PROVE EstInv'
<1>1. ASSUME NEW busy \in 0 .. 1, NoteIdleness(busy) PROVE EstInv'
  BY <1>1, NoteIdlenessInv
<1>2. ASSUME NEW m \in 0 .. MaxNodes, NoteNodes(m) PROVE EstInv'
  BY <1>2, NoteNodesInv
<1>3. CASE Update
  BY <1>3, UpdateInv
<1>4. CASE EstTick
  BY <1>4, EstTickInv
<1>5. CASE UNCHANGED estVars
  <2>1. UNCHANGED <<now, estStep, idleq, nodeq, est>>
    BY <1>5 DEF estVars
  <2>2. EstTyped' /\ InRound' /\ Alternates(idleq)'
    BY <2>1 DEF EstInv, EstTyped, InRound, Alternates, Ordered
  <2>3. \E j \in Nat : /\ \/ j = Len(idleq')
                          \/ estStep' \in {"nodes", "update"} /\ j + 1 = Len(idleq')
                       /\ Knows(est', j, idleq', nodeq')
    BY <2>1 DEF EstInv, Informed
  <2>4. Informed'
    BY <2>3 DEF Informed, Knows, NodeSeconds, ValueAt, FloorPlace, LastOf, Halve
  <2> QED
    BY <2>2, <2>4 DEF EstInv
<1> QED
  BY <1>1, <1>2, <1>3, <1>4, <1>5 DEF EstNext

LEMMA EstInvariant == EstSpec => []EstInv
BY EstInitInv, EstStepInv, PTL DEF EstSpec

-----------------------------------------------------------------------------
\* The places of the first m runs.
Evens(m) == {2 * j : j \in 1 .. m}

LEMMA EvensCount ==
    \A m \in Nat : IsFiniteSet(Evens(m)) /\ Cardinality(Evens(m)) = m
<1> DEFINE B == {m \in Nat : IsFiniteSet(Evens(m)) /\ Cardinality(Evens(m)) = m}
<1>1. 0 \in B
  <2>1. Evens(0) = {}
    BY DEF Evens
  <2> QED
    BY <2>1, FS_EmptySet
<1>2. ASSUME NEW m \in Nat, m \in B PROVE m + 1 \in B
  <2> DEFINE x == 2 * (m + 1)
  <2>1. Evens(m + 1) = Evens(m) \cup {x}
    <3>1. 1 .. m + 1 = (1 .. m) \cup {m + 1}
      OBVIOUS
    <3> QED
      BY <3>1 DEF Evens
  <2>2. x \notin Evens(m)
    BY DEF Evens
  <2>3. IsFiniteSet(Evens(m)) /\ Cardinality(Evens(m)) = m
    BY <1>2
  <2> HIDE DEF x
  <2>4. IsFiniteSet(Evens(m + 1)) /\ Cardinality(Evens(m + 1)) = m + 1
    BY <2>1, <2>2, <2>3, FS_AddElement
  <2> QED
    BY <2>4
<1>3. Nat \subseteq B
  <2> HIDE DEF B
  <2> QED
    BY <1>1, <1>2, Induction
<1> QED
  BY <1>3

\* A run begins at each even place and ends at the next.
LEMMA RunsAtEvens ==
    ASSUME Alternates(idleq), Len(idleq) \in Nat, NEW i \in 1 .. Len(idleq)
    PROVE  idleq[i].val = 1 <=> i % 2 = 0
BY DEF Alternates

\* "assert(start_idx>=0 && end_idx >=0)", "assert(i+1 < idleq.size() &&
\* idleq[i+1].second == 0)": the runs that runtime_estimator::update crawls are
\* over, and the active nodes are known for all of their time.
THEOREM RunsAreCovered == EstSpec => []RunsCovered
<1>1. ASSUME EstInv PROVE RunsCovered
  <2> DEFINE ts == IF est.start = Idle THEN 0 ELSE est.start
             N == Len(idleq)
  <2> SUFFICES ASSUME estStep = "update", ~Busy, NEW i \in RunsSince(ts)
               PROVE  /\ i < Len(idleq) /\ idleq[i + 1].val = 0
                      /\ FloorPlace(nodeq, idleq[i].ts) >= 1
                      /\ FloorPlace(nodeq, idleq[i + 1].ts) >= 1
    BY DEF RunsCovered
  <2>1. EstTyped /\ InRound /\ Alternates(idleq)
    BY <1>1 DEF EstInv
  <2>2. /\ idleq \in Queue /\ Ordered(idleq) /\ N \in Nat /\ N # 0 /\ est.start \in Int
        /\ \A j \in 1 .. N : idleq[j].ts \in Int
    <3>1. idleq # <<>>
      BY <2>1 DEF InRound
    <3> QED
      BY <2>1, <3>1, QueueTimes DEF EstTyped, Queue
  <2>3. ts \in Int
    BY <2>2
  <2>4. i \in 1 .. N /\ idleq[i].val = 1
    <3> DEFINE k == InsertPlace(idleq, 1, Len(idleq), ts).at
    <3>1. k \in 1 .. N + 1
      <4>1. Ascends(idleq)
        BY <2>2 DEF Ordered, Ascends
      <4> HIDE DEF ts
      <4> QED
        BY <2>2, <2>3, <4>1, PlaceInOrder
    <3>2. i \in k .. N /\ idleq[i].val = 1
      BY DEF RunsSince, SincePlaces
    <3> HIDE DEF k
    <3> QED
      BY <2>2, <3>1, <3>2
  <2> HIDE DEF ts
  <2>5. i % 2 = 0
    BY <2>1, <2>2, <2>4, RunsAtEvens
  <2>6. N % 2 # 0
    <3>1. N \in 1 .. N /\ LastOf(idleq) = idleq[N] /\ idleq[N].val # 1
      BY <2>2 DEF Busy, LastOf
    <3> QED
      BY <2>1, <2>2, <3>1, RunsAtEvens
  <2> HIDE DEF N
  <2>7. i < N /\ i >= 2 /\ i + 1 \in 1 .. N /\ (i + 1) % 2 # 0
    BY <2>2, <2>4, <2>5, <2>6
  <2>8. idleq[i + 1].val = 0
    BY <2>1, <2>7 DEF Alternates, N
  <2>9. NodesKnown(idleq[i].ts) /\ NodesKnown(idleq[i + 1].ts)
    <3>1. i \in 1 .. Len(idleq) /\ i + 1 \in 1 .. Len(idleq) /\ i + 1 >= 2
      BY <2>4, <2>7 DEF N
    <3> QED
      BY <2>1, <2>7, <3>1, RunsKnown
  <2>10. ASSUME NEW t, NodesKnown(t) PROVE FloorPlace(nodeq, t) >= 1
    <3>1. FloorPlace(nodeq, t) \in 1 .. Len(nodeq)
      BY <2>10, FloorIsLast DEF NodesKnown
    <3> QED
      BY <3>1
  <2> QED
    BY <2>7, <2>8, <2>9, <2>10 DEF N
<1> QED
  BY <1>1, EstInvariant, PTL

\* After each round, runtime_estimator has measured every run that ended exactly
\* once, as the sum of the active nodes over its seconds, and knows when the run
\* that goes on began.
THEOREM RunsAreMeasured == EstSpec => []RunsMeasured
<1>1. ASSUME EstInv PROVE RunsMeasured
  <2> SUFFICES ASSUME estStep = "sleep" PROVE RunsMeasured
    BY DEF RunsMeasured
  <2> DEFINE N == Len(idleq)
             L == Len(est.runs)
             begins == {i \in 1 .. Len(idleq) : idleq[i].val = 1}
             ended == begins \ {Len(idleq)}
             Seconds(i) == idleq[i].ts .. idleq[i + 1].ts - 1
             RunOf(k) == CHOOSE i \in ended : Cardinality({j \in ended : j <= i}) = k
  <2>1. EstTyped /\ InRound /\ Alternates(idleq) /\ Knows(est, N, idleq, nodeq)
    BY <1>1 DEF EstInv, Informed
  <2>2. N \in Nat /\ N # 0 /\ L \in Nat
    <3>1. idleq # <<>>
      BY <2>1 DEF InRound
    <3> QED
      BY <2>1, <3>1 DEF EstTyped, Queue
  <2>3. 2 * L + 1 <= N /\ N <= 2 * L + 2
    BY <2>1, <2>2 DEF Knows
  <2>4. \A i \in 1 .. N : idleq[i].val = 1 <=> i % 2 = 0
    BY <2>1, <2>2, RunsAtEvens
  <2>5. ended = {i \in 1 .. N : i % 2 = 0 /\ i # N}
    BY <2>4
  <2> HIDE DEF N, L, ended
  <2>6. ended = Evens(L)
    <3>1. ASSUME NEW i \in ended PROVE i \in Evens(L)
      <4>1. i \in 1 .. N /\ i % 2 = 0 /\ i # N
        BY <2>5, <3>1
      <4>2. PICK j \in Int : i = 2 * j
        BY <4>1
      <4>3. j \in 1 .. L
        BY <2>2, <2>3, <4>1, <4>2
      <4> QED
        BY <4>2, <4>3 DEF Evens
    <3>2. ASSUME NEW i \in Evens(L) PROVE i \in ended
      <4>1. PICK j \in 1 .. L : i = 2 * j
        BY <3>2 DEF Evens
      <4>2. i \in 1 .. N /\ i # N /\ i % 2 = 0
        BY <2>2, <2>3, <4>1
      <4> QED
        BY <2>5, <4>2
    <3> QED
      BY <3>1, <3>2
  <2>7. Cardinality(ended) = L
    BY <2>2, <2>6, EvensCount
  <2>8. ASSUME NEW k \in 1 .. L PROVE RunOf(k) = 2 * k
    <3>1. ASSUME NEW m \in 1 .. L PROVE Cardinality({j \in ended : j <= 2 * m}) = m
      <4>1. {j \in ended : j <= 2 * m} = Evens(m)
        BY <2>2, <2>6 DEF Evens
      <4> QED
        BY <4>1, EvensCount
    <3>2. 2 * k \in ended
      BY <2>6 DEF Evens
    <3>3. ASSUME NEW i \in ended, Cardinality({j \in ended : j <= i}) = k PROVE i = 2 * k
      <4>1. PICK m \in 1 .. L : i = 2 * m
        BY <2>6 DEF Evens
      <4> QED
        BY <3>1, <3>3, <4>1
    <3> QED
      BY <3>1, <3>2, <3>3
  <2> HIDE DEF RunOf
  <2>9. ASSUME NEW k \in 1 .. Cardinality(ended)
        PROVE  est.runs[k] = SumFunction([t \in Seconds(RunOf(k)) |-> NodesAt(t)])
    <3>1. k \in 1 .. L /\ RunOf(k) = 2 * k
      BY <2>7, <2>8, <2>9
    <3> DEFINE lo == idleq[2 * k].ts
               hi == idleq[2 * k + 1].ts
    <3>2. est.runs[k] = NodeSeconds(nodeq, lo, hi)
      BY <2>1, <3>1 DEF Knows, L
    <3>3. NodesKnown(lo)
      <4>1. 2 * k \in 1 .. Len(idleq) /\ 2 * k >= 2
        BY <2>2, <2>3, <3>1 DEF N
      <4> QED
        BY <2>1, <4>1, RunsKnown
    <3>4. hi \in Int
      <4>1. 2 * k + 1 \in 1 .. Len(idleq) /\ idleq \in Queue
        BY <2>1, <2>2, <2>3, <3>1 DEF N, EstTyped
      <4> QED
        BY <4>1, QueueTimes
    <3>5. Seconds(RunOf(k)) = lo .. hi - 1
      BY <3>1
    <3> HIDE DEF lo, hi, Seconds
    <3>6. ASSUME NEW t \in lo .. hi - 1 PROVE NodesAt(t) = ValueAt(nodeq, t)
      <4>1. nodeq \in Queue /\ Ordered(nodeq) /\ nodeq # <<>> /\ nodeq[1].ts \in Int
        BY <3>3, FirstTime DEF NodesKnown
      <4>2. t \in Int /\ nodeq[1].ts <= t
        BY <3>3, <3>4, <4>1 DEF NodesKnown
      <4> QED
        BY <4>1, <4>2, NodesAtFound
    <3>7. [t \in lo .. hi - 1 |-> NodesAt(t)] = [t \in lo .. hi - 1 |-> ValueAt(nodeq, t)]
      BY <3>6
    <3> QED
      BY <3>2, <3>5, <3>7 DEF NodeSeconds
  <2>10. est.start = IF Busy THEN LastOf(idleq).ts ELSE Idle
    <3>1. LastOf(idleq) = idleq[N] /\ (idleq[N].val = 1 <=> N % 2 = 0)
      BY <2>2, <2>4 DEF LastOf, N
    <3>2. est.start = IF N > 0 /\ N % 2 = 0 THEN idleq[N].ts ELSE Idle
      BY <2>1 DEF Knows
    <3> QED
      BY <2>2, <3>1, <3>2 DEF Busy
  <2> QED
    BY <2>7, <2>9, <2>10 DEF RunsMeasured, RunOf, ended, L
<1> QED
  BY <1>1, EstInvariant, PTL
-----------------------------------------------------------------------------
\* The bounds that EstInv leaves open.
EstBounds ==
    /\ now <= MaxTime
    /\ \A i \in 1 .. Len(nodeq) : nodeq[i].ts >= 1 /\ nodeq[i].val \in 0 .. MaxNodes

LEMMA EstBoundsStep ==
    ASSUME EstInv, EstBounds, [EstNext]_estVars PROVE EstBounds'
<1>1. now \in Int /\ now >= 1 /\ MaxTime \in Nat /\ nodeq \in Queue /\ Ordered(nodeq)
      /\ EstTyped /\ InRound
  BY SampleQueueAssumption DEF EstInv, EstTyped
<1>2. ASSUME NEW busy \in 0 .. 1, NoteIdleness(busy) PROVE EstBounds'
  BY <1>2 DEF NoteIdleness, EstBounds
<1>3. ASSUME NEW m \in 0 .. MaxNodes, NoteNodes(m) PROVE EstBounds'
  <2>1. estStep = "nodes" /\ nodeq' = Noted(nodeq, m) /\ now' = now /\ m \in Int
    BY <1>3, RuntimeAssumption DEF NoteNodes
  <2>2. \A i \in 1 .. Len(nodeq) : nodeq[i].ts < now
    BY <1>1, <2>1 DEF InRound
  <2>3. /\ Len(nodeq) \in Nat /\ \A i \in 1 .. Len(nodeq) : nodeq'[i] = nodeq[i]
        /\ \/ nodeq' = nodeq
           \/ Len(nodeq') = Len(nodeq) + 1 /\ nodeq'[Len(nodeq) + 1] = Sample(now, m)
    <3> DEFINE r == nodeq'
    <3>1. r = Noted(nodeq, m)
      BY <2>1
    <3> HIDE DEF r
    <3>2. /\ Len(nodeq) \in Nat /\ \A i \in 1 .. Len(nodeq) : r[i] = nodeq[i]
          /\ \/ r = nodeq
             \/ Len(r) = Len(nodeq) + 1 /\ r[Len(nodeq) + 1] = Sample(now, m)
      BY <1>1, <2>1, <2>2, <3>1, NotedIsNewest
    <3> QED
      BY <3>2 DEF r
  <2>4. ASSUME NEW i \in 1 .. Len(nodeq') PROVE nodeq'[i].ts >= 1 /\ nodeq'[i].val \in 0 .. MaxNodes
    <3>1. CASE i \in 1 .. Len(nodeq)
      BY <2>3, <3>1 DEF EstBounds
    <3>2. CASE i \notin 1 .. Len(nodeq)
      <4>1. nodeq'[i] = Sample(now, m)
        BY <2>3, <2>4, <3>2
      <4> QED
        BY <1>1, <4>1 DEF Sample
    <3> QED
      BY <3>1, <3>2
  <2> QED
    BY <2>1, <2>4 DEF EstBounds
<1>4. CASE Update
  BY <1>4 DEF Update, EstBounds
<1>5. CASE EstTick
  BY <1>1, <1>5 DEF EstTick, EstBounds
<1>6. CASE UNCHANGED estVars
  BY <1>6 DEF estVars, EstBounds
<1> QED
  BY <1>2, <1>3, <1>4, <1>5, <1>6 DEF EstNext

\* The type invariant of runtime_estimator: both queues are in order, although their
\* samples are noted at different moments of a round, and no run has a negative length.
THEOREM EstTypeCorrect == EstSpec => []EstTypeOK
<1>1. EstInit => EstBounds
  BY SampleQueueAssumption DEF EstInit, EstBounds
<1>2. EstInv /\ EstBounds => EstTypeOK
  <2> SUFFICES ASSUME EstInv, EstBounds PROVE EstTypeOK
    OBVIOUS
  <2>1. EstTyped /\ InRound /\ Alternates(idleq) /\ Informed
    BY DEF EstInv
  <2>2. /\ idleq \in Queue /\ nodeq \in Queue /\ Ordered(idleq) /\ Ordered(nodeq)
        /\ now \in Int /\ now >= 1 /\ now <= MaxTime /\ MaxTime \in Nat
        /\ Len(idleq) \in Nat /\ Len(nodeq) \in Nat
    BY <2>1, SampleQueueAssumption DEF EstTyped, EstBounds, Queue
  <2>3. Chronological(idleq) /\ Chronological(nodeq)
    BY <2>2, OrderedIsChronological
  <2>4. Samples(idleq) \subseteq [ts : 1 .. now, val : 0 .. 1]
    <3>1. ASSUME NEW i \in 1 .. Len(idleq) PROVE idleq[i] \in [ts : 1 .. now, val : 0 .. 1]
      <4>1. idleq[i] \in [ts : Int, val : Int]
        BY <2>2, QueueElement
      <4>2. 1 <= idleq[i].ts /\ idleq[i].ts <= now /\ idleq[i].val \in 0 .. 1
        BY <2>1 DEF EstTyped, Alternates
      <4> QED
        BY <2>2, <4>1, <4>2
    <3> QED
      BY <3>1 DEF Samples
  <2>5. Samples(nodeq) \subseteq [ts : 1 .. now, val : 0 .. MaxNodes]
    <3>1. ASSUME NEW i \in 1 .. Len(nodeq) PROVE nodeq[i] \in [ts : 1 .. now, val : 0 .. MaxNodes]
      <4>1. nodeq[i] \in [ts : Int, val : Int]
        BY <2>2, QueueElement
      <4>2. 1 <= nodeq[i].ts /\ nodeq[i].ts <= now /\ nodeq[i].val \in 0 .. MaxNodes
        BY <2>1 DEF EstTyped, EstBounds
      <4> QED
        BY <2>2, <4>1, <4>2
    <3> QED
      BY <3>1 DEF Samples
  <2>6. PICK n \in Nat : n <= Len(idleq) /\ Knows(est, n, idleq, nodeq)
    BY <2>1, <2>2 DEF Informed
  <2>7. est.start \in {Idle} \cup 1 .. now
    <3>1. n > 0 => n \in 1 .. Len(idleq)
      BY <2>2, <2>6
    <3>2. n > 0 => idleq[n].ts \in 1 .. now
      <4>1. n > 0 => idleq[n].ts \in Int
        BY <2>2, <3>1, QueueTimes
      <4> QED
        BY <2>1, <2>2, <3>1, <4>1 DEF EstTyped
    <3>3. est.start = IF n > 0 /\ n % 2 = 0 THEN idleq[n].ts ELSE Idle
      BY <2>6 DEF Knows
    <3> QED
      BY <3>2, <3>3
  <2>8. ASSUME NEW k \in 1 .. Len(est.runs) PROVE est.runs[k] \in Nat
    <3> DEFINE lo == idleq[2 * k].ts
               hi == idleq[2 * k + 1].ts
               S == lo .. hi - 1
               f == [t \in S |-> ValueAt(nodeq, t)]
    <3>1. est.runs[k] = SumFunction(f)
      BY <2>6 DEF Knows, NodeSeconds
    <3>2. /\ 2 * k \in 1 .. Len(idleq) /\ 2 * k + 1 \in 1 .. Len(idleq) /\ 2 * k >= 2
      <4>1. Len(est.runs) \in Nat
        BY <2>1 DEF EstTyped
      <4>2. 2 * Len(est.runs) + 1 <= n
        BY <2>6, <2>8, <4>1 DEF Knows
      <4> QED
        BY <2>2, <2>6, <4>1, <4>2
    <3>3. NodesKnown(lo)
      BY <2>1, <3>2, RunsKnown
    <3>4. lo \in Int /\ hi - 1 \in Int
      BY <2>2, <3>2, QueueTimes
    <3> HIDE DEF lo, hi
    <3>5. IsFiniteSet(S)
      BY <3>4, FS_Interval
    <3>6. ASSUME NEW t \in S PROVE ValueAt(nodeq, t) \in Nat
      <4>1. nodeq \in Queue /\ Ordered(nodeq) /\ nodeq # <<>> /\ nodeq[1].ts \in Int
        BY <3>3, FirstTime DEF NodesKnown
      <4>2. t \in Int /\ nodeq[1].ts <= t
        BY <3>3, <3>4, <4>1 DEF NodesKnown
      <4>3. FloorPlace(nodeq, t) \in 1 .. Len(nodeq)
        BY <4>1, <4>2, FloorIsLast
      <4>4. nodeq[FloorPlace(nodeq, t)].val \in 0 .. MaxNodes
        BY <4>3 DEF EstBounds
      <4> QED
        BY <4>4, RuntimeAssumption DEF ValueAt
    <3>7. f \in [S -> Nat]
      <4> HIDE DEF S
      <4> QED
        BY <3>6
    <3> HIDE DEF f, S
    <3> QED
      BY <3>1, <3>5, <3>7, TotalNatural
  <2> QED
    BY <2>1, <2>2, <2>3, <2>4, <2>5, <2>7, <2>8 DEF EstTypeOK, EstTyped
<1>3. EstInv /\ EstBounds /\ [EstNext]_estVars => EstBounds'
  BY EstBoundsStep
<1> QED
  BY <1>1, <1>2, <1>3, EstInvariant, PTL DEF EstSpec
=============================================================================
