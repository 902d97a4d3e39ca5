--------------------------- MODULE ScheduleProofs ---------------------------
(***************************************************************************)
(* Proofs about calling windows, for a day of any length, any windows and  *)
(* hard bound, zones with and without a change of the clock, any delays    *)
(* shorter than a day.                                                     *)
(*                                                                         *)
(* next_window_open: under Quiet the opening of a span, on any day, is a   *)
(* dialable instant (so the probe stops at once), every instant at which   *)
(* the window opens is such an opening, and the first one after t is on    *)
(* the local day of t or on one of the two days after it.                  *)
(*                                                                         *)
(* The call: not inductive by itself.  The invariant says of a claimed job *)
(* that the check was at most `lag' ticks ago and inside the hard bound.   *)
(***************************************************************************)
EXTENDS Schedule, WellFoundedInduction, TLAPS

\* The zones whose name loads.
Loads == {"fixed", "spring", "fall"}

-----------------------------------------------------------------------------
(* Numbers and days *)

\* What the proofs use of the constants.
LEMMA DayIsPositive == Day \in Nat \ {0} /\ Change \in Nat /\ Gap \in Nat \ {0} /\ MaxLag \in Nat /\ Probe \in Nat
  BY ScheduleAssumption

\* A set of natural numbers has a least element.
LEMMA Smallest ==
  ASSUME NEW T \in SUBSET Nat, T # {}
  PROVE  \E x \in T : \A y \in T : x <= y
<1>1. PICK x \in T : \A y \in T : ~(<<y, x>> \in OpToRel(<, Nat))
  <2> DEFINE R == OpToRel(<, Nat)
  <2>1. IsWellFoundedOn(R, Nat)
    BY NatLessThanWellFounded
  <2> HIDE DEF R
  <2>2. \E x \in T : \A y \in T : ~(<<y, x>> \in R)
    BY <2>1, WFMin
  <2> QED BY <2>2 DEF R
<1>2. ASSUME NEW y \in T PROVE x <= y
  <2>1. x \in Nat /\ y \in Nat
    OBVIOUS
  <2>2. ~(y < x)
    BY <1>1, <2>1 DEF OpToRel
  <2> QED BY <2>1, <2>2
<1> QED BY <1>2

\* Least is the minimum, where there is one.
LEMMA LeastIs ==
  ASSUME NEW S, S \subseteq Int, NEW x \in S, \A y \in S : x <= y
  PROVE  Least(S) = x
<1> DEFINE l == Least(S)
<1>1. l \in S /\ \A y \in S : l <= y
  BY DEF Least
<1> HIDE DEF l
<1>2. l \in Int /\ x \in Int /\ l <= x /\ x <= l
  BY <1>1
<1>3. l = x
  BY <1>2
<1> QED BY <1>3 DEF l

\* Every instant is a day and a time of day,
LEMMA DayParts ==
  ASSUME NEW x \in Int
  PROVE  x \div Day \in Int /\ x % Day \in 0 .. Day - 1 /\ x = (x \div Day) * Day + (x % Day)
  BY DayIsPositive

\* and only one.
LEMMA DayAndTime ==
  ASSUME NEW q \in Int, NEW r \in 0 .. Day - 1
  PROVE  (q * Day + r) \div Day = q /\ (q * Day + r) % Day = r
  BY DayIsPositive

\* Days do not overlap.
LEMMA LaterDay ==
  ASSUME NEW a \in Int, NEW b \in Int, a < b
  PROVE  a * Day + Day <= b * Day /\ a * Day \in Int /\ b * Day \in Int
  BY DayIsPositive

\* The time of day is the same a day earlier.
LEMMA DayBefore ==
  ASSUME NEW x \in Int
  PROVE  (x - Day) % Day = x % Day
<1> DEFINE q == x \div Day
           r == x % Day
<1>1. q \in Int /\ r \in 0 .. Day - 1 /\ x = q * Day + r
  BY DayIsPositive
<1>2. q - 1 \in Int /\ x - Day = (q - 1) * Day + r
  BY <1>1, DayIsPositive
<1> HIDE DEF q, r
<1>3. ((q - 1) * Day + r) % Day = r
  BY <1>1, <1>2, DayAndTime
<1> QED BY <1>2, <1>3 DEF r

-----------------------------------------------------------------------------
(* Windows *)

\* Intervals lie in the day.
LEMMA IntervalEnds ==
  ASSUME NEW w \in Windows \cup {Hard, Default}, NEW i \in Intervals(w)
  PROVE  i[1] \in 0 .. Day /\ i[2] \in 0 .. Day
<1>1. w.start \in 0 .. Day - 1 /\ w.end \in 0 .. Day - 1
  BY ScheduleAssumption
<1> QED BY <1>1, DayIsPositive DEF Intervals

\* So do open spans, and none is empty.
LEMMA SpanEnds ==
  ASSUME NEW w \in Windows \cup {Hard, Default}, NEW i \in OpenSpans(w)
  PROVE  i[1] \in 0 .. Day - 1 /\ i[2] \in 0 .. Day /\ i[1] < i[2]
<1>1. /\ w.start \in 0 .. Day - 1 /\ w.end \in 0 .. Day - 1
      /\ Hard.start \in 0 .. Day - 1 /\ Hard.end \in 0 .. Day - 1
  BY ScheduleAssumption
<1>2. PICK p \in Intervals(w) \X Intervals(Hard) :
        /\ Latest(p[1], p[2]) < Earliest(p[1], p[2])
        /\ i = <<Latest(p[1], p[2]), Earliest(p[1], p[2])>>
  BY DEF OpenSpans, Intersect
<1>3. /\ p[1][1] \in 0 .. Day - 1 /\ p[1][2] \in 0 .. Day
      /\ p[2][1] \in 0 .. Day - 1 /\ p[2][2] \in 0 .. Day
  BY <1>1, <1>2, DayIsPositive DEF Intervals
<1> QED BY <1>2, <1>3, DayIsPositive DEF Latest, Earliest

\* _intersect: a time of day is in both windows if and only if it is in an open span.
LEMMA SpansMeet ==
  ASSUME NEW w \in Windows \cup {Hard, Default}, NEW t \in Int
  PROVE  Within(t, w) /\ Within(t, Hard) <=>
           \E i \in OpenSpans(w) : i[1] <= t /\ t < i[2]
<1>1. ASSUME Within(t, w), Within(t, Hard)
      PROVE  \E i \in OpenSpans(w) : i[1] <= t /\ t < i[2]
  <2>1. PICK a \in Intervals(w) : a[1] <= t /\ t < a[2]
    BY <1>1 DEF Within
  <2>2. PICK b \in Intervals(Hard) : b[1] <= t /\ t < b[2]
    BY <1>1 DEF Within
  <2> DEFINE p == <<a, b>>
             i == <<Latest(a, b), Earliest(a, b)>>
  <2>3. Latest(a, b) <= t /\ t < Earliest(a, b) /\ Latest(a, b) < Earliest(a, b)
    BY <2>1, <2>2, IntervalEnds, DayIsPositive DEF Latest, Earliest
  <2>4. p \in {q \in Intervals(w) \X Intervals(Hard) : Latest(q[1], q[2]) < Earliest(q[1], q[2])}
    BY <2>3
  <2>5. i \in OpenSpans(w)
    BY <2>4 DEF OpenSpans, Intersect
  <2> QED BY <2>3, <2>5
<1>2. ASSUME NEW i \in OpenSpans(w), i[1] <= t, t < i[2]
      PROVE  Within(t, w) /\ Within(t, Hard)
  <2>1. PICK p \in Intervals(w) \X Intervals(Hard) :
        /\ Latest(p[1], p[2]) < Earliest(p[1], p[2])
        /\ i = <<Latest(p[1], p[2]), Earliest(p[1], p[2])>>
    BY DEF OpenSpans, Intersect
  <2>2. /\ p[1] \in Intervals(w) /\ p[2] \in Intervals(Hard)
        /\ p[1][1] \in Int /\ p[1][2] \in Int /\ p[2][1] \in Int /\ p[2][2] \in Int
    BY <2>1, IntervalEnds, DayIsPositive
  <2>3. p[1][1] <= t /\ t < p[1][2] /\ p[2][1] <= t /\ t < p[2][2]
    BY <1>2, <2>1, <2>2 DEF Latest, Earliest
  <2> QED BY <2>2, <2>3 DEF Within
<1> QED BY <1>1, <1>2

\* window_within_bound: a time of day in a window that passed is in the hard bound.
LEMMA BoundCovers ==
  ASSUME NEW w \in Windows, WithinBound(w), NEW t \in Int, Within(t, w)
  PROVE  Within(t, Hard)
<1>1. PICK i \in Intervals(w) : i[1] <= t /\ t < i[2]
  BY DEF Within
<1>2. PICK b \in Intervals(Hard) : b[1] <= i[1] /\ i[2] <= b[2]
  BY DEF WithinBound
<1>3. i[1] \in Int /\ i[2] \in Int /\ b[1] \in Int /\ b[2] \in Int
  BY IntervalEnds, DayIsPositive
<1> QED BY <1>1, <1>2, <1>3 DEF Within

-----------------------------------------------------------------------------
(* The change of the clock *)

\* Local times and instants are integers.
LEMMA LocalType ==
  ASSUME NEW z \in Loads, NEW t \in Int
  PROVE  Local(z, t) \in Int /\ ToUtc(z, t) \in Int
  BY DayIsPositive DEF Local, ToUtc, Before, After

\* The day and the time of day of a local time.
LEMMA LocalParts ==
  ASSUME NEW z \in Loads, NEW t \in Int
  PROVE  LET x == Local(z, t)
         IN  /\ x \in Int /\ x \div Day \in Int /\ x % Day \in 0 .. Day - 1
             /\ x = (x \div Day) * Day + (x % Day)
<1> DEFINE x == Local(z, t)
<1>1. x \in Int
  BY LocalType
<1> HIDE DEF x
<1>2. x \div Day \in Int /\ x % Day \in 0 .. Day - 1 /\ x = (x \div Day) * Day + (x % Day)
  BY <1>1, DayParts
<1> QED BY <1>1, <1>2 DEF x

\* The day and the time of day of the change.
LEMMA ChangeParts ==
  /\ Change \div Day \in Int /\ Changed[1] \in 0 .. Day - 1
  /\ Change = (Change \div Day) * Day + Changed[1]
  /\ Changed[2] = Changed[1] + Gap /\ Changed[2] < Day /\ (Change \div Day) * Day \in Int
  BY DayIsPositive, DayParts, ScheduleAssumption DEF Changed

\* is_dialable_now, in terms of open spans.
LEMMA DialableSpan ==
  ASSUME NEW z \in Loads, NEW w \in Windows \cup {Hard, Default}, NEW t \in Int
  PROVE  IsDialable(t, z, w) <=>
           \E i \in OpenSpans(w) : i[1] <= Local(z, t) % Day /\ Local(z, t) % Day < i[2]
<1>1. Local(z, t) % Day \in Int
  BY LocalType, DayParts, DayIsPositive
<1> QED BY <1>1, SpansMeet DEF IsDialable, Loads

\* The same, for a known time of day.
LEMMA DialableAt ==
  ASSUME NEW z \in Loads, NEW w \in Windows \cup {Hard, Default}, NEW t \in Int,
         NEW q \in Int, NEW r \in 0 .. Day - 1, Local(z, t) = q * Day + r,
         NEW i \in OpenSpans(w), i[1] <= r, r < i[2]
  PROVE  IsDialable(t, z, w)
<1>1. Local(z, t) % Day = r
  BY DayAndTime
<1> QED BY <1>1, DialableSpan

-----------------------------------------------------------------------------
(* next_window_open *)

\* The start of an open span, on any day, is an instant at which a call may start;
\* its local time is that start, unless the clock skipped it.
LEMMA OpeningIsOpen ==
  ASSUME NEW z \in Loads, NEW w \in Windows \cup {Hard, Default}, Quiet(z, w),
         NEW k \in Int, NEW i \in OpenSpans(w)
  PROVE  LET l == k * Day + i[1]
             u == ToUtc(z, l)
         IN /\ IsDialable(u, z, w)
            /\ Local(z, u) = l \/ (z = "spring" /\ u = Change /\ l = Change)
<1> DEFINE l == k * Day + i[1]
           u == ToUtc(z, l)
<1>1. i[1] \in 0 .. Day - 1 /\ i[2] \in 0 .. Day /\ i[1] < i[2]
  BY SpanEnds
<1>2. l \in Int /\ u \in Int /\ l % Day = i[1] /\ l \div Day = k
  <2>1. l % Day = i[1] /\ l \div Day = k
    BY <1>1, DayAndTime
  <2>2. k * Day \in Int
    BY DayIsPositive
  <2>3. l \in Int
    BY <1>1, <2>2, DayIsPositive
  <2> HIDE DEF l
  <2> QED BY <2>1, <2>3, LocalType
<1>3. CASE Local(z, u) = l
  BY <1>1, <1>2, <1>3, DialableSpan, DayIsPositive
<1>4. CASE Local(z, u) # l
  <2>1. z = "spring" /\ Change <= l /\ l < Change + Gap /\ u = l
    BY <1>2, <1>4, DayIsPositive DEF Local, ToUtc, Before, After, Loads
  <2>2. i[1] = Changed[1] + (l - Change) /\ k = Change \div Day
    <3> DEFINE r == Changed[1] + (l - Change)
    <3>1. r \in 0 .. Day - 1 /\ l = (Change \div Day) * Day + r
      BY <2>1, <1>2, ChangeParts, DayIsPositive
    <3> HIDE DEF r
    <3>2. l % Day = r /\ l \div Day = Change \div Day
      BY <3>1, DayAndTime, ChangeParts
    <3> QED BY <3>2, <1>2 DEF r
  <2>3. Changed[1] <= i[1] /\ i[1] < Changed[2]
    BY <2>1, <2>2, <1>2, ChangeParts, DayIsPositive
  <2>4. i[1] = Changed[1] /\ Changed[2] < i[2]
    BY <2>1, <2>3, <1>1, ChangeParts, DayIsPositive DEF Quiet
  <2>5. l = Change /\ u = Change
    BY <2>1, <2>2, <2>4, <1>2, ChangeParts, DayIsPositive
  <2>6. Local(z, u) = (Change \div Day) * Day + Changed[2]
    BY <2>1, <2>5, ChangeParts, DayIsPositive DEF Local, After
  <2>7. Local(z, u) % Day = Changed[2]
    <3>1. Changed[2] \in 0 .. Day - 1
      BY ChangeParts, DayIsPositive
    <3> QED BY <3>1, <2>6, DayAndTime, ChangeParts
  <2>8. IsDialable(u, z, w)
    BY <2>4, <2>7, <1>1, <1>2, DialableSpan, ChangeParts, DayIsPositive
  <2> QED BY <2>1, <2>5, <2>8
<1> HIDE DEF l, u
<1>5. IsDialable(u, z, w) /\ (Local(z, u) = l \/ (z = "spring" /\ u = Change /\ l = Change))
  <2>1. CASE Local(z, u) = l
    BY <2>1, <1>3 DEF l, u
  <2>2. CASE Local(z, u) # l
    BY <2>2, <1>4 DEF l, u
  <2> QED BY <2>1, <2>2
<1> QED BY <1>5 DEF l, u

\* The opening on the day after t is after t, and at most two days and a change
\* of the clock away.
LEMMA NextDayOpening ==
  ASSUME NEW z \in Loads, NEW w \in Windows \cup {Hard, Default}, NEW t \in Int,
         NEW i \in OpenSpans(w)
  PROVE  LET u == ToUtc(z, (Local(z, t) \div Day + 1) * Day + i[1])
         IN  t < u /\ u <= t + 2 * Day + Gap
<1> DEFINE K == Local(z, t) \div Day
           kd == K * Day
           l == (K + 1) * Day + i[1]
           u == ToUtc(z, l)
<1>1. i[1] \in 0 .. Day - 1
  BY SpanEnds
<1>2. K \in Int /\ kd \in Int /\ kd <= Local(z, t) /\ Local(z, t) < kd + Day
  <2> DEFINE x == Local(z, t)
  <2>1. x \in Int
    BY LocalType
  <2> HIDE DEF x
  <2>2. x \div Day \in Int /\ x % Day \in 0 .. Day - 1 /\ x = (x \div Day) * Day + (x % Day)
    BY <2>1, DayParts
  <2> DEFINE xd == (x \div Day) * Day
             r == x % Day
  <2>3. xd \in Int
    BY <2>2, DayIsPositive
  <2>4. x = xd + r /\ r \in 0 .. Day - 1
    BY <2>2
  <2> HIDE DEF xd, r
  <2>5. xd <= x /\ x < xd + Day
    BY <2>1, <2>3, <2>4, DayIsPositive
  <2> QED BY <2>2, <2>3, <2>5 DEF x, xd
<1>3. l = kd + Day + i[1]
  BY <1>1, <1>2, DayIsPositive
<1>4. l \in Int /\ Local(z, t) < l /\ l <= Local(z, t) + 2 * Day
  BY <1>1, <1>2, <1>3, DayIsPositive, LocalType
<1>5. ~(z = "fall" /\ Change <= t /\ l < Change + Gap)
  <2> SUFFICES ASSUME z = "fall", Change <= t, l < Change + Gap PROVE FALSE
    OBVIOUS
  <2>1. Local(z, t) = t
    BY DayIsPositive DEF Local, After
  <2>2. CASE K < Change \div Day
    <3>1. kd + Day <= (Change \div Day) * Day
      BY <2>2, <1>2, ChangeParts, LaterDay
    <3> HIDE DEF kd, l, K
    <3> QED BY <3>1, <2>1, <1>2, ChangeParts, DayIsPositive
  <2>3. CASE K = Change \div Day
    <3>1. kd = (Change \div Day) * Day
      BY <2>3
    <3> HIDE DEF kd, l, K
    <3> QED BY <3>1, <1>3, <1>1, <1>2, ChangeParts, DayIsPositive
  <2>4. CASE K > Change \div Day
    <3>1. (Change \div Day) * Day + Day <= kd
      BY <2>4, <1>2, ChangeParts, LaterDay
    <3> HIDE DEF kd, l, K
    <3> QED BY <3>1, <1>3, <1>1, <1>2, ChangeParts, DayIsPositive
  <2> HIDE DEF kd, l, K
  <2> QED BY <2>2, <2>3, <2>4, <1>2, ChangeParts
<1> HIDE DEF kd, l, K
<1>6. t < u /\ u <= t + 2 * Day + Gap
  BY <1>4, <1>5, DayIsPositive DEF u, ToUtc, Local, Before, After, Loads
<1> QED BY <1>6 DEF u, l, K

\* Where the window opens: an instant that is dialable after one that is not is
\* the start of an open span.
LEMMA EveryOpening ==
  ASSUME NEW z \in Loads, NEW w \in Windows \cup {Hard, Default}, Quiet(z, w),
         NEW F \in Int, IsDialable(F, z, w), ~IsDialable(F - 1, z, w)
  PROVE  \E k \in Int, i \in OpenSpans(w) : F = ToUtc(z, k * Day + i[1])
<1> DEFINE x == Local(z, F)
           q == x \div Day
           r == x % Day
           qd == q * Day
<1>1. x \in Int /\ q \in Int /\ r \in 0 .. Day - 1 /\ x = qd + r
  BY LocalParts
<1>2. qd \in Int
  BY <1>1, DayIsPositive
<1>3. PICK i \in OpenSpans(w) : i[1] <= r /\ r < i[2]
  BY DialableSpan
<1>4. i[1] \in 0 .. Day - 1 /\ i[2] \in 0 .. Day /\ i[1] < i[2]
  BY SpanEnds
<1>0. F - 1 \in Int
  OBVIOUS
<1>5. CASE z = "fixed" \/ F # Change
  <2> HIDE DEF x, q, r, qd
  <2>1. Local(z, F - 1) = x - 1
    BY <1>5, <1>1, DayIsPositive DEF x, Local, Before, After, Loads
  <2>2. r = i[1]
    <3> SUFFICES ASSUME r # i[1] PROVE FALSE
      OBVIOUS
    <3>1. r - 1 \in 0 .. Day - 1 /\ i[1] <= r - 1 /\ r - 1 < i[2]
      BY <1>1, <1>3, <1>4, DayIsPositive
    <3>2. Local(z, F - 1) = q * Day + (r - 1)
      BY <2>1, <1>1, <1>2, DayIsPositive DEF qd
    <3> QED BY <1>0, <1>1, <3>1, <3>2, DialableAt
  <2>3. x = q * Day + i[1]
    BY <1>1, <2>2 DEF qd
  <2>4. ~(z = "fall" /\ Change <= F /\ F < Change + Gap)
    <3> SUFFICES ASSUME z = "fall", Change < F, F < Change + Gap PROVE FALSE
      BY <1>5, DayIsPositive
    <3>1. x = F
      BY DayIsPositive DEF x, Local, After
    <3> DEFINE s == Changed[1] + (F - Change)
    <3>2. s \in 0 .. Day - 1 /\ F = (Change \div Day) * Day + s
      BY ChangeParts, DayIsPositive
    <3>3. Changed[1] < s /\ s < Changed[2]
      BY ChangeParts, DayIsPositive
    <3> HIDE DEF s
    <3>4. r = s
      BY <3>1, <3>2, DayAndTime, ChangeParts DEF r
    <3> QED BY <3>3, <3>4, <2>2, <1>1, <1>4, ChangeParts, DayIsPositive DEF Quiet
  <2>5. ToUtc(z, x) = F
    BY <2>4, <1>1, DayIsPositive DEF x, ToUtc, Local, Before, After, Loads
  <2> QED BY <2>3, <2>5, <1>1
<1>6. CASE z = "spring" /\ F = Change
  <2>1. x = (Change \div Day) * Day + Changed[2]
    BY <1>6, ChangeParts, DayIsPositive DEF Local, After
  <2>2. Changed[2] \in 0 .. Day - 1
    BY ChangeParts, DayIsPositive
  <2> HIDE DEF x, q, r, qd
  <2>3. r = Changed[2]
    BY <2>1, <2>2, DayAndTime, ChangeParts DEF r
  <2>4. i[1] = Changed[2] \/ i[1] <= Changed[1]
    BY <1>6, <2>3, <1>3, <1>4, ChangeParts, DayIsPositive DEF Quiet
  <2>5. CASE i[1] = Changed[2]
    <3>1. (Change \div Day) * Day + i[1] = Change + Gap
      BY <2>5, ChangeParts, DayIsPositive
    <3>2. F = ToUtc(z, Change + Gap)
      BY <1>6, DayIsPositive DEF ToUtc, After
    <3> QED BY <3>1, <3>2, ChangeParts
  <2>6. CASE i[1] = Changed[1]
    <3>1. (Change \div Day) * Day + i[1] = Change
      BY <2>6, ChangeParts, DayIsPositive
    <3>2. F = ToUtc(z, Change)
      BY <1>6, DayIsPositive DEF ToUtc, Before
    <3> QED BY <3>1, <3>2, ChangeParts
  <2>7. ~(i[1] < Changed[1])
    <3> SUFFICES ASSUME i[1] < Changed[1] PROVE FALSE
      OBVIOUS
    <3> DEFINE s == Changed[1] - 1
    <3>1. s \in 0 .. Day - 1 /\ i[1] <= s /\ s < i[2]
      BY <1>4, <1>3, <2>3, ChangeParts, DayIsPositive
    <3>2. Local(z, F - 1) = (Change \div Day) * Day + s
      BY <1>6, ChangeParts, DayIsPositive DEF Local, Before
    <3> QED BY <3>1, <3>2, <1>0, DialableAt, ChangeParts
  <2> QED BY <2>4, <2>5, <2>6, <2>7, <1>4, ChangeParts, DayIsPositive
<1>7. CASE z = "fall" /\ F = Change
  <2>1. x = (Change \div Day) * Day + Changed[1]
    BY <1>7, ChangeParts, DayIsPositive DEF Local, After
  <2> HIDE DEF x, q, r, qd
  <2>2. r = Changed[1]
    BY <2>1, DayAndTime, ChangeParts DEF r
  <2>3. Changed[2] < i[2]
    BY <1>7, <2>2, <1>3, <1>4, ChangeParts, DayIsPositive DEF Quiet
  <2> DEFINE s == Changed[2] - 1
  <2>4. s \in 0 .. Day - 1 /\ i[1] <= s /\ s < i[2]
    BY <2>2, <2>3, <1>3, <1>4, ChangeParts, DayIsPositive
  <2>5. Local(z, F - 1) = (Change \div Day) * Day + s
    BY <1>7, ChangeParts, DayIsPositive DEF Local, Before
  <2>6. FALSE
    BY <2>4, <2>5, <1>0, DialableAt, ChangeParts
  <2> QED BY <2>6
<1> QED BY <1>5, <1>6, <1>7 DEF Loads

\* The openings between t and the one of the next day are on the three days that
\* next_window_open looks at.
LEMMA OpeningWithinThreeDays ==
  ASSUME NEW z \in Loads, NEW w \in Windows \cup {Hard, Default}, Quiet(z, w),
         NEW t \in Int, NEW i \in OpenSpans(w), NEW j \in OpenSpans(w), NEW k \in Int,
         t < ToUtc(z, k * Day + i[1]),
         ToUtc(z, k * Day + i[1]) <= ToUtc(z, (Local(z, t) \div Day + 1) * Day + j[1])
  PROVE  k - (Local(z, t) \div Day) \in 0 .. 2
<1> DEFINE K  == Local(z, t) \div Day
           kd == k * Day
           Kd == K * Day
           f  == kd + i[1]
           l  == (K + 1) * Day + j[1]
           F  == ToUtc(z, f)
           u  == ToUtc(z, l)
           C  == (Change \div Day) * Day
<1>1. i[1] \in 0 .. Day - 1 /\ j[1] \in 0 .. Day - 1
  BY SpanEnds
<1>2. K \in Int /\ Local(z, t) \in Int
  BY LocalParts
<1>3. Kd \in Int /\ kd \in Int /\ C \in Int /\ l = Kd + Day + j[1]
  BY <1>1, <1>2, ChangeParts, DayIsPositive
<1>4. Kd <= Local(z, t) /\ Local(z, t) < Kd + Day
  <2> DEFINE r == Local(z, t) % Day
  <2>1. r \in 0 .. Day - 1 /\ Local(z, t) = Kd + r
    BY LocalParts
  <2> HIDE DEF r, Kd, K
  <2> QED BY <2>1, <1>2, <1>3, DayIsPositive
<1>5. f \in Int /\ l \in Int
  BY <1>1, <1>3, DayIsPositive
<1>6. Local(z, F) = f \/ (z = "spring" /\ F = Change /\ f = Change)
  BY OpeningIsOpen
<1>7. t < F /\ F <= u
  OBVIOUS
<1>8. Change = C + Changed[1] /\ Changed[1] \in 0 .. Day - 1 /\ Changed[1] + Gap < Day
  BY ChangeParts, DayIsPositive
<1>9. K <= k
  <2> SUFFICES ASSUME k < K PROVE FALSE
    BY <1>2
  <2>1. kd + Day <= Kd
    BY <1>2, LaterDay
  <2>2. (Change \div Day) < K => C + Day <= Kd
    BY <1>2, ChangeParts, LaterDay
  <2>3. ~((Change \div Day) < K) => Kd <= C
    <3>1. CASE K = Change \div Day
      BY <3>1, <1>3
    <3>2. CASE K < Change \div Day
      <4>1. Kd + Day <= C
        BY <3>2, <1>2, ChangeParts, LaterDay
      <4> HIDE DEF Kd, C, K
      <4> QED BY <4>1, <1>3, DayIsPositive
    <3> DEFINE D == Change \div Day
    <3>3. K \in Int /\ D \in Int
      BY <1>2, ChangeParts
    <3> HIDE DEF Kd, C, K, D
    <3>4. ~(D < K) => K = D \/ K < D
      BY <3>3
    <3> QED BY <3>1, <3>2, <3>4 DEF D
  <2> HIDE DEF Kd, kd, C, K, l, u, F
  <2>4. f < Local(z, t)
    BY <2>1, <1>1, <1>3, <1>4, <1>2, DayIsPositive
  <2>5. z = "fall" /\ t < Change /\ Change <= f
    BY <2>4, <1>5, <1>6, <1>7, <1>2, DayIsPositive DEF F, ToUtc, Local, Before, After, Loads
  <2>6. Local(z, t) = t + Gap
    BY <2>5, DayIsPositive DEF Local, Before
  <2> QED BY <2>1, <2>2, <2>3, <2>5, <2>6, <1>1, <1>3, <1>4, <1>8, DayIsPositive
<1>10. k < K + 3
  <2> SUFFICES ASSUME ~(k < K + 3) PROVE FALSE
    OBVIOUS
  <2>1. Kd + 3 * Day <= kd
    <3>1. K + 2 < k /\ K + 2 \in Int
      BY <1>2
    <3> HIDE DEF K
    <3>2. (K + 2) * Day + Day <= k * Day
      BY <3>1, <1>2, LaterDay
    <3>3. (K + 2) * Day + Day = K * Day + 3 * Day
      BY <1>2, DayIsPositive
    <3> QED BY <3>2, <3>3
  <2> HIDE DEF Kd, kd, C, K, l, u, F
  <2>2. f <= l + Gap
    BY <1>5, <1>7, DayIsPositive DEF F, u, ToUtc, Before, After, Loads
  <2> QED BY <2>1, <2>2, <1>1, <1>3, <1>8, DayIsPositive
<1> HIDE DEF K
<1> QED BY <1>2, <1>9, <1>10 DEF K

\* The probe stops at a candidate that is dialable.
LEMMA ProbedOpening ==
  ASSUME NEW z \in Loads, NEW w, NEW c \in Int, IsDialable(c, z, w)
  PROVE  Probed(c, z, w) = c
<1> DEFINE S == {c + Probe} \cup {t \in c .. c + Probe - 1 : IsDialable(t, z, w)}
<1>1. S \subseteq Int /\ \A y \in S : c <= y
  BY DayIsPositive
<1>2. c \in S
  <2>1. CASE Probe = 0
    BY <2>1
  <2>2. CASE Probe # 0
    <3>1. c \in c .. c + Probe - 1
      BY <2>2, DayIsPositive
    <3> QED BY <3>1
  <2> QED BY <2>1, <2>2
<1> HIDE DEF S
<1>3. Least(S) = c
  BY <1>1, <1>2, LeastIs
<1> QED BY <1>3 DEF S, Probed

\* The candidates are the openings of three days, and dialable.
LEMMA CandidatesAreOpenings ==
  ASSUME NEW z \in Loads, NEW w \in Windows \cup {Hard, Default}, Quiet(z, w), NEW t \in Int
  PROVE  /\ Candidates(t, z, w) =
              {ToUtc(z, (Local(z, t) \div Day + d) * Day + i[1]) :
                 d \in 0 .. 2, i \in OpenSpans(w)}
         /\ \A c \in Candidates(t, z, w) : c \in Int /\ IsDialable(c, z, w)
<1> DEFINE at(d, i) == ToUtc(z, (Local(z, t) \div Day + d) * Day + i[1])
<1>1. ASSUME NEW d \in 0 .. 2, NEW i \in OpenSpans(w)
      PROVE  at(d, i) \in Int /\ IsDialable(at(d, i), z, w) /\ Probed(at(d, i), z, w) = at(d, i)
  <2> DEFINE k == Local(z, t) \div Day + d
  <2>1. Local(z, t) \div Day \in Int
    BY LocalParts
  <2>2. k \in Int
    BY <2>1
  <2> HIDE DEF k
  <2>3. IsDialable(ToUtc(z, k * Day + i[1]), z, w)
    BY <2>2, OpeningIsOpen
  <2>4. k * Day + i[1] \in Int
    <3>1. k * Day \in Int
      BY <2>2, DayIsPositive
    <3> QED BY <3>1, SpanEnds, DayIsPositive
  <2>5. ToUtc(z, k * Day + i[1]) \in Int
    BY <2>4, LocalType
  <2>6. Probed(ToUtc(z, k * Day + i[1]), z, w) = ToUtc(z, k * Day + i[1])
    BY <2>3, <2>5, ProbedOpening
  <2> QED BY <2>3, <2>5, <2>6 DEF k
<1>2. Candidates(t, z, w) = {Probed(at(d, i), z, w) : d \in 0 .. 2, i \in OpenSpans(w)}
  BY DEF Candidates
<1> HIDE DEF at
<1>3. /\ Candidates(t, z, w) = {at(d, i) : d \in 0 .. 2, i \in OpenSpans(w)}
      /\ \A c \in Candidates(t, z, w) : c \in Int /\ IsDialable(c, z, w)
  BY <1>1, <1>2
<1> QED BY <1>3 DEF at

\* next_window_open is the first dialable instant from t on.
LEMMA NextOpenCorrect ==
  ASSUME NEW z \in Loads, NEW w \in Windows \cup {Hard, Default},
         Opens(z, w), Quiet(z, w), NEW t \in Int
  PROVE  NextOpen(t, z, w) = FirstOpen(t, z, w)
<1> DEFINE M == t + 2 * Day + Gap
           S == {u \in t .. M : IsDialable(u, z, w)}
           K == Local(z, t) \div Day
<1>1. M \in Int /\ S \subseteq Int
  BY DayIsPositive
<1>2. CASE IsDialable(t, z, w)
  <2>1. t \in S /\ \A y \in S : t <= y
    BY <1>2, DayIsPositive
  <2> HIDE DEF S
  <2>2. Least(S) = t
    BY <1>1, <2>1, LeastIs
  <2> QED BY <1>2, <2>2 DEF S, NextOpen, FirstOpen
<1>3. CASE ~IsDialable(t, z, w)
  <2>1. PICK j \in OpenSpans(w) : TRUE
    BY DEF Opens
  <2> DEFINE u == ToUtc(z, (K + 1) * Day + j[1])
  <2>2. t < u /\ u <= M
    BY NextDayOpening
  <2>3. u \in Candidates(t, z, w)
    BY CandidatesAreOpenings
  <2>4. u \in Int /\ IsDialable(u, z, w)
    BY <2>3, CandidatesAreOpenings
  <2> HIDE DEF u
  <2>5. u \in S
    BY <2>2, <2>4, <1>1
  <2>6. PICK F \in S : \A y \in S : F <= y
    <3> DEFINE T == {y - t : y \in S}
    <3>1. T \in SUBSET Nat /\ T # {}
      BY <1>1, <2>5
    <3> HIDE DEF T
    <3>2. PICK m \in T : \A y \in T : m <= y
      BY <3>1, Smallest
    <3>3. PICK F \in S : m = F - t
      BY <3>2 DEF T
    <3>4. ASSUME NEW y \in S PROVE F <= y
      <4>1. m <= y - t
        BY <3>2 DEF T
      <4> QED BY <4>1, <3>3, <1>1
    <3> QED BY <3>4
  <2>7. F \in Int /\ IsDialable(F, z, w) /\ t < F /\ F <= u /\ F <= M
    BY <2>5, <2>6, <1>1, <1>3
  <2>8. F - 1 \in Int /\ ~IsDialable(F - 1, z, w)
    <3>1. F - 1 \notin S
      BY <2>6, <2>7
    <3>2. F - 1 \in t .. M
      BY <2>7, <1>1
    <3> QED BY <3>1, <3>2, <2>7
  <2>9. PICK k \in Int, i \in OpenSpans(w) : F = ToUtc(z, k * Day + i[1])
    BY <2>7, <2>8, EveryOpening
  <2>10. k - K \in 0 .. 2
    BY <2>7, <2>9, OpeningWithinThreeDays DEF u
  <2>11. F \in Candidates(t, z, w)
    <3>1. K \in Int
      BY LocalParts
    <3> DEFINE d == k - K
    <3>2. K + d = k
      BY <3>1
    <3> HIDE DEF d, K
    <3>3. F = ToUtc(z, (K + d) * Day + i[1]) /\ d \in 0 .. 2
      BY <3>2, <2>9, <2>10 DEF d
    <3> QED BY <3>3, CandidatesAreOpenings DEF K
  <2>0. \A c \in Candidates(t, z, w) : c \in Int /\ IsDialable(c, z, w)
    BY CandidatesAreOpenings
  <2> DEFINE C == {c \in Candidates(t, z, w) : c > t}
  <2>12. C \subseteq Int /\ F \in C
    BY <2>7, <2>11, <2>0
  <2>13. ASSUME NEW c \in C PROVE F <= c
    <3>1. c \in Int /\ IsDialable(c, z, w) /\ t < c
      BY <2>0
    <3>2. CASE c <= M
      <4>1. c \in S
        BY <3>1, <3>2, <1>1
      <4> QED BY <4>1, <2>6
    <3>3. CASE ~(c <= M)
      BY <3>1, <3>3, <2>7, <1>1
    <3> QED BY <3>2, <3>3
  <2> HIDE DEF S, C
  <2>14. Least(C) = F
    BY <2>12, <2>13, LeastIs
  <2>15. Least(S) = F
    BY <1>1, <2>6, LeastIs
  <2> QED BY <1>3, <2>14, <2>15 DEF NextOpen, FirstOpen, S, C
<1> QED BY <1>2, <1>3

-----------------------------------------------------------------------------
(* The job *)

\* The clock, and how long the step in hand has been waited for.
ClockInv == now \in 0 .. Horizon - 1 /\ lag \in 0 .. MaxLag

\* The policy row and the zone; a row that `put' wrote passed the validation.
RowInv ==
  /\ row \in Windows \cup {None} /\ zone \in Zones
  /\ ~legacy => row \in Windows /\ WithinBound(row)

\* The window was open when the attempt was claimed, at most `lag' ticks ago.
ClaimInv ==
  job = "claimed" =>
    \E d \in 0 .. lag : Within(Local(seen, now - d) % Day, Hard)

\* The inductive invariant.
ScheduleInv == ClockInv /\ RowInv /\ ClaimInv

\* It holds initially.
LEMMA InitScheduleInv == ScheduleInit => ScheduleInv
<1>1. 2 * Day < Horizon
  BY DayIsPositive DEF Horizon
<1> QED
  BY <1>1, DayIsPositive DEF ScheduleInit, ScheduleInv, ClockInv, RowInv, ClaimInv, Horizon

\* An update of the policy writes a validated window.
LEMMA PutPreserves ==
  ASSUME ScheduleInv, NEW w \in Windows, NEW z \in Zones, Put(w, z)
  PROVE  ScheduleInv'
  BY DEF ScheduleInv, ClockInv, RowInv, ClaimInv, Put

\* The eligibility check claims the attempt in an open window.
LEMMA CheckPreserves ==
  ASSUME ScheduleInv, Check
  PROVE  ScheduleInv'
<1>1. ClockInv' /\ RowInv'
  BY DEF ScheduleInv, ClockInv, RowInv, Check
<1>2. ASSUME job' = "claimed" PROVE Within(Local(seen', now' - 0) % Day, Hard)
  <2>1. OpenNow /\ seen' = zone /\ now' = now
    BY <1>2 DEF Check
  <2> QED BY <2>1 DEF OpenNow, IsDialable, ScheduleInv, ClockInv
<1>3. 0 \in 0 .. lag'
  BY DayIsPositive DEF ScheduleInv, ClockInv, Check
<1> QED BY <1>1, <1>2, <1>3 DEF ScheduleInv, ClaimInv

\* A tick makes the check one tick older; stepping back a day keeps times of day.
LEMMA TickPreserves ==
  ASSUME ScheduleInv, Tick
  PROVE  ScheduleInv'
<1> USE DayIsPositive
<1>1. ClockInv'
  BY DEF ScheduleInv, ClockInv, Tick, Horizon
<1>2. RowInv'
  BY DEF ScheduleInv, RowInv, Tick
<1>3. ASSUME job' = "claimed"
      PROVE  \E d \in 0 .. lag' : Within(Local(seen', now' - d) % Day, Hard)
  <2>1. job = "claimed" /\ Owed /\ seen' = seen /\ lag' = lag + 1 /\ lag < MaxLag
    BY <1>3 DEF Tick, Owed
  <2>2. PICK d \in 0 .. lag : Within(Local(seen, now - d) % Day, Hard)
    BY <2>1 DEF ScheduleInv, ClaimInv
  <2>3. d + 1 \in 0 .. lag' /\ d < MaxLag /\ d \in Nat
    BY <2>1 DEF ScheduleInv, ClockInv
  <2>4. CASE now + 1 < Horizon
    <3>1. now' - (d + 1) = now - d
      BY <2>4, <2>3 DEF Tick, ScheduleInv, ClockInv
    <3> QED BY <3>1, <2>1, <2>2, <2>3
  <2>5. CASE ~(now + 1 < Horizon)
    <3>1. now = 4 * Day - 1 /\ now' = 3 * Day
      BY <2>5 DEF Tick, ScheduleInv, ClockInv, Horizon
    <3>2. /\ now' - (d + 1) = (now - d) - Day /\ now - d \in Int
          /\ ~(now' - (d + 1) < Change) /\ ~(now - d < Change)
      BY <3>1, <2>3, ScheduleAssumption
    <3>3. Local(seen, now' - (d + 1)) = Local(seen, now - d) - Day /\ Local(seen, now - d) \in Int
      BY <3>2 DEF Local, After
    <3>4. Local(seen, now' - (d + 1)) % Day = Local(seen, now - d) % Day
      BY <3>3, DayBefore
    <3> QED BY <3>4, <2>1, <2>2, <2>3
  <2> QED BY <2>4, <2>5
<1> QED BY <1>1, <1>2, <1>3 DEF ScheduleInv, ClaimInv

\* The other steps of worker and scheduler claim nothing.
LEMMA JobPreserves ==
  ASSUME ScheduleInv, Read \/ Settle \/ Redeliver \/ Call \/ Dispatch
  PROVE  ScheduleInv'
  BY DayIsPositive DEF ScheduleInv, ClockInv, RowInv, ClaimInv, Read, Settle,
     Redeliver, Call, Dispatch, Step, SettleOutsideWindow

\* Every step preserves the invariant.
LEMMA NextScheduleInv == ScheduleInv /\ [ScheduleNext]_vars => ScheduleInv'
<1> SUFFICES ASSUME ScheduleInv, [ScheduleNext]_vars PROVE ScheduleInv'
  OBVIOUS
<1>1. CASE UNCHANGED vars
  BY <1>1 DEF ScheduleInv, ClockInv, RowInv, ClaimInv, vars
<1> QED
  BY <1>1, PutPreserves, CheckPreserves, TickPreserves, JobPreserves DEF ScheduleNext

\* The invariant holds in every state of every behaviour (retry_policy_service.py,
\* put; eligibility_service.py, check).
THEOREM ScheduleInvariant == ScheduleSpec => []ScheduleInv
  BY InitScheduleInv, NextScheduleInv, PTL DEF ScheduleSpec

\* A window that passed validate_policy_update has no instant outside the hard
\* bound.
THEOREM ValidatedWindows == ScheduleSpec => []SavedInsideBound
<1>1. ScheduleInv => SavedInsideBound
  BY BoundCovers, DayIsPositive DEF ScheduleInv, RowInv, SavedInsideBound
<1> QED BY <1>1, ScheduleInvariant, PTL

\* A call starts inside the hard bound, or within the delay of a step after it,
\* however the policy is edited meanwhile (is_dialable_now, as check uses it).
THEOREM CallsInsideBound == ScheduleSpec => CallInsideHardBound
<1>1. ScheduleInv /\ [ScheduleNext]_vars =>
        [Call => \E d \in 0 .. MaxLag : Within(Local(seen, now - d) % Day, Hard)]_vars
  <2> SUFFICES ASSUME ScheduleInv, Call
               PROVE  \E d \in 0 .. MaxLag : Within(Local(seen, now - d) % Day, Hard)
    OBVIOUS
  <2>1. PICK d \in 0 .. lag : Within(Local(seen, now - d) % Day, Hard)
    BY DEF ScheduleInv, ClaimInv, Call
  <2>2. d \in 0 .. MaxLag
    BY DayIsPositive DEF ScheduleInv, ClockInv
  <2> QED BY <2>1, <2>2
<1> QED BY <1>1, ScheduleInvariant, PTL DEF ScheduleSpec, CallInsideHardBound

\* next_window_open returns the earliest instant at which both windows are open,
\* for every day, window and zone, unless the change of the clock touches an
\* edge of an open span (calling_window.py).
THEOREM EarliestOpening == ScheduleSpec => []NextOpenIsEarliest
<1>1. ScheduleInv => NextOpenIsEarliest
  <2> SUFFICES ASSUME ScheduleInv, Opens(zone, Policy), Quiet(zone, Policy)
               PROVE  NextOpen(now, zone, Policy) = FirstOpen(now, zone, Policy)
    BY DEF NextOpenIsEarliest
  <2>1. zone \in Loads
    BY ScheduleAssumption DEF ScheduleInv, RowInv, Opens, Loads
  <2>2. Policy \in Windows \cup {Hard, Default}
    BY DEF ScheduleInv, RowInv, Policy
  <2>3. now \in Int
    BY DayIsPositive DEF ScheduleInv, ClockInv
  <2> QED BY <2>1, <2>2, <2>3, NextOpenCorrect
<1> QED BY <1>1, ScheduleInvariant, PTL
=============================================================================
