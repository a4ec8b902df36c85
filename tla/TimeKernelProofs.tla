-------------------------- MODULE TimeKernelProofs --------------------------
(***************************************************************************)
(* The clock kernel for any number of timers and sleeping tasks and for a  *)
(* tick counter of any even width, as long as spans and reported ticks     *)
(* together stay below half of it.                                         *)
(*                                                                         *)
(* The queue's order, the bookings and the alarm are not inductive apart:  *)
(* an insertion compares wrapped deadlines, and puts a waiter at the right *)
(* place only if every booked deadline is the wrapped image of the ticks   *)
(* really left; the alarm is kept or replaced by comparing the armed       *)
(* deadline, which must itself be near enough to compare.                  *)
(*                                                                         *)
(* At the end tickless idle, for any naps and any width of SysTick.        *)
(***************************************************************************)
EXTENDS MCClock, RingProofs

-----------------------------------------------------------------------------
(* Tick arithmetic.                                                        *)

Half == Wrap \div 2

\* Half of the wrap is a number, and twice it is the wrap.
LEMMA HalfOfWrap ==
  /\ Half \in Nat /\ Wrap \in Nat /\ Wrap = 2 * Half
  /\ MaxSpan \in Nat /\ MaxElapsed \in Nat /\ MaxElapsed > 0
  /\ MaxSpan + MaxElapsed < Half
<1>1. /\ Wrap \in Nat /\ Wrap > 0 /\ Wrap % 2 = 0
      /\ MaxSpan \in Nat /\ MaxElapsed \in Nat \ {0} /\ MaxSpan + MaxElapsed < Half
  BY WrapAssumption, HalfRangeAssumption DEF Half
<1>2. Half \in Nat /\ Wrap = 2 * Half
  BY <1>1 DEF Half
<1> QED BY <1>1, <1>2

\* The remainder of a number that is at most one turn away.
LEMMA OneTurn ==
  ASSUME NEW x \in Int, -Wrap <= x, x < 2 * Wrap
  PROVE  x % Wrap = IF x < 0 THEN x + Wrap ELSE IF x < Wrap THEN x ELSE x - Wrap
<1>1. Wrap \in Nat /\ Wrap > 0
  BY WrapAssumption
<1>2. CASE x < 0
  BY <1>1, <1>2
<1>3. CASE 0 <= x /\ x < Wrap
  BY <1>1, <1>3
<1>4. CASE Wrap <= x
  BY <1>1, <1>4
<1> QED BY <1>1, <1>2, <1>3, <1>4

\* A difference of ticks is the signed distance modulo Wrap.
LEMMA DiffIs ==
  ASSUME NEW a \in Ticks, NEW b \in Ticks
  PROVE  /\ Diff(a, b) \in -Half .. Half - 1
         /\ Diff(a, b) \in {a - b, a - b + Wrap, a - b - Wrap}
<1>1. a \in Int /\ b \in Int /\ -Wrap <= a - b /\ a - b < Wrap /\ Wrap > 0
  BY HalfOfWrap, WrapAssumption DEF Ticks
<1>2. (a - b) % Wrap = IF a - b < 0 THEN a - b + Wrap ELSE a - b
  BY <1>1, HalfOfWrap, OneTurn
<1>3. Diff(a, b) = LET d == IF a - b < 0 THEN a - b + Wrap ELSE a - b
                   IN  IF d < Half THEN d ELSE d - Wrap
  BY <1>2 DEF Diff, Half
<1> QED BY <1>1, <1>3, HalfOfWrap

\* Moving the clock moves every distance, as long as it stays in range.
LEMMA DiffForward ==
  ASSUME NEW now \in Ticks, NEW n \in 0 .. Half - 1
  PROVE  /\ Forward(now, n) \in Ticks
         /\ Diff(Forward(now, n), now) = n
         /\ \A a \in Ticks : Diff(a, now) - n >= -Half =>
              Diff(a, Forward(now, n)) = Diff(a, now) - n
<1>1. /\ now \in Int /\ 0 <= now /\ now < Wrap
      /\ n \in Int /\ 0 <= n /\ n < Half
  BY HalfOfWrap DEF Ticks
<1>2. /\ now + n \in Int /\ -Wrap <= now + n /\ now + n < 2 * Wrap /\ ~(now + n < 0)
  BY <1>1, HalfOfWrap
<1>3. Forward(now, n) = IF now + n < Wrap THEN now + n ELSE now + n - Wrap
  <2> DEFINE x == now + n
  <2>1. x \in Int /\ -Wrap <= x /\ x < 2 * Wrap /\ ~(x < 0)
    BY <1>2
  <2> HIDE DEF x
  <2>2. x % Wrap = IF x < Wrap THEN x ELSE x - Wrap
    BY <2>1, OneTurn
  <2> QED BY <1>1, <2>2, HalfOfWrap DEF x, Forward
<1>4. Forward(now, n) \in Ticks
  BY <1>1, <1>3, HalfOfWrap DEF Ticks
<1>5. Diff(Forward(now, n), now) = n
  <2>1. /\ Diff(Forward(now, n), now) \in -Half .. Half - 1
        /\ Diff(Forward(now, n), now) \in {Forward(now, n) - now, Forward(now, n) - now + Wrap,
                                           Forward(now, n) - now - Wrap}
    BY <1>4, DiffIs
  <2> QED BY <2>1, <1>1, <1>3, HalfOfWrap
<1>6. ASSUME NEW a \in Ticks, Diff(a, now) - n >= -Half
      PROVE  Diff(a, Forward(now, n)) = Diff(a, now) - n
  <2> DEFINE f == Forward(now, n)
  <2>1. /\ Diff(a, now) \in -Half .. Half - 1
        /\ Diff(a, now) \in {a - now, a - now + Wrap, a - now - Wrap}
    BY DiffIs
  <2>2. /\ Diff(a, f) \in -Half .. Half - 1
        /\ Diff(a, f) \in {a - f, a - f + Wrap, a - f - Wrap}
    BY <1>4, DiffIs
  <2>3. a \in Int /\ 0 <= a /\ a < Wrap
    BY HalfOfWrap DEF Ticks
  <2>4. f \in {now + n, now + n - Wrap}
    BY <1>3
  <2> HIDE DEF f
  <2> QED BY <1>1, <1>6, <2>1, <2>2, <2>3, <2>4, HalfOfWrap DEF f
<1> QED BY <1>4, <1>5, <1>6

\* Two ticks that both lie near now compare by their distances from it.
LEMMA DiffDiff ==
  ASSUME NEW a \in Ticks, NEW b \in Ticks, NEW now \in Ticks,
         Diff(a, now) \in -MaxElapsed .. MaxSpan, Diff(b, now) \in -MaxElapsed .. MaxSpan
  PROVE  Diff(a, b) = Diff(a, now) - Diff(b, now)
<1>1. /\ Diff(a, b) \in -Half .. Half - 1 /\ Diff(a, b) \in {a - b, a - b + Wrap, a - b - Wrap}
      /\ Diff(a, now) \in {a - now, a - now + Wrap, a - now - Wrap}
      /\ Diff(b, now) \in {b - now, b - now + Wrap, b - now - Wrap}
  BY DiffIs
<1>2. a \in Int /\ b \in Int /\ now \in Int
  BY HalfOfWrap DEF Ticks
<1> QED BY <1>1, <1>2, HalfOfWrap

-----------------------------------------------------------------------------
(* The calls.  lf gives the ticks left to each waiter.                     *)

Lefts == [Waiters -> -MaxElapsed .. MaxSpan]

\* A booked deadline is the wrapped image of the ticks that are left.
Timely(cc, lf) ==
  \A w \in Waiters : Contains(cc.queue, w) => Diff(cc.deadline[w], cc.now) = lf[w]

\* An armed deadline is near: its distance survives the wrap.
ArmedIsNear(cc) ==
  cc.arm_valid => Diff(cc.armed, cc.now) \in -MaxElapsed .. MaxSpan

\* The alarm is set for the head of the queue or for something earlier.
AlarmIsSet(cc, lf) ==
  /\ cc.queue = << >> => ~cc.arm_valid
  /\ cc.queue # << >> =>
       /\ cc.arm_valid
       /\ Diff(cc.armed, cc.now) <= lf[Head(cc.queue)]
       /\ Diff(cc.armed, cc.now) >= 1 \/ Diff(cc.armed, cc.now) = lf[Head(cc.queue)]

SoundLedger(cc, lf) ==
  /\ IsLedger(cc)
  /\ LinkedOnce(cc.queue)
  /\ InOrderOf(cc.queue, lf)
  /\ Timely(cc, lf)
  /\ ArmedIsNear(cc)

\* A queue that is not empty has a head, which is booked.
LEMMA HeadIsBooked ==
  ASSUME NEW s \in Seq(Waiters), s # << >>
  PROVE  Head(s) \in Waiters /\ Contains(s, Head(s)) /\ Head(s) = s[1] /\ 1 \in 1 .. Len(s)
<1>1. Len(s) \in Nat /\ Len(s) # 0 /\ Head(s) = s[1] /\ Head(s) \in Waiters
  BY EmptySeq
<1> QED BY <1>1 DEF Contains

\* update_alarm touches nothing but the alarm, and sets it.
LEMMA UpdateAlarmOp ==
  ASSUME NEW cc, NEW lf \in Lefts, IsLedger(cc), Timely(cc, lf), ArmedIsNear(cc),
         NEW u, u = update_alarm(cc)
  PROVE  /\ IsLedger(u) /\ u.now = cc.now /\ u.queue = cc.queue /\ u.deadline = cc.deadline
         /\ ArmedIsNear(u) /\ AlarmIsSet(u, lf)
<1>1. CASE cc.queue = << >>
  <2>1. u = IF cc.arm_valid THEN [cc EXCEPT !.arm_valid = FALSE] ELSE cc
    BY <1>1 DEF update_alarm, disarm, IsLedger
  <2> QED BY <1>1, <2>1 DEF IsLedger, ArmedIsNear, AlarmIsSet
<1>2. CASE cc.queue # << >>
  <2> DEFINE h == Head(cc.queue)
             due == cc.deadline[h]
             ahead == cc.arm_valid /\ Diff(cc.armed, cc.now) > 0
             earlier == cc.arm_valid /\ Diff(cc.armed, due) > 0
  <2>1. /\ h \in Waiters /\ Contains(cc.queue, h)
        /\ due \in Ticks /\ cc.now \in Ticks /\ cc.armed \in Ticks
        /\ Diff(due, cc.now) = lf[h] /\ lf[h] \in -MaxElapsed .. MaxSpan
    BY <1>2, HeadIsBooked DEF IsLedger, Timely, Lefts
  <2>2. u = IF ahead /\ ~earlier THEN cc
            ELSE [cc EXCEPT !.armed = due, !.arm_valid = TRUE]
    BY <1>2 DEF update_alarm, arm, IsLedger
  <2>3. CASE ahead /\ ~earlier
    <3>1. /\ u = cc /\ cc.arm_valid /\ Diff(cc.armed, cc.now) > 0 /\ ~(Diff(cc.armed, due) > 0)
          /\ Diff(cc.armed, cc.now) \in -MaxElapsed .. MaxSpan
      BY <2>2, <2>3 DEF ArmedIsNear
    <3>2. Diff(cc.armed, due) = Diff(cc.armed, cc.now) - lf[h]
      BY <2>1, <3>1, DiffDiff
    <3>3. Diff(cc.armed, cc.now) <= lf[h]
      BY <2>1, <3>1, <3>2, HalfOfWrap
    <3>4. AlarmIsSet(u, lf)
      BY <1>2, <3>1, <3>3, HalfOfWrap DEF AlarmIsSet
    <3> QED BY <3>1, <3>4
  <2>4. CASE ~(ahead /\ ~earlier)
    <3>1. u = [cc EXCEPT !.armed = due, !.arm_valid = TRUE]
      BY <2>2, <2>4
    <3> HIDE DEF due, h
    <3>3. /\ u.armed = due /\ u.arm_valid = TRUE
          /\ u.now = cc.now /\ u.queue = cc.queue /\ u.deadline = cc.deadline
      BY <3>1 DEF IsLedger
    <3>4. IsLedger(u)
      BY <2>1, <3>1 DEF IsLedger
    <3>5. ArmedIsNear(u)
      BY <2>1, <3>3, HalfOfWrap DEF ArmedIsNear
    <3>6. AlarmIsSet(u, lf)
      BY <1>2, <2>1, <3>3, HalfOfWrap DEF AlarmIsSet, h
    <3> QED BY <3>3, <3>4, <3>5, <3>6
  <2> QED BY <2>3, <2>4
<1> QED BY <1>1, <1>2

\* A waiter taken out of the queue leaves the others as they were.
LEMMA UnlinkOp ==
  ASSUME NEW cc, NEW lf \in Lefts, SoundLedger(cc, lf), NEW w \in Waiters,
         NEW s, s = remove(cc.queue, w)
  PROVE  /\ s \in Seq(Waiters) /\ LinkedOnce(s) /\ InOrderOf(s, lf)
         /\ \A x : Contains(s, x) <=> x # w /\ Contains(cc.queue, x)
<1>1. /\ cc.queue \in Seq(Waiters) /\ LinkedOnce(cc.queue) /\ InOrderOf(cc.queue, lf)
      /\ \A x \in Waiters : lf[x] \in Int
  BY HalfOfWrap DEF SoundLedger, IsLedger, Lefts
<1>2. s \in Seq(Waiters)
  BY <1>1, RemoveRemoves
<1>3. CASE ~Contains(cc.queue, w)
  BY <1>1, <1>2, <1>3, RemoveRemoves
<1>4. CASE Contains(cc.queue, w)
  <2>1. PICK m \in 1 .. Len(cc.queue) : InsertedAt(cc.queue, s, m, w)
    BY <1>1, <1>4, RemoveRemoves
  <2>2. LinkedOnce(s) /\ ~Contains(s, w)
    BY <1>1, <2>1, InsertedLinkedOnce
  <2>3. \A x : Contains(cc.queue, x) <=> x = w \/ Contains(s, x)
    BY <2>1, InsertedContains
  <2>4. \A i \in 1 .. Len(s) : lf[s[i]] \in Int
    BY <1>1, <1>2
  <2>5. InOrderOf(s, lf)
    BY <1>1, <2>1, <2>4, InsertedInOrder
  <2> QED BY <1>2, <2>2, <2>3, <2>5
<1> QED BY <1>3, <1>4

\* cancel: the waiter is out, whatever it had left.
LEMMA CancelOp ==
  ASSUME NEW cc, NEW lf \in Lefts, SoundLedger(cc, lf), NEW w \in Waiters,
         NEW u, u = cancel(cc, w), NEW lf2, lf2 = [lf EXCEPT ![w] = 0]
  PROVE  /\ lf2 \in Lefts /\ SoundLedger(u, lf2) /\ AlarmIsSet(u, lf2)
         /\ \A x : Contains(u.queue, x) <=> x # w /\ Contains(cc.queue, x)
<1> DEFINE s == remove(cc.queue, w)
           v == [cc EXCEPT !.queue = s]
<1>1. lf2 \in Lefts /\ \A x \in Waiters \ {w} : lf2[x] = lf[x]
  BY HalfOfWrap DEF Lefts
<1>2. /\ s \in Seq(Waiters) /\ LinkedOnce(s) /\ InOrderOf(s, lf)
      /\ \A x : Contains(s, x) <=> x # w /\ Contains(cc.queue, x)
  BY UnlinkOp
<1>3. u = update_alarm(v)
  BY DEF cancel
<1> HIDE DEF s
<1>4. /\ IsLedger(v) /\ v.queue = s /\ v.now = cc.now /\ v.deadline = cc.deadline
      /\ v.armed = cc.armed /\ v.arm_valid = cc.arm_valid
  BY <1>2 DEF SoundLedger, IsLedger
<1> HIDE DEF v
<1>5. Timely(v, lf2) /\ ArmedIsNear(v)
  BY <1>1, <1>2, <1>4 DEF SoundLedger, Timely, ArmedIsNear
<1>6. InOrderOf(s, lf2)
  <2> HIDE DEF s
  <2>1. \A i \in 1 .. Len(s) : s[i] \in Waiters /\ Contains(s, s[i])
    BY <1>2 DEF Contains
  <2>2. \A i \in 1 .. Len(s) : s[i] \in Waiters \ {w}
    BY <1>2, <2>1
  <2> QED BY <1>1, <1>2, <2>2 DEF InOrderOf
<1>7. /\ IsLedger(u) /\ u.now = v.now /\ u.queue = s /\ u.deadline = v.deadline
      /\ ArmedIsNear(u) /\ AlarmIsSet(u, lf2)
  BY <1>1, <1>3, <1>4, <1>5, UpdateAlarmOp
<1>8. Timely(u, lf2)
  BY <1>4, <1>5, <1>7 DEF Timely
<1> QED BY <1>1, <1>2, <1>6, <1>7, <1>8 DEF SoundLedger

\* enqueue_locked: the waiter is booked, among the others by what it has left.
LEMMA EnqueueOp ==
  ASSUME NEW cc, NEW lf \in Lefts, SoundLedger(cc, lf), NEW w \in Waiters,
         NEW span \in 0 .. MaxSpan,
         NEW u, u = enqueue_locked(cc, w, span), NEW lf2, lf2 = [lf EXCEPT ![w] = span]
  PROVE  /\ lf2 \in Lefts /\ SoundLedger(u, lf2) /\ AlarmIsSet(u, lf2)
         /\ \A x : Contains(u.queue, x) <=> x = w \/ Contains(cc.queue, x)
<1> DEFINE s == remove(cc.queue, w)
           v == [cc EXCEPT !.queue = s, !.deadline[w] = Forward(cc.now, span)]
           later == {x \in Waiters : DeadLineOrder(v, w, x)}
           m == Slot(s, later)
           r == InsertAt(s, m, w)
           z == [v EXCEPT !.queue = r]
<1>1. /\ lf2 \in Lefts /\ lf2[w] = span /\ \A x \in Waiters \ {w} : lf2[x] = lf[x]
      /\ \A x \in Waiters : lf2[x] \in Int /\ lf2[x] \in -MaxElapsed .. MaxSpan
  BY HalfOfWrap DEF Lefts
<1>2. /\ s \in Seq(Waiters) /\ LinkedOnce(s) /\ InOrderOf(s, lf)
      /\ \A x : Contains(s, x) <=> x # w /\ Contains(cc.queue, x)
  BY UnlinkOp
<1>3. u = update_alarm(z)
  <2>1. v.queue = s
    BY DEF SoundLedger, IsLedger
  <2>2. Insert(v, w) = z
    BY <2>1 DEF Insert, Inserted
  <2> QED BY <2>2 DEF enqueue_locked
<1> HIDE DEF s
<1>4. /\ cc.now \in Ticks /\ Forward(cc.now, span) \in Ticks
      /\ Diff(Forward(cc.now, span), cc.now) = span
  <2>1. cc.now \in Ticks /\ span \in 0 .. Half - 1
    BY HalfOfWrap DEF SoundLedger, IsLedger
  <2> QED BY <2>1, DiffForward
<1>5. /\ IsLedger(v) /\ v.now = cc.now
      /\ v.deadline[w] = Forward(cc.now, span)
      /\ \A x \in Waiters \ {w} : v.deadline[x] = cc.deadline[x]
      /\ v.armed = cc.armed /\ v.arm_valid = cc.arm_valid
  BY <1>2, <1>4 DEF SoundLedger, IsLedger
<1> HIDE DEF v
<1>6. \A x \in Waiters : x = w \/ Contains(s, x) => Diff(v.deadline[x], v.now) = lf2[x]
  BY <1>1, <1>2, <1>4, <1>5 DEF SoundLedger, Timely
<1>7. ASSUME NEW x \in Waiters, Contains(s, x)
      PROVE  x \in later <=> lf2[x] - span > 0
  <2>1. /\ v.deadline[x] \in Ticks /\ v.deadline[w] \in Ticks /\ v.now \in Ticks
        /\ Diff(v.deadline[x], v.now) = lf2[x] /\ Diff(v.deadline[w], v.now) = lf2[w]
    BY <1>5, <1>6, <1>7 DEF IsLedger
  <2>2. Diff(v.deadline[x], v.deadline[w]) = lf2[x] - lf2[w]
    BY <1>1, <2>1, DiffDiff
  <2> QED BY <1>1, <2>2 DEF DeadLineOrder
<1> HIDE DEF later
<1>8. /\ m \in 1 .. Len(s) + 1
      /\ m <= Len(s) => s[m] \in later
      /\ \A j \in 1 .. m - 1 : s[j] \notin later
  BY <1>2, SlotStops
<1> HIDE DEF m
<1>9. r \in Seq(Waiters) /\ InsertedAt(r, s, m, w)
  BY <1>2, <1>8, InsertAtInserts
<1> HIDE DEF r
<1>10. /\ IsLedger(z) /\ z.queue = r /\ z.now = v.now /\ z.deadline = v.deadline
       /\ z.armed = v.armed /\ z.arm_valid = v.arm_valid
  BY <1>5, <1>9 DEF IsLedger
<1> HIDE DEF z
<1>11. \A x : Contains(r, x) <=> x = w \/ Contains(s, x)
  BY <1>9, InsertedContains
<1>12. LinkedOnce(r)
  BY <1>2, <1>9, InsertedLinkedOnce
<1>13. InOrderOf(r, lf2)
  <2>1. \A i \in 1 .. Len(s) : s[i] \in Waiters \ {w} /\ Contains(s, s[i]) /\ lf2[s[i]] \in Int
    <3>1. \A i \in 1 .. Len(s) : s[i] \in Waiters /\ Contains(s, s[i])
      BY <1>2 DEF Contains
    <3> QED BY <1>1, <1>2, <3>1
  <2>2. InOrderOf(s, lf2)
    BY <1>1, <1>2, <2>1 DEF InOrderOf
  <2>3. Len(s) \in Nat /\ m \in Nat /\ span \in Int
    BY <1>2, <1>8, HalfOfWrap
  <2>4. ASSUME NEW i \in 1 .. m - 1
        PROVE  lf2[s[i]] <= lf2[w]
    <3>1. i \in 1 .. Len(s) /\ s[i] \notin later
      BY <1>8, <2>3
    <3>2. ~(lf2[s[i]] - span > 0) /\ lf2[s[i]] \in Int
      BY <1>7, <2>1, <3>1
    <3> QED BY <1>1, <2>3, <3>2
  <2>5. ASSUME m <= Len(s)
        PROVE  lf2[w] <= lf2[s[m]]
    <3>1. m \in 1 .. Len(s) /\ s[m] \in later
      BY <1>8, <2>3, <2>5
    <3>2. lf2[s[m]] - span > 0 /\ lf2[s[m]] \in Int
      BY <1>7, <2>1, <3>1
    <3> QED BY <1>1, <2>3, <3>2
  <2> QED BY <1>1, <1>9, <2>1, <2>2, <2>4, <2>5, InsertedInOrder
<1>14. Timely(z, lf2)
  BY <1>6, <1>10, <1>11 DEF Timely
<1>15. ArmedIsNear(z)
  BY <1>5, <1>10 DEF SoundLedger, ArmedIsNear
<1>16. /\ IsLedger(u) /\ u.now = z.now /\ u.queue = r /\ u.deadline = z.deadline
       /\ ArmedIsNear(u) /\ AlarmIsSet(u, lf2)
  BY <1>1, <1>3, <1>10, <1>14, <1>15, UpdateAlarmOp
<1>17. Timely(u, lf2)
  BY <1>10, <1>14, <1>16 DEF Timely
<1>18. \A x : Contains(u.queue, x) <=> x = w \/ Contains(cc.queue, x)
  BY <1>2, <1>11, <1>16
<1> QED BY <1>1, <1>12, <1>13, <1>16, <1>17, <1>18 DEF SoundLedger

\* The head leaves the queue, and the alarm stays what it is.
LEMMA PopOp ==
  ASSUME NEW cc, NEW lf \in Lefts, SoundLedger(cc, lf), cc.queue # << >>,
         NEW u, u = pop_due(cc), NEW lf2, lf2 = [lf EXCEPT ![Head(cc.queue)] = 0]
  PROVE  /\ lf2 \in Lefts /\ SoundLedger(u, lf2)
         /\ \A x : Contains(u.queue, x) <=> x # Head(cc.queue) /\ Contains(cc.queue, x)
<1> DEFINE h == Head(cc.queue)
           s == Tail(cc.queue)
<1>1. /\ cc.queue \in Seq(Waiters) /\ LinkedOnce(cc.queue) /\ InOrderOf(cc.queue, lf)
      /\ \A x \in Waiters : lf[x] \in Int
  BY HalfOfWrap DEF SoundLedger, IsLedger, Lefts
<1>2. h \in Waiters /\ s \in Seq(Waiters) /\ InsertedAt(cc.queue, s, 1, h)
  BY <1>1, TailRemoves
<1>3. u = [cc EXCEPT !.queue = s]
  BY DEF pop_due
<1> HIDE DEF h, s
<1>4. /\ IsLedger(u) /\ u.queue = s /\ u.now = cc.now /\ u.deadline = cc.deadline
      /\ u.armed = cc.armed /\ u.arm_valid = cc.arm_valid
  BY <1>2, <1>3 DEF SoundLedger, IsLedger
<1>5. LinkedOnce(s) /\ ~Contains(s, h)
  BY <1>1, <1>2, InsertedLinkedOnce
<1>6. \A x : Contains(cc.queue, x) <=> x = h \/ Contains(s, x)
  BY <1>2, InsertedContains
<1>7. lf2 \in Lefts /\ \A x \in Waiters \ {h} : lf2[x] = lf[x]
  BY <1>2, HalfOfWrap DEF Lefts, h
<1>8. InOrderOf(s, lf2)
  <2>1. \A i \in 1 .. Len(s) : s[i] \in Waiters \ {h} /\ lf[s[i]] \in Int
    BY <1>1, <1>2, <1>5 DEF Contains
  <2>2. InOrderOf(s, lf)
    BY <1>1, <1>2, <2>1, InsertedInOrder
  <2> QED BY <1>7, <2>1, <2>2 DEF InOrderOf
<1>9. Timely(u, lf2) /\ ArmedIsNear(u)
  BY <1>4, <1>5, <1>6, <1>7 DEF SoundLedger, Timely, ArmedIsNear
<1> QED BY <1>4, <1>5, <1>6, <1>7, <1>8, <1>9 DEF SoundLedger, h

\* n ticks go by: every waiter has n less, and the armed deadline is n ticks
\* closer.
LEMMA ForwardOp ==
  ASSUME NEW cc, NEW lf \in Lefts, SoundLedger(cc, lf), NEW n \in 1 .. MaxElapsed,
         cc.arm_valid => Diff(cc.armed, cc.now) >= 0,
         \A x \in Waiters : Contains(cc.queue, x) => lf[x] >= 0,
         NEW u, u = tick_forward(cc, n),
         NEW lf2, lf2 = [x \in Waiters |-> IF Contains(cc.queue, x) THEN lf[x] - n ELSE lf[x]]
  PROVE  lf2 \in Lefts /\ SoundLedger(u, lf2) /\ u.queue = cc.queue
<1>1. /\ cc.now \in Ticks /\ cc.armed \in Ticks
      /\ cc.queue \in Seq(Waiters) /\ n \in 0 .. Half - 1 /\ n \in Int
  BY HalfOfWrap DEF SoundLedger, IsLedger
<1> DEFINE now == Forward(cc.now, n)
<1>2. now \in Ticks
  BY <1>1, DiffForward
<1>3. u = [cc EXCEPT !.now = now]
  BY DEF tick_forward
<1>4. /\ IsLedger(u) /\ u.queue = cc.queue /\ u.now = now /\ u.deadline = cc.deadline
      /\ u.armed = cc.armed /\ u.arm_valid = cc.arm_valid
  <2> HIDE DEF now
  <2> QED BY <1>2, <1>3 DEF SoundLedger, IsLedger
<1>5. \A a \in Ticks : Diff(a, cc.now) >= 0 => Diff(a, now) = Diff(a, cc.now) - n
  <2> SUFFICES ASSUME NEW a \in Ticks, Diff(a, cc.now) >= 0
               PROVE  Diff(a, now) = Diff(a, cc.now) - n
    OBVIOUS
  <2>1. Diff(a, cc.now) \in -Half .. Half - 1
    BY <1>1, DiffIs
  <2>2. Diff(a, cc.now) - n >= -Half
    BY <1>1, <2>1, HalfOfWrap
  <2> QED BY <1>1, <2>2, DiffForward
<1>6. lf2 \in Lefts
  <2> SUFFICES ASSUME NEW x \in Waiters
               PROVE  lf2[x] \in -MaxElapsed .. MaxSpan
    BY DEF Lefts
  <2>1. lf[x] \in -MaxElapsed .. MaxSpan
    BY DEF Lefts
  <2> QED BY <1>1, <2>1, HalfOfWrap
<1>7. InOrderOf(u.queue, lf2)
  <2>1. \A i \in 1 .. Len(cc.queue) :
          /\ cc.queue[i] \in Waiters /\ lf[cc.queue[i]] \in Int
          /\ lf2[cc.queue[i]] = lf[cc.queue[i]] - n
    BY <1>1, HalfOfWrap, SMTT(30) DEF Contains, Lefts
  <2> HIDE DEF now
  <2> QED BY <1>1, <1>4, <2>1 DEF InOrderOf, SoundLedger
<1>8. Timely(u, lf2)
  <2> SUFFICES ASSUME NEW x \in Waiters, Contains(cc.queue, x)
               PROVE  Diff(cc.deadline[x], now) = lf2[x]
    BY <1>4 DEF Timely
  <2>1. cc.deadline[x] \in Ticks /\ Diff(cc.deadline[x], cc.now) = lf[x]
    BY DEF SoundLedger, IsLedger, Timely
  <2> HIDE DEF now
  <2> QED BY <1>5, <2>1
<1>9. ArmedIsNear(u)
  <2> SUFFICES ASSUME cc.arm_valid
               PROVE  Diff(cc.armed, now) \in -MaxElapsed .. MaxSpan
    BY <1>4 DEF ArmedIsNear
  <2>1. Diff(cc.armed, cc.now) \in 0 .. MaxSpan
    BY HalfOfWrap DEF SoundLedger, ArmedIsNear
  <2>2. Diff(cc.armed, now) = Diff(cc.armed, cc.now) - n
    BY <1>1, <1>5, <2>1, HalfOfWrap
  <2> HIDE DEF now
  <2> QED BY <1>1, <2>1, <2>2, HalfOfWrap
<1> QED BY <1>4, <1>6, <1>7, <1>8, <1>9 DEF SoundLedger

\* The head of a queue in order has least left.
LEMMA HeadIsFirst ==
  ASSUME NEW cc, NEW lf \in Lefts, SoundLedger(cc, lf), cc.queue # << >>
  PROVE  /\ \A x \in Waiters : Contains(cc.queue, x) => lf[Head(cc.queue)] <= lf[x]
         /\ Due(cc) <=> lf[Head(cc.queue)] <= 0
<1>1. cc.queue \in Seq(Waiters) /\ cc.now \in Ticks
  BY DEF SoundLedger, IsLedger
<1>2. Head(cc.queue) \in Waiters /\ Contains(cc.queue, Head(cc.queue)) /\ Head(cc.queue) = cc.queue[1]
      /\ 1 \in 1 .. Len(cc.queue)
  BY <1>1, HeadIsBooked
<1>3. ASSUME NEW x \in Waiters, Contains(cc.queue, x)
      PROVE  lf[Head(cc.queue)] <= lf[x]
  <2>1. PICK i \in 1 .. Len(cc.queue) : cc.queue[i] = x
    BY <1>3 DEF Contains
  <2>2. 1 <= i
    BY <1>1, <2>1
  <2> QED BY <1>2, <2>1, <2>2 DEF SoundLedger, InOrderOf
<1>4. Due(cc) <=> lf[Head(cc.queue)] <= 0
  <2> DEFINE due == cc.deadline[Head(cc.queue)]
  <2>1. /\ due \in Ticks /\ Diff(due, cc.now) = lf[Head(cc.queue)]
        /\ lf[Head(cc.queue)] \in -MaxElapsed .. MaxSpan
    BY <1>2 DEF SoundLedger, IsLedger, Timely, Lefts
  <2>2. Diff(cc.now, cc.now) = 0
    <3>1. /\ Diff(cc.now, cc.now) \in -Half .. Half - 1
          /\ Diff(cc.now, cc.now) \in {cc.now - cc.now, cc.now - cc.now + Wrap, cc.now - cc.now - Wrap}
      BY <1>1, DiffIs
    <3>2. cc.now \in Int
      BY <1>1, HalfOfWrap DEF Ticks
    <3> QED BY <3>1, <3>2, HalfOfWrap
  <2>3. Diff(cc.now, due) = 0 - lf[Head(cc.queue)]
    BY <1>1, <2>1, <2>2, DiffDiff, HalfOfWrap
  <2> QED BY <2>1, <2>3, HalfOfWrap DEF Due, is_after
<1> QED BY <1>3, <1>4

-----------------------------------------------------------------------------
(* The inductive invariant.                                                *)

\* Outside on_elapsed no callback runs, nothing booked is overdue and the
\* alarm is set.
Settled ==
  ~popping =>
    /\ fn = NoFn
    /\ AlarmIsSet(c, left)
    /\ \A w \in Waiters : Booked(w) => left[w] >= 0

IInv ==
  /\ TypeOK
  /\ SoundLedger(c, left)
  /\ RunningIsBooked
  /\ SleeperIsBooked
  /\ Settled

\* The constructor leaves an empty queue and no alarm.
LEMMA InitIInv == Init => IInv
<1> SUFFICES ASSUME Init PROVE IInv
  OBVIOUS
<1>1. /\ c = InitialLedger /\ period = [t \in Timers |-> 0] /\ running = [t \in Timers |-> FALSE]
      /\ asleep = {} /\ popping = FALSE /\ fn = NoFn /\ left = [w \in Waiters |-> 0]
  BY DEF Init
<1>2. /\ IsLedger(c) /\ c.queue = << >> /\ ~c.arm_valid
  BY <1>1, HalfOfWrap DEF InitialLedger, IsLedger, Ticks
<1>3. Len(c.queue) = 0 /\ \A x : ~Contains(c.queue, x)
  BY <1>2 DEF Contains
<1>4. TypeOK
  <2>1. /\ period \in [Timers -> 0 .. MaxSpan] /\ running \in [Timers -> BOOLEAN]
        /\ left \in [Waiters -> -MaxElapsed .. MaxSpan]
    BY <1>1, HalfOfWrap
  <2> QED BY <1>1, <1>2, <2>1 DEF TypeOK
<1>5. SoundLedger(c, left)
  BY <1>2, <1>3 DEF SoundLedger, LinkedOnce, InOrderOf, Timely, ArmedIsNear
<1>6. RunningIsBooked /\ SleeperIsBooked
  BY <1>1, <1>3 DEF RunningIsBooked, SleeperIsBooked, Booked
<1>7. Settled
  BY <1>1, <1>2, <1>3 DEF Settled, AlarmIsSet, Booked
<1> QED BY <1>4, <1>5, <1>6, <1>7 DEF IInv

\* Booking a waiter.
LEMMA BookStep ==
  ASSUME IInv, NEW w \in Waiters, NEW span \in 0 .. MaxSpan, Book(w, span)
  PROVE  /\ IsLedger(c') /\ left' \in Lefts /\ SoundLedger(c', left') /\ AlarmIsSet(c', left')
         /\ \A x : Booked(x)' <=> x = w \/ Booked(x)
         /\ left'[w] = span /\ \A x \in Waiters \ {w} : left'[x] = left[x]
<1>1. left \in Lefts /\ SoundLedger(c, left)
  BY DEF IInv, TypeOK, Lefts
<1>2. c' = enqueue_locked(c, w, span) /\ left' = [left EXCEPT ![w] = span]
  BY DEF Book
<1>3. /\ left' \in Lefts /\ SoundLedger(c', left') /\ AlarmIsSet(c', left')
      /\ \A x : Contains(c'.queue, x) <=> x = w \/ Contains(c.queue, x)
  <2> DEFINE u == enqueue_locked(c, w, span)
             l == [left EXCEPT ![w] = span]
  <2>1. /\ l \in Lefts /\ SoundLedger(u, l) /\ AlarmIsSet(u, l)
        /\ \A x : Contains(u.queue, x) <=> x = w \/ Contains(c.queue, x)
    BY <1>1, EnqueueOp
  <2> HIDE DEF u, l
  <2> QED BY <1>2, <2>1 DEF u, l
<1>4. left'[w] = span /\ \A x \in Waiters \ {w} : left'[x] = left[x]
  BY <1>1, <1>2 DEF Lefts
<1> QED BY <1>3, <1>4 DEF Booked, SoundLedger

\* What the loop of on_elapsed does when it fires the head.
LEMMA PopStep ==
  ASSUME IInv, popping, Due(c), c' = pop_due(c), Unbooked(Head(c.queue))
  PROVE  /\ Head(c.queue) \in Waiters
         /\ IsLedger(c') /\ left' \in Lefts /\ SoundLedger(c', left')
         /\ \A x : Booked(x)' <=> x # Head(c.queue) /\ Booked(x)
<1>1. left \in Lefts /\ SoundLedger(c, left) /\ c.queue # << >> /\ c.queue \in Seq(Waiters)
  BY DEF IInv, TypeOK, Lefts, Due, IsLedger
<1>2. /\ left' \in Lefts /\ SoundLedger(c', left')
      /\ \A x : Contains(c'.queue, x) <=> x # Head(c.queue) /\ Contains(c.queue, x)
  <2> DEFINE u == pop_due(c)
             l == [left EXCEPT ![Head(c.queue)] = 0]
  <2>1. /\ l \in Lefts /\ SoundLedger(u, l)
        /\ \A x : Contains(u.queue, x) <=> x # Head(c.queue) /\ Contains(c.queue, x)
    BY <1>1, PopOp
  <2>2. c' = u /\ left' = l
    BY DEF Unbooked
  <2> HIDE DEF u, l
  <2> QED BY <2>1, <2>2
<1> QED BY <1>1, <1>2, HeadIsBooked DEF Booked, SoundLedger

\* Every step of the clock kernel keeps the invariant.
LEMMA NextIInv == IInv /\ [Next]_vars => IInv'
<1> SUFFICES ASSUME IInv, [Next]_vars PROVE IInv'
  OBVIOUS
<1>t. /\ IsLedger(c) /\ left \in Lefts /\ SoundLedger(c, left)
      /\ period \in [Timers -> 0 .. MaxSpan] /\ running \in [Timers -> BOOLEAN]
      /\ asleep \subseteq Alarms /\ popping \in BOOLEAN /\ fn \in Timers \cup {NoFn}
      /\ RunningIsBooked /\ SleeperIsBooked /\ Settled
  BY DEF IInv, TypeOK, Lefts
<1>w. /\ Timers \subseteq Waiters /\ Alarms \subseteq Waiters
      /\ \A t \in Timers : t \notin Alarms /\ t # NoFn
  BY WaitersAssumption
<1>s. \A span \in Spans : span \in 0 .. MaxSpan /\ (popping => span # 0)
  BY HalfOfWrap DEF Spans
<1>1. ASSUME NEW t \in Timers, NEW per \in 0 .. MaxSpan, NEW span \in Spans, arm_me(t, per, span)
      PROVE  IInv'
  <2>1. /\ period' = [period EXCEPT ![t] = per] /\ running' = [running EXCEPT ![t] = TRUE]
        /\ Book(t, span) /\ asleep' = asleep /\ popping' = popping /\ fn' = fn
    BY <1>1 DEF arm_me
  <2>2. /\ IsLedger(c') /\ left' \in Lefts /\ SoundLedger(c', left') /\ AlarmIsSet(c', left')
        /\ \A x : Booked(x)' <=> x = t \/ Booked(x)
        /\ left'[t] = span /\ \A x \in Waiters \ {t} : left'[x] = left[x]
    BY <1>s, <1>w, <2>1, BookStep
  <2>3. TypeOK'
    BY <1>t, <2>1, <2>2 DEF TypeOK, Lefts
  <2>4. RunningIsBooked'
    <3> SUFFICES ASSUME NEW u \in Timers
                 PROVE  /\ running'[u] <=> Booked(u)'
                        /\ period'[u] # 0 /\ fn' # u => running'[u]
      BY DEF RunningIsBooked
    <3>1. CASE u = t
      BY <1>t, <2>1, <2>2, <3>1
    <3>2. CASE u # t
      BY <1>t, <2>1, <2>2, <3>2 DEF RunningIsBooked
    <3> QED BY <3>1, <3>2
  <2>5. SleeperIsBooked'
    BY <1>t, <2>1, <2>2 DEF SleeperIsBooked
  <2>6. Settled'
    <3>1. ASSUME ~popping, NEW x \in Waiters, Booked(x)'
          PROVE  left'[x] >= 0
      BY <1>t, <1>s, <2>2, <3>1, HalfOfWrap DEF Settled
    <3> QED BY <1>t, <2>1, <2>2, <3>1 DEF Settled
  <2> QED BY <2>2, <2>3, <2>4, <2>5, <2>6 DEF IInv
<1>2. ASSUME NEW t \in Timers, stop(t)
      PROVE  IInv'
  <2>1. /\ period' = [period EXCEPT ![t] = 0] /\ running' = [running EXCEPT ![t] = FALSE]
        /\ c' = cancel(c, t) /\ left' = [left EXCEPT ![t] = 0]
        /\ asleep' = asleep /\ popping' = popping /\ fn' = fn
    BY <1>2 DEF stop, Unbooked
  <2>2. /\ left' \in Lefts /\ SoundLedger(c', left') /\ AlarmIsSet(c', left')
        /\ \A x : Contains(c'.queue, x) <=> x # t /\ Contains(c.queue, x)
    <3> DEFINE u == cancel(c, t)
               l == [left EXCEPT ![t] = 0]
    <3>1. t \in Waiters
      BY <1>w
    <3>2. /\ l \in Lefts /\ SoundLedger(u, l) /\ AlarmIsSet(u, l)
          /\ \A x : Contains(u.queue, x) <=> x # t /\ Contains(c.queue, x)
      BY <1>t, <3>1, CancelOp
    <3> HIDE DEF u, l
    <3> QED BY <2>1, <3>2 DEF u, l
  <2>3. \A x : Booked(x)' <=> x # t /\ Booked(x)
    BY <2>2 DEF Booked
  <2>4. TypeOK'
    BY <1>t, <2>1, <2>2, HalfOfWrap DEF TypeOK, Lefts, SoundLedger
  <2>5. RunningIsBooked'
    <3> SUFFICES ASSUME NEW u \in Timers
                 PROVE  /\ running'[u] <=> Booked(u)'
                        /\ period'[u] # 0 /\ fn' # u => running'[u]
      BY DEF RunningIsBooked
    <3>1. CASE u = t
      BY <1>t, <2>1, <2>3, <3>1
    <3>2. CASE u # t
      BY <1>t, <2>1, <2>3, <3>2 DEF RunningIsBooked
    <3> QED BY <3>1, <3>2
  <2>6. SleeperIsBooked'
    BY <1>t, <1>w, <2>1, <2>3 DEF SleeperIsBooked
  <2>7. Settled'
    <3>1. ASSUME ~popping, NEW x \in Waiters, Booked(x)'
          PROVE  left'[x] >= 0
      BY <1>t, <2>1, <2>3, <3>1 DEF Settled, Lefts
    <3> QED BY <1>t, <2>1, <2>2, <3>1 DEF Settled
  <2> QED BY <2>2, <2>4, <2>5, <2>6, <2>7 DEF IInv
<1>3. ASSUME NEW a \in Alarms, park_for(a)
      PROVE  IInv'
  <2>1. PICK span \in 0 .. MaxSpan : Book(a, span)
    BY <1>3 DEF park_for
  <2>2. /\ ~popping /\ asleep' = asleep \cup {a} /\ period' = period /\ running' = running
        /\ popping' = popping /\ fn' = fn
    BY <1>3 DEF park_for
  <2>3. /\ IsLedger(c') /\ left' \in Lefts /\ SoundLedger(c', left') /\ AlarmIsSet(c', left')
        /\ \A x : Booked(x)' <=> x = a \/ Booked(x)
        /\ left'[a] = span /\ \A x \in Waiters \ {a} : left'[x] = left[x]
    BY <1>w, <2>1, BookStep
  <2>4. TypeOK'
    BY <1>t, <2>2, <2>3 DEF TypeOK, Lefts
  <2>5. RunningIsBooked' /\ SleeperIsBooked'
    BY <1>t, <1>w, <2>2, <2>3 DEF RunningIsBooked, SleeperIsBooked
  <2>6. Settled'
    <3>1. ASSUME NEW x \in Waiters, Booked(x)'
          PROVE  left'[x] >= 0
      BY <1>t, <2>2, <2>3, <3>1, HalfOfWrap DEF Settled
    <3> QED BY <1>t, <2>2, <2>3, <3>1 DEF Settled
  <2> QED BY <2>3, <2>4, <2>5, <2>6 DEF IInv
<1>4. ASSUME NEW a \in Alarms, WokenEarly(a)
      PROVE  IInv'
  BY <1>4 DEF WokenEarly, IInv, TypeOK, RunningIsBooked, SleeperIsBooked, Settled, Booked
<1>5. ASSUME NEW n \in 1 .. MaxElapsed, Elapse(n)
      PROVE  IInv'
  <2>1. /\ ~popping /\ c' = tick_forward(c, n) /\ popping' = TRUE
        /\ left' = [w \in Waiters |-> IF Contains(c.queue, w) THEN left[w] - n ELSE left[w]]
        /\ period' = period /\ running' = running /\ asleep' = asleep /\ fn' = fn
    BY <1>5 DEF Elapse, Booked
  <2>2. /\ AlarmIsSet(c, left) /\ \A w \in Waiters : Contains(c.queue, w) => left[w] >= 0
    BY <1>t, <2>1 DEF Settled, Booked
  <2>3. c.arm_valid => Diff(c.armed, c.now) >= 0
    <3> SUFFICES ASSUME c.arm_valid
                 PROVE  Diff(c.armed, c.now) >= 0
      OBVIOUS
    <3>1. c.queue \in Seq(Waiters) /\ c.queue # << >>
      BY <1>t, <2>2 DEF AlarmIsSet, IsLedger
    <3>2. left[Head(c.queue)] >= 0
      BY <2>2, <3>1, HeadIsBooked
    <3>3. Diff(c.armed, c.now) \in Int
      BY <1>t, DiffIs, HalfOfWrap DEF IsLedger
    <3> QED BY <2>2, <3>1, <3>2, <3>3 DEF AlarmIsSet
  <2>4. left' \in Lefts /\ SoundLedger(c', left') /\ c'.queue = c.queue
    BY <1>t, <2>1, <2>2, <2>3, ForwardOp
  <2>5. TypeOK'
    BY <1>t, <2>1, <2>4 DEF TypeOK, Lefts, SoundLedger
  <2>6. RunningIsBooked' /\ SleeperIsBooked' /\ Settled'
    BY <1>t, <2>1, <2>4 DEF RunningIsBooked, SleeperIsBooked, Settled, Booked
  <2> QED BY <2>4, <2>5, <2>6 DEF IInv
<1>6. ASSUME FireAlarm
      PROVE  IInv'
  <2>1. /\ popping /\ Due(c) /\ Head(c.queue) \in Alarms /\ c' = pop_due(c)
        /\ Unbooked(Head(c.queue)) /\ asleep' = asleep \ {Head(c.queue)}
        /\ period' = period /\ running' = running /\ popping' = popping /\ fn' = fn
    BY <1>6 DEF FireAlarm
  <2>2. /\ IsLedger(c') /\ left' \in Lefts /\ SoundLedger(c', left')
        /\ \A x : Booked(x)' <=> x # Head(c.queue) /\ Booked(x)
    BY <2>1, PopStep
  <2>3. TypeOK'
    BY <1>t, <2>1, <2>2 DEF TypeOK, Lefts
  <2>4. RunningIsBooked' /\ SleeperIsBooked' /\ Settled'
    BY <1>t, <1>w, <2>1, <2>2 DEF RunningIsBooked, SleeperIsBooked, Settled
  <2> QED BY <2>2, <2>3, <2>4 DEF IInv
<1>7. ASSUME FireTimer
      PROVE  IInv'
  <2> DEFINE h == Head(c.queue)
  <2>1. /\ popping /\ fn = NoFn /\ Due(c) /\ h \in Timers /\ c' = pop_due(c)
        /\ Unbooked(h) /\ running' = [running EXCEPT ![h] = FALSE] /\ fn' = h
        /\ period' = period /\ asleep' = asleep /\ popping' = popping
    BY <1>7 DEF FireTimer
  <2>2. /\ IsLedger(c') /\ left' \in Lefts /\ SoundLedger(c', left')
        /\ \A x : Booked(x)' <=> x # h /\ Booked(x)
    BY <2>1, PopStep
  <2> HIDE DEF h
  <2>3. TypeOK'
    BY <1>t, <2>1, <2>2 DEF TypeOK, Lefts
  <2>4. RunningIsBooked'
    <3> SUFFICES ASSUME NEW u \in Timers
                 PROVE  /\ running'[u] <=> Booked(u)'
                        /\ period'[u] # 0 /\ fn' # u => running'[u]
      BY DEF RunningIsBooked
    <3>1. CASE u = h
      BY <1>t, <2>1, <2>2, <3>1
    <3>2. CASE u # h
      BY <1>t, <1>w, <2>1, <2>2, <3>2 DEF RunningIsBooked
    <3> QED BY <3>1, <3>2
  <2>5. SleeperIsBooked' /\ Settled'
    BY <1>t, <1>w, <2>1, <2>2 DEF SleeperIsBooked, Settled
  <2> QED BY <2>2, <2>3, <2>4, <2>5 DEF IInv
<1>8. ASSUME FnReturns
      PROVE  IInv'
  <2>1. /\ fn # NoFn /\ fn \in Timers /\ fn' = NoFn /\ period' = period
        /\ asleep' = asleep /\ popping' = popping /\ popping
    BY <1>8, <1>t DEF FnReturns, Settled
  <2>2. CASE period[fn] = 0 /\ c' = c /\ running' = running /\ left' = left
    <3>1. RunningIsBooked'
      BY <1>t, <2>1, <2>2 DEF RunningIsBooked, Booked
    <3> QED BY <1>t, <2>1, <2>2, <3>1 DEF IInv, TypeOK, Lefts, SleeperIsBooked, Settled, Booked
  <2>3. CASE period[fn] # 0 /\ running' = [running EXCEPT ![fn] = TRUE] /\ Book(fn, period[fn])
    <3>1. /\ IsLedger(c') /\ left' \in Lefts /\ SoundLedger(c', left')
          /\ \A x : Booked(x)' <=> x = fn \/ Booked(x)
      BY <1>t, <1>w, <2>1, <2>3, BookStep
    <3>2. TypeOK'
      BY <1>t, <2>1, <2>3, <3>1 DEF TypeOK, Lefts
    <3>3. RunningIsBooked'
      <4> SUFFICES ASSUME NEW u \in Timers
                   PROVE  /\ running'[u] <=> Booked(u)'
                          /\ period'[u] # 0 /\ fn' # u => running'[u]
        BY DEF RunningIsBooked
      <4>1. CASE u = fn
        BY <1>t, <2>1, <2>3, <3>1, <4>1
      <4>2. CASE u # fn
        BY <1>t, <2>1, <2>3, <3>1, <4>2 DEF RunningIsBooked
      <4> QED BY <4>1, <4>2
    <3>4. SleeperIsBooked' /\ Settled'
      BY <1>t, <2>1, <3>1 DEF SleeperIsBooked, Settled
    <3> QED BY <3>1, <3>2, <3>3, <3>4 DEF IInv
  <2> QED BY <1>8, <2>2, <2>3 DEF FnReturns
<1>9. ASSUME ElapseEnds
      PROVE  IInv'
  <2>1. /\ popping /\ fn = NoFn /\ ~Due(c) /\ c' = update_alarm(c) /\ popping' = FALSE
        /\ period' = period /\ running' = running /\ asleep' = asleep /\ fn' = fn /\ left' = left
    BY <1>9 DEF ElapseEnds
  <2>2. /\ IsLedger(c') /\ c'.now = c.now /\ c'.queue = c.queue /\ c'.deadline = c.deadline
        /\ ArmedIsNear(c') /\ AlarmIsSet(c', left)
    BY <1>t, <2>1, UpdateAlarmOp DEF SoundLedger
  <2>3. SoundLedger(c', left')
    BY <1>t, <2>1, <2>2 DEF SoundLedger, Timely
  <2>4. TypeOK'
    BY <1>t, <2>1, <2>2 DEF TypeOK, Lefts
  <2>5. RunningIsBooked' /\ SleeperIsBooked'
    BY <1>t, <2>1, <2>2 DEF RunningIsBooked, SleeperIsBooked, Booked
  <2>6. \A x \in Waiters : Booked(x) => left[x] >= 0
    <3> SUFFICES ASSUME NEW x \in Waiters, Booked(x)
                 PROVE  left[x] >= 0
      OBVIOUS
    <3>1. c.queue # << >>
      BY DEF Booked, Contains
    <3>2. Head(c.queue) \in Waiters
      BY <1>t, <3>1, HeadIsBooked DEF IsLedger
    <3>3. left[Head(c.queue)] <= left[x] /\ ~(left[Head(c.queue)] <= 0)
      BY <1>t, <2>1, <3>1, HeadIsFirst DEF Booked
    <3> QED BY <1>t, <3>2, <3>3, HalfOfWrap DEF Lefts
  <2>7. Settled'
    BY <2>1, <2>2, <2>6 DEF Settled, Booked
  <2> QED BY <2>3, <2>4, <2>5, <2>7 DEF IInv
<1>10. CASE UNCHANGED vars
  BY <1>10 DEF vars, IInv, TypeOK, RunningIsBooked, SleeperIsBooked, Settled, Booked
<1>11. ASSUME NEW t \in Timers, oneshot(t) \/ periodic(t)
       PROVE  IInv'
  <2>1. PICK span \in Spans : arm_me(t, 0, span) \/ arm_me(t, span, span)
    BY <1>11 DEF oneshot, periodic
  <2>2. 0 \in 0 .. MaxSpan /\ span \in 0 .. MaxSpan
    BY <1>s, HalfOfWrap
  <2> QED BY <1>1, <2>1, <2>2
<1> QED BY <1>2, <1>3, <1>4, <1>5, <1>6, <1>7, <1>8, <1>9, <1>10, <1>11 DEF Next, Loop

\* It holds always.
LEMMA SpecIInv == Spec => []IInv
BY InitIInv, NextIInv, PTL DEF Spec

-----------------------------------------------------------------------------
(* The theorems.                                                           *)

\* For every width of the counter: after any mixture of bookings,
\* cancellations and interrupts the queue is typed, holds each waiter once and
\* is in the order in which its waiters are really due.
THEOREM QueueStaysSound == Spec => []QueueIsSound
<1>1. IInv => QueueIsSound
  <2> SUFFICES ASSUME IInv PROVE QueueIsInOrder
    BY DEF IInv, QueueIsSound
  <2>1. /\ c.queue \in Seq(Waiters) /\ LinkedOnce(c.queue) /\ InOrderOf(c.queue, left)
    BY DEF IInv, SoundLedger, IsLedger
  <2>2. DOMAIN c.queue = 1 .. Len(c.queue) /\ Len(c.queue) \in Nat
    BY <2>1
  <2>3. IsInjective(c.queue)
    BY <2>1, <2>2 DEF IsInjective, LinkedOnce
  <2>4. ASSUME NEW i \in 1 .. Len(c.queue) - 1
        PROVE  left[c.queue[i]] <= left[c.queue[i + 1]]
    <3>1. i \in 1 .. Len(c.queue) /\ i + 1 \in 1 .. Len(c.queue) /\ i <= i + 1
      BY <2>2
    <3> QED BY <2>1, <3>1 DEF InOrderOf
  <2> QED BY <2>3, <2>4 DEF QueueIsInOrder
<1> QED BY <1>1, SpecIInv, PTL

\* running_ and the queue agree between any two calls, callbacks that start and
\* stop timers included, and no task sleeps without an alarm.
THEOREM BookingsStayTrue == Spec => []BookingsAreTrue
<1>1. IInv => BookingsAreTrue
  BY DEF IInv, BookingsAreTrue
<1> QED BY <1>1, SpecIInv, PTL

\* Outside on_elapsed the alarm last asked for comes no later than the first
\* deadline, although update_alarm keeps alarms nobody waits for and compares
\* wrapped ticks.
THEOREM AlarmComesInTime == Spec => []AlarmInTime
<1>1. IInv => AlarmInTime
  <2> SUFFICES ASSUME IInv, ~popping
               PROVE  /\ c.arm_valid <=> c.queue # << >>
                      /\ c.arm_valid => \/ Diff(c.armed, c.now) \in 1 .. left[Head(c.queue)]
                                        \/ Diff(c.armed, c.now) = left[Head(c.queue)]
    BY DEF AlarmInTime
  <2>1. c.arm_valid <=> c.queue # << >>
    BY DEF IInv, Settled, AlarmIsSet
  <2>2. ASSUME c.arm_valid
        PROVE  \/ Diff(c.armed, c.now) \in 1 .. left[Head(c.queue)]
               \/ Diff(c.armed, c.now) = left[Head(c.queue)]
    <3> DEFINE a == Diff(c.armed, c.now)
               h == left[Head(c.queue)]
    <3>1. Head(c.queue) \in Waiters
      BY <2>1, <2>2, HeadIsBooked DEF IInv, SoundLedger, IsLedger
    <3>2. h \in Int
      BY <3>1, HalfOfWrap DEF IInv, TypeOK
    <3>3. a <= h /\ (a >= 1 \/ a = h)
      BY <2>1, <2>2 DEF IInv, Settled, AlarmIsSet
    <3>4. a \in Int
      BY <2>2, HalfOfWrap DEF IInv, SoundLedger, ArmedIsNear
    <3> HIDE DEF a, h
    <3>5. a \in 1 .. h \/ a = h
      BY <3>2, <3>3, <3>4
    <3> QED BY <3>5 DEF a, h
  <2> QED BY <2>1, <2>2
<1> QED BY <1>1, SpecIInv, PTL

\* on_elapsed fires a waiter only when its span is over, and leaves none that
\* is over in the queue.
THEOREM FiringIsOnTime == Spec => FiresOnTime
<1> DEFINE Fires == /\ FireAlarm \/ FireTimer => left[Head(c.queue)] <= 0
                    /\ ElapseEnds => \A w \in Waiters : Booked(w) => left[w] > 0
<1>1. IInv => [Fires]_vars
  <2> SUFFICES ASSUME IInv PROVE Fires
    OBVIOUS
  <2>1. SoundLedger(c, left) /\ left \in Lefts
    BY DEF IInv, TypeOK, Lefts
  <2>2. ASSUME FireAlarm \/ FireTimer
        PROVE  left[Head(c.queue)] <= 0
    <3>1. Due(c) /\ c.queue # << >>
      BY <2>2 DEF FireAlarm, FireTimer, Due
    <3> QED BY <2>1, <3>1, HeadIsFirst
  <2>3. ASSUME ElapseEnds, NEW w \in Waiters, Booked(w)
        PROVE  left[w] > 0
    <3>1. ~Due(c) /\ c.queue # << >> /\ c.queue \in Seq(Waiters)
      BY <2>1, <2>3 DEF ElapseEnds, Booked, Contains, SoundLedger, IsLedger
    <3>2. left[Head(c.queue)] <= left[w] /\ ~(left[Head(c.queue)] <= 0)
      BY <2>1, <2>3, <3>1, HeadIsFirst DEF Booked
    <3>3. left[Head(c.queue)] \in Int /\ left[w] \in Int
      BY <2>1, <3>1, HeadIsBooked, HalfOfWrap DEF Lefts
    <3> QED BY <3>2, <3>3
  <2> QED BY <2>2, <2>3
<1> QED BY <1>1, SpecIInv, PTL DEF FiresOnTime

-----------------------------------------------------------------------------
(* Tickless idle.  What SysTick has counted and the ledger has not heard   *)
(* of is the measure: a nap is owed at least what the ledger still counts, *)
(* less that.                                                              *)

Napping == {t \in Nappers : ledger[t] # Sleep!Off}

Unsettled == IF pending /\ flag THEN reload ELSE reload - count

\* The parts in which every variable of idle takes its values.
SleepType ==
  /\ ledger \in [Nappers -> Int] /\ owed \in [Nappers -> Int]
  /\ one_shot \in Nat /\ reload \in Nat /\ count \in Nat
  /\ ticking \in BOOLEAN /\ flag \in BOOLEAN /\ pending \in BOOLEAN

\* SysTick is periodic, or a one-shot idle armed and waits for; once stopped
\* it does not start again, as nothing then raises it.
CounterIsKnown ==
  /\ reload = IF one_shot = 0 THEN 1 ELSE one_shot
  /\ 1 <= count /\ count <= reload
  /\ one_shot # 0 => /\ ticking /\ idle \in {"armed", "wfi"}
                     /\ Napping # {} /\ one_shot <= Sleep!max_per_shot
  /\ ~ticking => idle \in {"armed", "wfi"} /\ (idle = "wfi" => ~pending)

\* No nap is due long before SysTick comes round, and none is behind what the
\* ledger counts.
NapsAreCovered ==
  \A t \in Napping :
    /\ ledger[t] >= 1 /\ ledger[t] >= reload - Sleep!Slack
    /\ ticking => owed[t] >= ledger[t] - Unsettled

SleepInv == SleepType /\ CounterIsKnown /\ NapsAreCovered

\* What the constants are.
LEMMA SleepConstants ==
  /\ MinNap \in Nat /\ MinNap >= 1 /\ MaxNap \in Nat /\ kTicklessThreshold \in Nat
  /\ Cycles \in Nat /\ Cycles >= 1 /\ MaxLoad \in Nat /\ MaxLoad >= Cycles
BY SleepAssumption DEF Sleep!TicklessAssumption

\* A span that fits the LOAD register is a round of just that span.
LEMMA RoundIsSpan ==
  ASSUME NEW n \in Nat, n >= 1, n <= Sleep!max_per_shot
  PROVE  Sleep!Round(n * Cycles - 1) = n
<1> DEFINE d == MaxLoad \div Cycles
<1>1. d \in Nat /\ n <= d /\ d * Cycles <= MaxLoad
  BY SleepConstants DEF Sleep!max_per_shot
<1>2. n * Cycles <= d * Cycles /\ n * Cycles \in Nat /\ n * Cycles >= 1
  <2> HIDE DEF d
  <2> QED BY <1>1, SleepConstants
<1>3. (n * Cycles - 1) % (MaxLoad + 1) = n * Cycles - 1
  BY <1>1, <1>2, SleepConstants
<1>4. (n * Cycles) \div Cycles = n
  BY SleepConstants
<1> QED BY <1>2, <1>3, <1>4 DEF Sleep!Round

\* What fits into one shot is at least a tick.
LEMMA ShotFits == Sleep!max_per_shot \in Nat /\ Sleep!max_per_shot >= 1
BY SleepConstants DEF Sleep!max_per_shot

\* on_elapsed ends the naps that are due and moves the others up.
LEMMA ElapsedNaps ==
  ASSUME NEW naps \in [Nappers -> Int], NEW n \in Nat
  PROVE  /\ Sleep!on_elapsed(naps, n) \in [Nappers -> Int]
         /\ \A t \in Nappers : Sleep!on_elapsed(naps, n)[t] # Sleep!Off =>
              /\ naps[t] # Sleep!Off /\ naps[t] > n
              /\ Sleep!on_elapsed(naps, n)[t] = naps[t] - n
<1>1. Sleep!Off \in Int
  BY DEF Sleep!Off
<1> QED BY <1>1 DEF Sleep!on_elapsed

\* The larger of two numbers is no smaller than either.
LEMMA MaxBounds ==
  ASSUME NEW a \in Int, NEW b \in Int
  PROVE  Sleep!Max({a, b}) \in Int /\ Sleep!Max({a, b}) >= a /\ Sleep!Max({a, b}) >= b
<1>1. \E x \in {a, b} : \A y \in {a, b} : x >= y
  <2>1. CASE a >= b
    BY <2>1
  <2>2. CASE a < b
    BY <2>2
  <2> QED BY <2>1, <2>2
<1>2. /\ Sleep!Max({a, b}) \in {a, b}
      /\ \A y \in {a, b} : Sleep!Max({a, b}) >= y
  BY <1>1 DEF Sleep!Max
<1> QED BY <1>2

\* Where another task may nap, Slack is what a nap can fall short of a one-shot.
LEMMA SlackBounds ==
  /\ Sleep!Slack \in Int /\ Sleep!Slack >= 0
  /\ \A t, u \in Nappers : t # u => Sleep!Slack >= Sleep!max_per_shot - MinNap
<1>1. Sleep!max_per_shot - MinNap \in Int /\ 0 \in Int
  BY ShotFits, SleepConstants
<1>2. CASE \A t, u \in Nappers : t = u
  BY <1>2 DEF Sleep!Slack
<1>3. CASE ~\A t, u \in Nappers : t = u
  <2>1. Sleep!Slack = Sleep!Max({0, Sleep!max_per_shot - MinNap})
    BY <1>3 DEF Sleep!Slack
  <2> QED BY <1>1, <2>1, MaxBounds
<1> QED BY <1>2, <1>3

\* A task naps: not behind, and short of a one-shot in flight by Slack at most.
LEMMA NapKeeps ==
  ASSUME SleepInv, NEW t \in Nappers, NEW n \in MinNap .. MaxNap, Sleep!sleep_for(t, n)
  PROVE  SleepInv'
<1>1. /\ ledger' = [ledger EXCEPT ![t] = n] /\ owed' = [owed EXCEPT ![t] = n]
      /\ idle' = idle /\ one_shot' = one_shot /\ ticking' = ticking /\ reload' = reload
      /\ count' = count /\ flag' = flag /\ pending' = pending
      /\ ledger[t] = Sleep!Off
  BY DEF Sleep!sleep_for, Sleep!hwvars, Sleep!Ready, Sleep!Asleep
<1>2. n \in Nat /\ n >= MinNap /\ MinNap >= 1 /\ Sleep!Off = -1
  BY SleepConstants DEF Sleep!Off
<1>3. SleepType'
  BY <1>1, <1>2 DEF SleepInv, SleepType
<1>4. /\ ledger'[t] = n /\ owed'[t] = n
      /\ \A u \in Nappers \ {t} : ledger'[u] = ledger[u] /\ owed'[u] = owed[u]
  BY <1>1 DEF SleepInv, SleepType
<1>5. Napping' = Napping \cup {t}
  BY <1>1, <1>2, <1>4 DEF Napping
<1>6. CounterIsKnown'
  BY <1>1, <1>5 DEF SleepInv, CounterIsKnown
<1>7. n >= reload - Sleep!Slack
  <2>1. CASE one_shot = 0
    BY <1>2, <2>1, SleepConstants, SlackBounds DEF SleepInv, CounterIsKnown
  <2>2. CASE one_shot # 0
    <3>1. one_shot <= Sleep!max_per_shot /\ Napping # {} /\ reload = one_shot
      BY <2>2 DEF SleepInv, CounterIsKnown
    <3>2. PICK u \in Nappers : u # t
      BY <1>1, <3>1 DEF Napping
    <3>3. Sleep!Slack >= Sleep!max_per_shot - MinNap /\ Sleep!Slack \in Int
      BY <3>2, SlackBounds
    <3> QED BY <1>2, <3>1, <3>3, ShotFits, SleepConstants DEF SleepInv, SleepType
  <2> QED BY <2>1, <2>2
<1>8. Unsettled \in Nat /\ Unsettled' = Unsettled
  BY <1>1 DEF Unsettled, SleepInv, SleepType, CounterIsKnown
<1>9. ASSUME NEW u \in Napping'
      PROVE  /\ ledger'[u] >= 1 /\ ledger'[u] >= reload' - Sleep!Slack
             /\ ticking' => owed'[u] >= ledger'[u] - Unsettled'
  <2>1. CASE u = t
    <3>1. n >= 1 /\ n >= n - Unsettled
      BY <1>2, <1>8, SleepConstants
    <3> QED BY <1>1, <1>4, <1>7, <1>8, <2>1, <3>1
  <2>2. CASE u # t
    <3>1. u \in Napping /\ ledger'[u] = ledger[u] /\ owed'[u] = owed[u]
      BY <1>4, <1>5, <1>9, <2>2 DEF Napping
    <3>2. /\ ledger[u] >= 1 /\ ledger[u] >= reload - Sleep!Slack
          /\ ticking => owed[u] >= ledger[u] - Unsettled
      BY <3>1 DEF SleepInv, NapsAreCovered
    <3> QED BY <1>1, <1>8, <3>1, <3>2
  <2> QED BY <2>1, <2>2
<1>10. NapsAreCovered'
  BY <1>9 DEF NapsAreCovered
<1> QED BY <1>3, <1>6, <1>10 DEF SleepInv

\* A task waits for a peripheral, idle goes to sleep: nothing is counted.
LEMMA WaitKeeps ==
  ASSUME SleepInv, Sleep!Wfi \/ \E t \in Nappers : Sleep!WaitForPeripheral(t)
  PROVE  SleepInv'
<1>1. /\ ledger' = ledger /\ owed' = owed /\ one_shot' = one_shot /\ ticking' = ticking
      /\ reload' = reload /\ count' = count /\ flag' = flag /\ pending' = pending
      /\ idle' = idle \/ (idle' = "wfi" /\ idle = "armed" /\ ~pending)
  BY DEF Sleep!Wfi, Sleep!WaitForPeripheral, Sleep!hwvars
<1>2. Napping' = Napping /\ Unsettled' = Unsettled
  BY <1>1 DEF Napping, Unsettled
<1>3. SleepType'
  BY <1>1 DEF SleepInv, SleepType
<1>4. CounterIsKnown'
  BY <1>1, <1>2 DEF SleepInv, CounterIsKnown
<1>5. NapsAreCovered'
  BY <1>1, <1>2 DEF SleepInv, NapsAreCovered
<1> QED BY <1>3, <1>4, <1>5 DEF SleepInv

\* A tick of real time is counted, or SysTick is stopped.
LEMMA TickKeeps ==
  ASSUME SleepInv, Sleep!Tick
  PROVE  SleepInv'
<1> DEFINE less(t) == Sleep!Max({owed[t] - 1, Sleep!LateBound})
<1>1. /\ ledger' = ledger /\ one_shot' = one_shot /\ idle' = idle
      /\ ticking' = ticking /\ reload' = reload /\ ~pending
      /\ owed' = [t \in Nappers |-> IF t \in Sleep!Asleep THEN less(t) ELSE owed[t]]
  BY DEF Sleep!Tick, Sleep!hwvars
<1>2. \A t \in Nappers : owed[t] \in Int /\ less(t) \in Int /\ less(t) >= owed[t] - 1
  <2>1. Sleep!LateBound \in Int /\ \A t \in Nappers : owed[t] \in Int /\ owed[t] - 1 \in Int
    BY ShotFits DEF Sleep!LateBound, SleepInv, SleepType
  <2> QED BY <2>1, MaxBounds
<1> HIDE DEF less
<1>3. owed' \in [Nappers -> Int] /\ \A t \in Nappers : owed'[t] >= owed[t] - 1
  BY <1>1, <1>2
<1>4. Napping' = Napping
  BY <1>1 DEF Napping
<1>5. \/ ~ticking /\ count' = count /\ flag' = flag /\ pending' = pending
      \/ ticking /\ count > 1 /\ count' = count - 1 /\ flag' = flag /\ pending' = pending
      \/ ticking /\ count <= 1 /\ count' = reload /\ flag' = TRUE /\ pending' = TRUE
  BY DEF Sleep!Tick, Sleep!hwvars
<1>6. SleepType'
  <2>1. /\ ledger' \in [Nappers -> Int] /\ owed' \in [Nappers -> Int]
        /\ one_shot' \in Nat /\ reload' \in Nat /\ count' \in Nat
    BY <1>1, <1>3, <1>5 DEF SleepInv, SleepType
  <2>2. ticking' \in BOOLEAN /\ flag' \in BOOLEAN /\ pending' \in BOOLEAN
    BY <1>1, <1>5, Zenon DEF SleepInv, SleepType
  <2> QED BY <2>1, <2>2 DEF SleepType
<1>7. CounterIsKnown'
  BY <1>1, <1>4, <1>5 DEF SleepInv, SleepType, CounterIsKnown
<1>8. ticking => Unsettled' = Unsettled + 1 /\ Unsettled \in Int
  BY <1>1, <1>5 DEF SleepInv, SleepType, CounterIsKnown, Unsettled
<1>9. NapsAreCovered'
  <2> SUFFICES ASSUME NEW t \in Napping
               PROVE  /\ ledger[t] >= 1 /\ ledger[t] >= reload - Sleep!Slack
                      /\ ticking => owed'[t] >= ledger[t] - Unsettled'
    BY <1>1, <1>4 DEF NapsAreCovered
  <2>1. /\ ledger[t] >= 1 /\ ledger[t] >= reload - Sleep!Slack
        /\ ticking => owed[t] >= ledger[t] - Unsettled
    BY DEF SleepInv, NapsAreCovered
  <2>2. t \in Nappers /\ ledger[t] \in Int /\ owed[t] \in Int /\ owed'[t] \in Int
    BY <1>3 DEF Napping, SleepInv, SleepType
  <2> QED BY <1>3, <1>8, <2>1, <2>2
<1> QED BY <1>6, <1>7, <1>9 DEF SleepInv

\* The handler settles at least what SysTick has counted.
LEMMA HandlerKeeps ==
  ASSUME SleepInv, Sleep!SysTick_Handler
  PROVE  SleepInv'
<1> DEFINE n == IF one_shot # 0 THEN one_shot ELSE 1
<1>1. /\ ledger' = Sleep!on_elapsed(ledger, n) /\ owed' = owed /\ one_shot' = 0
      /\ pending /\ pending' = FALSE /\ idle' = (IF idle = "wfi" THEN "woken" ELSE idle)
  BY DEF Sleep!SysTick_Handler, Sleep!Awake
<1>2. /\ reload' = 1 /\ count' = 1 /\ flag' \in BOOLEAN /\ ticking' = ticking
  <2>1. CASE one_shot # 0
    <3>1. reload' = 1 /\ count' = 1 /\ flag' = FALSE /\ ticking' = TRUE
      BY <2>1 DEF Sleep!SysTick_Handler, Sleep!Restart
    <3>2. ticking = TRUE
      BY <2>1 DEF SleepInv, SleepType, CounterIsKnown
    <3> QED BY <3>1, <3>2
  <2>2. CASE one_shot = 0
    <3>1. reload' = reload /\ count' = count /\ flag' = flag /\ ticking' = ticking
      BY <2>2 DEF Sleep!SysTick_Handler
    <3>2. reload = 1 /\ count = 1 /\ flag \in BOOLEAN
      BY <2>2 DEF SleepInv, SleepType, CounterIsKnown
    <3> QED BY <3>1, <3>2
  <2> QED BY <2>1, <2>2
<1>3. n \in Nat /\ n = reload /\ ledger \in [Nappers -> Int]
  BY DEF SleepInv, SleepType, CounterIsKnown
<1> HIDE DEF n
<1>4. /\ ledger' \in [Nappers -> Int]
      /\ \A t \in Nappers : ledger'[t] # Sleep!Off =>
           ledger[t] # Sleep!Off /\ ledger[t] > n /\ ledger'[t] = ledger[t] - n
  BY <1>1, <1>3, ElapsedNaps
<1>5. SleepType'
  BY <1>1, <1>2, <1>4 DEF SleepInv, SleepType
<1>6. CounterIsKnown'
  BY <1>1, <1>2 DEF SleepInv, CounterIsKnown
<1>7. Unsettled' = 0 /\ Unsettled \in Int /\ Unsettled <= n
  BY <1>1, <1>2, <1>3 DEF Unsettled, SleepInv, SleepType, CounterIsKnown
<1>8. NapsAreCovered'
  <2> SUFFICES ASSUME NEW t \in Nappers, ledger'[t] # Sleep!Off
               PROVE  /\ ledger'[t] >= 1 /\ ledger'[t] >= reload' - Sleep!Slack
                      /\ ticking' => owed'[t] >= ledger'[t] - Unsettled'
    BY DEF NapsAreCovered, Napping
  <2>1. ledger[t] > n /\ ledger'[t] = ledger[t] - n /\ t \in Napping
    BY <1>4 DEF Napping
  <2>2. (ticking => owed[t] >= ledger[t] - Unsettled) /\ ledger[t] \in Int /\ owed[t] \in Int
    BY <2>1 DEF SleepInv, NapsAreCovered, SleepType
  <2> QED BY <1>1, <1>2, <1>3, <1>7, <2>1, <2>2, SlackBounds
<1> QED BY <1>5, <1>6, <1>8 DEF SleepInv

\* drain_pending_expiry leaves no nap behind while SysTick is periodic.
LEMMA DrainSettles ==
  ASSUME SleepInv, one_shot = 0, NEW naps, naps = Sleep!drain_pending_expiry(1)
  PROVE  /\ naps \in [Nappers -> Int] /\ reload = 1 /\ count = 1
         /\ \A t \in Nappers : naps[t] # Sleep!Off =>
              naps[t] >= 1 /\ (ticking => owed[t] >= naps[t])
<1>1. /\ ledger \in [Nappers -> Int] /\ owed \in [Nappers -> Int] /\ 1 \in Nat
      /\ reload = 1 /\ count = 1 /\ Unsettled = IF pending /\ flag THEN 1 ELSE 0
  BY DEF SleepInv, SleepType, CounterIsKnown, Unsettled
<1>2. \A t \in Nappers : ledger[t] # Sleep!Off =>
        ledger[t] >= 1 /\ (ticking => owed[t] >= ledger[t] - Unsettled)
  BY <1>1 DEF SleepInv, NapsAreCovered, Napping
<1>3. CASE flag
  <2>1. naps = Sleep!on_elapsed(ledger, 1)
    BY <1>3 DEF Sleep!drain_pending_expiry
  <2>2. /\ naps \in [Nappers -> Int]
        /\ \A t \in Nappers : naps[t] # Sleep!Off =>
             ledger[t] # Sleep!Off /\ ledger[t] > 1 /\ naps[t] = ledger[t] - 1
    BY <1>1, <2>1, ElapsedNaps
  <2>3. Unsettled \in Int /\ Unsettled <= 1
    BY <1>1
  <2> QED BY <1>1, <1>2, <2>2, <2>3
<1>4. CASE ~flag
  <2>1. naps = ledger /\ Unsettled = 0
    BY <1>1, <1>4 DEF Sleep!drain_pending_expiry
  <2> QED BY <1>1, <1>2, <2>1
<1> QED BY <1>3, <1>4

\* The wake section: the periodic tick is back, with nothing unsettled.
LEMMA WakeKeeps ==
  ASSUME SleepInv, Sleep!Wake
  PROVE  SleepInv'
<1>1. one_shot = 0 /\ ticking
  BY DEF SleepInv, CounterIsKnown, Sleep!Wake
<1>2. /\ ledger' = Sleep!drain_pending_expiry(1) /\ owed' = owed /\ one_shot' = 0
      /\ idle' = "enter" /\ reload' = 1 /\ count' = 1 /\ flag' = FALSE /\ ticking' = TRUE
      /\ pending' = pending
  BY <1>1 DEF Sleep!Wake, Sleep!Restart
<1>3. /\ ledger' \in [Nappers -> Int]
      /\ \A t \in Nappers : ledger'[t] # Sleep!Off => ledger'[t] >= 1 /\ owed[t] >= ledger'[t]
  BY <1>1, <1>2, DrainSettles
<1>4. SleepType'
  BY <1>2, <1>3 DEF SleepInv, SleepType
<1>5. CounterIsKnown'
  BY <1>2 DEF CounterIsKnown
<1>6. Unsettled' = 0
  BY <1>2 DEF Unsettled
<1>7. NapsAreCovered'
  BY <1>2, <1>3, <1>6, SlackBounds DEF NapsAreCovered, Napping
<1> QED BY <1>4, <1>5, <1>7 DEF SleepInv

\* A set of numbers has a least one.
LEMMA LeastNat ==
  ASSUME NEW S, S \subseteq Nat, S # {}
  PROVE  \E x \in S : \A y \in S : x <= y
<1> DEFINE R == {ss \in Nat \X Nat : ss[1] < ss[2]}
<1>1. IsWellFoundedOn(R, Nat)
  BY NatLessThanWellFounded DEF OpToRel
<1>2. \A x, y \in Nat : << y, x >> \in R <=> y < x
  OBVIOUS
<1> HIDE DEF R
<1>3. PICK x \in S : \A y \in S : ~(<< y, x >> \in R)
  BY <1>1, WFMin
<1>4. \A y \in S : y \in Nat /\ x \in Nat /\ ~(y < x)
  BY <1>2, <1>3
<1> QED BY <1>4

\* The smaller of two numbers.
LEMMA LesserOfTwo ==
  ASSUME NEW a \in Nat, NEW b \in Nat
  PROVE  /\ Sleep!Min({a, b}) \in {a, b}
         /\ Sleep!Min({a, b}) <= a /\ Sleep!Min({a, b}) <= b
<1>1. \E x \in {a, b} : \A y \in {a, b} : x <= y
  <2>1. CASE a <= b
    BY <2>1
  <2>2. CASE b < a
    BY <2>2
  <2> QED BY <2>1, <2>2
<1>2. /\ Sleep!Min({a, b}) \in {a, b}
      /\ \A y \in {a, b} : Sleep!Min({a, b}) <= y
  BY <1>1 DEF Sleep!Min
<1> QED BY <1>2

\* next_due_in is the shortest of the naps.
LEMMA NextDue ==
  ASSUME NEW naps \in [Nappers -> Int], NEW u \in Nappers, naps[u] # Sleep!Off,
         \A t \in Nappers : naps[t] # Sleep!Off => naps[t] >= 1
  PROVE  /\ Sleep!next_due_in(naps) \in Nat
         /\ \A t \in Nappers : naps[t] # Sleep!Off => naps[t] >= Sleep!next_due_in(naps)
<1> DEFINE S == {naps[t] : t \in {x \in Nappers : naps[x] # Sleep!Off}}
<1>1. S \in SUBSET Nat /\ S # {}
  BY SMT
<1>2. \E x \in S : \A y \in S : x <= y
  <2> HIDE DEF S
  <2> QED BY <1>1, LeastNat
<1>3. Sleep!Min(S) \in S /\ \A y \in S : Sleep!Min(S) <= y
  <2> HIDE DEF S
  <2> QED BY <1>2 DEF Sleep!Min
<1>4. Sleep!next_due_in(naps) = Sleep!Min(S)
  BY DEF Sleep!next_due_in
<1> QED BY <1>1, <1>3, <1>4

\* The arming section: what is armed is no longer than the shortest nap.
LEMMA ArmKeeps ==
  ASSUME SleepInv, Sleep!Arm
  PROVE  SleepInv'
<1> DEFINE naps == Sleep!drain_pending_expiry(1)
           has_deadline == \E t \in Nappers : naps[t] # Sleep!Off
           due == IF has_deadline THEN Sleep!next_due_in(naps) ELSE 0
           shot == Sleep!Min({due, Sleep!max_per_shot})
<1>1. one_shot = 0 /\ ticking /\ idle' = "armed" /\ owed' = owed /\ pending' = pending
      /\ ledger' = naps
  BY DEF SleepInv, CounterIsKnown, Sleep!Arm
<1>2. /\ naps \in [Nappers -> Int] /\ reload = 1 /\ count = 1
      /\ \A t \in Nappers : naps[t] # Sleep!Off => naps[t] >= 1 /\ owed[t] >= naps[t]
  BY <1>1, DrainSettles
<1>3. \/ /\ has_deadline /\ due > kTicklessThreshold /\ one_shot' = shot
         /\ reload' = Sleep!Round(shot * Cycles - 1) /\ count' = Sleep!Round(shot * Cycles - 1)
         /\ flag' = FALSE /\ ticking' = TRUE
      \/ /\ ~has_deadline /\ ticking' = FALSE
         /\ flag' = FALSE /\ one_shot' = one_shot /\ reload' = reload /\ count' = count
      \/ /\ flag' = FALSE /\ one_shot' = one_shot /\ reload' = reload /\ count' = count
         /\ ticking' = ticking
  BY DEF Sleep!Arm, Sleep!Restart
<1> HIDE DEF naps
<1>4. CASE /\ has_deadline /\ due > kTicklessThreshold /\ one_shot' = shot
           /\ reload' = Sleep!Round(shot * Cycles - 1) /\ count' = Sleep!Round(shot * Cycles - 1)
           /\ flag' = FALSE /\ ticking' = TRUE
  <2>1. /\ due \in Nat /\ due >= 1
        /\ \A t \in Nappers : naps[t] # Sleep!Off => naps[t] >= due
    <3>1. due = Sleep!next_due_in(naps) /\ has_deadline
      BY <1>4
    <3>2. PICK u \in Nappers : naps[u] # Sleep!Off
      BY <3>1
    <3>3. \A t \in Nappers : naps[t] # Sleep!Off => naps[t] >= 1
      BY <1>2
    <3>4. due \in Nat /\ \A t \in Nappers : naps[t] # Sleep!Off => naps[t] >= due
      BY <1>2, <3>1, <3>2, <3>3, NextDue
    <3> HIDE DEF due
    <3> QED BY <1>4, <3>4, SleepConstants
  <2> HIDE DEF due
  <2>2. shot \in Nat /\ shot >= 1 /\ shot <= due /\ shot <= Sleep!max_per_shot
    BY <2>1, ShotFits, LesserOfTwo
  <2> HIDE DEF shot
  <2>3. reload' = shot /\ count' = shot /\ one_shot' = shot
    BY <1>4, <2>2, RoundIsSpan
  <2>4. Unsettled' = 0
    BY <1>4, <2>2, <2>3 DEF Unsettled
  <2>5. SleepType'
    BY <1>1, <1>2, <1>4, <2>2, <2>3 DEF SleepInv, SleepType
  <2>6. CounterIsKnown'
    <3>1. Napping' # {}
      BY <1>1, <1>4 DEF Napping
    <3> QED BY <1>1, <1>4, <2>2, <2>3, <3>1 DEF CounterIsKnown
  <2>7. NapsAreCovered'
    <3> SUFFICES ASSUME NEW t \in Nappers, naps[t] # Sleep!Off
                 PROVE  naps[t] >= 1 /\ naps[t] >= shot - Sleep!Slack /\ owed[t] >= naps[t] - 0
      BY <1>1, <2>3, <2>4 DEF NapsAreCovered, Napping
    <3>1. naps[t] >= due /\ owed[t] >= naps[t] /\ naps[t] \in Int
      BY <1>2, <2>1
    <3> QED BY <2>1, <2>2, <3>1, SlackBounds
  <2> QED BY <2>5, <2>6, <2>7 DEF SleepInv
<1>5. CASE /\ flag' = FALSE /\ one_shot' = one_shot /\ reload' = reload /\ count' = count
           /\ ticking' \in BOOLEAN
  <2>1. Unsettled' = 0
    BY <1>2, <1>5 DEF Unsettled
  <2>2. SleepType'
    BY <1>1, <1>2, <1>5 DEF SleepInv, SleepType
  <2>3. CounterIsKnown'
    BY <1>1, <1>2, <1>5 DEF CounterIsKnown
  <2>4. NapsAreCovered'
    <3> SUFFICES ASSUME NEW t \in Nappers, naps[t] # Sleep!Off
                 PROVE  naps[t] >= 1 /\ naps[t] >= 1 - Sleep!Slack /\ owed[t] >= naps[t] - 0
      BY <1>1, <1>2, <1>5, <2>1 DEF NapsAreCovered, Napping
    <3> QED BY <1>2, SlackBounds
  <2> QED BY <2>2, <2>3, <2>4 DEF SleepInv
<1>6. ticking \in BOOLEAN
  BY DEF SleepInv, SleepType
<1> QED BY <1>3, <1>4, <1>5, <1>6, Zenon

\* Every step of the clock keeps what tickless idle rests on.
LEMMA NextSleepInv ==
  ASSUME SleepInv, [ClockNext]_clockvars
  PROVE  SleepInv'
<1>1. CASE UNCHANGED idlevars
  <2>1. /\ ledger' = ledger /\ owed' = owed /\ one_shot' = one_shot /\ ticking' = ticking
        /\ reload' = reload /\ count' = count /\ flag' = flag /\ pending' = pending
        /\ idle' = idle
    BY <1>1 DEF idlevars
  <2>2. Napping' = Napping /\ Unsettled' = Unsettled
    BY <2>1 DEF Napping, Unsettled
  <2>3. SleepType'
    BY <2>1 DEF SleepInv, SleepType
  <2>4. CounterIsKnown'
    BY <2>1, <2>2 DEF SleepInv, CounterIsKnown
  <2>5. NapsAreCovered'
    BY <2>1, <2>2 DEF SleepInv, NapsAreCovered
  <2> QED BY <2>3, <2>4, <2>5 DEF SleepInv
<1>2. CASE Sleep!Next
  BY <1>2, TickKeeps, HandlerKeeps, ArmKeeps, WaitKeeps, WakeKeeps, NapKeeps DEF Sleep!Next
<1>3. UNCHANGED idlevars \/ Sleep!Next
  BY DEF ClockNext, Timers_do, Calm_does, Idle_does, clockvars
<1> QED BY <1>1, <1>2, <1>3

\* LatenessIsBounded: the handler and idle agree on what a one-shot owes, and
\* while SysTick runs no nap is later than Slack, whatever tasks nap and however long.
THEOREM NapsAreLateByAShotAtMost == ClockSpec => []LatenessIsBounded
<1>1. ClockInit => SleepInv
  <2> SUFFICES ASSUME Sleep!Init PROVE SleepInv
    BY DEF ClockInit
  <2>1. Napping = {}
    BY DEF Sleep!Init, Napping
  <2>2. SleepType
    <3>1. /\ ledger \in [Nappers -> Int] /\ owed \in [Nappers -> Int]
          /\ one_shot \in Nat /\ reload \in Nat /\ count \in Nat
      BY DEF Sleep!Init, Sleep!Off
    <3>2. ticking \in BOOLEAN /\ flag \in BOOLEAN /\ pending \in BOOLEAN
      BY Zenon DEF Sleep!Init
    <3> QED BY <3>1, <3>2 DEF SleepType
  <2>3. CounterIsKnown
    <3>1. one_shot = 0 /\ reload = 1 /\ count = 1 /\ ticking
      BY DEF Sleep!Init
    <3> QED BY <3>1 DEF CounterIsKnown
  <2>4. NapsAreCovered
    BY <2>1 DEF NapsAreCovered
  <2> QED BY <2>2, <2>3, <2>4 DEF SleepInv
<1>2. SleepInv /\ [ClockNext]_clockvars => SleepInv'
  BY NextSleepInv
<1>3. SleepInv => LatenessIsBounded
  <2> SUFFICES ASSUME SleepInv PROVE LatenessIsBounded
    OBVIOUS
  <2>1. Sleep!OwesWhatRuns
    BY DEF SleepInv, CounterIsKnown, Sleep!OwesWhatRuns
  <2>2. ASSUME ticking, NEW t \in Sleep!Asleep PROVE owed[t] >= -Sleep!Slack
    <3>1. t \in Napping /\ t \in Nappers
      BY <2>2 DEF Napping, Sleep!Asleep
    <3>2. Unsettled \in Int /\ Unsettled <= reload /\ reload \in Int
      BY DEF SleepInv, SleepType, CounterIsKnown, Unsettled
    <3>3. ledger[t] >= reload - Sleep!Slack /\ owed[t] >= ledger[t] - Unsettled
      BY <2>2, <3>1 DEF SleepInv, NapsAreCovered
    <3>4. ledger[t] \in Int /\ owed[t] \in Int
      BY <3>1 DEF SleepInv, SleepType
    <3> QED BY <3>2, <3>3, <3>4, SlackBounds
  <2> QED BY <2>1, <2>2 DEF LatenessIsBounded, Sleep!LateByAShot
<1> QED BY <1>1, <1>2, <1>3, PTL DEF ClockSpec

=============================================================================
