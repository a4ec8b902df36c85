-------------------------- MODULE RingProofs -------------------------------
(***************************************************************************)
(* What the calls of an intrusive list do to the sequence of its nodes:    *)
(* where a node goes in, what a removal leaves, and that sorted insertion  *)
(* keeps a list without duplicates sorted.  Then what each operation of    *)
(* SchedulerCore does to a scheduler state whose rings are honest, for any *)
(* number of tasks, levels and slice ticks.                                *)
(***************************************************************************)
EXTENDS SchedulerCore, SequenceTheorems, WellFoundedInduction, TLAPS

-----------------------------------------------------------------------------
(* One node more, one node less.                                           *)

\* r is s with e inserted at place m.
InsertedAt(r, s, m, e) ==
  /\ Len(s) \in Nat
  /\ m \in 1 .. Len(s) + 1
  /\ Len(r) = Len(s) + 1
  /\ \A i \in 1 .. Len(s) + 1 :
       r[i] = IF i < m THEN s[i] ELSE IF i = m THEN e ELSE s[i - 1]

\* push_back inserts at the end.
LEMMA AppendInserts ==
  ASSUME NEW T, NEW s \in Seq(T), NEW e \in T
  PROVE  /\ Append(s, e) \in Seq(T)
         /\ Append(s, e) # << >>
         /\ InsertedAt(Append(s, e), s, Len(s) + 1, e)
BY DEF InsertedAt

\* push_front inserts at place one.
LEMMA PrependInserts ==
  ASSUME NEW T, NEW s \in Seq(T), NEW e \in T
  PROVE  /\ << e >> \o s \in Seq(T)
         /\ << e >> \o s # << >>
         /\ InsertedAt(<< e >> \o s, s, 1, e)
BY DEF InsertedAt

\* pop_head undoes an insertion at place one.
LEMMA TailRemoves ==
  ASSUME NEW T, NEW s \in Seq(T), s # << >>
  PROVE  /\ Tail(s) \in Seq(T)
         /\ Head(s) = s[1]
         /\ Head(s) \in T
         /\ InsertedAt(s, Tail(s), 1, Head(s))
         /\ Len(s) = 1 <=> Tail(s) = << >>
<1>1. /\ Tail(s) \in Seq(T) /\ Head(s) = s[1] /\ Head(s) \in T
      /\ Len(s) \in Nat /\ Len(s) >= 1
      /\ Len(Tail(s)) = Len(s) - 1
  OBVIOUS
<1>2. \A i \in 1 .. Len(s) - 1 : Tail(s)[i] = s[i + 1]
  OBVIOUS
<1>3. InsertedAt(s, Tail(s), 1, Head(s))
  BY <1>1, <1>2 DEF InsertedAt
<1>4. Len(s) = 1 <=> Tail(s) = << >>
  BY <1>1, EmptySeq, SMTT(30)
<1> QED BY <1>1, <1>3, <1>4

\* RemoveAt undoes an insertion at its place.
LEMMA RemoveAtRemoves ==
  ASSUME NEW T, NEW s \in Seq(T), NEW m \in 1 .. Len(s)
  PROVE  /\ RemoveAt(s, m) \in Seq(T)
         /\ InsertedAt(s, RemoveAt(s, m), m, s[m])
<1> DEFINE a == SubSeq(s, 1, m - 1)
           b == SubSeq(s, m + 1, Len(s))
<1>1. /\ a \in Seq(T) /\ Len(a) = m - 1
      /\ \A i \in 1 .. m - 1 : a[i] = s[i]
  OBVIOUS
<1>2. /\ b \in Seq(T) /\ Len(b) = Len(s) - m
      /\ \A i \in 1 .. Len(s) - m : b[i] = s[m + i]
  OBVIOUS
<1>r. RemoveAt(s, m) = a \o b
  BY DEF RemoveAt
<1> HIDE DEF a, b
<1>3. /\ a \o b \in Seq(T)
      /\ Len(a \o b) = Len(a) + Len(b)
      /\ \A i \in 1 .. Len(a) + Len(b) :
           (a \o b)[i] = IF i <= Len(a) THEN a[i] ELSE b[i - Len(a)]
  BY <1>1, <1>2, ConcatProperties
<1> DEFINE r == a \o b
<1>l. Len(s) \in Nat
  OBVIOUS
<1> HIDE DEF r
<1>4. Len(r) = Len(s) - 1
  BY <1>1, <1>2, <1>3, <1>l DEF r
<1>5. \A i \in 1 .. Len(r) + 1 :
        s[i] = IF i < m THEN r[i] ELSE IF i = m THEN s[m] ELSE r[i - 1]
  <2> SUFFICES ASSUME NEW i \in 1 .. Len(s)
               PROVE  s[i] = IF i < m THEN r[i] ELSE IF i = m THEN s[m] ELSE r[i - 1]
    BY <1>4, <1>l
  <2>1. CASE i < m
    BY <2>1, <1>1, <1>2, <1>3, <1>l DEF r
  <2>2. CASE i > m
    <3>1. /\ i - 1 \in 1 .. Len(a) + Len(b)
          /\ ~(i - 1 <= Len(a)) /\ i - 1 - Len(a) = i - m
          /\ i - m \in 1 .. Len(s) - m
      BY <2>2, <1>1, <1>2, <1>l
    <3>2. r[i - 1] = b[i - m] /\ b[i - m] = s[m + (i - m)]
      BY <3>1, <1>2, <1>3 DEF r
    <3> QED BY <2>2, <3>2, <1>l
  <2> QED BY <2>1, <2>2, <1>l
<1>6. InsertedAt(s, r, m, s[m])
  BY <1>4, <1>5, <1>l DEF InsertedAt
<1> QED BY <1>r, <1>3, <1>6 DEF r

\* InsertAt inserts at its place.
LEMMA InsertAtInserts ==
  ASSUME NEW T, NEW s \in Seq(T), NEW m \in 1 .. Len(s) + 1, NEW e \in T
  PROVE  /\ InsertAt(s, m, e) \in Seq(T)
         /\ InsertedAt(InsertAt(s, m, e), s, m, e)
<1> DEFINE a == SubSeq(s, 1, m - 1)
           b == SubSeq(s, m, Len(s))
           ae == a \o << e >>
           r == ae \o b
<1>l. Len(s) \in Nat
  OBVIOUS
<1>1. /\ a \in Seq(T) /\ Len(a) = m - 1
      /\ \A i \in 1 .. m - 1 : a[i] = s[i]
  OBVIOUS
<1>2. /\ b \in Seq(T) /\ Len(b) = Len(s) + 1 - m
      /\ \A i \in 1 .. Len(s) + 1 - m : b[i] = s[m + i - 1]
  OBVIOUS
<1>r. InsertAt(s, m, e) = r
  BY DEF InsertAt
<1> HIDE DEF a, b
<1>3. /\ ae \in Seq(T) /\ Len(ae) = m
      /\ \A i \in 1 .. m : ae[i] = IF i < m THEN s[i] ELSE e
  <2>1. << e >> \in Seq(T) /\ Len(<< e >>) = 1 /\ << e >>[1] = e
    OBVIOUS
  <2>2. /\ ae \in Seq(T) /\ Len(ae) = Len(a) + 1
        /\ \A i \in 1 .. Len(a) + 1 : ae[i] = IF i <= Len(a) THEN a[i] ELSE << e >>[i - Len(a)]
    BY <1>1, <2>1, ConcatProperties
  <2> QED BY <2>1, <2>2, <1>1, <1>l, SMTT(30)
<1> HIDE DEF ae
<1>4. /\ r \in Seq(T) /\ Len(r) = Len(ae) + Len(b)
      /\ \A i \in 1 .. Len(ae) + Len(b) : r[i] = IF i <= Len(ae) THEN ae[i] ELSE b[i - Len(ae)]
  BY <1>2, <1>3, ConcatProperties
<1> HIDE DEF r
<1>5. Len(r) = Len(s) + 1
  BY <1>2, <1>3, <1>4, <1>l
<1>6. ASSUME NEW i \in 1 .. Len(s) + 1
      PROVE  r[i] = IF i < m THEN s[i] ELSE IF i = m THEN e ELSE s[i - 1]
  <2>1. CASE i <= m
    BY <2>1, <1>2, <1>3, <1>4, <1>l
  <2>2. CASE i > m
    <3>1. r[i] = b[i - m] /\ i - m \in 1 .. Len(s) + 1 - m
      BY <2>2, <1>2, <1>3, <1>4, <1>l
    <3>2. b[i - m] = s[m + (i - m) - 1]
      BY <3>1, <1>2
    <3> QED BY <2>2, <3>1, <3>2, <1>l
  <2> QED BY <2>1, <2>2, <1>l
<1> QED BY <1>r, <1>4, <1>5, <1>6, <1>l DEF InsertedAt

\* The walk of insert has a place to stop at.
LEMMA SlotStops ==
  ASSUME NEW T, NEW s \in Seq(T), NEW later
  PROVE  /\ Slot(s, later) \in 1 .. Len(s) + 1
         /\ Slot(s, later) <= Len(s) => s[Slot(s, later)] \in later
         /\ \A j \in 1 .. Slot(s, later) - 1 : s[j] \notin later
<1> DEFINE R == {ss \in Nat \X Nat : ss[1] < ss[2]}
           Stops == {i \in 1 .. Len(s) + 1 : i <= Len(s) => s[i] \in later}
<1>l. Len(s) \in Nat
  OBVIOUS
<1>1. Stops \subseteq Nat /\ Stops # {}
  <2>1. Len(s) + 1 \in Stops
    BY <1>l
  <2> QED BY <2>1, <1>l
<1>2. IsWellFoundedOn(R, Nat)
  BY NatLessThanWellFounded DEF OpToRel
<1>3. \A x, y \in Nat : << y, x >> \in R <=> y < x
  OBVIOUS
<1> HIDE DEF R
<1>4. PICK x \in Stops : \A y \in Stops : ~(<< y, x >> \in R)
  <2> HIDE DEF Stops
  <2> QED BY <1>1, <1>2, WFMin
<1>5. ASSUME NEW j \in 1 .. x - 1
      PROVE  s[j] \notin later
  <2>1. x \in Nat /\ j \in Nat /\ j < x /\ j <= Len(s) /\ j \in 1 .. Len(s) + 1
    BY <1>l, <1>4
  <2>2. j \notin Stops
    BY <2>1, <1>3, <1>4
  <2> QED BY <2>1, <2>2
<1>6. /\ x \in 1 .. Len(s) + 1
      /\ x <= Len(s) => s[x] \in later
      /\ \A j \in 1 .. x - 1 : s[j] \notin later
  BY <1>4, <1>5
<1> HIDE DEF Stops
<1> QED BY <1>6 DEF Slot

\* remove takes one node out, or finds none.
LEMMA RemoveRemoves ==
  ASSUME NEW T, NEW s \in Seq(T), NEW e
  PROVE  /\ remove(s, e) \in Seq(T)
         /\ Contains(s, e) => \E m \in 1 .. Len(s) : InsertedAt(s, remove(s, e), m, e)
         /\ ~Contains(s, e) => remove(s, e) = s
<1>1. CASE Contains(s, e)
  <2> DEFINE m == CHOOSE i \in 1 .. Len(s) : s[i] = e
  <2>1. m \in 1 .. Len(s) /\ s[m] = e
    BY <1>1 DEF Contains
  <2>2. remove(s, e) = RemoveAt(s, m)
    BY <1>1 DEF remove
  <2> HIDE DEF m
  <2> QED BY <1>1, <2>1, <2>2, RemoveAtRemoves
<1>2. CASE ~Contains(s, e)
  BY <1>2 DEF remove
<1> QED BY <1>1, <1>2

-----------------------------------------------------------------------------
(* What an insertion does to a list as a whole.                            *)

\* No node is linked twice.
LinkedOnce(s) == \A i, j \in 1 .. Len(s) : s[i] = s[j] => i = j

\* The nodes are in the order of f.
InOrderOf(s, f) == \A i, j \in 1 .. Len(s) : i <= j => f[s[i]] <= f[s[j]]

\* An insertion adds its node and no other.
LEMMA InsertedContains ==
  ASSUME NEW r, NEW s, NEW m, NEW e, InsertedAt(r, s, m, e)
  PROVE  \A x : Contains(r, x) <=> x = e \/ Contains(s, x)
<1> USE DEF InsertedAt, Contains
<1>1. ASSUME NEW i \in 1 .. Len(s)
      PROVE  \E j \in 1 .. Len(r) : r[j] = s[i]
  <2>1. CASE i < m
    BY <2>1
  <2>2. CASE i >= m
    <3>1. i + 1 \in 1 .. Len(r) /\ r[i + 1] = s[i + 1 - 1] /\ i + 1 - 1 = i
      BY <2>2
    <3> QED BY <3>1
  <2> QED BY <2>1, <2>2
<1>2. m \in 1 .. Len(r) /\ r[m] = e
  OBVIOUS
<1>3. ASSUME NEW j \in 1 .. Len(r)
      PROVE  r[j] = e \/ \E i \in 1 .. Len(s) : s[i] = r[j]
  <2>1. CASE j < m
    BY <2>1
  <2>2. CASE j > m
    <3>1. j - 1 \in 1 .. Len(s) /\ r[j] = s[j - 1]
      BY <2>2
    <3> QED BY <3>1
  <2>3. CASE j = m
    BY <2>3
  <2> QED BY <2>1, <2>2, <2>3
<1> QED BY <1>1, <1>2, <1>3

\* A node that is new is linked once, and nothing else is linked twice.
LEMMA InsertedLinkedOnce ==
  ASSUME NEW r, NEW s, NEW m, NEW e, InsertedAt(r, s, m, e)
  PROVE  LinkedOnce(r) <=> LinkedOnce(s) /\ ~Contains(s, e)
<1> USE DEF InsertedAt, LinkedOnce, Contains
<1> DEFINE P(i) == IF i < m THEN i ELSE i + 1
<1>1. \A i \in 1 .. Len(s) : P(i) \in 1 .. Len(r) \ {m} /\ r[P(i)] = s[i]
  OBVIOUS
<1>2. \A i, j \in 1 .. Len(s) : P(i) = P(j) => i = j
  OBVIOUS
<1>3. ASSUME LinkedOnce(r)
      PROVE  LinkedOnce(s) /\ ~Contains(s, e)
  <2>1. ASSUME NEW i \in 1 .. Len(s), NEW j \in 1 .. Len(s), s[i] = s[j]
        PROVE  i = j
    <3>1. P(i) = P(j)
      BY <1>1, <1>3, <2>1
    <3> QED BY <1>2, <3>1
  <2>2. ASSUME NEW i \in 1 .. Len(s), s[i] = e
        PROVE  FALSE
    <3>1. P(i) \in 1 .. Len(r) /\ m \in 1 .. Len(r) /\ P(i) # m /\ r[P(i)] = r[m]
      BY <1>1, <2>2
    <3> QED BY <1>3, <3>1
  <2> QED BY <2>1, <2>2
<1>4. ASSUME LinkedOnce(s), ~Contains(s, e), NEW i \in 1 .. Len(r), NEW j \in 1 .. Len(r),
             r[i] = r[j]
      PROVE  i = j
  <2> DEFINE Q(n) == IF n < m THEN n ELSE n - 1
  <2>1. \A n \in 1 .. Len(r) : n # m => Q(n) \in 1 .. Len(s) /\ r[n] = s[Q(n)]
    OBVIOUS
  <2>2. CASE i = m \/ j = m
    BY <1>4, <2>1, <2>2
  <2>3. CASE i # m /\ j # m
    <3>1. Q(i) = Q(j)
      BY <1>4, <2>1, <2>3, SMTT(30)
    <3> QED BY <2>3, <3>1
  <2> QED BY <2>2, <2>3
<1> QED BY <1>3, <1>4

\* A node put between the ones that come no later and the ones that come no
\* sooner keeps the order, and so does taking a node out.
LEMMA InsertedInOrder ==
  ASSUME NEW r, NEW s, NEW m, NEW e, InsertedAt(r, s, m, e), NEW f,
         \A i \in 1 .. Len(s) : f[s[i]] \in Int, f[e] \in Int
  PROVE  /\ InOrderOf(r, f) => InOrderOf(s, f)
         /\ /\ InOrderOf(s, f)
            /\ \A i \in 1 .. m - 1 : f[s[i]] <= f[e]
            /\ m <= Len(s) => f[e] <= f[s[m]]
            => InOrderOf(r, f)
<1> USE DEF InsertedAt, InOrderOf
<1>1. ASSUME InOrderOf(r, f), NEW i \in 1 .. Len(s), NEW j \in 1 .. Len(s), i <= j
      PROVE  f[s[i]] <= f[s[j]]
  <2> DEFINE P(n) == IF n < m THEN n ELSE n + 1
  <2>1. \A n \in 1 .. Len(s) : P(n) \in 1 .. Len(r) /\ r[P(n)] = s[n]
    OBVIOUS
  <2>2. P(i) <= P(j)
    BY <1>1
  <2> QED BY <1>1, <2>1, <2>2
<1>2. ASSUME InOrderOf(s, f), \A i \in 1 .. m - 1 : f[s[i]] <= f[e],
             m <= Len(s) => f[e] <= f[s[m]],
             NEW i \in 1 .. Len(r), NEW j \in 1 .. Len(r), i < j
      PROVE  f[r[i]] <= f[r[j]]
  <2>1. CASE j < m
    BY <1>2, <2>1
  <2>2. CASE j = m
    BY <1>2, <2>2
  <2>3. CASE i < m /\ m < j
    <3>1. i \in 1 .. Len(s) /\ j - 1 \in 1 .. Len(s) /\ i <= j - 1 /\ r[i] = s[i] /\ r[j] = s[j - 1]
      BY <2>3
    <3> QED BY <1>2, <3>1
  <2>4. CASE i = m
    <3>1. /\ r[i] = e /\ r[j] = s[j - 1]
          /\ m \in 1 .. Len(s) /\ j - 1 \in 1 .. Len(s) /\ m <= j - 1
      BY <1>2, <2>4
    <3>2. f[e] <= f[s[m]] /\ f[s[m]] <= f[s[j - 1]]
      BY <1>2, <3>1
    <3> QED BY <3>1, <3>2
  <2>5. CASE i > m
    <3>1. /\ i - 1 \in 1 .. Len(s) /\ j - 1 \in 1 .. Len(s) /\ i - 1 <= j - 1
          /\ r[i] = s[i - 1] /\ r[j] = s[j - 1]
      BY <1>2, <2>5
    <3> QED BY <1>2, <3>1
  <2> QED BY <1>2, <2>1, <2>2, <2>3, <2>4, <2>5
<1>3. ASSUME NEW i \in 1 .. Len(r)
      PROVE  f[r[i]] \in Int
  <2>1. CASE i < m
    <3>1. i \in 1 .. Len(s) /\ r[i] = s[i]
      BY <2>1
    <3> QED BY <3>1
  <2>2. CASE i = m
    BY <2>2
  <2>3. CASE i > m
    <3>1. i - 1 \in 1 .. Len(s) /\ r[i] = s[i - 1]
      BY <2>3
    <3> QED BY <3>1
  <2> QED BY <2>1, <2>2, <2>3
<1>4. ASSUME InOrderOf(s, f), \A i \in 1 .. m - 1 : f[s[i]] <= f[e],
             m <= Len(s) => f[e] <= f[s[m]],
             NEW i \in 1 .. Len(r), NEW j \in 1 .. Len(r), i <= j
      PROVE  f[r[i]] <= f[r[j]]
  <2>1. CASE i = j
    BY <1>3, <2>1
  <2>2. CASE i < j
    BY <1>2, <1>4, <2>2
  <2> QED BY <1>4, <2>1, <2>2
<1> QED BY <1>1, <1>4

-----------------------------------------------------------------------------
(* What keeps rings honest.                                                *)

\* Rings that stand still stay honest about every task whose fields stand
\* still, and about tasks that are in no ring and are not Ready.
LEMMA FrameHonest ==
  ASSUME NEW ker, NEW q, NEW S, NEW S2, HonestRings(ker, S),
         q.fifo = ker.fifo, q.present = ker.present,
         \A u \in S \cap S2 : q.prio[u] = ker.prio[u] /\ q.state[u] = ker.state[u],
         \A u \in S \ S2 : ker.state[u] # "Ready",
         \A u \in S2 \ S : q.state[u] # "Ready"
  PROVE  HonestRings(q, S2)
<1>1. PresentIsNonEmpty(q)
  BY DEF HonestRings, PresentIsNonEmpty
<1>2. RingsHoldReadyTasks(q, S2)
  BY DEF HonestRings, RingsHoldReadyTasks
<1>3. RingsHaveNoDuplicate(q)
  BY DEF HonestRings, RingsHaveNoDuplicate
<1>4. ReadyTasksAreInRings(q, S2)
  BY DEF HonestRings, ReadyTasksAreInRings
<1> QED BY <1>1, <1>2, <1>3, <1>4 DEF HonestRings

\* Inserting a Ready task that no ring holds into the ring of its priority.
LEMMA InsertHonest ==
  ASSUME NEW ker, NEW q, NEW S \in SUBSET Tasks, NEW t \in Tasks \ S, NEW p \in Levels,
         NEW r, NEW m,
         IsKernel(ker), HonestRings(ker, S),
         q.fifo = [ker.fifo EXCEPT ![p] = r],
         q.present = ker.present \cup {p},
         InsertedAt(r, ker.fifo[p], m, t), r # << >>,
         \A u \in S : q.prio[u] = ker.prio[u] /\ q.state[u] = ker.state[u],
         q.prio[t] = p, q.state[t] = "Ready"
  PROVE  HonestRings(q, S \cup {t})
<1>1. /\ ker.fifo \in [Levels -> Seq(Tasks)]
      /\ ker.present \in SUBSET Levels
      /\ \A u \in S : ker.prio[u] \in Levels
  BY DEF IsKernel, KernelType
<1> DEFINE s == ker.fifo[p]
<1>2. \A l \in Levels : q.fifo[l] = IF l = p THEN r ELSE ker.fifo[l]
  BY <1>1
<1>3. /\ Len(s) \in Nat /\ m \in 1 .. Len(s) + 1 /\ Len(r) = Len(s) + 1
      /\ \A i \in 1 .. Len(s) + 1 :
           r[i] = IF i < m THEN s[i] ELSE IF i = m THEN t ELSE s[i - 1]
  BY DEF InsertedAt
<1> HIDE DEF s
<1>4. PresentIsNonEmpty(q)
  BY <1>1, <1>2 DEF HonestRings, PresentIsNonEmpty
<1>5. RingsHoldReadyTasks(q, S \cup {t})
  <2> SUFFICES ASSUME NEW l \in Levels, NEW i \in 1 .. Len(q.fifo[l])
               PROVE  /\ q.fifo[l][i] \in S \cup {t}
                      /\ q.state[q.fifo[l][i]] = "Ready"
                      /\ q.prio[q.fifo[l][i]] = l
    BY DEF RingsHoldReadyTasks
  <2>1. CASE l # p
    BY <2>1, <1>2 DEF HonestRings, RingsHoldReadyTasks
  <2>2. CASE l = p
    <3>1. q.fifo[l] = r /\ i \in 1 .. Len(s) + 1
      BY <2>2, <1>2, <1>3
    <3>2. r[i] = t \/ \E j \in 1 .. Len(s) : r[i] = s[j]
      BY <3>1, <1>3
    <3>3. \A j \in 1 .. Len(s) : s[j] \in S /\ ker.state[s[j]] = "Ready" /\ ker.prio[s[j]] = p
      BY DEF HonestRings, RingsHoldReadyTasks, s
    <3> QED BY <2>2, <3>1, <3>2, <3>3
  <2> QED BY <2>1, <2>2
<1>6. RingsHaveNoDuplicate(q)
  <2> SUFFICES ASSUME NEW l \in Levels, NEW i \in 1 .. Len(q.fifo[l]),
                      NEW j \in 1 .. Len(q.fifo[l]), q.fifo[l][i] = q.fifo[l][j]
               PROVE  i = j
    BY DEF RingsHaveNoDuplicate
  <2>1. CASE l # p
    BY <2>1, <1>2 DEF HonestRings, RingsHaveNoDuplicate
  <2>2. CASE l = p
    <3>1. /\ q.fifo[l] = r /\ i \in 1 .. Len(s) + 1 /\ j \in 1 .. Len(s) + 1
      BY <2>2, <1>2, <1>3
    <3>2. \A x \in 1 .. Len(s) : s[x] # t
      BY DEF HonestRings, RingsHoldReadyTasks, s
    <3>3. \A x, y \in 1 .. Len(s) : s[x] = s[y] => x = y
      BY DEF HonestRings, RingsHaveNoDuplicate, s
    <3>4. \A x \in 1 .. Len(s) + 1 : x # m =>
            /\ (IF x < m THEN x ELSE x - 1) \in 1 .. Len(s)
            /\ r[x] = s[IF x < m THEN x ELSE x - 1]
      BY <1>3
    <3>5. r[m] = t /\ \A x \in 1 .. Len(s) + 1 : x # m => r[x] # t
      BY <3>2, <3>4, <1>3
    <3>6. CASE i = m \/ j = m
      BY <3>1, <3>5, <3>6
    <3>7. CASE i # m /\ j # m
      <4>1. (IF i < m THEN i ELSE i - 1) = (IF j < m THEN j ELSE j - 1)
        BY <3>1, <3>3, <3>4, <3>7, SMTT(30)
      <4> QED BY <4>1, <3>1, <3>7, <1>3
    <3> QED BY <3>6, <3>7
  <2> QED BY <2>1, <2>2
<1>7. ReadyTasksAreInRings(q, S \cup {t})
  <2> SUFFICES ASSUME NEW u \in S \cup {t}, q.state[u] = "Ready"
               PROVE  \E i \in 1 .. Len(q.fifo[q.prio[u]]) : q.fifo[q.prio[u]][i] = u
    BY DEF ReadyTasksAreInRings
  <2>1. CASE u = t
    BY <2>1, <1>2, <1>3
  <2>2. CASE u \in S
    <3>1. PICK i \in 1 .. Len(ker.fifo[ker.prio[u]]) : ker.fifo[ker.prio[u]][i] = u
      BY <2>2 DEF HonestRings, ReadyTasksAreInRings
    <3>2. ker.prio[u] \in Levels /\ q.prio[u] = ker.prio[u]
      BY <2>2, <1>1
    <3>3. CASE ker.prio[u] # p
      BY <3>1, <3>2, <3>3, <1>2
    <3>4. CASE ker.prio[u] = p
      <4>1. s[i] = u /\ i \in 1 .. Len(s) /\ q.fifo[q.prio[u]] = r
        BY <3>1, <3>2, <3>4, <1>2 DEF s
      <4>2. r[IF i < m THEN i ELSE i + 1] = u
        BY <4>1, <1>3
      <4> QED BY <4>1, <4>2, <1>3, SMTT(30)
    <3> QED BY <3>3, <3>4
  <2> QED BY <2>1, <2>2
<1> QED BY <1>4, <1>5, <1>6, <1>7 DEF HonestRings

\* Taking a task out of the ring that holds it.
LEMMA RemoveHonest ==
  ASSUME NEW ker, NEW q, NEW S \in SUBSET Tasks, NEW t \in S, NEW p \in Levels,
         NEW r, NEW m,
         IsKernel(ker), HonestRings(ker, S),
         q.fifo = [ker.fifo EXCEPT ![p] = r],
         q.present = (IF r = << >> THEN ker.present \ {p} ELSE ker.present),
         r \in Seq(Tasks), InsertedAt(ker.fifo[p], r, m, t),
         \A u \in S \ {t} : q.prio[u] = ker.prio[u] /\ q.state[u] = ker.state[u]
  PROVE  HonestRings(q, S \ {t})
<1>1. /\ ker.fifo \in [Levels -> Seq(Tasks)]
      /\ ker.present \in SUBSET Levels
      /\ \A u \in S : ker.prio[u] \in Levels
  BY DEF IsKernel, KernelType
<1> DEFINE s == ker.fifo[p]
<1>2. \A l \in Levels : q.fifo[l] = IF l = p THEN r ELSE ker.fifo[l]
  BY <1>1
<1>3. /\ Len(r) \in Nat /\ m \in 1 .. Len(r) + 1 /\ Len(s) = Len(r) + 1
      /\ \A i \in 1 .. Len(r) + 1 :
           s[i] = IF i < m THEN r[i] ELSE IF i = m THEN t ELSE r[i - 1]
  BY DEF InsertedAt
<1>a. \A i \in 1 .. Len(s) : s[i] \in S /\ ker.state[s[i]] = "Ready" /\ ker.prio[s[i]] = p
  BY DEF HonestRings, RingsHoldReadyTasks
<1>b. \A i, j \in 1 .. Len(s) : s[i] = s[j] => i = j
  BY DEF HonestRings, RingsHaveNoDuplicate
<1> HIDE DEF s
<1>c. \A i \in 1 .. Len(r) : /\ (IF i < m THEN i ELSE i + 1) \in 1 .. Len(s)
                             /\ r[i] = s[IF i < m THEN i ELSE i + 1]
  BY <1>3
<1>d. s[m] = t /\ m \in 1 .. Len(s)
  BY <1>3
<1>e. s # << >>
  BY <1>3
<1>4. PresentIsNonEmpty(q)
  BY <1>1, <1>2, <1>e DEF HonestRings, PresentIsNonEmpty, s
<1>5. RingsHoldReadyTasks(q, S \ {t})
  <2> SUFFICES ASSUME NEW l \in Levels, NEW i \in 1 .. Len(q.fifo[l])
               PROVE  /\ q.fifo[l][i] \in S \ {t}
                      /\ q.state[q.fifo[l][i]] = "Ready"
                      /\ q.prio[q.fifo[l][i]] = l
    BY DEF RingsHoldReadyTasks
  <2>1. CASE l # p
    <3>1. q.fifo[l] = ker.fifo[l] /\ i \in 1 .. Len(ker.fifo[l])
      BY <2>1, <1>2
    <3>2. /\ ker.fifo[l][i] \in S /\ ker.state[ker.fifo[l][i]] = "Ready"
          /\ ker.prio[ker.fifo[l][i]] = l
      BY <3>1 DEF HonestRings, RingsHoldReadyTasks
    <3>3. ker.fifo[l][i] # t
      BY <2>1, <3>2, <1>a, <1>d
    <3> QED BY <3>1, <3>2, <3>3
  <2>2. CASE l = p
    <3>1. q.fifo[l] = r /\ i \in 1 .. Len(r)
      BY <2>2, <1>2
    <3>2. r[i] # t
      BY <3>1, <1>b, <1>c, <1>d, <1>3
    <3>3. /\ r[i] \in S /\ ker.state[r[i]] = "Ready" /\ ker.prio[r[i]] = p
      BY <3>1, <1>a, <1>c
    <3> QED BY <2>2, <3>1, <3>2, <3>3
  <2> QED BY <2>1, <2>2
<1>6. RingsHaveNoDuplicate(q)
  <2> SUFFICES ASSUME NEW l \in Levels, NEW i \in 1 .. Len(q.fifo[l]),
                      NEW j \in 1 .. Len(q.fifo[l]), q.fifo[l][i] = q.fifo[l][j]
               PROVE  i = j
    BY DEF RingsHaveNoDuplicate
  <2>1. CASE l # p
    BY <2>1, <1>2 DEF HonestRings, RingsHaveNoDuplicate
  <2>2. CASE l = p
    <3>1. q.fifo[l] = r /\ i \in 1 .. Len(r) /\ j \in 1 .. Len(r)
      BY <2>2, <1>2
    <3> QED BY <3>1, <1>b, <1>c, <1>3
  <2> QED BY <2>1, <2>2
<1>7. ReadyTasksAreInRings(q, S \ {t})
  <2> SUFFICES ASSUME NEW u \in S \ {t}, q.state[u] = "Ready"
               PROVE  \E i \in 1 .. Len(q.fifo[q.prio[u]]) : q.fifo[q.prio[u]][i] = u
    BY DEF ReadyTasksAreInRings
  <2>1. PICK i \in 1 .. Len(ker.fifo[ker.prio[u]]) : ker.fifo[ker.prio[u]][i] = u
    BY DEF HonestRings, ReadyTasksAreInRings
  <2>2. ker.prio[u] \in Levels /\ q.prio[u] = ker.prio[u]
    BY <1>1
  <2>3. CASE ker.prio[u] # p
    BY <2>1, <2>2, <2>3, <1>2
  <2>4. CASE ker.prio[u] = p
    <3>1. s[i] = u /\ i \in 1 .. Len(s) /\ q.fifo[q.prio[u]] = r
      BY <2>1, <2>2, <2>4, <1>2 DEF s
    <3>2. i # m
      BY <3>1, <1>d
    <3>3. r[IF i < m THEN i ELSE i - 1] = u
      BY <3>1, <3>2, <1>3
    <3> QED BY <3>1, <3>2, <3>3, <1>3
  <2> QED BY <2>3, <2>4
<1> QED BY <1>4, <1>5, <1>6, <1>7 DEF HonestRings

-----------------------------------------------------------------------------
(* The operations, one lemma each.                                         *)

\* The fields a ring operation never touches.
Untouched(q, ker) ==
  /\ q.prio = ker.prio
  /\ q.current = ker.current
  /\ q.letter = ker.letter
  /\ q.has = ker.has

\* push_back: a task that is in no ring ends up Ready at the end of its ring.
LEMMA PushBack ==
  ASSUME NEW ker, IsKernel(ker), NEW S \in SUBSET Tasks, NEW t \in Tasks \ S,
         HonestRings(ker, S)
  PROVE  /\ IsKernel(push_back(ker, t))
         /\ HonestRings(push_back(ker, t), S \cup {t})
         /\ push_back(ker, t).state = [ker.state EXCEPT ![t] = "Ready"]
         /\ Untouched(push_back(ker, t), ker)
         /\ push_back(ker, t).served = ker.served
         /\ push_back(ker, t).pend = ker.pend
<1> DEFINE p == ker.prio[t]
           ring == Append(ker.fifo[p], t)
           fifo == [ker.fifo EXCEPT ![p] = ring]
           state == [ker.state EXCEPT ![t] = "Ready"]
           present == ker.present \cup {p}
           q == [ker EXCEPT !.state = state, !.fifo = fifo, !.present = present]
<1>1. p \in Levels
  BY DEF IsKernel
<1>2. push_back(ker, t) = q
  BY <1>1, LevelsAssumption DEF push_back, Levels
<1>3. /\ ring \in Seq(Tasks) /\ ring # << >>
      /\ InsertedAt(ring, ker.fifo[p], Len(ker.fifo[p]) + 1, t)
  BY <1>1, AppendInserts DEF IsKernel, KernelType
<1>4. fifo \in [Levels -> Seq(Tasks)] /\ state \in [Threads -> TaskState] /\ present \in SUBSET Levels
  BY <1>1, <1>3 DEF IsKernel, KernelType, TaskState
<1>5. /\ IsKernel(q)
      /\ q.state = state /\ q.fifo = fifo /\ q.present = present
      /\ Untouched(q, ker) /\ q.served = ker.served /\ q.pend = ker.pend
  <2> HIDE DEF state, fifo, present
  <2> QED BY <1>4 DEF IsKernel, KernelType, Untouched
<1>6. /\ \A u \in S : q.prio[u] = ker.prio[u] /\ q.state[u] = ker.state[u]
      /\ q.prio[t] = p /\ q.state[t] = "Ready"
  BY <1>5 DEF Untouched, IsKernel, KernelType, Threads
<1>7. HonestRings(q, S \cup {t})
  <2> DEFINE m == Len(ker.fifo[p]) + 1
  <2>1. InsertedAt(ring, ker.fifo[p], m, t) /\ ring # << >>
    BY <1>3
  <2>2. q.fifo = [ker.fifo EXCEPT ![p] = ring] /\ q.present = ker.present \cup {p}
    BY <1>5
  <2> HIDE DEF q, ring, p, m, fifo, present, state
  <2> QED BY <1>1, <1>6, <2>1, <2>2, InsertHonest
<1> QED BY <1>2, <1>5, <1>7

\* push_front: the same at the head of the ring.
LEMMA PushFront ==
  ASSUME NEW ker, IsKernel(ker), NEW S \in SUBSET Tasks, NEW t \in Tasks \ S,
         HonestRings(ker, S)
  PROVE  /\ IsKernel(push_front(ker, t))
         /\ HonestRings(push_front(ker, t), S \cup {t})
         /\ push_front(ker, t).state = [ker.state EXCEPT ![t] = "Ready"]
         /\ Untouched(push_front(ker, t), ker)
         /\ push_front(ker, t).served = ker.served
         /\ push_front(ker, t).pend = ker.pend
         /\ push_front(ker, t).fifo[ker.prio[t]][1] = t
<1> DEFINE p == ker.prio[t]
           ring == << t >> \o ker.fifo[p]
           fifo == [ker.fifo EXCEPT ![p] = ring]
           state == [ker.state EXCEPT ![t] = "Ready"]
           present == ker.present \cup {p}
           q == [ker EXCEPT !.state = state, !.fifo = fifo, !.present = present]
<1>1. p \in Levels
  BY DEF IsKernel
<1>2. push_front(ker, t) = q
  BY <1>1, LevelsAssumption DEF push_front, Levels
<1>3. /\ ring \in Seq(Tasks) /\ ring # << >>
      /\ InsertedAt(ring, ker.fifo[p], 1, t)
  BY <1>1, PrependInserts DEF IsKernel, KernelType
<1>4. fifo \in [Levels -> Seq(Tasks)] /\ state \in [Threads -> TaskState] /\ present \in SUBSET Levels
  BY <1>1, <1>3 DEF IsKernel, KernelType, TaskState
<1>5. /\ IsKernel(q)
      /\ q.state = state /\ q.fifo = fifo /\ q.present = present
      /\ Untouched(q, ker) /\ q.served = ker.served /\ q.pend = ker.pend
  <2> HIDE DEF state, fifo, present
  <2> QED BY <1>4 DEF IsKernel, KernelType, Untouched
<1>6. /\ \A u \in S : q.prio[u] = ker.prio[u] /\ q.state[u] = ker.state[u]
      /\ q.prio[t] = p /\ q.state[t] = "Ready"
  BY <1>5 DEF Untouched, IsKernel, KernelType, Threads
<1>7. HonestRings(q, S \cup {t})
  <2> DEFINE m == 1
  <2>1. InsertedAt(ring, ker.fifo[p], m, t) /\ ring # << >>
    BY <1>3
  <2>2. q.fifo = [ker.fifo EXCEPT ![p] = ring] /\ q.present = ker.present \cup {p}
    BY <1>5
  <2> HIDE DEF q, ring, p, m, fifo, present, state
  <2> QED BY <1>1, <1>6, <2>1, <2>2, InsertHonest
<1>8. q.fifo[p][1] = t
  <2>1. ring[1] = t
    BY <1>1 DEF IsKernel, KernelType
  <2> QED BY <1>1, <1>5, <2>1 DEF IsKernel, KernelType
<1> QED BY <1>2, <1>5, <1>7, <1>8

\* Every non-empty bitmap has a first set bit.
LEMMA FirstSet ==
  ASSUME NEW present \in SUBSET Levels, present # {}
  PROVE  /\ find_first_set(present) \in present
         /\ \A m \in present : find_first_set(present) <= m
<1> DEFINE R == {ss \in Nat \X Nat : ss[1] < ss[2]}
<1>1. present \subseteq Nat
  BY LevelsAssumption DEF Levels
<1>2. IsWellFoundedOn(R, Nat)
  BY NatLessThanWellFounded DEF OpToRel
<1>3. \A x, y \in Nat : << y, x >> \in R <=> y < x
  OBVIOUS
<1> HIDE DEF R
<1>4. PICK x \in present : \A y \in present : ~(<< y, x >> \in R)
  BY <1>1, <1>2, WFMin
<1>5. ASSUME NEW m \in present
      PROVE  x <= m
  <2>1. x \in Nat /\ m \in Nat
    BY <1>1
  <2>2. ~(m < x)
    BY <2>1, <1>3, <1>4, Zenon
  <2> QED BY <2>1, <2>2
<1> QED BY <1>5 DEF find_first_set

\* The rings have nothing to say about a task that is not Ready.
LEMMA NotReadyIsOut ==
  ASSUME NEW ker, NEW S, NEW t \in S, HonestRings(ker, S), ker.state[t] # "Ready"
  PROVE  HonestRings(ker, S \ {t})
BY FrameHonest

\* add, and ready of a blocked task: Ready at the end of its ring, with a
\* switch pending whenever it outranks the running task.
LEMMA Admit ==
  ASSUME NEW ker, IsKernel(ker), NEW S \in SUBSET Tasks, NEW t \in Tasks \ S,
         HonestRings(ker, S)
  PROVE  /\ IsKernel(admit(ker, t))
         /\ HonestRings(admit(ker, t), S \cup {t})
         /\ admit(ker, t).state = [ker.state EXCEPT ![t] = "Ready"]
         /\ Untouched(admit(ker, t), ker)
         /\ ker.pend => admit(ker, t).pend
         /\ ker.current # None /\ ker.prio[t] < ker.prio[ker.current] => admit(ker, t).pend
         /\ ker.current = None => admit(ker, t).pend = ker.pend
<1> DEFINE b == push_back(ker, t)
           q == admit(ker, t)
<1>1. /\ IsKernel(b) /\ HonestRings(b, S \cup {t}) /\ Untouched(b, ker)
      /\ b.state = [ker.state EXCEPT ![t] = "Ready"] /\ b.pend = ker.pend
  BY PushBack
<1>2. q = IF b.current # None /\ b.prio[t] < b.prio[b.current]
          THEN [b EXCEPT !.pend = TRUE] ELSE b
  BY DEF admit, request_switch
<1> HIDE DEF b, q
<1>3. CASE b.current # None /\ b.prio[t] < b.prio[b.current]
  <2>1. /\ IsKernel(q) /\ q.pend = TRUE /\ Untouched(q, b)
        /\ q.state = b.state /\ q.fifo = b.fifo /\ q.present = b.present
    BY <1>1, <1>2, <1>3 DEF IsKernel, KernelType, Untouched
  <2>2. HonestRings(q, S \cup {t})
    BY <1>1, <2>1, FrameHonest DEF Untouched
  <2>3. ker.current # None
    BY <1>1, <1>3 DEF Untouched
  <2> QED BY <1>1, <2>1, <2>2, <2>3 DEF Untouched, q
<1>4. CASE ~(b.current # None /\ b.prio[t] < b.prio[b.current])
  BY <1>1, <1>2, <1>4 DEF Untouched, q
<1> QED BY <1>3, <1>4

\* ready: nothing happens to a task that is not Blocked.
LEMMA ReadyOp ==
  ASSUME NEW ker, IsKernel(ker), NEW S \in SUBSET Tasks, NEW t \in S, HonestRings(ker, S)
  PROVE  /\ IsKernel(ready(ker, t))
         /\ HonestRings(ready(ker, t), S)
         /\ Untouched(ready(ker, t), ker)
         /\ ker.pend => ready(ker, t).pend
         /\ ker.current = None => ready(ker, t).pend = ker.pend
         /\ \/ ready(ker, t) = ker
            \/ /\ ker.state[t] = "Blocked"
               /\ ready(ker, t).state = [ker.state EXCEPT ![t] = "Ready"]
               /\ ker.current # None /\ ker.prio[t] < ker.prio[ker.current]
                    => ready(ker, t).pend
<1>1. CASE ker.state[t] = "Blocked"
  <2>1. HonestRings(ker, S \ {t})
    BY <1>1, NotReadyIsOut
  <2>2. (S \ {t}) \cup {t} = S /\ S \ {t} \in SUBSET Tasks /\ t \in Tasks \ (S \ {t})
    OBVIOUS
  <2>3. ready(ker, t) = admit(ker, t)
    BY <1>1 DEF ready
  <2>4. /\ IsKernel(admit(ker, t))
        /\ HonestRings(admit(ker, t), (S \ {t}) \cup {t})
        /\ admit(ker, t).state = [ker.state EXCEPT ![t] = "Ready"]
        /\ Untouched(admit(ker, t), ker)
        /\ ker.pend => admit(ker, t).pend
        /\ ker.current # None /\ ker.prio[t] < ker.prio[ker.current] => admit(ker, t).pend
        /\ ker.current = None => admit(ker, t).pend = ker.pend
    BY <2>1, <2>2, Admit
  <2> QED BY <1>1, <2>2, <2>3, <2>4
<1>2. CASE ker.state[t] # "Blocked"
  BY <1>2 DEF ready, Untouched
<1> QED BY <1>1, <1>2

\* block of the running task: it leaves every ring alone and asks for a switch.
LEMMA BlockOp ==
  ASSUME NEW ker, IsKernel(ker), NEW S \in SUBSET Tasks, HonestRings(ker, S),
         ker.current \in S, ker.state[ker.current] = "Running"
  PROVE  /\ IsKernel(block(ker, ker.current))
         /\ HonestRings(block(ker, ker.current), S)
         /\ Untouched(block(ker, ker.current), ker)
         /\ block(ker, ker.current).state = [ker.state EXCEPT ![ker.current] = "Blocked"]
         /\ block(ker, ker.current).pend
<1> DEFINE t == ker.current
           state == [ker.state EXCEPT ![t] = "Blocked"]
           q == [ker EXCEPT !.state = state, !.pend = TRUE]
<1>1. block(ker, t) = q
  BY DEF block, request_switch, IsKernel, KernelType
<1>2. state \in [Threads -> TaskState]
  BY DEF IsKernel, KernelType, TaskState
<1>3. /\ IsKernel(q) /\ Untouched(q, ker) /\ q.state = state /\ q.pend = TRUE
      /\ q.fifo = ker.fifo /\ q.present = ker.present
  <2> HIDE DEF state
  <2> QED BY <1>2 DEF IsKernel, KernelType, Untouched
<1>4. HonestRings(ker, S \ {t})
  BY NotReadyIsOut
<1>5. q.state[t] = "Blocked" /\ \A u \in S \ {t} : q.state[u] = ker.state[u]
  BY <1>3 DEF IsKernel, KernelType, Threads
<1>6. HonestRings(q, S)
  <2> DEFINE S1 == S \ {t}
  <2>1. /\ \A u \in S1 \cap S : q.prio[u] = ker.prio[u] /\ q.state[u] = ker.state[u]
        /\ \A u \in S1 \ S : ker.state[u] # "Ready"
        /\ \A u \in S \ S1 : q.state[u] # "Ready"
    BY <1>3, <1>5 DEF Untouched
  <2>2. HonestRings(ker, S1) /\ q.fifo = ker.fifo /\ q.present = ker.present
    BY <1>3, <1>4
  <2> HIDE DEF q, S1
  <2> QED BY <2>1, <2>2, FrameHonest
<1> QED BY <1>1, <1>3, <1>6

\* The runner goes to the end of its ring and a switch is pending: yield, and
\* on_tick at the end of a slice.
LEMMA Rotate ==
  ASSUME NEW ker, IsKernel(ker), NEW S \in SUBSET Tasks, HonestRings(ker, S),
         ker.current \in S, ker.state[ker.current] = "Running",
         NEW q, q = request_switch(push_back(ker, ker.current))
  PROVE  /\ IsKernel(q) /\ HonestRings(q, S) /\ Untouched(q, ker) /\ q.pend
         /\ q.state = [ker.state EXCEPT ![ker.current] = "Ready"]
<1> DEFINE t == ker.current
           S1 == S \ {t}
           b == push_back(ker, t)
<1>1. HonestRings(ker, S1) /\ S1 \in SUBSET Tasks /\ t \in Tasks \ S1
  BY NotReadyIsOut
<1>2. S1 \cup {t} = S
  OBVIOUS
<1> HIDE DEF t, S1
<1>3. /\ IsKernel(b) /\ HonestRings(b, S1 \cup {t}) /\ Untouched(b, ker)
      /\ b.state = [ker.state EXCEPT ![t] = "Ready"]
  BY <1>1, PushBack
<1>4. q = [b EXCEPT !.pend = TRUE]
  BY DEF request_switch, t
<1> HIDE DEF b
<1>5. /\ IsKernel(q) /\ q.pend = TRUE /\ Untouched(q, b)
      /\ q.state = b.state /\ q.fifo = b.fifo /\ q.present = b.present
  BY <1>3, <1>4 DEF IsKernel, KernelType, Untouched
<1>6. HonestRings(q, S)
  BY <1>2, <1>3, <1>5, FrameHonest DEF Untouched
<1> QED BY <1>3, <1>5, <1>6 DEF Untouched, t

\* yield by a running task.
LEMMA YieldOp ==
  ASSUME NEW ker, IsKernel(ker), NEW S \in SUBSET Tasks, HonestRings(ker, S),
         ker.current \in S, ker.state[ker.current] = "Running"
  PROVE  /\ IsKernel(yield(ker)) /\ HonestRings(yield(ker), S)
         /\ Untouched(yield(ker), ker) /\ yield(ker).pend
         /\ yield(ker).state = [ker.state EXCEPT ![ker.current] = "Ready"]
<1>1. yield(ker) = request_switch(push_back(ker, ker.current))
  BY TasksAssumption DEF yield
<1> QED BY <1>1, Rotate

\* on_tick: nothing but the slice count, or the runner rotates.
LEMMA OnTickOp ==
  ASSUME NEW ker, IsKernel(ker), NEW S \in SUBSET Tasks, HonestRings(ker, S),
         ker.current \in S \cup {Idle, None},
         ker.current \in S => ker.state[ker.current] = "Running"
  PROVE  /\ IsKernel(on_tick(ker)) /\ HonestRings(on_tick(ker), S)
         /\ Untouched(on_tick(ker), ker)
         /\ \/ on_tick(ker).state = ker.state /\ on_tick(ker).pend = ker.pend
            \/ /\ ker.current \in S
               /\ on_tick(ker).state = [ker.state EXCEPT ![ker.current] = "Ready"]
               /\ on_tick(ker).pend
<1> DEFINE t == ker.current
           z == [ker EXCEPT !.served = 0]
           q == on_tick(ker)
<1>1. CASE t \in {None, Idle}
  BY <1>1 DEF on_tick, Untouched
<1>2. CASE t \notin {None, Idle} /\ ker.served + 1 < kSliceTicks
  <2>1. q = [ker EXCEPT !.served = ker.served + 1]
    BY <1>2 DEF on_tick
  <2>2. ker.served + 1 \in 0 .. kSliceTicks - 1
    BY <1>2, SliceAssumption DEF IsKernel, KernelType
  <2>3. /\ IsKernel(q) /\ Untouched(q, ker) /\ q.fifo = ker.fifo /\ q.present = ker.present
        /\ q.state = ker.state /\ q.pend = ker.pend
    BY <2>1, <2>2 DEF IsKernel, KernelType, Untouched
  <2> HIDE DEF q
  <2>4. HonestRings(q, S)
    BY <2>3, FrameHonest DEF Untouched
  <2> QED BY <2>3, <2>4 DEF q
<1>3. CASE t \notin {None, Idle} /\ ~(ker.served + 1 < kSliceTicks)
  <2>0. 0 \in 0 .. kSliceTicks - 1
    BY SliceAssumption
  <2>1. /\ IsKernel(z) /\ Untouched(z, ker) /\ z.fifo = ker.fifo /\ z.present = ker.present
        /\ z.state = ker.state /\ z.pend = ker.pend
    BY <2>0 DEF IsKernel, KernelType, Untouched
  <2>2. \/ q = z
        \/ q = request_switch(push_back(z, z.current))
    BY <1>3, <2>1 DEF on_tick, Untouched
  <2> HIDE DEF z, q
  <2>3. HonestRings(z, S)
    BY <2>1, FrameHonest DEF Untouched
  <2>4. CASE q = z
    BY <2>1, <2>3, <2>4 DEF q
  <2>5. CASE q = request_switch(push_back(z, z.current))
    <3>1. z.current \in S /\ z.state[z.current] = "Running"
      BY <1>3, <2>1 DEF Untouched
    <3>2. /\ IsKernel(q) /\ HonestRings(q, S) /\ Untouched(q, z) /\ q.pend
          /\ q.state = [z.state EXCEPT ![z.current] = "Ready"]
      BY <2>1, <2>3, <2>5, <3>1, Rotate
    <3> QED BY <1>3, <2>1, <3>1, <3>2 DEF Untouched, q
  <2> QED BY <2>2, <2>4, <2>5
<1> QED BY <1>1, <1>2, <1>3

\* notify: the letter is in the mailbox; otherwise it is ready.
LEMMA NotifyOp ==
  ASSUME NEW ker, IsKernel(ker), NEW S \in SUBSET Tasks, NEW t \in S, HonestRings(ker, S),
         NEW v \in Letters
  PROVE  /\ IsKernel(notify(ker, t, v))
         /\ HonestRings(notify(ker, t, v), S)
         /\ notify(ker, t, v).prio = ker.prio
         /\ notify(ker, t, v).current = ker.current
         /\ ker.pend => notify(ker, t, v).pend
         /\ ker.current = None => notify(ker, t, v).pend = ker.pend
         /\ \/ notify(ker, t, v).state = ker.state
            \/ /\ ker.state[t] = "Blocked"
               /\ notify(ker, t, v).state = [ker.state EXCEPT ![t] = "Ready"]
               /\ ker.current # None /\ ker.prio[t] < ker.prio[ker.current]
                    => notify(ker, t, v).pend
<1> DEFINE z == [ker EXCEPT !.letter[t] = v, !.has[t] = TRUE]
<1>1. notify(ker, t, v) = ready(z, t)
  BY TasksAssumption DEF notify
<1>2. /\ IsKernel(z) /\ z.prio = ker.prio /\ z.current = ker.current /\ z.pend = ker.pend
      /\ z.state = ker.state /\ z.fifo = ker.fifo /\ z.present = ker.present
  <2> DEFINE letter == [ker.letter EXCEPT ![t] = v]
             has == [ker.has EXCEPT ![t] = TRUE]
  <2>1. z = [ker EXCEPT !.letter = letter, !.has = has]
    OBVIOUS
  <2>2. letter \in [Tasks -> Letters] /\ has \in [Tasks -> BOOLEAN]
    BY DEF IsKernel, KernelType
  <2> HIDE DEF letter, has, z
  <2> QED BY <2>1, <2>2 DEF IsKernel, KernelType
<1> HIDE DEF z
<1>3. HonestRings(z, S)
  BY <1>2, FrameHonest
<1>4. /\ IsKernel(ready(z, t)) /\ HonestRings(ready(z, t), S)
      /\ Untouched(ready(z, t), z)
      /\ z.pend => ready(z, t).pend
      /\ z.current = None => ready(z, t).pend = z.pend
      /\ \/ ready(z, t) = z
         \/ /\ z.state[t] = "Blocked"
            /\ ready(z, t).state = [z.state EXCEPT ![t] = "Ready"]
            /\ z.current # None /\ z.prio[t] < z.prio[z.current] => ready(z, t).pend
  BY <1>2, <1>3, ReadyOp
<1> QED BY <1>1, <1>2, <1>4 DEF Untouched

\* wait_notify touches the mailbox only.
LEMMA WaitNotifyOp ==
  ASSUME NEW ker, IsKernel(ker), NEW S, HonestRings(ker, S)
  PROVE  /\ IsKernel(wait_notify(ker))
         /\ HonestRings(wait_notify(ker), S)
         /\ wait_notify(ker).prio = ker.prio
         /\ wait_notify(ker).current = ker.current
         /\ wait_notify(ker).state = ker.state
         /\ wait_notify(ker).pend = ker.pend
<1> DEFINE has == [ker.has EXCEPT ![ker.current] = FALSE]
           q == wait_notify(ker)
<1>1. CASE ker.current \in Tasks
  <2>1. q = [ker EXCEPT !.has = has]
    BY <1>1 DEF wait_notify
  <2>2. has \in [Tasks -> BOOLEAN]
    BY DEF IsKernel, KernelType
  <2>3. /\ IsKernel(q) /\ q.fifo = ker.fifo /\ q.present = ker.present
        /\ q.prio = ker.prio /\ q.current = ker.current /\ q.state = ker.state /\ q.pend = ker.pend
    <3> HIDE DEF has, q
    <3> QED BY <2>1, <2>2 DEF IsKernel, KernelType
  <2> HIDE DEF q
  <2>4. HonestRings(q, S)
    BY <2>3, FrameHonest
  <2> QED BY <2>3, <2>4 DEF q
<1>2. CASE ker.current \notin Tasks
  BY <1>2 DEF wait_notify
<1> QED BY <1>1, <1>2

\* reprioritize: a Ready task moves to the end of its new ring, any other
\* task just carries the new priority.
LEMMA ReprioritizeOp ==
  ASSUME NEW ker, IsKernel(ker), NEW S \in SUBSET Tasks, NEW t \in S, HonestRings(ker, S),
         NEW p \in Levels
  PROVE  /\ IsKernel(reprioritize(ker, t, p))
         /\ HonestRings(reprioritize(ker, t, p), S)
         /\ reprioritize(ker, t, p).prio[t] = p
         /\ \A u \in Threads \ {t} : reprioritize(ker, t, p).prio[u] = ker.prio[u]
         /\ reprioritize(ker, t, p).state = ker.state
         /\ reprioritize(ker, t, p).current = ker.current
         /\ reprioritize(ker, t, p).pend = ker.pend
<1> DEFINE q == reprioritize(ker, t, p)
           prio == [ker.prio EXCEPT ![t] = p]
           S1 == S \ {t}
<1>0. /\ prio \in [Threads -> Levels \cup {kIdlePrio}]
      /\ \A u \in Tasks : prio[u] \in Levels
      /\ prio[Idle] = kIdlePrio /\ prio[t] = p
      /\ \A u \in S1 : prio[u] = ker.prio[u]
      /\ \A u \in Threads \ {t} : prio[u] = ker.prio[u]
  BY TasksAssumption DEF IsKernel, KernelType, Threads
<1>1. CASE ker.prio[t] = p
  <2>1. q = ker
    BY <1>1 DEF reprioritize
  <2>2. prio = ker.prio
    BY <1>1 DEF IsKernel, KernelType, Threads
  <2> QED BY <1>1, <2>1, <2>2 DEF q
<1>2. CASE ker.prio[t] # p /\ ker.state[t] # "Ready"
  <2>1. q = [ker EXCEPT !.prio = prio]
    BY <1>2 DEF reprioritize
  <2>2. /\ IsKernel(q) /\ q.fifo = ker.fifo /\ q.present = ker.present
        /\ q.prio = prio /\ q.current = ker.current /\ q.state = ker.state /\ q.pend = ker.pend
    <3> HIDE DEF q, prio
    <3> QED BY <2>1, <1>0 DEF IsKernel, KernelType
  <2>3. HonestRings(ker, S1)
    BY <1>2, NotReadyIsOut
  <2>4. /\ \A u \in S1 \cap S : q.prio[u] = ker.prio[u] /\ q.state[u] = ker.state[u]
        /\ \A u \in S1 \ S : ker.state[u] # "Ready"
        /\ \A u \in S \ S1 : q.state[u] # "Ready"
    BY <1>0, <1>2, <2>2
  <2> HIDE DEF q, S1, prio
  <2>5. HonestRings(q, S)
    BY <2>2, <2>3, <2>4, FrameHonest
  <2> QED BY <1>0, <2>2, <2>5 DEF q
<1>3. CASE ker.prio[t] # p /\ ker.state[t] = "Ready"
  <2> DEFINE old == ker.prio[t]
             s == ker.fifo[old]
             m == CHOOSE i \in 1 .. Len(s) : s[i] = t
             ring == RemoveAt(s, m)
             fifo == [ker.fifo EXCEPT ![old] = ring]
             present == IF ring = << >> THEN ker.present \ {old} ELSE ker.present
             z == [ker EXCEPT !.fifo = fifo, !.present = present, !.prio = prio]
  <2>1. old \in Levels /\ s \in Seq(Tasks)
    BY DEF IsKernel, KernelType
  <2>2. \E i \in 1 .. Len(s) : s[i] = t
    BY <1>3 DEF HonestRings, ReadyTasksAreInRings
  <2>3. m \in 1 .. Len(s) /\ s[m] = t
    BY <2>2
  <2>4. ring \in Seq(Tasks) /\ InsertedAt(s, ring, m, t)
    <3> HIDE DEF m, s
    <3> QED BY <2>1, <2>3, RemoveAtRemoves
  <2>5. remove(s, t) = ring
    BY <2>2 DEF remove, Contains
  <2>6. q = push_back(z, t)
    BY <1>3, <2>5 DEF reprioritize
  <2>7. /\ IsKernel(z) /\ z.fifo = fifo /\ z.present = present /\ z.prio = prio
        /\ z.current = ker.current /\ z.state = ker.state /\ z.pend = ker.pend
    <3>1. fifo \in [Levels -> Seq(Tasks)] /\ present \in SUBSET Levels
      BY <2>1, <2>4 DEF IsKernel, KernelType
    <3> HIDE DEF fifo, present, prio
    <3> QED BY <3>1, <1>0 DEF IsKernel, KernelType
  <2>8. HonestRings(z, S1)
    <3>1. \A u \in S \ {t} : z.prio[u] = ker.prio[u] /\ z.state[u] = ker.state[u]
      BY <1>0, <2>7
    <3>2. /\ z.fifo = [ker.fifo EXCEPT ![old] = ring]
          /\ z.present = (IF ring = << >> THEN ker.present \ {old} ELSE ker.present)
      BY <2>7
    <3>3. InsertedAt(ker.fifo[old], ring, m, t)
      BY <2>4
    <3> HIDE DEF z, old, ring, m, fifo, present, s
    <3> QED BY <2>1, <2>4, <3>1, <3>2, <3>3, RemoveHonest
  <2>9. S1 \in SUBSET Tasks /\ t \in Tasks \ S1 /\ S1 \cup {t} = S
    OBVIOUS
  <2> HIDE DEF z, S1, q, prio
  <2>10. /\ IsKernel(q) /\ HonestRings(q, S1 \cup {t})
         /\ q.state = [z.state EXCEPT ![t] = "Ready"] /\ Untouched(q, z) /\ q.pend = z.pend
    BY <2>6, <2>7, <2>8, <2>9, PushBack, SMTT(30)
  <2>11. q.state = ker.state
    BY <1>3, <2>7, <2>10 DEF IsKernel, KernelType, Threads
  <2> QED BY <1>0, <2>7, <2>9, <2>10, <2>11 DEF Untouched, q
<1> QED BY <1>1, <1>2, <1>3

\* The highest non-empty level, the task at its head, and the rest.
TopLevel(ker) == find_first_set(ker.present)
TopTask(ker) == Head(ker.fifo[TopLevel(ker)])
Popped(ker) == pop_level(ker, TopLevel(ker))

\* The second half of a pick: the head of the highest ring comes off.
LEMMA PopHighest ==
  ASSUME NEW ker, IsKernel(ker), NEW S \in SUBSET Tasks, HonestRings(ker, S),
         ker.present # {}
  PROVE  /\ TopLevel(ker) \in Levels
         /\ TopTask(ker) \in S /\ ker.prio[TopTask(ker)] = TopLevel(ker)
         /\ TopTask(ker) = ker.fifo[TopLevel(ker)][1]
         /\ ker.state[TopTask(ker)] = "Ready"
         /\ HonestRings(Popped(ker), S \ {TopTask(ker)})
         /\ IsKernel(Popped(ker))
         /\ Untouched(Popped(ker), ker)
         /\ Popped(ker).state = ker.state /\ Popped(ker).pend = ker.pend
         /\ \A u \in S : ker.state[u] = "Ready" => TopLevel(ker) <= ker.prio[u]
<1> DEFINE l == TopLevel(ker)
           s == ker.fifo[l]
           ring == Tail(s)
           fifo == [ker.fifo EXCEPT ![l] = ring]
           present == IF Len(s) = 1 THEN ker.present \ {l} ELSE ker.present
           t == Head(s)
           q == pop_level(ker, l)
<1>1. l \in ker.present /\ l \in Levels /\ \A m \in ker.present : l <= m
  BY FirstSet DEF IsKernel, KernelType, TopLevel
<1> HIDE DEF l
<1>2. s \in Seq(Tasks) /\ s # << >>
  BY <1>1 DEF HonestRings, PresentIsNonEmpty, IsKernel, KernelType
<1>3. /\ ring \in Seq(Tasks) /\ t = s[1] /\ InsertedAt(s, ring, 1, t)
      /\ Len(s) = 1 <=> ring = << >>
  BY <1>2, TailRemoves
<1>4. 1 \in 1 .. Len(s)
  BY <1>2
<1>5. t \in S /\ ker.prio[t] = l /\ ker.state[t] = "Ready"
  BY <1>1, <1>3, <1>4 DEF HonestRings, RingsHoldReadyTasks
<1>6. q = [ker EXCEPT !.fifo = fifo, !.present = present]
  BY DEF pop_level
<1>7. /\ IsKernel(q) /\ Untouched(q, ker) /\ q.fifo = fifo /\ q.present = present
      /\ q.state = ker.state /\ q.pend = ker.pend
  <2>1. fifo \in [Levels -> Seq(Tasks)] /\ present \in SUBSET Levels
    BY <1>1, <1>3 DEF IsKernel, KernelType
  <2> HIDE DEF fifo, present, q
  <2> QED BY <1>6, <2>1 DEF IsKernel, KernelType, Untouched
<1>8. HonestRings(q, S \ {t})
  <2>1. \A u \in S \ {t} : q.prio[u] = ker.prio[u] /\ q.state[u] = ker.state[u]
    BY <1>7 DEF Untouched
  <2>2. /\ q.fifo = [ker.fifo EXCEPT ![l] = ring]
        /\ q.present = (IF ring = << >> THEN ker.present \ {l} ELSE ker.present)
        /\ InsertedAt(ker.fifo[l], ring, 1, t)
    BY <1>3, <1>7
  <2> DEFINE m == 1
  <2>3. InsertedAt(ker.fifo[l], ring, m, t)
    BY <2>2
  <2> HIDE DEF q, ring, t, m, fifo, present
  <2> QED BY <1>1, <1>3, <1>5, <2>1, <2>2, <2>3, RemoveHonest
<1>9. ASSUME NEW u \in S, ker.state[u] = "Ready"
      PROVE  l <= ker.prio[u]
  <2>1. \E i \in 1 .. Len(ker.fifo[ker.prio[u]]) : ker.fifo[ker.prio[u]][i] = u
    BY <1>9 DEF HonestRings, ReadyTasksAreInRings
  <2>2. ker.prio[u] \in Levels
    BY DEF IsKernel
  <2>3. ker.fifo[ker.prio[u]] # << >>
    <3>1. Len(<< >>) = 0
      OBVIOUS
    <3> QED BY <2>1, <3>1
  <2>4. ker.prio[u] \in ker.present
    BY <2>2, <2>3 DEF HonestRings, PresentIsNonEmpty
  <2> QED BY <2>4, <1>1
<1> QED BY <1>1, <1>3, <1>5, <1>7, <1>8, <1>9 DEF TopTask, Popped, l

\* The state pick_next_locked pops from: a task that still runs is back at
\* the head of its own ring.
LEMMA PutBack ==
  ASSUME NEW ker, IsKernel(ker), NEW S \in SUBSET Tasks, HonestRings(ker, S),
         ker.current \in S \cup {Idle, None},
         \A t \in S : ker.state[t] = "Running" => t = ker.current,
         NEW q, q = IF ker.current \in Tasks /\ ker.state[ker.current] = "Running"
                    THEN push_front(ker, ker.current) ELSE ker
  PROVE  /\ IsKernel(q) /\ HonestRings(q, S) /\ Untouched(q, ker) /\ q.pend = ker.pend
         /\ \A t \in S : q.state[t] # "Running"
         /\ \A t \in Tasks \ S : q.state[t] = ker.state[t]
         /\ \A t \in S : q.state[t] = "Blocked" <=> ker.state[t] = "Blocked"
         /\ ker.current \in Tasks /\ ker.state[ker.current] = "Running" =>
              /\ q.fifo[q.prio[ker.current]][1] = ker.current
              /\ q.state[ker.current] = "Ready"
<1> DEFINE t == ker.current
           S1 == S \ {t}
<1>1. CASE t \in Tasks /\ ker.state[t] = "Running"
  <2>1. t \in S /\ HonestRings(ker, S1) /\ S1 \in SUBSET Tasks /\ t \in Tasks \ S1
    BY <1>1, NotReadyIsOut, TasksAssumption
  <2>2. S1 \cup {t} = S
    BY <2>1
  <2>3. q = push_front(ker, t)
    BY <1>1
  <2> HIDE DEF t, S1
  <2>7. /\ IsKernel(q) /\ HonestRings(q, S1 \cup {t}) /\ Untouched(q, ker)
        /\ q.state = [ker.state EXCEPT ![t] = "Ready"] /\ q.pend = ker.pend
        /\ q.fifo[ker.prio[t]][1] = t
    BY <2>1, <2>3, PushFront
  <2>8. /\ \A u \in S : q.state[u] # "Running"
        /\ \A u \in Tasks \ S : q.state[u] = ker.state[u]
        /\ \A u \in S : q.state[u] = "Blocked" <=> ker.state[u] = "Blocked"
        /\ q.state[t] = "Ready"
    <3>1. ker.state \in [Threads -> TaskState] /\ Tasks \subseteq Threads /\ t \in Tasks
      BY <2>1 DEF IsKernel, KernelType, Threads
    <3>2. \A u \in Tasks : q.state[u] = IF u = t THEN "Ready" ELSE ker.state[u]
      BY <2>7, <3>1
    <3>3. ker.state[t] = "Running" /\ \A u \in S : ker.state[u] = "Running" => u = t
      BY <1>1 DEF t
    <3> QED BY <2>1, <3>2, <3>3
  <2>9. q.fifo[q.prio[t]][1] = t
    BY <2>7 DEF Untouched
  <2> QED BY <2>2, <2>7, <2>8, <2>9 DEF t
<1>2. CASE ~(t \in Tasks /\ ker.state[t] = "Running")
  BY <1>2 DEF Untouched
<1> QED BY <1>1, <1>2

\* pick_next_locked: the picked thread runs, it alone does, no Ready task
\* outranks it, and a runner is displaced by a higher level only.
LEMMA PickOp ==
  ASSUME NEW ker, IsKernel(ker), NEW S \in SUBSET Tasks, HonestRings(ker, S),
         ker.current \in S \cup {Idle, None},
         \A t \in S : ker.state[t] = "Running" => t = ker.current,
         NEW q, q = pick_next_locked(ker)
  PROVE  /\ IsKernel(q) /\ HonestRings(q, S)
         /\ q.prio = ker.prio /\ q.pend = ker.pend
         /\ q.current \in S \cup {Idle}
         /\ q.state[q.current] = "Running"
         /\ \A t \in S : q.state[t] = "Running" => t = q.current
         /\ \A t \in Tasks \ S : q.state[t] = ker.state[t]
         /\ \A t \in S : q.state[t] = "Blocked" <=> ker.state[t] = "Blocked"
         /\ \A t \in S : q.state[t] = "Ready" => q.prio[q.current] <= q.prio[t]
         /\ ker.current \in Tasks /\ ker.state[ker.current] = "Running" /\ q.current # ker.current
              => q.prio[q.current] < q.prio[ker.current]
<1> DEFINE b == IF ker.current \in Tasks /\ ker.state[ker.current] = "Running"
                THEN push_front(ker, ker.current) ELSE ker
           l == find_first_set(b.present)
           next == IF b.present = {} THEN Idle ELSE Head(b.fifo[l])
           r == IF b.present = {} THEN b ELSE pop_level(b, l)
           state == [r.state EXCEPT ![next] = "Running"]
           runs == ker.current \in Tasks /\ ker.state[ker.current] = "Running"
<1>1. /\ IsKernel(b) /\ HonestRings(b, S) /\ Untouched(b, ker) /\ b.pend = ker.pend
      /\ \A t \in S : b.state[t] # "Running"
      /\ \A t \in Tasks \ S : b.state[t] = ker.state[t]
      /\ runs => b.fifo[b.prio[ker.current]][1] = ker.current /\ b.state[ker.current] = "Ready"
  BY PutBack
<1>b. \A t \in S : b.state[t] = "Blocked" <=> ker.state[t] = "Blocked"
  BY PutBack
<1>2. q = [r EXCEPT !.current = next, !.served = 0, !.state = state]
  BY DEF pick_next_locked
<1>s. 0 \in 0 .. kSliceTicks - 1
  BY SliceAssumption
<1> HIDE DEF b
<1>3. CASE b.present = {}
  <2>1. r = b /\ next = Idle
    BY <1>3
  <2>2. state \in [Threads -> TaskState] /\ state[Idle] = "Running"
        /\ \A t \in Tasks : state[t] = b.state[t]
    <3>1. b.state \in [Threads -> TaskState] /\ Idle \in Threads
      BY <1>1 DEF IsKernel, KernelType, Threads
    <3>2. state = [b.state EXCEPT ![Idle] = "Running"]
      BY <2>1
    <3> HIDE DEF state
    <3> QED BY <3>1, <3>2, TasksAssumption DEF Threads, TaskState
  <2> HIDE DEF state, l, r, next
  <2>3. /\ IsKernel(q) /\ q.state = state /\ q.current = Idle /\ q.prio = b.prio
        /\ q.fifo = b.fifo /\ q.present = b.present /\ q.pend = b.pend
    <3>1. b \in KernelType /\ Idle \in Threads
      BY <1>1 DEF IsKernel, Threads
    <3>2. q = [b EXCEPT !.current = Idle, !.served = 0, !.state = state]
      BY <1>2, <2>1
    <3>3. /\ q \in KernelType /\ q.state = state /\ q.current = Idle /\ q.prio = b.prio
          /\ q.fifo = b.fifo /\ q.present = b.present /\ q.pend = b.pend
      BY <1>s, <2>2, <3>1, <3>2 DEF KernelType
    <3> QED BY <1>1, <3>3 DEF IsKernel
  <2>4. HonestRings(q, S)
    BY <1>1, <2>2, <2>3, FrameHonest
  <2>5. \A t \in S : b.state[t] # "Ready"
    <3> SUFFICES ASSUME NEW t \in S, b.state[t] = "Ready" PROVE FALSE
      OBVIOUS
    <3>1. PICK i \in 1 .. Len(b.fifo[b.prio[t]]) : b.fifo[b.prio[t]][i] = t
      BY <1>1 DEF HonestRings, ReadyTasksAreInRings
    <3>2. b.prio[t] \in Levels
      BY <1>1 DEF IsKernel
    <3>3. b.fifo[b.prio[t]] = << >>
      BY <1>1, <1>3, <3>2 DEF HonestRings, PresentIsNonEmpty
    <3>4. Len(<< >>) = 0
      OBVIOUS
    <3> QED BY <3>1, <3>3, <3>4
  <2>6. ~runs
    BY <1>1, <2>5, TasksAssumption
  <2> QED BY <1>1, <1>b, <2>2, <2>3, <2>4, <2>5, <2>6 DEF Untouched
<1>4. CASE b.present # {}
  <2>1. l = TopLevel(b) /\ r = Popped(b) /\ next = TopTask(b)
    BY <1>4 DEF TopLevel, TopTask, Popped
  <2> HIDE DEF l, r, next, state
  <2>3. /\ l \in Levels /\ next \in S /\ b.prio[next] = l /\ b.state[next] = "Ready"
        /\ next = b.fifo[l][1]
        /\ HonestRings(r, S \ {next}) /\ IsKernel(r) /\ Untouched(r, b)
        /\ r.state = b.state /\ r.pend = b.pend
        /\ \A u \in S : b.state[u] = "Ready" => l <= b.prio[u]
    BY <1>1, <1>4, <2>1, PopHighest
  <2>4. /\ state \in [Threads -> TaskState] /\ state[next] = "Running"
        /\ \A t \in Tasks \ {next} : state[t] = b.state[t]
    BY <2>3 DEF state, IsKernel, KernelType, Threads, TaskState
  <2>5. /\ IsKernel(q) /\ q.state = state /\ q.current = next /\ q.prio = r.prio
        /\ q.fifo = r.fifo /\ q.present = r.present /\ q.pend = r.pend
    <3>1. r \in KernelType /\ next \in Threads \cup {None} /\ state \in [Threads -> TaskState]
      BY <2>3, <2>4 DEF IsKernel, Threads
    <3>2. /\ q \in KernelType /\ q.state = state /\ q.current = next /\ q.prio = r.prio
          /\ q.fifo = r.fifo /\ q.present = r.present /\ q.pend = r.pend
      BY <1>2, <1>s, <3>1 DEF KernelType
    <3> QED BY <2>3, <3>2 DEF IsKernel
  <2>6. HonestRings(q, S)
    <3> DEFINE S1 == S \ {next}
    <3>1. /\ \A u \in S1 \cap S : q.prio[u] = r.prio[u] /\ q.state[u] = r.state[u]
          /\ \A u \in S1 \ S : r.state[u] # "Ready"
          /\ \A u \in S \ S1 : q.state[u] # "Ready"
      BY <2>3, <2>4, <2>5
    <3>2. HonestRings(r, S1)
      BY <2>3
    <3> HIDE DEF S1
    <3> QED BY <2>5, <3>1, <3>2, FrameHonest
  <2>7. ASSUME runs, next # ker.current
        PROVE  b.prio[next] < b.prio[ker.current]
    <3>1. ker.current \in S /\ b.state[ker.current] = "Ready"
      BY <1>1, <2>7, TasksAssumption
    <3>2. l <= b.prio[ker.current]
      BY <2>3, <3>1
    <3>3. l # b.prio[ker.current]
      BY <1>1, <2>3, <2>7
    <3>4. b.prio[ker.current] \in Int /\ l \in Int
      BY <1>1, <2>3, <3>1, LevelsAssumption DEF IsKernel, Levels
    <3> QED BY <2>3, <3>2, <3>3, <3>4
  <2>8. \A t \in S : q.state[t] = "Ready" => q.prio[q.current] <= q.prio[t]
    BY <2>3, <2>4, <2>5 DEF Untouched
  <2>9. \A t \in S : q.state[t] = "Blocked" <=> ker.state[t] = "Blocked"
    BY <1>b, <2>3, <2>4, <2>5
  <2> QED BY <1>1, <2>3, <2>4, <2>5, <2>6, <2>7, <2>8, <2>9 DEF Untouched
<1> QED BY <1>3, <1>4
=============================================================================
