----------------------------- MODULE BaseProofs -----------------------------
(***************************************************************************)
(* What the rest is built on.  The users of raw memory for any sizes:      *)
(* stacks of any depth with a canary of any length, an arena of any size   *)
(* with launches of any count, and a pool of any number of blocks in words *)
(* of any width.  The critical section, for any threads and handlers and   *)
(* guards nested to any depth.  And the intrusive list, for any nodes and  *)
(* keys: its pointers implement the sequence of ListSpec.                  *)
(***************************************************************************)
EXTENDS MCMemory, MCBase, SequenceTheorems, FiniteSetTheorems, WellFoundedInduction, TLAPS

-----------------------------------------------------------------------------
(* Stacks.                                                                 *)

\* The least of a set of numbers is the one below the others.
LEMMA MinIs ==
  ASSUME NEW S \in SUBSET Int, NEW x \in S, \A y \in S : x <= y
  PROVE  Min(S) = x
<1>1. \A z \in S : (\A y \in S : z <= y) => z = x
  OBVIOUS
<1> QED BY <1>1 DEF Min

\* The stacks' module has its own copies of these.
LEMMA SameOperators ==
  /\ \A S : Guard!Min(S) = Min(S)
  /\ \A S : Guard!Max(S) = Max(S)
  /\ \A S : Guard!Cardinality(S) = Cardinality(S)
<1>1. \A S : Guard!Min(S) = Min(S)
  BY DEF Guard!Min, Min
<1>2. \A S : Guard!Max(S) = Max(S)
  BY DEF Guard!Max, Max
<1>3. \A S : Guard!Cardinality(S) = Cardinality(S)
  BY DEF Guard!Cardinality, Cardinality
<1> QED BY <1>1, <1>2, <1>3

\* The lesser of two.
LEMMA MinOfTwo ==
  ASSUME NEW a \in Int, NEW b \in Int
  PROVE  Min({a, b}) = IF a <= b THEN a ELSE b
<1>1. CASE a <= b
  <2>1. {a, b} \in SUBSET Int /\ a \in {a, b} /\ \A y \in {a, b} : a <= y
    BY <1>1
  <2>2. Min({a, b}) = a
    BY <2>1, MinIs
  <2> QED BY <1>1, <2>2
<1>2. CASE ~(a <= b)
  <2>1. {a, b} \in SUBSET Int /\ b \in {a, b} /\ \A y \in {a, b} : b <= y
    BY <1>2
  <2>2. Min({a, b}) = b
    BY <2>1, MinIs
  <2> QED BY <1>2, <2>2
<1> QED BY <1>1, <1>2

\* The greater of two.
LEMMA MaxOfTwo ==
  ASSUME NEW a \in Int, NEW b \in Int
  PROVE  Max({a, b}) = IF a >= b THEN a ELSE b
<1>1. \A z \in {a, b} : (\A y \in {a, b} : z >= y) <=> z = IF a >= b THEN a ELSE b
  OBVIOUS
<1>2. (IF a >= b THEN a ELSE b) \in {a, b}
  OBVIOUS
<1> QED BY <1>1, <1>2 DEF Max

\* A set of numbers has a least one.
LEMMA LeastIs ==
  ASSUME NEW S, S \subseteq Nat, S # {}
  PROVE  Min(S) \in S /\ \A y \in S : Min(S) <= y
<1> DEFINE R == {ss \in Nat \X Nat : ss[1] < ss[2]}
<1>1. IsWellFoundedOn(R, Nat)
  BY NatLessThanWellFounded DEF OpToRel
<1>2. \A x, y \in Nat : << y, x >> \in R <=> y < x
  OBVIOUS
<1> HIDE DEF R
<1>3. PICK x \in S : \A y \in S : ~(<< y, x >> \in R)
  BY <1>1, WFMin
<1>4. \A y \in S : y \in Nat /\ x \in Nat /\ ~(y < x)
  BY <1>2, <1>3
<1>5. \A y \in S : x <= y
  BY <1>4
<1>6. Min(S) = x
  <2>1. S \in SUBSET Int
    BY <1>4
  <2> QED BY <1>3, <1>5, <2>1, MinIs
<1> QED BY <1>3, <1>5, <1>6

\* A task that was switched out: its two frames were written and lie on its
\* stack.
Parked(t) ==
  sp[t] + 2 * kFrame <= Size /\ \A i \in sp[t] .. sp[t] + 2 * kFrame - 1 : i \in touched[t]

\* Nothing was written below the deepest point; the word a switch left the
\* pointer at is one that was written, for frames are saved whole; and a parked
\* task's frames lie on its stack.
StackInv ==
  /\ sp \in [Tasks -> Int] /\ deepest \in [Tasks -> Int] /\ held \in [Tasks -> Int]
  /\ touched \in [Tasks -> SUBSET Int]
  /\ current \in Tasks \cup {None}
  /\ wired \in BOOLEAN /\ dead \in BOOLEAN
  /\ \A t \in Tasks :
       /\ \A i \in touched[t] : deepest[t] <= i /\ i <= Size - 1
       /\ held[t] \in touched[t]
       /\ deepest[t] <= sp[t] /\ sp[t] <= Size
       /\ t # current => Parked(t)
  /\ \A t \in Tasks :
       t # current /\ ~dead /\ ~Guard!Trampled(touched[t]) => kCanarySize - 1 \notin touched[t]
  /\ Guard!DeathIsReported

\* The constants of the stacks.
LEMMA StackFacts ==
  /\ kCanarySize \in Nat /\ kCanarySize >= 1 /\ kFrame \in Nat /\ kFrame >= 1 /\ Overrun \in Nat
  /\ Size \in Nat /\ Size >= kCanarySize + 2 * kFrame
  /\ None \notin Tasks
BY GuardAssumption DEF Guard!StackAssumption

\* Fresh stacks hold two frames and nothing else.
LEMMA StackInit ==
  ASSUME Guard!Init
  PROVE  StackInv
<1>1. /\ sp = [t \in Tasks |-> Size - 2 * kFrame]
      /\ touched = [t \in Tasks |-> Size - 2 * kFrame .. Size - 1]
      /\ deepest = sp /\ held = sp /\ current = None /\ wired \in BOOLEAN /\ dead = FALSE
  BY DEF Guard!Init, Guard!fabricate_frame
<1>2. \A t \in Tasks : sp[t] = Size - 2 * kFrame /\ touched[t] = Size - 2 * kFrame .. Size - 1
  BY <1>1
<1>3. \A t \in Tasks : kCanarySize - 1 \notin touched[t]
  BY <1>2, StackFacts
<1>4. Guard!DeathIsReported
  BY <1>1 DEF Guard!DeathIsReported
<1>5. touched \in [Tasks -> SUBSET Int] /\ sp \in [Tasks -> Int]
  BY <1>1, StackFacts
<1>6. \A t \in Tasks :
        /\ \A i \in touched[t] : deepest[t] <= i /\ i <= Size - 1
        /\ held[t] \in touched[t]
        /\ deepest[t] <= sp[t] /\ sp[t] <= Size
        /\ Parked(t)
  BY <1>1, <1>2, StackFacts DEF Parked
<1> QED BY <1>1, <1>3, <1>4, <1>5, <1>6 DEF StackInv

\* A call goes down a word and a return up, and neither writes.
LEMMA MoveKeeps ==
  ASSUME StackInv, NEW t \in Tasks, Guard!Push(t) \/ Guard!Pop(t)
  PROVE  StackInv'
<1>1. /\ ~dead /\ current = t /\ touched' = touched /\ held' = held
      /\ current' = current /\ wired' = wired /\ testament' = testament /\ dead' = dead
  BY DEF Guard!Push, Guard!Pop
<1>2. /\ sp \in [Tasks -> Int] /\ deepest \in [Tasks -> Int] /\ sp[t] \in Int /\ deepest[t] \in Int
      /\ deepest[t] <= sp[t] /\ sp[t] <= Size /\ Size \in Nat
  BY StackFacts DEF StackInv
<1>3. /\ sp' \in [Tasks -> Int] /\ deepest' \in [Tasks -> Int]
      /\ deepest'[t] <= deepest[t] /\ deepest'[t] <= sp'[t] /\ sp'[t] <= Size
      /\ \A u \in Tasks \ {t} : sp'[u] = sp[u] /\ deepest'[u] = deepest[u]
  <2>1. CASE Guard!Push(t)
    <3>1. /\ sp' = [sp EXCEPT ![t] = sp[t] - 1]
          /\ deepest' = [deepest EXCEPT ![t] = Min({deepest[t], sp[t] - 1})]
      BY <2>1, SameOperators DEF Guard!Push
    <3>2. Min({deepest[t], sp[t] - 1}) = IF deepest[t] <= sp[t] - 1 THEN deepest[t] ELSE sp[t] - 1
      BY <1>2, MinOfTwo
    <3> QED BY <1>2, <3>1, <3>2
  <2>2. CASE Guard!Pop(t)
    <3>1. sp' = [sp EXCEPT ![t] = sp[t] + 1] /\ deepest' = deepest /\ sp[t] + 1 <= Size
      BY <2>2 DEF Guard!Pop
    <3> QED BY <1>2, <3>1
  <2> QED BY <2>1, <2>2
<1>4. Guard!DeathIsReported'
  BY <1>1 DEF Guard!DeathIsReported
<1>5. \A u \in Tasks :
        /\ \A i \in touched'[u] : deepest'[u] <= i /\ i <= Size - 1
        /\ held'[u] \in touched'[u]
        /\ deepest'[u] <= sp'[u] /\ sp'[u] <= Size
        /\ u # current' => Parked(u)'
  <2> SUFFICES ASSUME NEW u \in Tasks
               PROVE  /\ \A i \in touched[u] : deepest'[u] <= i /\ i <= Size - 1
                      /\ held[u] \in touched[u]
                      /\ deepest'[u] <= sp'[u] /\ sp'[u] <= Size
                      /\ u # t => Parked(u)'
    BY <1>1
  <2>1. CASE u = t
    <3>1. \A i \in touched[t] : i \in Int /\ deepest[t] <= i /\ i <= Size - 1
      BY DEF StackInv
    <3>2. deepest'[t] \in Int
      BY <1>3
    <3> QED BY <1>2, <1>3, <2>1, <3>1, <3>2 DEF StackInv
  <2>2. CASE u # t
    BY <1>1, <1>3, <2>2 DEF StackInv, Parked
  <2> QED BY <2>1, <2>2
<1> QED BY <1>1, <1>3, <1>4, <1>5 DEF StackInv, Guard!Trampled

\* The running task writes at or above its pointer.
LEMMA StoreKeeps ==
  ASSUME StackInv, NEW t \in Tasks, NEW w \in -Overrun .. Size - 1, Guard!Write(t, w)
  PROVE  StackInv'
<1>1. /\ ~dead /\ current = t /\ w \in sp[t] .. Size - 1
      /\ touched' = [touched EXCEPT ![t] = touched[t] \cup {w}]
      /\ sp' = sp /\ deepest' = deepest /\ held' = held
      /\ current' = current /\ wired' = wired /\ testament' = testament /\ dead' = dead
  BY DEF Guard!Write
<1>2. /\ touched \in [Tasks -> SUBSET Int] /\ sp[t] \in Int /\ deepest[t] \in Int /\ deepest[t] <= sp[t]
      /\ Size \in Nat
  BY StackFacts DEF StackInv
<1>3. /\ touched' \in [Tasks -> SUBSET Int] /\ touched'[t] = touched[t] \cup {w}
      /\ \A u \in Tasks \ {t} : touched'[u] = touched[u]
  BY <1>1, <1>2
<1>4. Guard!DeathIsReported'
  BY <1>1 DEF Guard!DeathIsReported
<1>5. \A i \in touched'[t] : deepest[t] <= i /\ i <= Size - 1
  BY <1>1, <1>2, <1>3 DEF StackInv
<1>6. \A u \in Tasks \ {t} : Parked(u)' <=> Parked(u)
  BY <1>1, <1>3 DEF Parked
<1> QED BY <1>1, <1>3, <1>4, <1>5, <1>6 DEF StackInv, Guard!Trampled

\* A fault names the task that runs.
LEMMA FaultKeeps ==
  ASSUME StackInv, Guard!hardfault_capture
  PROVE  StackInv'
<1>1. /\ testament' = IF wired THEN [who |-> current, how |-> "fault", eaten |-> 0] ELSE None
      /\ dead' = TRUE
      /\ sp' = sp /\ touched' = touched /\ deepest' = deepest /\ held' = held
      /\ current' = current /\ wired' = wired
  BY DEF Guard!hardfault_capture, Guard!Die
<1>2. Guard!DeathIsReported'
  BY <1>1 DEF Guard!DeathIsReported
<1> QED BY <1>1, <1>2 DEF StackInv, Parked

\* The first task takes its frames off its stack.
LEMMA FirstSwitchKeeps ==
  ASSUME StackInv, NEW heir \in Tasks, Guard!SVC_Handler(heir)
  PROVE  StackInv'
<1>1. /\ ~dead /\ current = None /\ current' = heir
      /\ sp' = [sp EXCEPT ![heir] = sp[heir] + 2 * kFrame]
      /\ touched' = touched /\ deepest' = deepest /\ held' = held
      /\ wired' = wired /\ testament' = testament /\ dead' = dead
  BY DEF Guard!SVC_Handler
<1>2. /\ sp \in [Tasks -> Int] /\ 2 * kFrame \in Nat /\ None \notin Tasks /\ Size \in Nat
      /\ deepest[heir] <= sp[heir] /\ deepest[heir] \in Int /\ Parked(heir)
  BY <1>1, StackFacts DEF StackInv
<1>3. /\ sp' \in [Tasks -> Int] /\ sp'[heir] = sp[heir] + 2 * kFrame
      /\ \A u \in Tasks \ {heir} : sp'[u] = sp[u]
  BY <1>1, <1>2
<1>4. deepest[heir] <= sp'[heir] /\ sp'[heir] <= Size
  BY <1>2, <1>3 DEF Parked
<1>5. Guard!DeathIsReported'
  BY <1>1 DEF Guard!DeathIsReported
<1>6. \A u \in Tasks \ {heir} : Parked(u)'
  BY <1>1, <1>2, <1>3 DEF StackInv, Parked
<1> QED BY <1>1, <1>2, <1>3, <1>4, <1>5, <1>6 DEF StackInv

\* The patrol sees whether its one word was written, and the frames were saved
\* whole before it looked.
LEMMA SwitchKeeps ==
  ASSUME StackInv, NEW heir \in Tasks, Guard!PendSV_Handler(heir)
  PROVE  StackInv'
<1> DEFINE outgoing == current
           n == 2 * kFrame
           at == sp[outgoing] - n
           eaten == touched[outgoing] \cup (at .. sp[outgoing] - 1)
           low == Min({deepest[outgoing], at})
           lowheld == Min({held[outgoing], at})
<1>1. /\ ~dead /\ outgoing # None /\ heir # outgoing
      /\ touched' = [touched EXCEPT ![outgoing] = eaten]
      /\ deepest' = [deepest EXCEPT ![outgoing] = low]
      /\ held' = [held EXCEPT ![outgoing] = lowheld]
      /\ wired' = wired
  BY SameOperators DEF Guard!PendSV_Handler
<1>2. Guard!context_switch(outgoing, eaten)
  BY DEF Guard!PendSV_Handler
<1>3. \/ dead' /\ sp' = [sp EXCEPT ![outgoing] = at] /\ current' = current
      \/ /\ ~dead'
         /\ sp' = [sp EXCEPT ![outgoing] = at, ![heir] = @ + n]
         /\ current' = heir
  BY DEF Guard!PendSV_Handler
<1>4. /\ outgoing \in Tasks /\ n \in Nat /\ n >= 1 /\ Size \in Nat
      /\ sp \in [Tasks -> Int] /\ deepest \in [Tasks -> Int] /\ held \in [Tasks -> Int]
      /\ touched \in [Tasks -> SUBSET Int]
      /\ sp[outgoing] \in Int /\ deepest[outgoing] \in Int /\ held[outgoing] \in Int
      /\ deepest[outgoing] <= sp[outgoing] /\ sp[outgoing] <= Size
      /\ held[outgoing] \in touched[outgoing] /\ touched[outgoing] \in SUBSET Int
      /\ \A i \in touched[outgoing] : deepest[outgoing] <= i /\ i <= Size - 1
  BY <1>1, StackFacts DEF StackInv
<1> HIDE DEF n
<1>5. /\ at \in Int /\ low = (IF deepest[outgoing] <= at THEN deepest[outgoing] ELSE at)
      /\ lowheld = (IF held[outgoing] <= at THEN held[outgoing] ELSE at)
  BY <1>4, MinOfTwo
<1> HIDE DEF low, lowheld
<1>6. /\ eaten \in SUBSET Int /\ low \in Int /\ lowheld \in Int /\ lowheld \in eaten
      /\ low <= at /\ low <= deepest[outgoing]
      /\ \A i \in eaten : low <= i /\ i <= Size - 1
      /\ \A i \in at .. at + n - 1 : i \in eaten
  BY <1>4, <1>5
<1>7. at + n <= Size
  BY <1>4
<1> HIDE DEF eaten, at
<1>8. \/ /\ dead' = TRUE
         /\ Guard!Trampled(eaten) \/ kCanarySize - 1 \in eaten
         /\ \E e \in IF Guard!Trampled(eaten) THEN 0 .. kCanarySize
                     ELSE {Cardinality(Guard!Canary \cap eaten)} :
              testament' = IF wired THEN [who |-> outgoing, how |-> "overflow", eaten |-> e] ELSE None
      \/ /\ Guard!Trampled(eaten) \/ kCanarySize - 1 \notin eaten
         /\ dead' = dead /\ testament' = testament
  BY <1>2, SameOperators DEF Guard!context_switch, Guard!fast_check_stack, Guard!Die, Guard!eaten_length
<1>9. kCanarySize - 1 \in eaten => low < kCanarySize /\ Cardinality(Guard!Canary \cap eaten) > 0
  <2> DEFINE C == Guard!Canary
  <2>1. C = 0 .. kCanarySize - 1 /\ IsFiniteSet(C)
    BY StackFacts, FS_Interval DEF Guard!Canary
  <2>2. kCanarySize - 1 \in eaten => C \cap eaten # {} /\ low < kCanarySize
    BY <1>6, <2>1, StackFacts
  <2> HIDE DEF C
  <2>3. IsFiniteSet(C \cap eaten)
    BY <2>1, FS_Intersection
  <2> QED BY <2>2, <2>3, FS_EmptySet, FS_CardinalityType DEF C
<1>10. /\ touched'[outgoing] = eaten /\ deepest'[outgoing] = low /\ held'[outgoing] = lowheld
       /\ \A u \in Tasks \ {outgoing} :
            deepest'[u] = deepest[u] /\ touched'[u] = touched[u] /\ held'[u] = held[u]
       /\ touched' \in [Tasks -> SUBSET Int] /\ deepest' \in [Tasks -> Int] /\ held' \in [Tasks -> Int]
  BY <1>1, <1>4, <1>6
<1>11. wired' \in BOOLEAN /\ dead' \in BOOLEAN
  BY <1>1, <1>8 DEF StackInv
<1>12. /\ sp' \in [Tasks -> Int]
       /\ sp'[outgoing] = at
       /\ \A u \in Tasks \ {outgoing, heir} : sp'[u] = sp[u]
       /\ sp'[heir] = IF dead' THEN sp[heir] ELSE sp[heir] + n
       /\ current' = IF dead' THEN outgoing ELSE heir
  <2>1. CASE dead'
    BY <1>1, <1>3, <1>4, <1>5, <2>1
  <2>2. CASE ~dead'
    <3> DEFINE lower == [sp EXCEPT ![outgoing] = at]
    <3>1. sp' = [lower EXCEPT ![heir] = lower[heir] + n] /\ current' = heir
      <4>1. sp' = [sp EXCEPT ![outgoing] = at, ![heir] = @ + n]
        BY <1>3, <2>2
      <4> QED BY <1>1, <1>3, <1>4, <2>2, <4>1, Zenon
    <3>2. /\ lower \in [Tasks -> Int] /\ lower[outgoing] = at
          /\ \A u \in Tasks \ {outgoing} : lower[u] = sp[u]
      BY <1>4, <1>5
    <3> HIDE DEF lower
    <3> QED BY <1>1, <1>4, <2>2, <3>1, <3>2
  <2> QED BY <2>1, <2>2
<1>13. \A t \in Tasks :
         t # current' /\ ~dead' /\ ~Guard!Trampled(touched'[t]) => kCanarySize - 1 \notin touched'[t]
  BY <1>1, <1>8, <1>10, <1>12 DEF StackInv
<1>14. Guard!DeathIsReported'
  <2> SUFFICES ASSUME dead', wired
               PROVE  /\ testament'.who = outgoing
                      /\ ~Guard!Trampled(eaten) =>
                           /\ low < kCanarySize
                           /\ testament'.eaten = Cardinality(Guard!Canary \cap eaten)
                           /\ testament'.eaten > 0
    BY <1>1, <1>10, <1>12, SameOperators DEF Guard!DeathIsReported, Guard!Trampled, Guard!Canary
  <2>1. PICK e \in IF Guard!Trampled(eaten) THEN 0 .. kCanarySize
                   ELSE {Cardinality(Guard!Canary \cap eaten)} :
          testament' = [who |-> outgoing, how |-> "overflow", eaten |-> e]
    BY <1>1, <1>8
  <2>2. testament'.who = outgoing /\ testament'.eaten = e
    BY <2>1
  <2>3. ~Guard!Trampled(eaten) => kCanarySize - 1 \in eaten /\ e = Cardinality(Guard!Canary \cap eaten)
    BY <1>1, <1>8, <2>1
  <2> QED BY <1>9, <2>2, <2>3
<1>15. ASSUME NEW t \in Tasks
       PROVE  /\ \A i \in touched'[t] : deepest'[t] <= i /\ i <= Size - 1
              /\ held'[t] \in touched'[t]
              /\ deepest'[t] <= sp'[t] /\ sp'[t] <= Size
              /\ t # current' => Parked(t)'
  <2>1. CASE t = outgoing
    <3>1. at <= Size
      BY <1>4, <1>5, <1>7
    <3>2. Parked(t)'
      BY <1>6, <1>7, <1>10, <1>12, <2>1 DEF Parked, n
    <3> QED BY <1>6, <1>10, <1>12, <2>1, <3>1, <3>2
  <2>2. CASE t # outgoing
    <3>1. /\ touched'[t] = touched[t] /\ deepest'[t] = deepest[t] /\ held'[t] = held[t]
          /\ deepest[t] <= sp[t] /\ Parked(t) /\ sp[t] <= Size
          /\ sp[t] \in Int /\ deepest[t] \in Int
          /\ \A i \in touched[t] : deepest[t] <= i /\ i <= Size - 1
          /\ held[t] \in touched[t]
      BY <1>4, <1>10, <2>2 DEF StackInv
    <3>2. sp'[t] = sp[t] \/ (sp'[t] = sp[t] + n /\ t = current')
      BY <1>12, <2>2
    <3>3. sp[t] + n <= Size
      BY <3>1 DEF Parked, n
    <3>4. deepest'[t] <= sp'[t] /\ sp'[t] <= Size
      BY <1>4, <3>1, <3>2, <3>3
    <3>5. t # current' => Parked(t)'
      BY <3>1, <3>2 DEF Parked
    <3> QED BY <3>1, <3>4, <3>5
  <2> QED BY <2>1, <2>2
<1>16. current' \in Tasks
  BY <1>4, <1>12
<1> QED BY <1>10, <1>11, <1>12, <1>13, <1>14, <1>15, <1>16 DEF StackInv

\* The watermark's search from the canary up stops at a word that was written,
\* the lowest of them.
LEMMA WatermarkIs ==
  ASSUME StackInv
  PROVE  Guard!WatermarkIsFair
<1> SUFFICES ASSUME NEW t \in Tasks
             PROVE  /\ Guard!used_at_deepest(touched[t]) <= Size - Max({deepest[t], kCanarySize})
                    /\ held[t] >= kCanarySize => Guard!used_at_deepest(touched[t]) >= Size - held[t]
  BY SameOperators DEF Guard!WatermarkIsFair
<1> DEFINE d == deepest[t]
           h == held[t]
           written == {i \in touched[t] : i >= kCanarySize}
<1>1. /\ d \in Int /\ h \in Int /\ d <= Size /\ h \in touched[t] /\ touched[t] \in SUBSET Int
      /\ kCanarySize \in Nat /\ Size \in Nat /\ Size >= kCanarySize
      /\ \A i \in touched[t] : d <= i /\ i <= Size - 1
  BY StackFacts DEF StackInv
<1>2. Max({d, kCanarySize}) = IF d >= kCanarySize THEN d ELSE kCanarySize
  BY <1>1, MaxOfTwo
<1>3. /\ written \in SUBSET Nat /\ (h >= kCanarySize => h \in written)
      /\ \A i \in written : d <= i /\ kCanarySize <= i /\ i <= Size - 1
  BY <1>1
<1> HIDE DEF d, h, written
<1>4. Guard!used_at_deepest(touched[t]) =
        Size - kCanarySize - ((IF written = {} THEN Size ELSE Min(written)) - kCanarySize)
  BY <1>1, SameOperators DEF Guard!used_at_deepest, Guard!capacity_words, Guard!watermark_free_words, written
<1>5. CASE written = {}
  BY <1>1, <1>2, <1>3, <1>4, <1>5 DEF d, h
<1>6. CASE written # {}
  <2>1. Min(written) \in written /\ \A i \in written : Min(written) <= i
    BY <1>3, <1>6, LeastIs
  <2>2. Min(written) \in Int /\ Min(written) >= Max({d, kCanarySize}) /\ Max({d, kCanarySize}) \in Int
    <3> DEFINE m == Min(written)
               top == Max({d, kCanarySize})
    <3>1. m \in Nat /\ d <= m /\ kCanarySize <= m
      BY <1>3, <2>1
    <3>2. top = IF d >= kCanarySize THEN d ELSE kCanarySize
      BY <1>2
    <3> HIDE DEF m, top
    <3>3. m \in Int /\ m >= top /\ top \in Int
      BY <1>1, <3>1, <3>2
    <3> QED BY <3>3 DEF m, top
  <2>3. Guard!used_at_deepest(touched[t]) = Size - Min(written)
    BY <1>1, <1>4, <1>6, <2>2
  <2>4. Guard!used_at_deepest(touched[t]) <= Size - Max({d, kCanarySize})
    BY <1>1, <2>2, <2>3
  <2>5. h >= kCanarySize => Guard!used_at_deepest(touched[t]) >= Size - h
    BY <1>1, <1>3, <2>1, <2>2, <2>3
  <2> QED BY <2>4, <2>5 DEF d, h
<1> QED BY <1>5, <1>6

\* A parked task's sentinel is as it was painted, and so its frames, which were
\* written, do not lie across it.
LEMMA CaughtIs ==
  ASSUME StackInv
  PROVE  Guard!OverflowIsCaught
<1> SUFFICES ASSUME NEW t \in Tasks, t # current, ~Guard!Trampled(touched[t]), ~dead
             PROVE  /\ kCanarySize - 1 \notin touched[t]
                    /\ ~(sp[t] < kCanarySize /\ kCanarySize <= sp[t] + 2 * kFrame)
  BY DEF Guard!OverflowIsCaught
<1>1. kCanarySize - 1 \notin touched[t] /\ Parked(t) /\ sp[t] \in Int
  BY DEF StackInv
<1>2. ~(kCanarySize - 1 \in sp[t] .. sp[t] + 2 * kFrame - 1)
  BY <1>1 DEF Parked
<1> QED BY <1>1, <1>2, StackFacts

\* No step of the tasks breaks it.
LEMMA StackStep ==
  ASSUME StackInv, Guard!Next \/ UNCHANGED stackvars
  PROVE  StackInv'
<1>1. CASE Guard!Next
  BY <1>1, MoveKeeps, StoreKeeps, FaultKeeps, FirstSwitchKeeps, SwitchKeeps DEF Guard!Next
<1>2. CASE UNCHANGED stackvars
  BY <1>2 DEF stackvars, StackInv, Parked, Guard!DeathIsReported
<1> QED BY <1>1, <1>2

\* A written sentinel is caught at the switch, a death is told of the task that
\* died, and the watermark lies between the deepest switch and the deepest
\* point: for stacks and canaries of any size, whatever words the code writes
\* of the frames it takes, until it writes the control block below its stack.
THEOREM StacksStayWatched == MemorySpec => []StacksAreWatched
<1>1. MemoryInit => StackInv
  BY StackInit DEF MemoryInit
<1>2. StackInv /\ [MemoryNext]_memvars => StackInv'
  BY StackStep DEF MemoryNext, memvars
<1>3. StackInv => StacksAreWatched
  BY WatermarkIs, CaughtIs DEF StacksAreWatched, StackInv
<1> QED BY <1>1, <1>2, <1>3, PTL DEF MemorySpec

-----------------------------------------------------------------------------
(* The arena and the slots.                                                *)

Arena == Boot!Arena
PieceType == [mem : Slots \cup {Arena}, from : Nat, to : Nat]
TaskType == [prio : Prios \cup {0}, box : PieceType, stack : PieceType]

\* One task's box and stack: in one memory, one behind the other, the stack
\* aligned, below the arena's cursor c or in a slot that is not free.
Laid(r, c, free) ==
  /\ r.stack.mem = r.box.mem
  /\ r.box.from <= r.box.to /\ r.box.to <= r.stack.from /\ r.stack.from <= r.stack.to
  /\ r.stack.from % 8 = 0 /\ r.stack.to % 8 = 0
  /\ r.box.mem = Arena => r.stack.to <= c
  /\ r.box.mem # Arena => r.box.mem \in Slots \ free

\* All of them: what shares a memory shares the arena, each behind the last.
Beds(ts, c, free) ==
  /\ ts \in Seq(TaskType)
  /\ \A i \in 1 .. Len(ts) : Laid(ts[i], c, free)
  /\ \A i, j \in 1 .. Len(ts) :
       i < j /\ ts[i].box.mem = ts[j].box.mem =>
         ts[i].box.mem = Arena /\ ts[i].stack.to <= ts[j].box.from

\* The last task of the arena, if there is one, ends at c.
EndsAt(ts, c) ==
  \/ (\A i \in 1 .. Len(ts) : ts[i].box.mem # Arena) /\ c = 0
  \/ \E i \in 1 .. Len(ts) :
       /\ ts[i].box.mem = Arena /\ ts[i].stack.to = c
       /\ \A j \in 1 .. Len(ts) : ts[j].box.mem = Arena => j <= i

\* A slot in the builder's hands is nobody's bed yet.
Held == chain.stage \in {"Slotted", "Armed", "Stacked", "TCBCreator"}
FreeSlots == spare \cup (IF Held THEN {chain.slot} ELSE {})

ChainType ==
  /\ chain \in [stage : {"none", "Named", "Priorized", "Worded", "Launchable",
                         "Slotted", "Armed", "Stacked", "TCBCreator"},
                prio : Prios \cup {0}, words : Nat, slot : Slots \cup {Arena}]
  /\ Held => chain.slot \in Slots

ArenaInv ==
  /\ cursor \in Nat /\ left \in Nat /\ cursor + left = kTaskArenaBytes
  /\ spare \subseteq Slots /\ halted \in BOOLEAN
  /\ ChainType
  /\ Held => chain.slot \notin spare
  /\ Beds(tasks, cursor, FreeSlots)
  /\ ~halted => EndsAt(tasks, cursor)

\* The constants of the arena and the slots.
LEMMA ArenaFacts ==
  /\ kTaskArenaBytes \in Nat /\ TcbBytes \in Nat /\ TcbAlign \in Nat \ {0}
  /\ Counts \subseteq Nat
  /\ SlotWords \in Nat /\ SlotWords % 2 = 0
  /\ Arena \notin Slots
BY BootAssumption DEF Boot!LaunchAssumption, Arena

\* An arena untouched.
LEMMA ArenaInit ==
  ASSUME Boot!Init
  PROVE  ArenaInv
<1>1. /\ cursor = 0 /\ left = kTaskArenaBytes /\ spare = Slots /\ tasks = << >> /\ halted = FALSE
      /\ chain = [stage |-> "none", prio |-> 0, words |-> 0, slot |-> Arena]
  BY DEF Boot!Init, Boot!NoChain, Arena
<1>2. ~Held /\ ChainType
  BY <1>1 DEF Held, ChainType
<1>3. Beds(tasks, cursor, FreeSlots) /\ EndsAt(tasks, cursor)
  BY <1>1 DEF Beds, EndsAt
<1>4. cursor \in Nat /\ left \in Nat /\ cursor + left = kTaskArenaBytes
  BY <1>1, ArenaFacts
<1>5. spare \subseteq Slots /\ halted \in BOOLEAN
  BY <1>1
<1> QED BY <1>2, <1>3, <1>4, <1>5 DEF ArenaInv

\* One more bed: behind the others in the arena, or in a slot that was free.
LEMMA BedsGrow ==
  ASSUME NEW ts, NEW c \in Nat, NEW free, Beds(ts, c, free),
         NEW d \in Nat, c <= d, NEW unused, unused \subseteq free,
         NEW r \in TaskType, Laid(r, d, unused),
         r.box.mem = Arena => c <= r.box.from,
         r.box.mem # Arena => r.box.mem \in free
  PROVE  Beds(Append(ts, r), d, unused)
<1> DEFINE us == Append(ts, r)
           n == Len(ts)
<1>1. /\ ts \in Seq(TaskType) /\ n \in Nat /\ us \in Seq(TaskType) /\ Len(us) = n + 1 /\ us[n + 1] = r
      /\ \A i \in 1 .. n : us[i] = ts[i] /\ ts[i] \in TaskType
  BY DEF Beds
<1> HIDE DEF us, n
<1>2. \A i \in 1 .. n + 1 : i = n + 1 \/ i \in 1 .. n
  BY <1>1
<1>3. \A i \in 1 .. n : Laid(ts[i], c, free) /\ ts[i].stack.to \in Nat
  BY <1>1 DEF Beds, n, TaskType, PieceType
<1>4. \A i \in 1 .. n : Laid(ts[i], d, unused)
  BY <1>3 DEF Laid
<1>5. \A i \in 1 .. n + 1 : Laid(us[i], d, unused)
  BY <1>1, <1>2, <1>4
<1>6. ASSUME NEW i \in 1 .. n + 1, NEW j \in 1 .. n + 1, i < j, us[i].box.mem = us[j].box.mem
      PROVE  us[i].box.mem = Arena /\ us[i].stack.to <= us[j].box.from
  <2>1. i \in 1 .. n /\ us[i] = ts[i]
    BY <1>1, <1>6
  <2>2. CASE j \in 1 .. n
    BY <1>1, <1>6, <2>1, <2>2 DEF Beds, n
  <2>3. CASE j = n + 1
    <3>1. us[j] = r /\ ts[i].box.mem = r.box.mem
      BY <1>1, <1>6, <2>1, <2>3
    <3>2. ts[i].box.mem = Arena
      BY <1>3, <2>1, <3>1 DEF Laid
    <3>3. ts[i].stack.to <= c /\ c <= r.box.from
      BY <1>3, <2>1, <3>1, <3>2 DEF Laid
    <3>4. r.box.from \in Nat
      BY DEF TaskType, PieceType
    <3> QED BY <1>3, <2>1, <3>1, <3>2, <3>3, <3>4
  <2> QED BY <1>2, <2>2, <2>3
<1> QED BY <1>1, <1>5, <1>6 DEF Beds, us

\* Beds stay what they are when the cursor moves on and slots are used up.
LEMMA BedsStay ==
  ASSUME NEW ts, NEW c \in Nat, NEW free, Beds(ts, c, free),
         NEW d \in Nat, c <= d, NEW unused, unused \subseteq free
  PROVE  Beds(ts, d, unused)
<1>1. \A i \in 1 .. Len(ts) : Laid(ts[i], c, free) /\ ts[i] \in TaskType
  BY DEF Beds
<1>2. \A i \in 1 .. Len(ts) : ts[i].stack.to \in Nat
  BY <1>1 DEF TaskType, PieceType
<1>3. \A i \in 1 .. Len(ts) : Laid(ts[i], d, unused)
  BY <1>1, <1>2 DEF Laid
<1> QED BY <1>3 DEF Beds

\* One more task in the arena is the last one there; a task in a slot is not.
LEMMA EndMoves ==
  ASSUME NEW ts \in Seq(TaskType), NEW c, EndsAt(ts, c), NEW r \in TaskType,
         NEW d, d = IF r.box.mem = Arena THEN r.stack.to ELSE c
  PROVE  EndsAt(Append(ts, r), d)
<1> DEFINE us == Append(ts, r)
           n == Len(ts)
<1>1. n \in Nat /\ Len(us) = n + 1 /\ us[n + 1] = r /\ \A i \in 1 .. n : us[i] = ts[i]
  OBVIOUS
<1>2. EndsAt(ts, c) /\ n = Len(ts)
  OBVIOUS
<1> HIDE DEF us, n
<1>3. \A i \in 1 .. n + 1 : i = n + 1 \/ i \in 1 .. n
  BY <1>1
<1>4. CASE r.box.mem = Arena
  <2>1. n + 1 \in 1 .. Len(us) /\ us[n + 1].box.mem = Arena /\ us[n + 1].stack.to = d
    BY <1>1, <1>4
  <2>2. \A j \in 1 .. Len(us) : j <= n + 1
    BY <1>1
  <2> QED BY <2>1, <2>2 DEF EndsAt, us
<1>5. CASE r.box.mem # Arena
  <2>1. CASE (\A i \in 1 .. n : ts[i].box.mem # Arena) /\ c = 0
    <3>1. \A i \in 1 .. Len(us) : us[i].box.mem # Arena
      BY <1>1, <1>3, <1>5, <2>1
    <3> QED BY <1>5, <2>1, <3>1 DEF EndsAt, us
  <2>2. CASE \E i \in 1 .. n :
               /\ ts[i].box.mem = Arena /\ ts[i].stack.to = c
               /\ \A j \in 1 .. n : ts[j].box.mem = Arena => j <= i
    <3>1. PICK i \in 1 .. n : /\ ts[i].box.mem = Arena /\ ts[i].stack.to = c
                              /\ \A j \in 1 .. n : ts[j].box.mem = Arena => j <= i
      BY <2>2
    <3>2. i \in 1 .. Len(us) /\ us[i].box.mem = Arena /\ us[i].stack.to = d
      BY <1>1, <1>5, <3>1
    <3>3. \A j \in 1 .. Len(us) : us[j].box.mem = Arena => j <= i
      BY <1>1, <1>3, <1>5, <3>1
    <3> QED BY <3>2, <3>3 DEF EndsAt, us
  <2> QED BY <1>2, <2>1, <2>2 DEF EndsAt
<1> QED BY <1>4, <1>5

-----------------------------------------------------------------------------
\* Rounding up to a multiple of 8.
LEMMA Round8 ==
  ASSUME NEW c \in Nat
  PROVE  Boot!miss(c, 8) \in Nat /\ (c + Boot!miss(c, 8)) % 8 = 0
BY DEF Boot!miss

\* The padding is a number.
LEMMA MissIsNat ==
  ASSUME NEW c \in Nat, NEW a \in Nat \ {0}
  PROVE  Boot!miss(c, a) \in Nat
<1>1. c % a \in 0 .. a - 1
  OBVIOUS
<1> DEFINE x == a - (c % a)
<1>2. x \in Nat
  BY <1>1
<1> HIDE DEF x
<1>3. x % a \in Nat
  BY <1>2
<1> QED BY <1>3 DEF Boot!miss, x

\* What a launch writes down when its box ends at b and its stack at e.
Bedded(rank, b, e, bytes) ==
  [prio |-> rank,
   box |-> [mem |-> Arena, from |-> b - TcbBytes, to |-> b - TcbBytes + TcbBytes],
   stack |-> [mem |-> Arena, from |-> e - bytes, to |-> e - bytes + bytes]]

\* A launch takes box and stack one behind the other.
LEMMA LaunchKeeps ==
  ASSUME ArenaInv, Boot!launch
  PROVE  ArenaInv'
<1> DEFINE now == [cursor |-> cursor, left |-> left]
           boxed == Boot!take(now, TcbBytes, TcbAlign)
           bytes == chain.words * 4
           bedded == Boot!take(boxed, bytes, 8)
           b == boxed.cursor
           e == bedded.cursor
           r == Bedded(chain.prio, b, e, bytes)
<1>1. /\ ~halted /\ chain.stage = "Launchable"
      /\ chain' = [stage |-> "none", prio |-> 0, words |-> 0, slot |-> Arena] /\ spare' = spare
  BY DEF Boot!launch, Boot!Wiring, Boot!NoChain, Arena
<1>2. \/ /\ halted' = TRUE /\ tasks' = tasks /\ cursor' = cursor /\ left' = left
      \/ /\ cursor' = e /\ left' = bedded.left
         /\ halted' = TRUE /\ tasks' = tasks
      \/ /\ cursor' = e /\ left' = bedded.left /\ chain.words % 2 = 0
         /\ Boot!Fits(now, TcbBytes, TcbAlign) /\ Boot!Fits(boxed, bytes, 8)
         /\ tasks' = Append(tasks, r) /\ halted' = halted
  BY DEF Boot!launch, Boot!Halt, Boot!spawn_into, Boot!Piece, Arena, Boot!Arena, Bedded
<1>3. /\ cursor \in Nat /\ left \in Nat /\ cursor + left = kTaskArenaBytes
      /\ spare \subseteq Slots /\ Beds(tasks, cursor, FreeSlots) /\ EndsAt(tasks, cursor)
  BY <1>1 DEF ArenaInv
<1>4. chain.prio \in Prios \cup {0} /\ chain.words \in Nat /\ bytes \in Nat
  BY DEF ArenaInv, ChainType
<1>5. now.cursor = cursor /\ now.left = left
  OBVIOUS
<1>6. boxed = Boot!take(now, TcbBytes, TcbAlign) /\ bedded = Boot!take(boxed, bytes, 8)
  OBVIOUS
<1>7. r = Bedded(chain.prio, b, e, bytes)
  OBVIOUS
<1>8. bytes = chain.words * 4
  OBVIOUS
<1> HIDE DEF now, boxed, bedded, bytes, r
<1> DEFINE p == Boot!miss(cursor, TcbAlign)
           q == Boot!miss(b, 8)
           boxes == Boot!Fits(now, TcbBytes, TcbAlign)
           beds == Boot!Fits(boxed, bytes, 8)
<1>9. /\ p \in Nat /\ b \in Nat /\ boxed.left \in Nat
      /\ b + boxed.left = cursor + left /\ cursor <= b
      /\ boxes => b = cursor + p + TcbBytes
  <2>1. p \in Nat
    BY <1>3, MissIsNat, ArenaFacts
  <2>2. boxes <=> p + TcbBytes <= left
    BY <1>5 DEF Boot!Fits
  <2>3. CASE boxes
    <3>1. boxed = [cursor |-> cursor + p + TcbBytes, left |-> left - p - TcbBytes]
      BY <1>5, <1>6, <2>3 DEF Boot!take
    <3> HIDE DEF p, boxes
    <3>2. b = cursor + p + TcbBytes /\ boxed.left = left - p - TcbBytes
      BY <3>1
    <3> QED BY <1>3, <2>1, <2>2, <2>3, <3>2, ArenaFacts
  <2>4. CASE ~boxes
    <3>1. boxed = now
      BY <1>6, <2>4 DEF Boot!take
    <3> QED BY <1>3, <1>5, <2>1, <2>4, <3>1
  <2> QED BY <2>3, <2>4
<1>10. /\ q \in Nat /\ (b + q) % 8 = 0 /\ e \in Nat /\ bedded.left \in Nat
       /\ e + bedded.left = b + boxed.left /\ b <= e
       /\ beds => e = b + q + bytes
  <2>1. q \in Nat /\ (b + q) % 8 = 0
    BY <1>9, Round8
  <2>2. beds <=> q + bytes <= boxed.left
    BY DEF Boot!Fits
  <2>3. CASE beds
    <3>1. bedded = [cursor |-> b + q + bytes, left |-> boxed.left - q - bytes]
      BY <1>6, <2>3 DEF Boot!take
    <3> DEFINE l == boxed.left
    <3> HIDE DEF p, q, beds, b, l
    <3>2. e = b + q + bytes /\ bedded.left = l - q - bytes
      BY <3>1 DEF l
    <3>3. l \in Nat /\ q + bytes <= l /\ l = boxed.left
      BY <1>9, <2>2, <2>3 DEF l
    <3>4. l - q - bytes \in Nat /\ (b + q + bytes) + (l - q - bytes) = b + l /\ b <= b + q + bytes
      BY <1>4, <1>9, <2>1, <3>3
    <3> QED BY <1>4, <1>9, <2>1, <2>3, <3>2, <3>3, <3>4
  <2>4. CASE ~beds
    <3>1. bedded = boxed
      BY <1>6, <2>4 DEF Boot!take
    <3> QED BY <1>9, <2>1, <2>4, <3>1
  <2> QED BY <2>3, <2>4
<1> HIDE DEF b, e, p, q
<1>11. ~Held' /\ ChainType'
  BY <1>1 DEF Held, ChainType
<1>12. FreeSlots' \subseteq FreeSlots
  BY <1>1, <1>11 DEF FreeSlots
<1>13. halted' \in BOOLEAN /\ spare' \subseteq Slots
  BY <1>1, <1>2, <1>3 DEF ArenaInv
<1>14. /\ cursor' \in Nat /\ left' \in Nat /\ cursor' + left' = kTaskArenaBytes /\ cursor <= cursor'
  <2>1. CASE cursor' = cursor /\ left' = left
    BY <1>3, <2>1
  <2>2. CASE cursor' = e /\ left' = bedded.left
    BY <1>3, <1>9, <1>10, <2>2
  <2> QED BY <1>2, <2>1, <2>2
<1>15. CASE tasks' = tasks /\ halted' = TRUE
  <2>1. Beds(tasks, cursor', FreeSlots')
    BY <1>3, <1>12, <1>14, BedsStay
  <2> QED BY <1>11, <1>13, <1>14, <1>15, <2>1 DEF ArenaInv
<1>16. CASE /\ cursor' = e /\ chain.words % 2 = 0
            /\ Boot!Fits(now, TcbBytes, TcbAlign) /\ Boot!Fits(boxed, bytes, 8)
            /\ tasks' = Append(tasks, r) /\ halted' = halted
  <2>1. b = cursor + p + TcbBytes
    BY <1>9, <1>16
  <2>2. e = b + q + bytes
    BY <1>10, <1>16
  <2>3. bytes % 8 = 0
    BY <1>4, <1>8, <1>16
  <2>4. /\ r \in TaskType /\ r.box.mem = Arena /\ cursor <= r.box.from /\ r.stack.to = e
        /\ \A free : Laid(r, e, free)
    <3>1. /\ b - TcbBytes = cursor + p /\ b - TcbBytes + TcbBytes = b
          /\ e - bytes = b + q /\ e - bytes + bytes = e /\ e % 8 = 0
      BY <1>3, <1>4, <1>9, <1>10, <2>1, <2>2, <2>3, ArenaFacts
    <3>2. r = [prio |-> chain.prio, box |-> [mem |-> Arena, from |-> cursor + p, to |-> b],
               stack |-> [mem |-> Arena, from |-> b + q, to |-> e]]
      BY <1>7, <3>1 DEF Bedded
    <3>3. /\ r.box.mem = Arena /\ r.box.from = cursor + p /\ r.box.to = b
          /\ r.stack.mem = Arena /\ r.stack.from = b + q /\ r.stack.to = e
      BY <3>2
    <3>4. cursor + p \in Nat /\ b + q \in Nat
      BY <1>3, <1>9, <1>10
    <3>5. r \in TaskType
      BY <1>4, <1>9, <1>10, <3>2, <3>4 DEF TaskType, PieceType
    <3>6. cursor <= cursor + p /\ cursor + p <= b /\ b <= b + q /\ b + q <= e
      BY <1>3, <1>4, <1>9, <1>10, <2>1, <2>2, ArenaFacts
    <3>7. \A free : Laid(r, e, free)
      BY <1>9, <1>10, <3>1, <3>3, <3>6 DEF Laid
    <3> QED BY <3>3, <3>5, <3>6, <3>7
  <2>5. Beds(tasks', cursor', FreeSlots')
    BY <1>3, <1>12, <1>14, <1>16, <2>4, BedsGrow
  <2>6. EndsAt(tasks', cursor')
    <3>1. tasks \in Seq(TaskType)
      BY <1>3 DEF Beds
    <3> QED BY <1>3, <1>16, <2>4, <3>1, EndMoves
  <2> QED BY <1>11, <1>13, <1>14, <2>5, <2>6 DEF ArenaInv
<1> QED BY <1>2, <1>15, <1>16

\* The builder moves on without giving up or taking a slot.
LEMMA AdvanceKeeps ==
  ASSUME ArenaInv, Boot!named \/ Boot!entry \/ (\E rank \in Prios : Boot!prio(rank))
                     \/ (\E n \in Counts : Boot!words(n))
  PROVE  ArenaInv'
<1>1. /\ cursor' = cursor /\ left' = left /\ spare' = spare /\ tasks' = tasks /\ halted' = halted
  BY DEF Boot!named, Boot!entry, Boot!prio, Boot!words, Boot!Advance
<1>2. ChainType' /\ (Held' <=> Held) /\ chain'.slot = chain.slot
  <2>1. CASE Boot!named
    BY <2>1 DEF ArenaInv, Held, ChainType, Boot!named, Boot!Wiring, Boot!Advance
  <2>2. CASE Boot!entry
    BY <2>2 DEF ArenaInv, Held, ChainType, Boot!entry, Boot!Wiring, Boot!Advance
  <2>3. CASE \E rank \in Prios : Boot!prio(rank)
    BY <2>3 DEF ArenaInv, Held, ChainType, Boot!prio, Boot!Wiring, Boot!Advance
  <2>4. CASE \E n \in Counts : Boot!words(n)
    BY <2>4, ArenaFacts DEF ArenaInv, Held, ChainType, Boot!words, Boot!Wiring, Boot!Advance
  <2> QED BY <2>1, <2>2, <2>3, <2>4
<1>3. FreeSlots' = FreeSlots
  BY <1>1, <1>2 DEF FreeSlots
<1> QED BY <1>1, <1>2, <1>3 DEF ArenaInv

\* A slot passes from the spare ones into the builder's hands.
LEMMA StackKeeps ==
  ASSUME ArenaInv, NEW s \in Slots, NEW stage \in {"Slotted", "Stacked"}, Boot!stack(s, stage)
  PROVE  ArenaInv'
<1>1. /\ cursor' = cursor /\ left' = left /\ tasks' = tasks /\ halted' = halted
      /\ s \in spare /\ spare' = spare \ {s} /\ chain.stage = "Priorized"
      /\ chain' = [chain EXCEPT !.stage = stage, !.slot = s]
  BY DEF Boot!stack, Boot!Wiring
<1>2. ChainType' /\ ~Held /\ Held' /\ chain'.slot = s
  BY <1>1 DEF ArenaInv, Held, ChainType
<1>3. FreeSlots' = FreeSlots
  BY <1>1, <1>2 DEF FreeSlots
<1> QED BY <1>1, <1>2, <1>3 DEF ArenaInv

\* What is written when slot s is filled.
Filled(rank, s) ==
  [prio |-> rank,
   box |-> [mem |-> s, from |-> 0, to |-> 0 + TcbBytes],
   stack |-> [mem |-> s, from |-> Boot!SlotBed, to |-> Boot!SlotBed + SlotWords * 4]]

\* The builder's slot becomes a task's bed.
LEMMA FillKeeps ==
  ASSUME ArenaInv, Boot!Armed_spawn_into \/ Boot!spawn
  PROVE  ArenaInv'
<1> DEFINE s == chain.slot
           r == Filled(chain.prio, s)
           bed == Boot!SlotBed
           top == bed + SlotWords * 4
<1>1. /\ ~halted /\ chain.stage \in {"Armed", "TCBCreator"}
      /\ chain' = [stage |-> "none", prio |-> 0, words |-> 0, slot |-> Arena]
      /\ cursor' = cursor /\ left' = left /\ spare' = spare /\ halted' = halted
      /\ tasks' = Append(tasks, r)
  BY DEF Boot!Armed_spawn_into, Boot!spawn, Boot!FillSlot, Boot!Wiring, Boot!NoChain, Arena,
         Boot!spawn_into, Boot!Piece, Filled
<1>2. /\ cursor \in Nat /\ spare \subseteq Slots /\ Beds(tasks, cursor, FreeSlots)
      /\ EndsAt(tasks, cursor) /\ chain.prio \in Prios \cup {0}
  BY <1>1 DEF ArenaInv, ChainType
<1>3. Held /\ s \in Slots /\ s \notin spare /\ s # Arena
  BY <1>1, ArenaFacts DEF ArenaInv, ChainType, Held
<1>4. ~Held' /\ ChainType' /\ FreeSlots' = spare /\ FreeSlots = spare \cup {s}
  BY <1>1, <1>3 DEF Held, ChainType, FreeSlots
<1>5. /\ bed \in Nat /\ TcbBytes <= bed /\ bed % 8 = 0
  <2> DEFINE pad == Boot!miss(TcbBytes, 8)
  <2>1. pad \in Nat /\ (TcbBytes + pad) % 8 = 0
    BY ArenaFacts, Round8
  <2>2. bed = TcbBytes + pad
    BY DEF Boot!SlotBed
  <2> HIDE DEF pad, bed
  <2> QED BY <2>1, <2>2, ArenaFacts
<1>6. top \in Nat /\ bed <= top /\ top % 8 = 0
  <2> HIDE DEF bed
  <2> QED BY <1>5, ArenaFacts
<1>7. r = [prio |-> chain.prio, box |-> [mem |-> s, from |-> 0, to |-> TcbBytes],
           stack |-> [mem |-> s, from |-> bed, to |-> top]]
  <2>1. 0 + TcbBytes = TcbBytes
    BY ArenaFacts
  <2> QED BY <2>1 DEF Filled
<1> HIDE DEF bed, top, s, r
<1>8. /\ r.box.mem = s /\ r.box.from = 0 /\ r.box.to = TcbBytes
      /\ r.stack.mem = s /\ r.stack.from = bed /\ r.stack.to = top
  BY <1>7
<1>9. r \in TaskType
  BY <1>2, <1>3, <1>5, <1>6, <1>7, ArenaFacts DEF TaskType, PieceType
<1>10. Laid(r, cursor, spare)
  BY <1>3, <1>5, <1>6, <1>8, ArenaFacts DEF Laid
<1>11. Beds(tasks', cursor', FreeSlots')
  <2>1. s \in FreeSlots /\ spare \subseteq FreeSlots /\ cursor <= cursor
    BY <1>2, <1>4
  <2>2. Beds(Append(tasks, r), cursor, spare)
    BY <1>2, <1>3, <1>8, <1>9, <1>10, <2>1, BedsGrow
  <2> QED BY <1>1, <1>4, <2>2 DEF r
<1>12. EndsAt(tasks', cursor')
  <2>1. tasks \in Seq(TaskType)
    BY <1>2 DEF Beds
  <2>2. EndsAt(Append(tasks, r), cursor)
    BY <1>2, <1>3, <1>8, <1>9, <2>1, EndMoves
  <2> QED BY <1>1, <2>2 DEF r
<1> QED BY <1>1, <1>4, <1>11, <1>12 DEF ArenaInv

\* No step of the wiring code breaks it.
LEMMA ArenaStep ==
  ASSUME ArenaInv, Boot!Next \/ UNCHANGED bootvars
  PROVE  ArenaInv'
<1>1. CASE Boot!named \/ Boot!entry \/ (\E rank \in Prios : Boot!prio(rank))
             \/ (\E n \in Counts : Boot!words(n))
  BY <1>1, AdvanceKeeps
<1>2. CASE Boot!launch
  BY <1>2, LaunchKeeps
<1>3. CASE Boot!Armed_spawn_into \/ Boot!spawn
  BY <1>3, FillKeeps
<1>4. CASE \E s \in Slots : Boot!stack(s, "Slotted") \/ Boot!stack(s, "Stacked")
  BY <1>4, StackKeeps
<1>5. CASE Boot!start_scheduler \/ UNCHANGED bootvars
  <2>1. /\ cursor' = cursor /\ left' = left /\ chain' = chain /\ spare' = spare
        /\ tasks' = tasks /\ halted' = halted
    BY <1>5 DEF Boot!start_scheduler, bootvars
  <2>2. ChainType' /\ Held' = Held /\ FreeSlots' = FreeSlots
    BY <2>1 DEF ArenaInv, ChainType, Held, FreeSlots
  <2> QED BY <2>1, <2>2 DEF ArenaInv
<1> QED BY <1>1, <1>2, <1>3, <1>4, <1>5 DEF Boot!Next

-----------------------------------------------------------------------------
\* Two pieces of one memory lie one behind the other.
LEMMA BedsApart ==
  ASSUME ArenaInv
  PROVE  Boot!BedsAreApart
<1> DEFINE N == 1 .. Len(tasks)
<1>1. /\ tasks \in Seq(TaskType)
      /\ \A i \in N : Laid(tasks[i], cursor, FreeSlots)
      /\ \A i, j \in N : i < j /\ tasks[i].box.mem = tasks[j].box.mem =>
                           tasks[i].box.mem = Arena /\ tasks[i].stack.to <= tasks[j].box.from
  BY DEF ArenaInv, Beds
<1>2. \A i \in N : /\ tasks[i].box.from \in Nat /\ tasks[i].box.to \in Nat
                   /\ tasks[i].stack.from \in Nat /\ tasks[i].stack.to \in Nat
  <2>1. \A i \in N : tasks[i] \in TaskType
    BY <1>1
  <2> QED BY <2>1 DEF TaskType, PieceType
<1>3. \A i \in N :
        /\ tasks[i].stack.mem = tasks[i].box.mem
        /\ tasks[i].box.from <= tasks[i].box.to /\ tasks[i].box.to <= tasks[i].stack.from
        /\ tasks[i].stack.from <= tasks[i].stack.to
        /\ tasks[i].stack.from % 8 = 0 /\ tasks[i].stack.to % 8 = 0
        /\ tasks[i].box.mem = Arena => tasks[i].stack.to <= cursor
  BY <1>1 DEF Laid
<1>4. \A x \in Boot!Pieces : \E i \in N : x = << i, "box", tasks[i].box >> \/ x = << i, "stack", tasks[i].stack >>
  BY DEF Boot!Pieces
<1>5. ASSUME NEW i \in N, NEW j \in N, i < j,
             NEW x \in {tasks[i].box, tasks[i].stack}, NEW y \in {tasks[j].box, tasks[j].stack}
      PROVE  Boot!Apart(x, y) /\ Boot!Apart(y, x)
  <2>1. CASE tasks[i].box.mem # tasks[j].box.mem
    BY <1>3, <2>1 DEF Boot!Apart
  <2>2. CASE tasks[i].box.mem = tasks[j].box.mem
    <3>1. tasks[i].stack.to <= tasks[j].box.from
      BY <1>1, <1>5, <2>2
    <3>2. x.to \in Nat /\ x.to <= tasks[i].stack.to
      <4>1. CASE x = tasks[i].box
        BY <1>2, <1>3, <4>1, SMTT(30)
      <4>2. CASE x = tasks[i].stack
        BY <1>2, <4>2, SMTT(30)
      <4> QED BY <4>1, <4>2
    <3>3. y.from \in Nat /\ tasks[j].box.from <= y.from
      <4>1. CASE y = tasks[j].box
        BY <1>2, <4>1, SMTT(30)
      <4>2. CASE y = tasks[j].stack
        BY <1>2, <1>3, <4>2, SMTT(30)
      <4> QED BY <4>1, <4>2
    <3>4. x.to <= y.from
      BY <1>2, <3>1, <3>2, <3>3
    <3> QED BY <3>4 DEF Boot!Apart
  <2> QED BY <2>1, <2>2
<1>6. \A i \in N : Boot!Apart(tasks[i].box, tasks[i].stack) /\ Boot!Apart(tasks[i].stack, tasks[i].box)
  BY <1>3 DEF Boot!Apart
<1>7. ASSUME NEW x \in Boot!Pieces, NEW y \in Boot!Pieces, x # y
      PROVE  Boot!Apart(x[3], y[3])
  <2>1. PICK i \in N : x = << i, "box", tasks[i].box >> \/ x = << i, "stack", tasks[i].stack >>
    BY <1>4
  <2>2. PICK j \in N : y = << j, "box", tasks[j].box >> \/ y = << j, "stack", tasks[j].stack >>
    BY <1>4
  <2>3. x[3] \in {tasks[i].box, tasks[i].stack} /\ y[3] \in {tasks[j].box, tasks[j].stack}
    BY <2>1, <2>2
  <2>4. CASE i = j
    <3>1. \/ x[3] = tasks[i].box /\ y[3] = tasks[i].stack
          \/ x[3] = tasks[i].stack /\ y[3] = tasks[i].box
      BY <1>7, <2>1, <2>2, <2>4
    <3> QED BY <1>6, <3>1
  <2>5. CASE i < j
    BY <1>5, <2>3, <2>5
  <2>6. CASE j < i
    BY <1>5, <2>3, <2>6
  <2> QED BY <2>4, <2>5, <2>6
<1>8. ASSUME NEW x \in Boot!Pieces, x[3].mem = Arena
      PROVE  x[3].from >= 0 /\ x[3].to <= cursor
  <2>1. PICK i \in N : x[3] = tasks[i].box \/ x[3] = tasks[i].stack
    BY <1>4
  <2>2. cursor \in Nat
    BY DEF ArenaInv
  <2>3. tasks[i].stack.to <= cursor
    BY <1>3, <1>8, <2>1
  <2> QED BY <1>2, <1>3, <2>1, <2>2, <2>3, SMTT(30)
<1> QED BY <1>3, <1>7, <1>8 DEF Boot!BedsAreApart, Arena

\* The last of the arena's tasks is the one the cursor stands behind.
LEMMA NothingLeaked ==
  ASSUME ArenaInv
  PROVE  Boot!NothingLeaks
<1> DEFINE N == 1 .. Len(tasks)
           mine == {i \in N : tasks[i].box.mem = Arena}
           last == CHOOSE i \in mine : \A j \in mine : j <= i
<1>1. cursor + left = kTaskArenaBytes
  BY DEF ArenaInv
<1>2. ASSUME ~halted
      PROVE  cursor = IF mine = {} THEN 0 ELSE tasks[last].stack.to
  <2>1. EndsAt(tasks, cursor)
    BY <1>2 DEF ArenaInv
  <2>2. CASE (\A i \in N : tasks[i].box.mem # Arena) /\ cursor = 0
    BY <2>2
  <2>3. CASE \E i \in N : /\ tasks[i].box.mem = Arena /\ tasks[i].stack.to = cursor
                          /\ \A j \in N : tasks[j].box.mem = Arena => j <= i
    <3>1. PICK i \in N : /\ tasks[i].box.mem = Arena /\ tasks[i].stack.to = cursor
                         /\ \A j \in N : tasks[j].box.mem = Arena => j <= i
      BY <2>3
    <3>2. i \in mine /\ \A j \in mine : j <= i
      BY <3>1
    <3>3. last \in mine /\ \A j \in mine : j <= last
      BY <3>2
    <3>4. mine \subseteq Int
      OBVIOUS
    <3>5. last = i
      BY <3>2, <3>3, <3>4
    <3> QED BY <3>1, <3>2, <3>5
  <2> QED BY <2>1, <2>2, <2>3 DEF EndsAt
<1> QED BY <1>1, <1>2 DEF Boot!NothingLeaks, Arena

\* For an arena and slots of any size, boxes of any size and alignment and
\* launches in any order: box and stack of every task are the task's own and
\* aligned, and nothing is taken from the arena that no task has.
THEOREM ArenaStaysSound == MemorySpec => []ArenaIsSound
<1>1. MemoryInit => ArenaInv
  BY ArenaInit DEF MemoryInit
<1>2. ArenaInv /\ [MemoryNext]_memvars => ArenaInv'
  BY ArenaStep DEF MemoryNext, memvars
<1>3. ArenaInv => ArenaIsSound
  BY BedsApart, NothingLeaked DEF ArenaIsSound
<1> QED BY <1>1, <1>2, <1>3, PTL DEF MemorySpec

-----------------------------------------------------------------------------
(* The pool.  A place i of a map is position Bit(i) of word Word(i).       *)

At(w, p) == w * W + p
Bit(i) == i % W

\* The words before word b end where b begins.
LEMMA Growing ==
  ASSUME NEW a \in Nat, NEW b \in Nat, a < b
  PROVE  a * W + W <= b * W
<1>1. PICK k \in Nat : b = a + 1 + k
  <2>1. b - a - 1 \in Nat /\ b = a + 1 + (b - a - 1)
    OBVIOUS
  <2> QED BY <2>1
<1>2. b * W = a * W + W + k * W
  BY <1>1, WordAssumption
<1>3. k * W \in Nat /\ a * W \in Nat
  BY <1>1, WordAssumption
<1> QED BY <1>2, <1>3, WordAssumption

\* Every place has one word and one position.
LEMMA Divided ==
  ASSUME NEW i \in Nat
  PROVE  /\ Word(i) \in Nat /\ Bit(i) \in Positions
         /\ i = Word(i) * W + Bit(i)
<1>1. W \in Int /\ W > 0 /\ W \in Nat
  BY WordAssumption
<1>2. i = W * (i \div W) + (i % W)
  BY <1>1, Z3
<1>3. i \div W \in Nat /\ i % W \in 0 .. W - 1
  BY <1>1
<1> DEFINE d == i \div W
<1>4. W * d = d * W
  <2> HIDE DEF d
  <2>1. d \in Nat
    BY <1>3 DEF d
  <2> QED BY <1>1, <2>1
<1>5. Bit(i) = i % W /\ Word(i) = d
  BY DEF Bit, Word
<1>6. i = W * d + Bit(i) /\ d \in Nat /\ Bit(i) \in Positions
  BY <1>2, <1>3, <1>5 DEF Positions
<1> HIDE DEF d
<1> QED BY <1>4, <1>5, <1>6

\* Word and position of a place are what it was made of.
LEMMA PlaceIs ==
  ASSUME NEW w \in Nat, NEW p \in Positions
  PROVE  /\ At(w, p) \in Nat /\ Word(At(w, p)) = w /\ Bit(At(w, p)) = p
<1>1. w * W \in Nat /\ p \in Nat /\ p < W
  BY WordAssumption DEF Positions
<1> DEFINE i == w * W + p
           v == Word(i)
           q == Bit(i)
<1>2. i \in Nat
  <2> DEFINE x == w * W
  <2> HIDE DEF x
  <2>1. x \in Nat
    BY <1>1 DEF x
  <2>2. x + p \in Nat
    BY <1>1, <2>1
  <2> QED BY <2>2 DEF x
<1>3. v \in Nat /\ q \in Positions /\ i = v * W + q
  BY <1>2, Divided
<1>4. v * W \in Nat /\ q \in Nat /\ q < W
  BY <1>3, WordAssumption DEF Positions
<1>5. i = w * W + p
  OBVIOUS
<1> HIDE DEF i, v, q
<1>6. ~(v < w)
  BY <1>1, <1>3, <1>4, <1>5, Growing, WordAssumption
<1>7. ~(w < v)
  BY <1>1, <1>3, <1>4, <1>5, Growing, WordAssumption
<1>8. v = w
  BY <1>3, <1>6, <1>7
<1>9. q = p
  BY <1>1, <1>3, <1>4, <1>5, <1>8
<1> QED BY <1>2, <1>8, <1>9 DEF At, i, v, q

\* How many words there are.
LEMMA WordsAre ==
  ASSUME NEW n \in Nat \ {0}
  PROVE  /\ WORDS(n) \in Nat \ {0}
         /\ n <= WORDS(n) * W /\ (WORDS(n) - 1) * W < n
<1> DEFINE k == n + W - 1
           d == Word(k)
           r == Bit(k)
           x == d * W
<1>1. k \in Nat /\ WORDS(n) = d
  BY WordAssumption DEF WORDS, Word
<1>2. d \in Nat /\ r \in 0 .. W - 1 /\ k = x + r
  BY <1>1, Divided DEF Positions
<1>3. k = n + W - 1 /\ x = d * W
  OBVIOUS
<1> HIDE DEF k, d, r, x
<1>4. x \in Nat /\ (d - 1) * W = x - W /\ W \in Nat \ {0}
  BY <1>2, <1>3, WordAssumption
<1>5. n <= x /\ x - W < n
  BY <1>2, <1>3, <1>4
<1>6. d # 0
  <2>1. d = 0 => x = 0
    BY <1>3, WordAssumption
  <2> QED BY <1>5, <2>1
<1> QED BY <1>1, <1>2, <1>3, <1>4, <1>5, <1>6

\* The valid positions of a word are those of its places below n.
LEMMA ValidIs ==
  ASSUME NEW n \in Nat \ {0}, NEW w \in 0 .. WORDS(n) - 1
  PROVE  /\ valid_mask(n, w) \subseteq Positions
         /\ \A p \in Positions : p \in valid_mask(n, w) <=> At(w, p) < n
<1> DEFINE K == WORDS(n)
           q == Word(n)
           r == Bit(n)
           x == w * W
           y == q * W
<1>1. K \in Nat \ {0} /\ n <= K * W /\ (K - 1) * W < n
  BY WordsAre
<1>2. q \in Nat /\ r \in 0 .. W - 1 /\ n = y + r
  BY Divided DEF Positions
<1>3. w \in Nat /\ w + 1 <= K
  BY <1>1
<1>4. x = w * W /\ y = q * W /\ Positions = 0 .. W - 1
  BY DEF Positions
<1>5. valid_mask(n, w) = IF w + 1 = K THEN (IF r # 0 THEN 0 .. r - 1 ELSE Positions) ELSE Positions
  BY DEF valid_mask, tail_mask, Bit
<1>6. \A p : At(w, p) = x + p
  BY DEF At
<1> HIDE DEF K, q, r, x, y
<1>7. x \in Nat /\ y \in Nat /\ W \in Nat \ {0}
  BY <1>2, <1>3, <1>4, WordAssumption
<1>8. CASE w + 1 < K
  <2>1. w < K - 1 /\ K - 1 \in Nat
    BY <1>1, <1>3, <1>8
  <2> DEFINE z == (K - 1) * W
  <2>2. x + W <= z
    BY <1>3, <1>4, <2>1, Growing
  <2>3. z \in Nat /\ z < n
    BY <1>1, <2>1, WordAssumption
  <2> HIDE DEF z
  <2>4. \A p \in Positions : x + p < n
    BY <1>4, <1>7, <2>2, <2>3
  <2> QED BY <1>5, <1>6, <1>8, <2>4
<1>9. CASE w + 1 = K
  <2>1. n <= x + W /\ x < n
    <3>1. (w + 1) * W = x + W /\ w + 1 - 1 = w
      BY <1>3, <1>4, WordAssumption
    <3> QED BY <1>1, <1>4, <1>9, <3>1
  <2>2. CASE r = 0
    <3>1. n = y /\ y <= x + W /\ x < y
      BY <1>2, <1>7, <2>1, <2>2
    <3>2. w < q
      <4>1. ~(q < w)
        BY <1>2, <1>3, <1>4, <1>7, <3>1, Growing
      <4>2. q # w
        BY <1>4, <1>7, <3>1
      <4> QED BY <1>2, <1>3, <4>1, <4>2
    <3>3. x + W <= y
      BY <1>2, <1>3, <1>4, <3>2, Growing
    <3>4. \A p \in Positions : x + p < n
      BY <1>4, <1>7, <3>1, <3>3
    <3> QED BY <1>5, <1>6, <1>9, <2>2, <3>4
  <2>3. CASE r # 0
    <3>1. ~(w < q)
      <4>1. w < q => x + W <= y
        BY <1>2, <1>3, <1>4, Growing
      <4> QED BY <1>2, <1>7, <2>1, <2>3, <4>1
    <3>2. ~(q < w)
      <4>1. q < w => y + W <= x
        BY <1>2, <1>3, <1>4, Growing
      <4> QED BY <1>2, <1>7, <2>1, <2>3, <4>1
    <3>3. x = y
      BY <1>2, <1>3, <1>4, <3>1, <3>2
    <3>4. 0 .. r - 1 \subseteq Positions /\ \A p \in Positions : p \in 0 .. r - 1 <=> x + p < n
      BY <1>2, <1>4, <1>7, <3>3
    <3> QED BY <1>5, <1>6, <1>9, <2>3, <3>4
  <2> QED BY <2>2, <2>3
<1> QED BY <1>1, <1>3, <1>8, <1>9

\* A place below n is in one of the words.
LEMMA WordOf ==
  ASSUME NEW n \in Nat \ {0}, NEW i \in 0 .. n - 1
  PROVE  /\ Word(i) \in 0 .. WORDS(n) - 1 /\ Bit(i) \in Positions
         /\ At(Word(i), Bit(i)) = i /\ Bit(i) \in valid_mask(n, Word(i))
<1> DEFINE K == WORDS(n)
           d == Word(i)
           r == Bit(i)
           x == d * W
<1>1. K \in Nat \ {0} /\ n <= K * W
  BY WordsAre
<1>2. d \in Nat /\ r \in Positions /\ i = x + r
  BY Divided
<1>3. x = d * W /\ At(d, r) = x + r
  BY DEF At
<1> HIDE DEF K, d, r, x
<1>4. d < K
  <2>1. x \in Nat /\ r \in Nat
    BY <1>2, <1>3, WordAssumption DEF Positions
  <2>2. ~(K < d)
    <3> DEFINE z == K * W
    <3>1. z \in Nat /\ n <= z
      BY <1>1, WordAssumption
    <3>2. K < d => z + W <= x
      BY <1>1, <1>2, <1>3, Growing
    <3> HIDE DEF z
    <3> QED BY <1>2, <2>1, <3>1, <3>2, WordAssumption
  <2>3. K # d
    BY <1>1, <1>2, <1>3, <2>1
  <2> QED BY <1>1, <1>2, <2>2, <2>3
<1>5. d \in 0 .. K - 1
  BY <1>1, <1>2, <1>4
<1>6. At(d, r) = i
  BY <1>2, <1>3
<1>7. r \in valid_mask(n, d)
  BY <1>2, <1>5, <1>6, ValidIs DEF K
<1> QED BY <1>2, <1>5, <1>6, <1>7 DEF K, d, r

\* The order of places is that of their words, and within a word that of their
\* positions.
LEMMA PlacesInOrder ==
  ASSUME NEW w \in Nat, NEW v \in Nat, NEW p \in Positions, NEW q \in Positions
  PROVE  /\ w < v => At(w, p) <= At(v, q)
         /\ p <= q => At(w, p) <= At(w, q)
<1> DEFINE x == w * W
           y == v * W
<1>1. x \in Nat /\ y \in Nat /\ p \in 0 .. W - 1 /\ q \in 0 .. W - 1
  BY WordAssumption DEF Positions
<1>2. w < v => x + W <= y
  BY Growing
<1>3. At(w, p) = x + p /\ At(v, q) = y + q /\ At(w, q) = x + q
  BY DEF At
<1> HIDE DEF x, y
<1> QED BY <1>1, <1>2, <1>3, WordAssumption

-----------------------------------------------------------------------------
\* A bit is set and cleared by itself.
LEMMA TestIs ==
  ASSUME NEW m, NEW i
  PROVE  test(m, i) <=> Bit(i) \in m[Word(i)]
BY DEF test, Bit

\* set sets its own bit and no other.
LEMMA SetIs ==
  ASSUME NEW n \in Nat \ {0}, NEW m, IsBitmap(m, n), NEW i \in 0 .. n - 1
  PROVE  /\ IsBitmap(set(m, i), n)
         /\ \A j \in 0 .. n - 1 : test(set(m, i), j) <=> j = i \/ test(m, j)
         /\ set(m, i)[Word(i)] = m[Word(i)] \cup {Bit(i)}
         /\ \A w \in 0 .. WORDS(n) - 1 : w # Word(i) => set(m, i)[w] = m[w]
<1> DEFINE D == 0 .. WORDS(n) - 1
           s == set(m, i)
           b == Bit(i)
           v == Word(i)
<1>1. m \in [D -> SUBSET Positions]
  BY DEF IsBitmap
<1>2. v \in D /\ b \in Positions /\ At(v, b) = i
  BY WordOf
<1>3. s = [m EXCEPT ![v] = m[v] \cup {b}]
  BY DEF set, Bit
<1> HIDE DEF D, s, b, v
<1>4. s \in [D -> SUBSET Positions] /\ \A w \in D : s[w] = IF w = v THEN m[v] \cup {b} ELSE m[w]
  BY <1>1, <1>2, <1>3
<1>5. ASSUME NEW j \in 0 .. n - 1
      PROVE  test(s, j) <=> j = i \/ test(m, j)
  <2>1. Word(j) \in D /\ Bit(j) \in Positions /\ At(Word(j), Bit(j)) = j
    BY WordOf DEF D
  <2>2. j = i <=> Word(j) = v /\ Bit(j) = b
    BY <1>2, <2>1 DEF v, b
  <2> QED BY <1>4, <2>1, <2>2, TestIs
<1> QED BY <1>2, <1>4, <1>5 DEF IsBitmap, D, s, v, b

\* clear clears its own bit and no other.
LEMMA ClearIs ==
  ASSUME NEW n \in Nat \ {0}, NEW m, IsBitmap(m, n), NEW i \in 0 .. n - 1
  PROVE  /\ IsBitmap(clear(m, i), n)
         /\ \A j \in 0 .. n - 1 : test(clear(m, i), j) <=> j # i /\ test(m, j)
         /\ clear(m, i)[Word(i)] = m[Word(i)] \ {Bit(i)}
         /\ \A w \in 0 .. WORDS(n) - 1 : w # Word(i) => clear(m, i)[w] = m[w]
<1> DEFINE D == 0 .. WORDS(n) - 1
           s == clear(m, i)
           b == Bit(i)
           v == Word(i)
<1>1. m \in [D -> SUBSET Positions]
  BY DEF IsBitmap
<1>2. v \in D /\ b \in Positions /\ At(v, b) = i
  BY WordOf
<1>3. s = [m EXCEPT ![v] = m[v] \ {b}]
  BY DEF clear, Bit
<1> HIDE DEF D, s, b, v
<1>4. s \in [D -> SUBSET Positions] /\ \A w \in D : s[w] = IF w = v THEN m[v] \ {b} ELSE m[w]
  BY <1>1, <1>2, <1>3
<1>5. ASSUME NEW j \in 0 .. n - 1
      PROVE  test(s, j) <=> j # i /\ test(m, j)
  <2>1. Word(j) \in D /\ Bit(j) \in Positions /\ At(Word(j), Bit(j)) = j
    BY WordOf DEF D
  <2>2. j = i <=> Word(j) = v /\ Bit(j) = b
    BY <1>2, <2>1 DEF v, b
  <2> QED BY <1>4, <2>1, <2>2, TestIs
<1> QED BY <1>2, <1>4, <1>5 DEF IsBitmap, D, s, v, b

-----------------------------------------------------------------------------
\* The lowest place of a word is the one at its lowest position.
LEMMA LowestInWord ==
  ASSUME NEW w \in Nat, NEW B, B \subseteq Positions, B # {},
         NEW Z, Z = {At(w, p) : p \in B}
  PROVE  Z # {} /\ Z \subseteq Nat /\ Min(Z) = At(w, Min(B))
<1>1. Positions \subseteq Nat
  BY DEF Positions
<1>2. Min(B) \in B /\ \A p \in B : Min(B) <= p
  BY <1>1, LeastIs
<1> DEFINE b == Min(B)
<1> HIDE DEF b
<1>3. Z \subseteq Nat
  BY PlaceIs
<1>4. At(w, b) \in Z /\ \A p \in B : At(w, b) <= At(w, p)
  BY <1>2, PlacesInOrder DEF b
<1>5. \A y \in Z : At(w, b) <= y
  BY <1>4
<1>6. Min(Z) = At(w, b)
  <2>1. Z \in SUBSET Int
    BY <1>3
  <2> QED BY <1>4, <1>5, <2>1, MinIs
<1> QED BY <1>3, <1>4, <1>6 DEF b

OfWord(S, w) == {i \in S : Word(i) = w}

\* The lowest of some places is in the lowest of their words.
LEMMA LowestByWords ==
  ASSUME NEW S, S \subseteq Nat, S # {}, NEW V, V = {Word(i) : i \in S}
  PROVE  /\ V # {} /\ V \subseteq Nat
         /\ Min(V) \in V
         /\ Min(S) = Min(OfWord(S, Min(V)))
<1> DEFINE v == Min(V)
           T == OfWord(S, v)
<1>1. V # {} /\ V \subseteq Nat
  BY Divided
<1>2. v \in V /\ \A w \in V : v <= w
  BY <1>1, LeastIs
<1> HIDE DEF v
<1>3. T # {} /\ T \subseteq Nat
  BY <1>2 DEF OfWord
<1>4. Min(T) \in T /\ \A y \in T : Min(T) <= y
  BY <1>3, LeastIs
<1> DEFINE x == Min(T)
<1> HIDE DEF x
<1>5. x \in S /\ x \in Nat /\ Word(x) = v
  BY <1>4 DEF x, OfWord
<1>6. ASSUME NEW y \in S
      PROVE  x <= y
  <2>1. CASE Word(y) = v
    BY <1>4, <2>1 DEF x, OfWord
  <2>2. CASE Word(y) # v
    <3>1. v < Word(y) /\ Word(y) \in Nat /\ v \in Nat
      BY <1>1, <1>2, <2>2
    <3>2. Bit(x) \in Positions /\ Bit(y) \in Positions /\ x = At(v, Bit(x)) /\ y = At(Word(y), Bit(y))
      BY <1>5, Divided DEF At
    <3> QED BY <3>1, <3>2, PlacesInOrder
  <2> QED BY <2>1, <2>2
<1>7. Min(S) = x
  BY <1>5, <1>6, MinIs
<1> QED BY <1>1, <1>2, <1>7 DEF v, x

Free(m, n) == {i \in 0 .. n - 1 : ~test(m, i)}
FreeIn(m, n, w) == OfWord(Free(m, n), w)

\* The free places of a word are at the valid positions that are not set.
LEMMA FreeInIs ==
  ASSUME NEW n \in Nat \ {0}, NEW m, NEW w \in 0 .. WORDS(n) - 1
  PROVE  FreeIn(m, n, w) = {At(w, p) : p \in valid_mask(n, w) \ m[w]}
<1> DEFINE B == valid_mask(n, w)
<1>1. B \subseteq Positions /\ \A p \in Positions : p \in B <=> At(w, p) < n
  BY ValidIs
<1>2. WORDS(n) \in Nat
  BY WordsAre
<1>3. w \in Nat
  BY <1>2
<1> HIDE DEF B
<1>4. ASSUME NEW i \in FreeIn(m, n, w)
      PROVE  \E p \in B \ m[w] : i = At(w, p)
  <2>1. i \in 0 .. n - 1 /\ ~test(m, i) /\ Word(i) = w
    BY DEF FreeIn, OfWord, Free
  <2>2. Bit(i) \in B /\ i = At(w, Bit(i))
    BY <2>1, WordOf DEF B
  <2> QED BY <2>1, <2>2, TestIs
<1>5. ASSUME NEW p \in B \ m[w]
      PROVE  At(w, p) \in FreeIn(m, n, w)
  <2>1. At(w, p) \in Nat /\ At(w, p) < n /\ Word(At(w, p)) = w /\ Bit(At(w, p)) = p
    BY <1>1, <1>3, PlaceIs
  <2>2. ~test(m, At(w, p))
    BY <2>1, TestIs
  <2> QED BY <2>1, <2>2 DEF FreeIn, OfWord, Free
<1> QED BY <1>4, <1>5 DEF B

\* first_zero_in_word finds the lowest free place of the word.
LEMMA ZeroInWord ==
  ASSUME NEW n \in Nat \ {0}, NEW m, NEW w \in 0 .. WORDS(n) - 1
  PROVE  first_zero_in_word(m, n, w) = FirstWord(FreeIn(m, n, w))
<1> DEFINE B == valid_mask(n, w) \ m[w]
           Z == FreeIn(m, n, w)
<1>1. Z = {At(w, p) : p \in B}
  BY FreeInIs
<1>2. B \subseteq Positions /\ w \in Nat
  BY ValidIs, WordsAre
<1>3. first_zero_in_word(m, n, w) = IF B # {} THEN At(w, Min(B)) ELSE npos
  BY DEF first_zero_in_word, ctz, At
<1> HIDE DEF B, Z
<1>4. CASE B = {}
  BY <1>1, <1>3, <1>4 DEF FirstWord, Z
<1>5. CASE B # {}
  BY <1>1, <1>2, <1>3, <1>5, LowestInWord DEF FirstWord, Z
<1> QED BY <1>4, <1>5

\* FirstWord tells whether there is one.
LEMMA FirstIs ==
  ASSUME NEW S, S \subseteq Nat
  PROVE  FirstWord(S) = npos <=> S = {}
<1>1. S # {} => Min(S) \in Nat
  BY LeastIs
<1> QED BY <1>1 DEF FirstWord, npos

\* Word by word, find_first_zero finds the lowest free place.
LEMMA FirstZero ==
  ASSUME NEW n \in Nat \ {0}, NEW m, IsBitmap(m, n)
  PROVE  find_first_zero(m, n) = FirstWord(Free(m, n))
<1> DEFINE S == Free(m, n)
           D == 0 .. WORDS(n) - 1
           V == {Word(i) : i \in S}
           X == {x \in DOMAIN m : first_zero_in_word(m, n, x) # npos}
<1>1. DOMAIN m = D
  BY DEF IsBitmap
<1>2. S \subseteq Nat /\ S \subseteq 0 .. n - 1
  BY DEF Free
<1>3. V \subseteq D
  BY <1>2, WordOf
<1>4. \A x \in D : first_zero_in_word(m, n, x) = FirstWord(FreeIn(m, n, x))
  BY ZeroInWord
<1>5. \A x \in D : FreeIn(m, n, x) \subseteq Nat /\ (x \in V <=> FreeIn(m, n, x) # {})
  BY <1>2 DEF FreeIn, OfWord
<1>6. X = V
  BY <1>1, <1>3, <1>4, <1>5, FirstIs
<1>7. find_first_zero(m, n) = IF FirstWord(X) = npos THEN npos
                              ELSE first_zero_in_word(m, n, FirstWord(X))
  BY DEF find_first_zero
<1>8. V = {} <=> S = {}
  OBVIOUS
<1>9. V = {Word(i) : i \in S}
  OBVIOUS
<1>10. \A x : FreeIn(m, n, x) = OfWord(S, x)
  BY DEF FreeIn
<1> HIDE DEF S, D, V, X
<1>11. CASE S = {}
  BY <1>6, <1>7, <1>8, <1>11 DEF FirstWord, S
<1>12. CASE S # {}
  <2>1. V # {} /\ V \subseteq Nat /\ Min(V) \in V /\ Min(S) = Min(OfWord(S, Min(V)))
    BY <1>2, <1>9, <1>12, LowestByWords
  <2>2. FirstWord(V) = Min(V) /\ FirstWord(V) # npos
    BY <2>1, FirstIs DEF FirstWord
  <2>3. FreeIn(m, n, Min(V)) # {} /\ Min(V) \in D
    BY <1>3, <1>5, <2>1
  <2>4. first_zero_in_word(m, n, Min(V)) = Min(FreeIn(m, n, Min(V)))
    BY <1>4, <2>3 DEF FirstWord
  <2>5. find_first_zero(m, n) = Min(S)
    BY <1>6, <1>7, <1>10, <2>1, <2>2, <2>4
  <2> QED BY <1>12, <2>5 DEF FirstWord, S
<1> QED BY <1>11, <1>12

\* find_first_set finds the lowest place that is set, if the padding is zero.
LEMMA FirstSet ==
  ASSUME NEW n \in Nat \ {0}, NEW m, IsBitmap(m, n),
         \A w \in 0 .. WORDS(n) - 1 : m[w] \subseteq valid_mask(n, w)
  PROVE  find_first_set(m) = FirstWord({i \in 0 .. n - 1 : test(m, i)})
<1> DEFINE S == {i \in 0 .. n - 1 : test(m, i)}
           D == 0 .. WORDS(n) - 1
           V == {Word(i) : i \in S}
           X == {x \in DOMAIN m : m[x] # {}}
<1>1. DOMAIN m = D /\ \A w \in D : m[w] \subseteq Positions
  BY DEF IsBitmap
<1>2. S \subseteq Nat /\ S \subseteq 0 .. n - 1 /\ D \subseteq Nat
  OBVIOUS
<1>3. V \subseteq D
  BY <1>2, WordOf
<1>4. ASSUME NEW w \in D
      PROVE  OfWord(S, w) = {At(w, p) : p \in m[w]}
  <2>1. ASSUME NEW i \in S, Word(i) = w
        PROVE  \E p \in m[w] : i = At(w, p)
    <3>1. At(w, Bit(i)) = i
      BY <2>1, WordOf
    <3>2. Bit(i) \in m[w]
      BY <2>1, TestIs
    <3> QED BY <3>1, <3>2
  <2>2. ASSUME NEW p \in m[w]
        PROVE  At(w, p) \in S /\ Word(At(w, p)) = w
    <3>1. p \in Positions /\ p \in valid_mask(n, w)
      BY <1>1
    <3>2. At(w, p) \in Nat /\ At(w, p) < n /\ Word(At(w, p)) = w /\ Bit(At(w, p)) = p
      BY <1>2, <3>1, PlaceIs, ValidIs
    <3>3. test(m, At(w, p))
      BY <3>2, TestIs
    <3> QED BY <3>2, <3>3
  <2> HIDE DEF S, D
  <2> QED BY <2>1, <2>2 DEF OfWord
<1>5. X = V
  <2> HIDE DEF S, D
  <2>1. ASSUME NEW w \in D
        PROVE  m[w] # {} <=> OfWord(S, w) # {}
    <3>1. OfWord(S, w) = {At(w, p) : p \in m[w]}
      BY <1>4
    <3> QED BY <3>1
  <2>2. \A w \in D : w \in V <=> OfWord(S, w) # {}
    BY DEF OfWord
  <2> QED BY <1>1, <1>3, <2>1, <2>2
<1>6. find_first_set(m) = IF FirstWord(X) = npos THEN npos
                          ELSE At(FirstWord(X), Min(m[FirstWord(X)]))
  BY DEF find_first_set, ctz, At
<1>7. V = {} <=> S = {}
  OBVIOUS
<1>8. V = {Word(i) : i \in S} /\ S = {i \in 0 .. n - 1 : test(m, i)}
  OBVIOUS
<1> HIDE DEF S, D, V, X
<1>9. CASE S = {}
  BY <1>5, <1>6, <1>7, <1>8, <1>9 DEF FirstWord
<1>10. CASE S # {}
  <2>1. V # {} /\ V \subseteq Nat /\ Min(V) \in V /\ Min(S) = Min(OfWord(S, Min(V)))
    BY <1>2, <1>8, <1>10, LowestByWords
  <2>2. FirstWord(V) = Min(V) /\ FirstWord(V) # npos
    BY <2>1, FirstIs DEF FirstWord
  <2> DEFINE v == Min(V)
  <2> HIDE DEF v
  <2>3. v \in D /\ v \in Nat /\ v \in X
    BY <1>2, <1>3, <1>5, <2>1 DEF v
  <2>4. m[v] # {} /\ m[v] \subseteq Positions
    BY <1>1, <2>3 DEF X
  <2>5. Min(OfWord(S, v)) = At(v, Min(m[v]))
    BY <1>4, <2>3, <2>4, LowestInWord
  <2>6. find_first_set(m) = Min(S)
    BY <1>5, <1>6, <2>1, <2>2, <2>5 DEF v
  <2> QED BY <1>8, <1>10, <2>6 DEF FirstWord
<1> QED BY <1>9, <1>10

-----------------------------------------------------------------------------
\* Every block is free or owned once, the summary tells which words are full,
\* a block found by raw_allocate stays free until it is marked, and freed
\* blocks are known to have been poisoned.
PoolInv ==
  /\ IsBitmap(l2, block_cnt) /\ IsBitmap(l1, L1) /\ IsBitmap(ever, block_cnt)
  /\ content \in [Blocks -> {"zero", "data", "poison", "tampered"}]
  /\ answer \in {"Ok", "OutOfMemory", "Poisoned", "NotOwned"}
  /\ owners = [i \in Blocks |-> IF test(l2, i) THEN 1 ELSE 0]
  /\ \A w \in 0 .. L1 - 1 : l2[w] \subseteq valid_mask(block_cnt, w)
  /\ \A w \in 0 .. L1 - 1 : test(l1, w) <=> word_full(l2, block_cnt, w)
  /\ used = Cardinality(InUse)
  /\ \/ index = Idle
     \/ index = npos /\ InUse = Blocks
     \/ index \in Blocks /\ ~test(l2, index)
  /\ \A i \in Blocks : content[i] \in {"poison", "tampered"} => test(ever, i)
  /\ \A i \in Blocks : test(ever, i) /\ ~test(l2, i) => content[i] \in {"poison", "tampered"}

\* The constants of the pool.
LEMMA PoolFacts ==
  /\ block_cnt \in Nat \ {0} /\ L1 \in Nat \ {0} /\ Blocks = 0 .. block_cnt - 1
  /\ Blocks \subseteq Nat /\ IsFiniteSet(Blocks) /\ Cardinality(Blocks) = block_cnt
  /\ L1 = WORDS(block_cnt)
  /\ npos \notin Blocks /\ Idle \notin Blocks /\ npos # Idle
<1>1. block_cnt \in Nat \ {0} /\ L1 \in Nat \ {0} /\ L1 = WORDS(block_cnt)
  BY PoolAssumption, WordsAre DEF L1
<1>2. Blocks = 0 .. block_cnt - 1 /\ Blocks \subseteq Nat
  BY <1>1 DEF Blocks
<1>3. IsFiniteSet(Blocks) /\ Cardinality(Blocks) = block_cnt
  <2>1. 0 \in Int /\ block_cnt - 1 \in Int /\ ~(0 > block_cnt - 1) /\ block_cnt - 1 - 0 + 1 = block_cnt
    BY <1>1
  <2> QED BY <1>2, <2>1, FS_Interval
<1>4. npos \notin Blocks /\ Idle \notin Blocks /\ npos # Idle
  BY <1>2 DEF npos, Idle
<1> QED BY <1>1, <1>2, <1>3, <1>4

\* A map of zeroes.
LEMMA ZeroesAre ==
  ASSUME NEW n \in Nat \ {0}
  PROVE  /\ IsBitmap(Zeroes(n), n)
         /\ \A i \in 0 .. n - 1 : ~test(Zeroes(n), i)
         /\ \A w \in 0 .. WORDS(n) - 1 : Zeroes(n)[w] = {}
<1>1. \A w \in 0 .. WORDS(n) - 1 : Zeroes(n)[w] = {}
  BY DEF Zeroes
<1>2. IsBitmap(Zeroes(n), n)
  BY DEF Zeroes, IsBitmap
<1>3. \A i \in 0 .. n - 1 : ~test(Zeroes(n), i)
  BY <1>1, WordOf, TestIs
<1> QED BY <1>1, <1>2, <1>3

\* Every word has a place that counts.
LEMMA ValidIsNotEmpty ==
  ASSUME NEW n \in Nat \ {0}, NEW w \in 0 .. WORDS(n) - 1
  PROVE  valid_mask(n, w) # {}
<1>1. WORDS(n) \in Nat \ {0} /\ (WORDS(n) - 1) * W < n
  BY WordsAre
<1>2. w \in Nat /\ (w = WORDS(n) - 1 \/ w < WORDS(n) - 1) /\ WORDS(n) - 1 \in Nat
  BY <1>1
<1> DEFINE x == w * W
           k == WORDS(n) - 1
           y == k * W
<1>3. x \in Nat /\ y \in Nat /\ y < n /\ 0 \in Positions
  BY <1>1, <1>2, WordAssumption DEF Positions
<1>4. w < k => x + W <= y
  BY <1>2, Growing
<1>5. At(w, 0) = x
  BY <1>3 DEF At
<1>6. w = k => x = y
  OBVIOUS
<1> HIDE DEF x, y, k
<1>7. x < n
  BY <1>2, <1>3, <1>4, <1>6, WordAssumption DEF k
<1> QED BY <1>3, <1>5, <1>7, ValidIs

\* A pool of free blocks.
LEMMA PoolInit ==
  ASSUME Init
  PROVE  PoolInv
<1>1. /\ l2 = Zeroes(block_cnt) /\ l1 = Zeroes(L1) /\ ever = Zeroes(block_cnt)
      /\ content = [b \in Blocks |-> "zero"] /\ used = 0 /\ index = Idle /\ answer = "Ok"
      /\ owners = [b \in Blocks |-> 0]
  BY DEF Init
<1>2. /\ IsBitmap(l2, block_cnt) /\ IsBitmap(l1, L1) /\ IsBitmap(ever, block_cnt)
      /\ \A i \in Blocks : ~test(l2, i) /\ ~test(ever, i)
      /\ \A w \in 0 .. L1 - 1 : l2[w] = {} /\ ~test(l1, w)
  BY <1>1, PoolFacts, ZeroesAre
<1>3. \A w \in 0 .. L1 - 1 : valid_mask(block_cnt, w) # {}
  BY PoolFacts, ValidIsNotEmpty
<1>4. InUse = {} /\ used = Cardinality(InUse)
  BY <1>1, <1>2, FS_EmptySet DEF InUse
<1>5. owners = [i \in Blocks |-> IF test(l2, i) THEN 1 ELSE 0]
  BY <1>1, <1>2
<1>6. content \in [Blocks -> {"zero", "data", "poison", "tampered"}] /\ \A i \in Blocks : content[i] = "zero"
  BY <1>1
<1> QED BY <1>1, <1>2, <1>3, <1>4, <1>5, <1>6 DEF PoolInv, word_full

\* Through the summary or not, the lowest free block is found.
LEMMA LowestFree ==
  ASSUME PoolInv
  PROVE  /\ available_block_index = FirstWord(Free(l2, block_cnt))
         /\ find_first_zero(l2, block_cnt) = FirstWord(Free(l2, block_cnt))
         /\ find_first_set(l2) = FirstWord(InUse)
         /\ Free(l2, block_cnt) = Blocks \ InUse
<1> DEFINE S == Free(l2, block_cnt)
           V == {Word(i) : i \in S}
           D == 0 .. L1 - 1
           word == find_first_zero(l1, L1)
<1>1. /\ IsBitmap(l2, block_cnt) /\ IsBitmap(l1, L1)
      /\ \A w \in D : l2[w] \subseteq valid_mask(block_cnt, w)
      /\ \A w \in D : test(l1, w) <=> l2[w] = valid_mask(block_cnt, w)
  BY DEF PoolInv, word_full
<1>2. find_first_zero(l2, block_cnt) = FirstWord(S) /\ find_first_set(l2) = FirstWord(InUse)
  <2>1. find_first_zero(l2, block_cnt) = FirstWord(S)
    BY <1>1, PoolFacts, FirstZero
  <2>2. InUse = {i \in 0 .. block_cnt - 1 : test(l2, i)}
    BY DEF InUse, Blocks
  <2>3. find_first_set(l2) = FirstWord({i \in 0 .. block_cnt - 1 : test(l2, i)})
    BY <1>1, PoolFacts, FirstSet
  <2> QED BY <2>1, <2>2, <2>3
<1>3. S = Blocks \ InUse
  BY DEF Free, InUse, Blocks
<1>4. S \subseteq Nat /\ V \subseteq D
  BY <1>3, PoolFacts, WordOf
<1>5. word = FirstWord(Free(l1, L1))
  BY <1>1, PoolFacts, FirstZero
<1>6. \A w \in D : FreeIn(l2, block_cnt, w) # {} <=> ~test(l1, w)
  <2> SUFFICES ASSUME NEW w \in D
               PROVE  FreeIn(l2, block_cnt, w) # {} <=> ~test(l1, w)
    OBVIOUS
  <2>1. FreeIn(l2, block_cnt, w) = {At(w, p) : p \in valid_mask(block_cnt, w) \ l2[w]}
    BY PoolFacts, FreeInIs
  <2>2. FreeIn(l2, block_cnt, w) # {} <=> valid_mask(block_cnt, w) \ l2[w] # {}
    BY <2>1
  <2> QED BY <1>1, <2>2
<1>7. Free(l1, L1) = V
  <2>1. \A w \in D : w \in V <=> FreeIn(l2, block_cnt, w) # {}
    BY DEF FreeIn, OfWord
  <2>2. Free(l1, L1) = {w \in D : ~test(l1, w)}
    BY DEF Free
  <2> HIDE DEF V, D
  <2> QED BY <1>4, <1>6, <2>1, <2>2
<1>8. available_block_index = IF word = npos THEN npos ELSE first_zero_in_word(l2, block_cnt, word)
  BY DEF available_block_index
<1>9. V = {Word(i) : i \in S} /\ (V = {} <=> S = {})
  OBVIOUS
<1> HIDE DEF S, V, D, word
<1>10. CASE S = {}
  BY <1>2, <1>3, <1>5, <1>7, <1>8, <1>9, <1>10 DEF FirstWord, S
<1>11. CASE S # {}
  <2>1. V # {} /\ V \subseteq Nat /\ Min(V) \in V /\ Min(S) = Min(OfWord(S, Min(V)))
    BY <1>4, <1>9, <1>11, LowestByWords
  <2>2. word = Min(V) /\ word # npos
    BY <1>5, <1>7, <2>1, FirstIs DEF FirstWord
  <2>3. word \in D /\ FreeIn(l2, block_cnt, word) # {}
    <3>1. word \in D /\ word \in Free(l1, L1)
      BY <1>4, <1>7, <2>1, <2>2
    <3> QED BY <1>6, <3>1 DEF Free
  <2>4. first_zero_in_word(l2, block_cnt, word) = FirstWord(FreeIn(l2, block_cnt, word))
    BY <2>3, PoolFacts, ZeroInWord DEF D
  <2>5. available_block_index = Min(S)
    BY <1>8, <2>1, <2>2, <2>3, <2>4 DEF FirstWord, FreeIn, S
  <2> QED BY <1>2, <1>3, <1>11, <2>5 DEF FirstWord, S
<1> QED BY <1>10, <1>11

\* What raw_allocate finds is free; it finds nothing when nothing is.
LEMMA LooksKeeps ==
  ASSUME PoolInv, raw_allocate_looks
  PROVE  PoolInv'
<1>1. /\ index' = available_block_index
      /\ l2' = l2 /\ l1' = l1 /\ ever' = ever /\ used' = used
      /\ content' = content /\ answer' = answer /\ owners' = owners
  BY DEF raw_allocate_looks, mapvars
<1> DEFINE S == Free(l2, block_cnt)
<1>2. index' = FirstWord(S) /\ S = Blocks \ InUse
  BY <1>1, LowestFree
<1>3. InUse' = InUse /\ InUse = {i \in Blocks : test(l2, i)}
  BY <1>1 DEF InUse
<1> HIDE DEF S
<1>4. CASE S = {}
  <2>1. index' = npos /\ InUse' = Blocks
    BY <1>2, <1>3, <1>4 DEF FirstWord
  <2> QED BY <1>1, <1>3, <2>1 DEF PoolInv, word_full
<1>5. CASE S # {}
  <2>1. Min(S) \in S
    BY <1>2, <1>5, PoolFacts, LeastIs
  <2>2. index' \in Blocks /\ ~test(l2, index')
    BY <1>2, <1>3, <1>5, <2>1 DEF FirstWord
  <2> QED BY <1>1, <1>3, <2>2 DEF PoolInv, word_full
<1> QED BY <1>4, <1>5

\* Marking a free block.
LEMMA MarkKeeps ==
  ASSUME PoolInv, NEW i \in Blocks, index = i, set_as_in_used(i), index' = Idle,
         owners' = [owners EXCEPT ![i] = @ + 1], answer' = "Ok", ever' = ever, content' = content
  PROVE  PoolInv'
<1> DEFINE v == Word(i)
           b == Bit(i)
           D == 0 .. L1 - 1
<1>1. /\ l2' = set(l2, i) /\ used' = used + 1
      /\ l1' = IF word_full(l2', block_cnt, v) THEN set(l1, v) ELSE l1
  BY DEF set_as_in_used
<1>2. /\ IsBitmap(l2, block_cnt) /\ IsBitmap(l1, L1) /\ ~test(l2, i)
      /\ \A w \in D : l2[w] \subseteq valid_mask(block_cnt, w)
      /\ \A w \in D : test(l1, w) <=> l2[w] = valid_mask(block_cnt, w)
  BY PoolFacts DEF PoolInv, word_full
<1>3. v \in D /\ b \in valid_mask(block_cnt, v)
  BY PoolFacts, WordOf
<1>4. /\ IsBitmap(l2', block_cnt)
      /\ \A j \in Blocks : test(l2', j) <=> j = i \/ test(l2, j)
      /\ l2'[v] = l2[v] \cup {b} /\ \A w \in D : w # v => l2'[w] = l2[w]
  BY <1>1, <1>2, PoolFacts, SetIs, SMTT(30)
<1>5. IsBitmap(l1', L1) /\ \A w \in D : w # v => (test(l1', w) <=> test(l1, w))
  BY <1>1, <1>2, <1>3, PoolFacts, SetIs, SMTT(30)
<1>6. test(l1', v) <=> l2'[v] = valid_mask(block_cnt, v)
  <2>1. b \notin l2[v]
    BY <1>2, TestIs
  <2>2. CASE l2'[v] = valid_mask(block_cnt, v)
    <3>1. l1' = set(l1, v)
      BY <1>1, <2>2 DEF word_full
    <3> QED BY <1>2, <1>3, <2>2, <3>1, PoolFacts, SetIs, SMTT(30)
  <2>3. CASE l2'[v] # valid_mask(block_cnt, v)
    <3>1. l1' = l1
      BY <1>1, <2>3 DEF word_full
    <3> QED BY <1>2, <1>3, <2>1, <2>3, <3>1
  <2> QED BY <2>2, <2>3
<1> HIDE DEF v, b, D
<1>7. \A w \in D : test(l1', w) <=> word_full(l2', block_cnt, w)
  BY <1>2, <1>4, <1>5, <1>6 DEF word_full
<1>8. \A w \in D : l2'[w] \subseteq valid_mask(block_cnt, w)
  BY <1>2, <1>3, <1>4
<1>9. InUse' = InUse \cup {i} /\ i \notin InUse /\ InUse \subseteq Blocks
  BY <1>2, <1>4 DEF InUse
<1>10. used' = Cardinality(InUse')
  <2>1. IsFiniteSet(InUse)
    BY <1>9, PoolFacts, FS_Subset
  <2>2. Cardinality(InUse \cup {i}) = Cardinality(InUse) + 1
    BY <1>9, <2>1, FS_AddElement
  <2> QED BY <1>1, <1>9, <2>2 DEF PoolInv
<1>11. owners' = [j \in Blocks |-> IF test(l2', j) THEN 1 ELSE 0]
  <2>1. owners = [j \in Blocks |-> IF test(l2, j) THEN 1 ELSE 0]
    BY DEF PoolInv
  <2> QED BY <1>2, <1>4, <2>1
<1>12. \A j \in Blocks : test(ever', j) /\ ~test(l2', j) => content'[j] \in {"poison", "tampered"}
  BY <1>4 DEF PoolInv
<1>13. /\ IsBitmap(ever', block_cnt)
       /\ content' \in [Blocks -> {"zero", "data", "poison", "tampered"}]
       /\ \A j \in Blocks : content'[j] \in {"poison", "tampered"} => test(ever', j)
  BY DEF PoolInv
<1> QED BY <1>4, <1>5, <1>7, <1>8, <1>10, <1>11, <1>12, <1>13 DEF PoolInv, D

\* raw_allocate marks the block it found, or gives up.
LEMMA MarksKeeps ==
  ASSUME PoolInv, raw_allocate_marks
  PROVE  PoolInv'
<1>1. finish(index) /\ index' = Idle /\ index # Idle
  BY DEF raw_allocate_marks
<1>2. CASE /\ answer' \in {"OutOfMemory", "Poisoned"}
           /\ UNCHANGED << mapvars, content, owners >>
  <2>1. l2' = l2 /\ l1' = l1 /\ ever' = ever /\ used' = used /\ content' = content /\ owners' = owners
    BY <1>2 DEF mapvars
  <2>2. InUse' = InUse
    BY <2>1 DEF InUse
  <2> QED BY <1>1, <1>2, <2>1, <2>2 DEF PoolInv, word_full
<1>3. CASE /\ index # npos /\ set_as_in_used(index)
           /\ owners' = [owners EXCEPT ![index] = @ + 1] /\ answer' = "Ok"
           /\ ever' = ever /\ content' = content
  <2>1. index \in Blocks
    BY <1>1, <1>3 DEF PoolInv
  <2> QED BY <1>1, <1>3, <2>1, MarkKeeps
<1> QED BY <1>1, <1>2, <1>3 DEF finish

\* Releasing a block in use.
LEMMA ReleaseKeeps ==
  ASSUME PoolInv, NEW i \in Blocks, index = Idle, release_block(i), poison_block(i), answer' = "Ok",
         owners' = [owners EXCEPT ![i] = IF @ > 0 THEN @ - 1 ELSE @], index' = index
  PROVE  PoolInv'
<1> DEFINE v == Word(i)
           b == Bit(i)
           D == 0 .. L1 - 1
<1>1. /\ test(l2, i) /\ l2' = clear(l2, i) /\ used' = used - 1 /\ l1' = clear(l1, v)
      /\ content' = [content EXCEPT ![i] = "poison"] /\ ever' = set(ever, i)
  BY DEF release_block, poison_block
<1>2. /\ IsBitmap(l2, block_cnt) /\ IsBitmap(l1, L1) /\ IsBitmap(ever, block_cnt)
      /\ \A w \in D : l2[w] \subseteq valid_mask(block_cnt, w)
      /\ \A w \in D : test(l1, w) <=> l2[w] = valid_mask(block_cnt, w)
  BY DEF PoolInv, word_full
<1>3. v \in D /\ b \in valid_mask(block_cnt, v)
  BY PoolFacts, WordOf
<1>4. /\ IsBitmap(l2', block_cnt)
      /\ \A j \in Blocks : test(l2', j) <=> j # i /\ test(l2, j)
      /\ l2'[v] = l2[v] \ {b} /\ \A w \in D : w # v => l2'[w] = l2[w]
  BY <1>1, <1>2, PoolFacts, ClearIs, SMTT(30)
<1>5. IsBitmap(l1', L1) /\ \A w \in D : test(l1', w) <=> w # v /\ test(l1, w)
  BY <1>1, <1>2, <1>3, PoolFacts, ClearIs, SMTT(30)
<1>6. IsBitmap(ever', block_cnt) /\ \A j \in Blocks : test(ever', j) <=> j = i \/ test(ever, j)
  BY <1>1, <1>2, PoolFacts, SetIs, SMTT(30)
<1> HIDE DEF v, b, D
<1>7. \A w \in D : test(l1', w) <=> word_full(l2', block_cnt, w)
  BY <1>2, <1>3, <1>4, <1>5 DEF word_full
<1>8. \A w \in D : l2'[w] \subseteq valid_mask(block_cnt, w)
  BY <1>2, <1>3, <1>4
<1>9. InUse' = InUse \ {i} /\ i \in InUse /\ InUse \subseteq Blocks
  BY <1>1, <1>4 DEF InUse
<1>10. used' = Cardinality(InUse')
  <2>1. IsFiniteSet(InUse)
    BY <1>9, PoolFacts, FS_Subset
  <2>2. Cardinality(InUse \ {i}) = Cardinality(InUse) - 1
    BY <1>9, <2>1, FS_RemoveElement
  <2> QED BY <1>1, <1>9, <2>2 DEF PoolInv
<1>11. owners' = [j \in Blocks |-> IF test(l2', j) THEN 1 ELSE 0]
  <2>1. owners = [j \in Blocks |-> IF test(l2, j) THEN 1 ELSE 0]
    BY DEF PoolInv
  <2>2. owners[i] = 1
    BY <1>1, <2>1
  <2>3. owners' = [owners EXCEPT ![i] = 0]
    BY <2>2
  <2> QED BY <1>1, <1>4, <2>1, <2>3
<1>12. /\ content' \in [Blocks -> {"zero", "data", "poison", "tampered"}]
       /\ content'[i] = "poison" /\ \A j \in Blocks \ {i} : content'[j] = content[j]
  BY <1>1 DEF PoolInv
<1>13. \A j \in Blocks : content'[j] \in {"poison", "tampered"} => test(ever', j)
  BY <1>6, <1>12 DEF PoolInv
<1>14. \A j \in Blocks : test(ever', j) /\ ~test(l2', j) => content'[j] \in {"poison", "tampered"}
  BY <1>4, <1>6, <1>12 DEF PoolInv
<1> QED BY <1>4, <1>5, <1>6, <1>7, <1>8, <1>10, <1>11, <1>12, <1>13, <1>14 DEF PoolInv, D

\* A write by an owner, or through a pointer kept too long.
LEMMA WriteKeeps ==
  ASSUME PoolInv, NEW i \in Blocks, Write(i) \/ WriteAfterFree(i)
  PROVE  PoolInv'
<1>1. /\ l2' = l2 /\ l1' = l1 /\ ever' = ever /\ used' = used
      /\ index' = index /\ answer' = answer /\ owners' = owners
  BY DEF Write, WriteAfterFree, mapvars
<1>2. \/ owners[i] > 0 /\ content' = [content EXCEPT ![i] = "data"]
      \/ content[i] = "poison" /\ content' = [content EXCEPT ![i] = "tampered"]
  BY DEF Write, WriteAfterFree
<1>3. owners[i] > 0 => test(l2, i)
  BY DEF PoolInv
<1>4. InUse' = InUse
  BY <1>1 DEF InUse
<1>5. content \in [Blocks -> {"zero", "data", "poison", "tampered"}]
  BY DEF PoolInv
<1>6. /\ content' \in [Blocks -> {"zero", "data", "poison", "tampered"}]
      /\ \A j \in Blocks \ {i} : content'[j] = content[j]
      /\ \/ test(l2, i) /\ content'[i] = "data"
         \/ content[i] = "poison" /\ content'[i] = "tampered"
  BY <1>2, <1>3, <1>5
<1>7. /\ \A j \in Blocks : content'[j] \in {"poison", "tampered"} => test(ever, j)
      /\ \A j \in Blocks : test(ever, j) /\ ~test(l2, j) => content'[j] \in {"poison", "tampered"}
  BY <1>6 DEF PoolInv
<1> QED BY <1>1, <1>4, <1>6, <1>7 DEF PoolInv, word_full

\* A call that is refused changes no book.
LEMMA PoolStutters ==
  ASSUME PoolInv, UNCHANGED << mapvars, content, index, owners >>,
         answer' \in {"Ok", "OutOfMemory", "Poisoned", "NotOwned"}
  PROVE  PoolInv'
<1>1. /\ l2' = l2 /\ l1' = l1 /\ ever' = ever /\ used' = used
      /\ index' = index /\ content' = content /\ owners' = owners
  BY DEF mapvars
<1>2. InUse' = InUse
  BY <1>1 DEF InUse
<1> QED BY <1>1, <1>2 DEF PoolInv, word_full

\* No step of the pool breaks it.
LEMMA PoolStep ==
  ASSUME PoolInv, Next \/ UNCHANGED vars
  PROVE  PoolInv'
<1>1. CASE UNCHANGED vars
  <2>1. UNCHANGED << mapvars, content, index, owners >> /\ answer' = answer
    BY <1>1 DEF vars
  <2> QED BY <2>1, PoolStutters DEF PoolInv
<1>2. CASE raw_allocate_looks
  BY <1>2, LooksKeeps
<1>3. CASE raw_allocate_marks
  BY <1>3, MarksKeeps
<1>4. CASE refuse
  BY <1>4, PoolStutters DEF refuse
<1>5. ASSUME NEW i \in Blocks, index = Idle, release_block(i), poison_block(i), answer' = "Ok",
             owners' = [owners EXCEPT ![i] = IF @ > 0 THEN @ - 1 ELSE @], UNCHANGED index
      PROVE  PoolInv'
  BY <1>5, ReleaseKeeps
<1>6. ASSUME NEW i \in Blocks, Write(i) \/ WriteAfterFree(i)
      PROVE  PoolInv'
  BY <1>6, WriteKeeps
<1> QED BY <1>1, <1>2, <1>3, <1>4, <1>5, <1>6 DEF Next, raw_deallocate, raw_deallocate_wild

\* What the invariant is for.
LEMMA PoolIs ==
  ASSUME PoolInv
  PROVE  TypeOK /\ BooksAgree /\ LookupsAgree
<1>1. InUse \subseteq Blocks
  BY DEF InUse
<1>2. Cardinality(InUse) \in 0 .. block_cnt
  <2>1. IsFiniteSet(InUse) /\ Cardinality(InUse) <= block_cnt
    BY <1>1, PoolFacts, FS_Subset
  <2>2. Cardinality(InUse) \in Nat
    BY <2>1, FS_CardinalityType
  <2> QED BY <2>1, <2>2, PoolFacts
<1>3. index \in Blocks \cup {npos, Idle}
  BY DEF PoolInv
<1>4. owners \in [Blocks -> 0 .. 2] /\ \A i \in Blocks : owners[i] = IF i \in InUse THEN 1 ELSE 0
  BY DEF PoolInv, InUse
<1>5. TypeOK
  BY <1>2, <1>3, <1>4 DEF TypeOK, PoolInv
<1>6. DOMAIN l2 = 0 .. L1 - 1
  BY PoolFacts DEF PoolInv, IsBitmap
<1>7. BooksAgree
  BY <1>4, <1>6 DEF BooksAgree, PoolInv
<1>8. LookupsAgree
  BY LowestFree DEF LookupsAgree, FirstWord
<1> QED BY <1>5, <1>7, <1>8

\* What a step hands out, and what it answers.
LEMMA HeldBack ==
  ASSUME PoolInv, Next
  PROVE  /\ \A i \in Blocks : owners'[i] > owners[i] => content[i] # "tampered"
         /\ raw_allocate_marks =>
              /\ answer' = "Poisoned" => content[index] = "tampered"
              /\ answer' = "OutOfMemory" => InUse = Blocks
<1>1. owners \in [Blocks -> Nat] /\ \A i \in Blocks : owners[i] \in Nat
  BY DEF PoolInv
<1>2. ASSUME raw_allocate_marks
      PROVE  /\ \A i \in Blocks : owners'[i] > owners[i] => content[i] # "tampered"
             /\ answer' = "Poisoned" => content[index] = "tampered"
             /\ answer' = "OutOfMemory" => InUse = Blocks
  <2>1. finish(index) /\ index # Idle
    BY <1>2 DEF raw_allocate_marks
  <2>2. CASE index = npos
    <3>1. owners' = owners /\ answer' = "OutOfMemory"
      BY <2>1, <2>2 DEF finish
    <3> QED BY <1>1, <2>2, <3>1, PoolFacts DEF PoolInv
  <2>3. CASE index # npos /\ test(ever, index) /\ detected_poison(index)
    <3>1. owners' = owners /\ answer' = "Poisoned" /\ content[index] # "poison"
      BY <2>1, <2>3 DEF finish, detected_poison
    <3>2. content[index] \in {"poison", "tampered"}
      BY <2>1, <2>3 DEF PoolInv
    <3> QED BY <1>1, <3>1, <3>2
  <2>4. CASE index # npos /\ ~(test(ever, index) /\ detected_poison(index))
    <3>1. owners' = [owners EXCEPT ![index] = @ + 1] /\ answer' = "Ok" /\ index \in Blocks
      BY <2>1, <2>4 DEF finish, PoolInv
    <3>2. content[index] # "tampered"
      BY <2>4, <3>1 DEF PoolInv, detected_poison
    <3> QED BY <1>1, <3>1, <3>2
  <2> QED BY <2>2, <2>3, <2>4
<1>3. CASE \E i \in Blocks : owners' = [owners EXCEPT ![i] = IF @ > 0 THEN @ - 1 ELSE @]
  BY <1>1, <1>2, <1>3
<1>4. CASE owners' = owners
  BY <1>1, <1>2, <1>4
<1> QED BY <1>2, <1>3, <1>4
        DEF Next, raw_allocate_looks, raw_deallocate, raw_deallocate_wild, refuse, Write, WriteAfterFree

\* For any number of blocks in words of any width: the two levels of the map,
\* the count and the owners agree, and the short way finds what the long way
\* finds.
THEOREM PoolStaysSound == MemorySpec => []PoolIsSound
<1>1. MemoryInit => PoolInv
  BY PoolInit DEF MemoryInit
<1>2. PoolInv /\ [MemoryNext]_memvars => PoolInv'
  BY PoolStep DEF MemoryNext, memvars
<1>3. PoolInv => PoolIsSound
  BY PoolIs DEF PoolIsSound
<1> QED BY <1>1, <1>2, <1>3, PTL DEF MemorySpec

\* raw_allocate hands out no block that was written to after it was freed, and
\* denies memory only for such a block or when every block is in use.
THEOREM TamperedStaysBack == MemorySpec => TamperedIsHeldBack
<1> DEFINE HandedWell ==
             /\ \A i \in Blocks : owners'[i] > owners[i] => content[i] # "tampered"
             /\ raw_allocate_marks =>
                  /\ answer' = "Poisoned" => content[index] = "tampered"
                  /\ answer' = "OutOfMemory" => InUse = Blocks
<1>1. MemoryInit => PoolInv
  BY PoolInit DEF MemoryInit
<1>2. PoolInv /\ [MemoryNext]_memvars => PoolInv'
  BY PoolStep DEF MemoryNext, memvars
<1>3. PoolInv /\ [MemoryNext]_memvars => [HandedWell]_vars
  <2>1. ASSUME PoolInv, Next PROVE HandedWell
    BY <2>1, HeldBack
  <2>2. ASSUME [MemoryNext]_memvars PROVE Next \/ UNCHANGED vars
    BY <2>2 DEF MemoryNext, memvars
  <2> QED BY <2>1, <2>2
<1> QED BY <1>1, <1>2, <1>3, PTL DEF MemorySpec, TamperedIsHeldBack

-----------------------------------------------------------------------------
(* The critical section.  Whoever raises the counter from zero masks, and  *)
(* whoever brings it back to zero lifts the mask, which need not be the    *)
(* same context; in between the mask is up or on its way.  Between its     *)
(* load and its store a context can only be interrupted, and whoever       *)
(* interrupts it returns without a guard: what it loaded is still right.   *)

Entering(c) == pc[c] \in {"counted", "saved"}

\* Between the load of nest_ and the store.
Mid(c) == pc[c] \in {"raise", "lower"}

\* The guards nest_ stands for, one pair for each.
Guards == {g \in Section!Contexts \X (1 .. MaxDepth) : g[2] <= Section!Taken(g[1])}

\* Whoever has the processor or was interrupted on it, and who is above whom.
OnStack(c) == c = thread \/ \E i \in 1 .. Len(active) : active[i] = c
Over(c) == {h \in Handlers :
             \E k \in 1 .. Len(active) :
               active[k] = h /\ (c = thread \/ \E i \in 1 .. k - 1 : active[i] = c)}

\* The guards that were there when c was interrupted.
Under(c) == {g \in Guards : g[1] \notin Over(c)}

SectionType ==
  /\ nest \in 0 .. Wrap - 1 /\ reg \in [Section!Contexts -> 0 .. Wrap - 1]
  /\ basepri \in {0, 64} /\ saved \in {0, 64}
  /\ pc \in [Section!Contexts -> {"run", "raise", "counted", "saved", "lower", "last"}]
  /\ depth \in [Section!Contexts -> 0 .. MaxDepth]
  /\ \A c \in Section!Contexts : Entering(c) \/ Mid(c) => depth[c] < MaxDepth
  /\ thread \in Threads /\ active \in Seq(Handlers) /\ pend \in BOOLEAN /\ torn \in BOOLEAN

\* Who enters is alone and finds no mask; who lifts it is the one who runs, since a mask
\* keeps everybody else out; and a counter above zero means a mask that is up
\* or on its way, zero one that is down or about to be.
MaskFollowsNest ==
  /\ \A c \in Section!Contexts : Entering(c) => basepri = 0
  /\ \A c, d \in Section!Contexts : Entering(c) /\ Entering(d) => c = d
  /\ \A c \in Section!Contexts : pc[c] = "last" => nest = 0 /\ basepri = 64 /\ c = Section!Top
  /\ nest > 0 => basepri = 64 \/ \E c \in Section!Contexts : Entering(c)
  /\ nest = 0 => basepri = 0 \/ \E c \in Section!Contexts : pc[c] = "last"

\* A handler is interrupted by more urgent ones only, so it is active once.
HandlersNest ==
  \A i, j \in 1 .. Len(active) : i < j => Priority[active[j]] < Priority[active[i]]

\* A handler that is not active has done, and a thread that waits has stored.
RestIsIdle ==
  /\ \A h \in Handlers : ~OnStack(h) => pc[h] = "run" /\ depth[h] = 0
  /\ \A t \in Threads : ~OnStack(t) => ~Mid(t)

\* What was loaded is what nest_ comes back to.
LoadsAreFresh == \A c \in Section!Contexts : Mid(c) => reg[c] = Cardinality(Under(c))

SectionSound ==
  /\ saved = 0 /\ nest = Cardinality(Guards) /\ MaskFollowsNest
  /\ HandlersNest /\ RestIsIdle /\ LoadsAreFresh

SectionInv == SectionType /\ (~torn => SectionSound)

\* What the constants are.
LEMMA SectionConstants ==
  /\ IsFiniteSet(Section!Contexts) /\ MaxDepth \in Nat /\ MaxDepth >= 1
  /\ Threads \cap Handlers = {} /\ Section!Contexts = Threads \cup Handlers
  /\ \A h \in Handlers : Priority[h] \in Int /\ Priority[h] >= 64
  /\ Wrap \in Nat /\ Wrap >= 1 /\ MaxDepth * Cardinality(Section!Contexts) < Wrap
<1>1. /\ IsFiniteSet(Threads) /\ IsFiniteSet(Handlers) /\ Threads \cap Handlers = {}
      /\ Priority \in [Handlers -> 64 .. 255] /\ MaxDepth \in Nat \ {0}
      /\ Wrap \in Nat /\ Wrap > MaxDepth * Cardinality(Threads \cup Handlers)
  <2>1. \A S : Section!Cardinality(S) = Cardinality(S)
    BY DEF Section!Cardinality, Cardinality
  <2> QED BY <2>1, SectionAssumption DEF Section!PriorityAssumption, Section!kMaskLevel,
             Section!kPendSVPrio, Section!IsFiniteSet, IsFiniteSet
<1>2. IsFiniteSet(Threads \cup Handlers)
  BY <1>1, FS_Union
<1>3. Cardinality(Threads \cup Handlers) \in Nat
  BY <1>2, FS_CardinalityType
<1>4. Wrap >= 1 /\ MaxDepth * Cardinality(Threads \cup Handlers) < Wrap
  BY <1>1, <1>3
<1> QED BY <1>1, <1>2, <1>4 DEF Section!Contexts

\* Where the counter comes round.
LEMMA CounterTurns ==
  ASSUME NEW x \in 0 .. Wrap - 1
  PROVE  /\ (x + 1) % Wrap \in 0 .. Wrap - 1 /\ (x - 1) % Wrap \in 0 .. Wrap - 1
         /\ x + 1 < Wrap => (x + 1) % Wrap = x + 1
         /\ x >= 1 => (x - 1) % Wrap = x - 1
<1>1. Wrap \in Nat /\ Wrap >= 1
  BY SectionConstants
<1>2. CASE x + 1 < Wrap
  BY <1>1, <1>2
<1>3. CASE x + 1 >= Wrap
  BY <1>1, <1>3
<1>4. (x + 1) % Wrap \in 0 .. Wrap - 1 /\ (x + 1 < Wrap => (x + 1) % Wrap = x + 1)
  BY <1>1, <1>2, <1>3
<1>5. CASE x >= 1
  BY <1>1, <1>4, <1>5
<1>6. CASE x = 0
  BY <1>1, <1>4, <1>6
<1> QED BY <1>4, <1>5, <1>6

\* The guards that could be: as many as contexts times the depth they may nest to.
LEMMA PlacesAreFinite ==
  /\ IsFiniteSet(Section!Contexts \X (1 .. MaxDepth))
  /\ Cardinality(Section!Contexts \X (1 .. MaxDepth)) = MaxDepth * Cardinality(Section!Contexts)
<1> DEFINE C == Section!Contexts
           D == 1 .. MaxDepth
<1>1. IsFiniteSet(C) /\ Cardinality(C) \in Nat /\ MaxDepth \in Nat
  BY SectionConstants, FS_CardinalityType
<1>2. IsFiniteSet(D) /\ Cardinality(D) = MaxDepth
  <2>1. 1 \in Int /\ MaxDepth \in Int /\ MaxDepth >= 1
    BY SectionConstants
  <2>2. IsFiniteSet(D) /\ Cardinality(D) = IF 1 > MaxDepth THEN 0 ELSE MaxDepth - 1 + 1
    BY <2>1, FS_Interval
  <2> HIDE DEF D
  <2> QED BY <2>1, <2>2
<1> HIDE DEF C, D
<1>3. IsFiniteSet(C \X D) /\ Cardinality(C \X D) = Cardinality(C) * MaxDepth
  BY <1>1, <1>2, FS_Product
<1>4. Cardinality(C) * MaxDepth = MaxDepth * Cardinality(C)
  BY <1>1
<1> QED BY <1>3, <1>4 DEF C, D

\* There are finitely many guards.
LEMMA GuardsAreFew == IsFiniteSet(Guards) /\ Cardinality(Guards) \in Nat
<1>1. Guards \subseteq Section!Contexts \X (1 .. MaxDepth)
  BY DEF Guards
<1>2. IsFiniteSet(Guards)
  BY <1>1, PlacesAreFinite, FS_Subset
<1> QED BY <1>2, FS_CardinalityType

\* One context takes a guard, drops one, or keeps what it has.
LEMMA GuardsMove ==
  ASSUME SectionType, SectionType', NEW c \in Section!Contexts,
         \A d \in Section!Contexts \ {c} : Section!Taken(d)' = Section!Taken(d),
         Section!Taken(c) \in 0 .. MaxDepth, Section!Taken(c)' \in 0 .. MaxDepth
  PROVE  /\ Section!Taken(c)' = Section!Taken(c) => Cardinality(Guards') = Cardinality(Guards)
         /\ Section!Taken(c)' = Section!Taken(c) + 1 =>
              Cardinality(Guards') = Cardinality(Guards) + 1
         /\ Section!Taken(c)' + 1 = Section!Taken(c) =>
              Cardinality(Guards') + 1 = Cardinality(Guards)
<1> DEFINE C == Section!Contexts
           f(d) == Section!Taken(d)
           g(d) == Section!Taken(d)'
<1>1. MaxDepth \in Nat /\ IsFiniteSet(Guards) /\ Cardinality(Guards) \in Nat
  BY SectionConstants, GuardsAreFew
<1>2. IsFiniteSet(Guards') /\ Cardinality(Guards') \in Nat
  <2>1. Guards' \subseteq C \X (1 .. MaxDepth)
    BY DEF Guards
  <2>2. IsFiniteSet(C \X (1 .. MaxDepth))
    BY PlacesAreFinite
  <2> QED BY <2>1, <2>2, FS_Subset, FS_CardinalityType
<1>3. /\ Guards = {x \in C \X (1 .. MaxDepth) : x[2] <= f(x[1])}
      /\ Guards' = {x \in C \X (1 .. MaxDepth) : x[2] <= g(x[1])}
  BY DEF Guards
<1>4. f(c) \in 0 .. MaxDepth /\ g(c) \in 0 .. MaxDepth /\ \A d \in C \ {c} : g(d) = f(d)
  OBVIOUS
<1> HIDE DEF f, g, C
<1>5. CASE g(c) = f(c)
  <2>1. \A d \in C : g(d) = f(d)
    BY <1>4, <1>5
  <2>2. Guards' = Guards
    BY <1>3, <2>1
  <2> QED BY <1>1, <1>2, <1>4, <1>5, <2>2 DEF f, g
<1>6. CASE g(c) = f(c) + 1
  <2> DEFINE e == << c, f(c) + 1 >>
  <2>1. e \notin Guards /\ Guards' = Guards \cup {e}
    BY <1>1, <1>3, <1>4, <1>6 DEF C
  <2> HIDE DEF e
  <2>2. Cardinality(Guards') = Cardinality(Guards) + 1
    BY <1>1, <2>1, FS_AddElement
  <2> QED BY <1>1, <1>2, <1>4, <1>6, <2>2 DEF f, g
<1>7. CASE g(c) + 1 = f(c)
  <2> DEFINE e == << c, f(c) >>
  <2>1. e \notin Guards' /\ Guards = Guards' \cup {e}
    BY <1>1, <1>3, <1>4, <1>7 DEF C
  <2> HIDE DEF e
  <2>2. Cardinality(Guards) = Cardinality(Guards') + 1
    BY <1>2, <2>1, FS_AddElement
  <2> QED BY <1>1, <1>2, <1>4, <1>7, <2>2 DEF f, g
<1> QED BY <1>5, <1>6, <1>7 DEF f, g

\* A context with a guard is counted, and so is one on its way in or out.
LEMMA GuardsCount ==
  ASSUME SectionType, SectionSound, NEW c \in Section!Contexts
  PROVE  /\ Section!Taken(c) >= 1 => nest >= 1
         /\ nest = 0 => Guards = {} /\ \A d \in Section!Contexts : ~Entering(d) /\ depth[d] = 0
         /\ \A d \in Section!Contexts \ {c} : Entering(d) /\ Section!Taken(c) >= 1 => nest >= 2
<1> DEFINE C == Section!Contexts
<1>1. /\ IsFiniteSet(Guards) /\ nest = Cardinality(Guards) /\ MaxDepth \in Nat /\ MaxDepth >= 1
      /\ nest \in Nat
  BY GuardsAreFew, SectionConstants DEF SectionSound
<1>2. ASSUME NEW d \in C, Section!Taken(d) >= 1 PROVE << d, 1 >> \in Guards
  BY <1>1, <1>2 DEF Guards
<1>3. nest = 0 => Guards = {}
  BY <1>1, FS_EmptySet
<1>4. Guards # {} => nest >= 1
  BY <1>1, <1>3
<1>5. \A d \in C : /\ Entering(d) => Section!Taken(d) >= 1
                   /\ depth[d] \in Nat /\ (depth[d] > 0 => Section!Taken(d) >= 1)
  BY <1>1 DEF SectionType, Entering, Section!Taken
<1>6. nest = 0 => \A d \in C : ~Entering(d) /\ depth[d] = 0
  <2> SUFFICES ASSUME nest = 0, NEW d \in C PROVE ~Entering(d) /\ depth[d] = 0
    OBVIOUS
  <2>1. ~(Section!Taken(d) >= 1)
    BY <1>2, <1>3
  <2> QED BY <1>5, <2>1
<1>7. ASSUME NEW d \in C \ {c}, Entering(d), Section!Taken(c) >= 1 PROVE nest >= 2
  <2>1. << c, 1 >> \in Guards /\ << d, 1 >> \in Guards /\ << c, 1 >> # << d, 1 >>
    BY <1>2, <1>5, <1>7
  <2> DEFINE S == {<< c, 1 >>}
             e == << d, 1 >>
  <2>2. S \cup {e} \in SUBSET Guards /\ e \notin S
    BY <2>1
  <2>3. IsFiniteSet(S) /\ Cardinality(S) = 1
    BY FS_Singleton
  <2> HIDE DEF S, e
  <2>4. Cardinality(S \cup {e}) = IF e \in S THEN Cardinality(S) ELSE Cardinality(S) + 1
    BY <2>3, FS_AddElement
  <2>5. Cardinality(S \cup {e}) <= Cardinality(Guards)
    BY <1>1, <2>2, FS_Subset
  <2>6. Cardinality(S \cup {e}) = 2
    BY <2>2, <2>3, <2>4
  <2> QED BY <1>1, <2>5, <2>6
<1> QED BY <1>2, <1>4, <1>3, <1>6, <1>7

\* Nobody is above whoever runs, and it is above everybody else on the stack.
LEMMA TopIsOver ==
  ASSUME SectionType, HandlersNest
  PROVE  /\ Section!Top \in Section!Contexts /\ OnStack(Section!Top)
         /\ Over(Section!Top) = {}
         /\ \A d \in Section!Contexts \ {Section!Top} : OnStack(d) => Section!Top \in Over(d)
<1>1. /\ thread \in Threads /\ active \in Seq(Handlers) /\ Threads \cap Handlers = {}
      /\ Section!Contexts = Threads \cup Handlers
  BY SectionConstants DEF SectionType
<1>2. CASE active = << >>
  <2>1. Section!Top = thread
    BY <1>2 DEF Section!Top
  <2> QED BY <1>1, <1>2, <2>1 DEF Over, OnStack
<1>3. CASE active # << >>
  <2> DEFINE n == Len(active)
  <2>1. n \in Nat /\ n >= 1 /\ active[n] \in Handlers /\ Section!Top = active[n]
    BY <1>1, <1>3 DEF Section!Top, Section!Last
  <2>2. \A i \in 1 .. n : i < n => active[i] # active[n]
    <3>1. \A i \in 1 .. n : active[i] \in Handlers
      BY <1>1
    <3>2. \A i \in 1 .. n : i < n => Priority[active[n]] < Priority[active[i]]
      BY <2>1 DEF HandlersNest
    <3> QED BY <2>1, <3>1, <3>2, SectionConstants
  <2>3. Over(active[n]) = {}
    <3> SUFFICES ASSUME NEW k \in 1 .. n, active[n] = thread \/ \E i \in 1 .. k - 1 : active[i] = active[n]
                 PROVE  FALSE
      BY DEF Over
    <3>1. active[n] # thread
      BY <1>1, <2>1
    <3>2. PICK i \in 1 .. k - 1 : active[i] = active[n]
      BY <3>1
    <3> QED BY <2>1, <2>2, <3>2
  <2>4. ASSUME NEW d \in Section!Contexts \ {active[n]}, OnStack(d) PROVE active[n] \in Over(d)
    <3>1. d = thread \/ \E i \in 1 .. n - 1 : active[i] = d
      <4>1. CASE d = thread
        BY <4>1
      <4>2. CASE \E i \in 1 .. n : active[i] = d
        <5>1. PICK i \in 1 .. n : active[i] = d
          BY <4>2
        <5>2. i \in 1 .. n - 1
          BY <2>1, <5>1
        <5> QED BY <5>1, <5>2
      <4> QED BY <2>4, <4>1, <4>2 DEF OnStack
    <3>2. n \in 1 .. n
      BY <2>1
    <3> QED BY <2>1, <3>1, <3>2 DEF Over
  <2>5. OnStack(active[n])
    BY <2>1 DEF OnStack
  <2> QED BY <1>1, <2>1, <2>3, <2>4, <2>5
<1> QED BY <1>2, <1>3

\* What a step of one context leaves alone.
SectionStays(c) ==
  /\ \A d \in Section!Contexts \ {c} : pc'[d] = pc[d] /\ depth'[d] = depth[d] /\ reg'[d] = reg[d]
  /\ thread' = thread /\ active' = active

\* The step of the context that runs: the counter follows the guards, and what
\* the others have loaded stays right, for its guards are above theirs.
LEMMA CounterFollows ==
  ASSUME SectionType, SectionSound, SectionType', NEW c \in Section!Contexts, c = Section!Top,
         SectionStays(c), saved' = 0,
         \/ nest' = nest /\ Section!Taken(c)' = Section!Taken(c)
         \/ nest' = nest + 1 /\ Section!Taken(c)' = Section!Taken(c) + 1
         \/ nest' + 1 = nest /\ Section!Taken(c)' + 1 = Section!Taken(c),
         Mid(c)' => reg'[c] = nest',
         MaskFollowsNest'
  PROVE  SectionSound'
<1>1. nest = Cardinality(Guards) /\ nest \in Nat /\ nest' \in Nat /\ HandlersNest /\ RestIsIdle /\ LoadsAreFresh
  BY SectionConstants DEF SectionSound, SectionType
<1>2. \A d \in Section!Contexts \ {c} : Section!Taken(d)' = Section!Taken(d)
  BY DEF SectionStays, Section!Taken
<1>3. Section!Taken(c) \in 0 .. MaxDepth
  <2>1. /\ depth[c] \in 0 .. MaxDepth /\ MaxDepth \in Nat
        /\ pc[c] \in {"counted", "saved", "lower"} => depth[c] < MaxDepth
    BY SectionConstants DEF SectionType, Entering, Mid
  <2> QED BY <2>1 DEF Section!Taken
<1>4. Section!Taken(c)' \in 0 .. MaxDepth
  <2>1. /\ depth'[c] \in 0 .. MaxDepth /\ MaxDepth \in Nat
        /\ pc'[c] \in {"counted", "saved", "lower"} => depth'[c] < MaxDepth
    BY SectionConstants DEF SectionType, Entering, Mid
  <2> QED BY <2>1 DEF Section!Taken
<1>5. /\ Section!Taken(c)' = Section!Taken(c) => Cardinality(Guards') = Cardinality(Guards)
      /\ Section!Taken(c)' = Section!Taken(c) + 1 => Cardinality(Guards') = Cardinality(Guards) + 1
      /\ Section!Taken(c)' + 1 = Section!Taken(c) => Cardinality(Guards') + 1 = Cardinality(Guards)
  BY <1>2, <1>3, <1>4, GuardsMove
<1>6. nest' = Cardinality(Guards')
  <2>1. CASE nest' = nest /\ Section!Taken(c)' = Section!Taken(c)
    BY <1>1, <1>5, <2>1
  <2>2. CASE nest' = nest + 1 /\ Section!Taken(c)' = Section!Taken(c) + 1
    BY <1>1, <1>5, <2>2
  <2>3. CASE nest' + 1 = nest /\ Section!Taken(c)' + 1 = Section!Taken(c)
    <3>1. Cardinality(Guards') + 1 = nest' + 1
      BY <1>1, <1>5, <2>3
    <3>2. Cardinality(Guards') \in Nat
      <4>1. IsFiniteSet(Guards)' /\ (Cardinality(Guards) \in Nat)'
        BY GuardsAreFew, PTL
      <4> QED BY <4>1
    <3> QED BY <1>1, <3>1, <3>2
  <2> QED BY <2>1, <2>2, <2>3
<1>7. thread' = thread /\ active' = active
  BY DEF SectionStays
<1>8. HandlersNest' /\ \A d : (OnStack(d)' <=> OnStack(d)) /\ Over(d)' = Over(d)
  BY <1>1, <1>7 DEF HandlersNest, OnStack, Over
<1>9. OnStack(c) /\ Over(c) = {}
  BY <1>1, TopIsOver
<1>10. RestIsIdle'
  BY <1>1, <1>8, <1>9, SectionConstants DEF RestIsIdle, SectionStays, Mid
<1>11. ASSUME NEW d \in Section!Contexts, Mid(d)' PROVE reg'[d] = Cardinality(Under(d)')
  <2>1. CASE d = c
    <3>1. Under(c)' = Guards'
      BY <1>8, <1>9 DEF Under
    <3> QED BY <1>6, <1>11, <2>1, <3>1
  <2>2. CASE d # c
    <3>1. Mid(d) /\ reg'[d] = reg[d]
      BY <1>11, <2>2 DEF SectionStays, Mid
    <3>2. OnStack(d)
      BY <1>1, <3>1, SectionConstants DEF RestIsIdle, Mid
    <3>3. c \in Over(d)
      BY <1>1, <2>2, <3>2, TopIsOver
    <3>4. Under(d)' = Under(d)
      BY <1>2, <1>8, <3>3 DEF Under, Guards
    <3> QED BY <1>1, <3>1, <3>4 DEF LoadsAreFresh
  <2> QED BY <2>1, <2>2
<1> QED BY <1>1, <1>6, <1>8, <1>10, <1>11 DEF SectionSound, LoadsAreFresh

\* What whoever runs has loaded is what nest_ still is, and there is room to count.
LEMMA LoadIsNest ==
  ASSUME SectionType, SectionSound, NEW c \in Section!Contexts, c = Section!Top, Mid(c)
  PROVE  /\ reg[c] = nest /\ nest \in 0 .. Wrap - 1 /\ (pc[c] = "lower" => nest >= 1)
         /\ pc[c] = "raise" => nest + 1 < Wrap
<1>1. reg[c] = nest
  <2>1. Over(c) = {}
    BY TopIsOver DEF SectionSound
  <2>2. Under(c) = Guards
    BY <2>1 DEF Under
  <2> QED BY <2>2 DEF SectionSound, LoadsAreFresh
<1>2. nest \in 0 .. Wrap - 1 /\ depth[c] \in 0 .. MaxDepth /\ depth[c] < MaxDepth
  BY DEF SectionType
<1>3. pc[c] = "lower" => nest >= 1
  <2>1. pc[c] = "lower" => Section!Taken(c) >= 1
    BY <1>2, SectionConstants DEF Section!Taken
  <2> QED BY <2>1, GuardsCount
<1>4. ASSUME pc[c] = "raise" PROVE nest + 1 < Wrap
  <2> DEFINE D == Section!Contexts \X (1 .. MaxDepth)
             e == << c, depth[c] + 1 >>
  <2>1. e \in D /\ e \notin Guards
    BY <1>2, <1>4, SectionConstants DEF Guards, Section!Taken
  <2>2. Guards \subseteq D /\ IsFiniteSet(Guards) /\ Cardinality(Guards) \in Nat
    BY GuardsAreFew DEF Guards
  <2>3. IsFiniteSet(D) /\ Cardinality(D) = MaxDepth * Cardinality(Section!Contexts)
    BY PlacesAreFinite
  <2> HIDE DEF D, e
  <2>4. Guards \cup {e} \subseteq D
    BY <2>1, <2>2
  <2>5. Cardinality(Guards \cup {e}) = Cardinality(Guards) + 1
    BY <2>1, <2>2, FS_AddElement
  <2>6. Cardinality(Guards \cup {e}) <= Cardinality(D)
    BY <2>3, <2>4, FS_Subset
  <2>7. MaxDepth * Cardinality(Section!Contexts) \in Nat
    BY <2>3, FS_CardinalityType
  <2> QED BY <2>2, <2>3, <2>5, <2>6, <2>7, SectionConstants DEF SectionSound
<1> QED BY <1>1, <1>2, <1>3, <1>4

\* Every step leaves each variable its type, torn or not.
LEMMA SectionTypes ==
  ASSUME SectionType, Section!Next
  PROVE  SectionType'
<1> DEFINE C == Section!Contexts
           Places == {"run", "raise", "counted", "saved", "lower", "last"}
<1>1. /\ nest \in 0 .. Wrap - 1 /\ reg \in [C -> 0 .. Wrap - 1]
      /\ basepri \in {0, 64} /\ saved \in {0, 64} /\ pc \in [C -> Places]
      /\ depth \in [C -> 0 .. MaxDepth] /\ MaxDepth \in Nat /\ 0 \in 0 .. Wrap - 1
      /\ \A c \in C : Entering(c) \/ Mid(c) => depth[c] < MaxDepth
      /\ thread \in Threads /\ active \in Seq(Handlers) /\ pend \in BOOLEAN /\ torn \in BOOLEAN
  BY SectionConstants DEF SectionType
<1>2. ASSUME NEW c \in C,
             \/ Section!lock(c) \/ Section!raise(c) \/ Section!read_basepri(c) \/ Section!write_basepri(c)
             \/ Section!unlock(c) \/ Section!lower(c) \/ Section!restore_basepri(c)
      PROVE  SectionType'
  <2>1. thread' = thread /\ active' = active /\ pend' = pend /\ torn' = torn
    BY <1>2 DEF Section!lock, Section!raise, Section!read_basepri, Section!write_basepri,
       Section!unlock, Section!lower, Section!restore_basepri
  <2>2. nest' \in 0 .. Wrap - 1 /\ reg' \in [C -> 0 .. Wrap - 1]
    <3>1. reg[c] \in 0 .. Wrap - 1
      BY <1>1
    <3>2. (reg[c] + 1) % Wrap \in 0 .. Wrap - 1 /\ (reg[c] - 1) % Wrap \in 0 .. Wrap - 1
      BY <3>1, CounterTurns
    <3> QED BY <1>1, <1>2, <3>2 DEF Section!lock, Section!raise, Section!read_basepri,
               Section!write_basepri, Section!unlock, Section!lower, Section!restore_basepri
  <2>3. basepri' \in {0, 64} /\ saved' \in {0, 64}
    BY <1>1, <1>2 DEF Section!lock, Section!raise, Section!read_basepri, Section!write_basepri,
       Section!unlock, Section!lower, Section!restore_basepri, Section!kMaskLevel
  <2>4. \E p \in Places, n \in 0 .. MaxDepth :
          /\ pc' = [pc EXCEPT ![c] = p] /\ depth' = [depth EXCEPT ![c] = n]
          /\ p \in {"raise", "counted", "saved", "lower"} => n < MaxDepth
    <3>1. depth[c] \in 0 .. MaxDepth /\ depth = [depth EXCEPT ![c] = depth[c]]
      BY <1>1
    <3>2. CASE Section!lock(c)
      BY <1>1, <3>1, <3>2 DEF Section!lock
    <3>3. CASE Section!raise(c)
      <4>1. depth[c] < MaxDepth /\ depth[c] + 1 \in 0 .. MaxDepth
        BY <1>1, <3>1, <3>3 DEF Section!raise, Mid
      <4>2. \/ pc' = [pc EXCEPT ![c] = "counted"] /\ depth' = depth
            \/ pc' = [pc EXCEPT ![c] = "run"] /\ depth' = [depth EXCEPT ![c] = depth[c] + 1]
        BY <3>3 DEF Section!raise
      <4> QED BY <3>1, <4>1, <4>2
    <3>4. CASE Section!read_basepri(c)
      <4>1. depth[c] < MaxDepth
        BY <1>1, <3>4 DEF Section!read_basepri, Entering
      <4> QED BY <3>1, <3>4, <4>1 DEF Section!read_basepri
    <3>5. CASE Section!write_basepri(c)
      <4>1. depth[c] < MaxDepth /\ depth[c] + 1 \in 0 .. MaxDepth
        BY <1>1, <3>1, <3>5 DEF Section!write_basepri, Entering
      <4> QED BY <3>5, <4>1 DEF Section!write_basepri
    <3>6. CASE Section!unlock(c)
      <4>1. depth[c] - 1 \in 0 .. MaxDepth /\ depth[c] - 1 < MaxDepth
        BY <1>1, <3>1, <3>6 DEF Section!unlock
      <4> QED BY <3>6, <4>1 DEF Section!unlock
    <3>7. CASE Section!lower(c)
      BY <3>1, <3>7 DEF Section!lower
    <3>8. CASE Section!restore_basepri(c)
      BY <3>1, <3>8 DEF Section!restore_basepri
    <3> QED BY <1>2, <3>2, <3>3, <3>4, <3>5, <3>6, <3>7, <3>8
  <2>5. PICK p \in Places, n \in 0 .. MaxDepth :
          /\ pc' = [pc EXCEPT ![c] = p] /\ depth' = [depth EXCEPT ![c] = n]
          /\ p \in {"raise", "counted", "saved", "lower"} => n < MaxDepth
    BY <2>4
  <2>6. pc' \in [C -> Places] /\ depth' \in [C -> 0 .. MaxDepth]
    BY <1>1, <2>5
  <2>7. \A d \in C : Entering(d)' \/ Mid(d)' => depth'[d] < MaxDepth
    BY <1>1, <2>5 DEF Entering, Mid
  <2> QED BY <1>1, <2>1, <2>2, <2>3, <2>6, <2>7 DEF SectionType
<1>3. ASSUME \/ \E c \in C : Section!request_switch(c)
             \/ \E h \in Handlers : Section!Interrupt(h) \/ Section!Return(h)
             \/ Section!PendSV_Handler
      PROVE  SectionType'
  <2>1. /\ nest' = nest /\ reg' = reg /\ saved' = saved /\ basepri' = basepri
        /\ pc' = pc /\ depth' = depth
    BY <1>3 DEF Section!request_switch, Section!Interrupt, Section!Return, Section!PendSV_Handler
  <2>2. CASE \E c \in C : Section!request_switch(c)
    <3>1. thread' = thread /\ active' = active /\ pend' = TRUE /\ torn' = torn
      BY <2>2, Zenon DEF Section!request_switch
    <3> QED BY <1>1, <2>1, <3>1 DEF SectionType, Entering, Mid
  <2>3. ASSUME NEW h \in Handlers, Section!Interrupt(h) \/ Section!Return(h) PROVE SectionType'
    <3>1. thread' = thread /\ pend' = pend /\ torn' = torn
      BY <2>3 DEF Section!Interrupt, Section!Return
    <3>2. active' \in Seq(Handlers)
      <4>1. CASE Section!Interrupt(h)
        BY <1>1, <4>1 DEF Section!Interrupt
      <4>2. CASE Section!Return(h)
        <5>1. active # << >>
          BY <1>1, <4>2, SectionConstants DEF Section!Return, Section!Runs, Section!Top
        <5>2. active' = SubSeq(active, 1, Len(active) - 1)
          BY <4>2 DEF Section!Return, Section!Front
        <5> QED BY <1>1, <5>1, <5>2
      <4> QED BY <2>3, <4>1, <4>2
    <3> QED BY <1>1, <2>1, <3>1, <3>2 DEF SectionType, Entering, Mid
  <2>4. CASE Section!PendSV_Handler
    <3>1. thread' \in Threads /\ active' = active /\ pend' = FALSE
      BY <2>4, Zenon DEF Section!PendSV_Handler
    <3>2. torn' = TRUE \/ torn' = FALSE
      BY <1>1, <2>4, Zenon DEF Section!PendSV_Handler
    <3> QED BY <1>1, <2>1, <3>1, <3>2 DEF SectionType, Entering, Mid
  <2> QED BY <1>3, <2>2, <2>3, <2>4
<1> QED BY <1>2, <1>3 DEF Section!Next

\* Loading nest_ changes nothing for anybody else.
LEMMA LoadKeeps ==
  ASSUME SectionType, SectionSound, SectionType',
         NEW c \in Section!Contexts, Section!lock(c) \/ Section!unlock(c)
  PROVE  SectionSound'
<1>1. /\ c = Section!Top /\ pc[c] = "run" /\ nest' = nest /\ saved' = saved /\ basepri' = basepri
      /\ thread' = thread /\ active' = active /\ reg' = [reg EXCEPT ![c] = nest]
  BY DEF Section!lock, Section!unlock, Section!Runs
<1>2. \/ pc' = [pc EXCEPT ![c] = "raise"] /\ depth' = depth
      \/ pc' = [pc EXCEPT ![c] = "lower"] /\ depth' = [depth EXCEPT ![c] = depth[c] - 1] /\ depth[c] > 0
  BY DEF Section!lock, Section!unlock
<1>3. SectionStays(c) /\ reg'[c] = nest /\ ~Entering(c)' /\ ~Entering(c) /\ pc'[c] # "last"
  BY <1>1, <1>2 DEF SectionStays, SectionType, Entering
<1>4. Section!Taken(c)' = Section!Taken(c)
  BY <1>1, <1>2, SectionConstants DEF Section!Taken, SectionType
<1>5. /\ \A d \in Section!Contexts : Entering(d)' <=> Entering(d)
      /\ \A d \in Section!Contexts : pc'[d] = "last" => pc[d] = "last"
      /\ \A d \in Section!Contexts : pc[d] # "last"
  BY <1>1, <1>3 DEF SectionStays, Entering, SectionSound, MaskFollowsNest
<1>6. MaskFollowsNest'
  BY <1>1, <1>5 DEF SectionSound, MaskFollowsNest
<1>7. saved' = 0
  BY <1>1 DEF SectionSound
<1> QED BY <1>1, <1>3, <1>4, <1>6, <1>7, CounterFollows

\* lock() counts first, and masks only if it was the first.
LEMMA RaiseKeeps ==
  ASSUME SectionType, SectionSound, SectionType', NEW c \in Section!Contexts, Section!raise(c)
  PROVE  SectionSound'
<1>1. /\ c = Section!Top /\ pc[c] = "raise" /\ nest' = (reg[c] + 1) % Wrap /\ saved' = saved
      /\ basepri' = basepri /\ thread' = thread /\ active' = active /\ reg' = [reg EXCEPT ![c] = 0]
  BY DEF Section!raise
<1>2. reg[c] = nest /\ nest \in Nat /\ nest' = nest + 1
  BY <1>1, LoadIsNest, CounterTurns DEF Mid
<1>3. \/ nest = 0 /\ pc' = [pc EXCEPT ![c] = "counted"] /\ depth' = depth
      \/ nest > 0 /\ pc' = [pc EXCEPT ![c] = "run"] /\ depth' = [depth EXCEPT ![c] = depth[c] + 1]
  BY <1>2 DEF Section!raise
<1>4. /\ SectionStays(c) /\ ~Mid(c)' /\ ~Entering(c)
      /\ \/ nest = 0 /\ pc'[c] = "counted" /\ depth'[c] = depth[c]
         \/ nest > 0 /\ pc'[c] = "run" /\ depth'[c] = depth[c] + 1
  BY <1>1, <1>3 DEF SectionStays, SectionType, Mid, Entering
<1>5. Section!Taken(c)' = Section!Taken(c) + 1
  BY <1>1, <1>4 DEF Section!Taken
<1>6. \A d \in Section!Contexts : pc[d] # "last" /\ pc'[d] # "last"
  BY <1>1, <1>4 DEF SectionStays, SectionSound, MaskFollowsNest
<1>7. MaskFollowsNest'
  <2>1. CASE nest = 0
    <3>1. basepri' = 0 /\ Entering(c)'
      BY <1>1, <1>4, <1>6, <2>1 DEF SectionSound, MaskFollowsNest, Entering
    <3>2. \A d \in Section!Contexts \ {c} : ~Entering(d)'
      BY <1>4, <2>1, GuardsCount DEF SectionStays, Entering
    <3> QED BY <1>2, <1>6, <3>1, <3>2 DEF MaskFollowsNest
  <2>2. CASE nest > 0
    <3>1. \A d \in Section!Contexts : Entering(d)' <=> Entering(d)
      BY <1>2, <1>4, <2>2 DEF SectionStays, Entering
    <3> QED BY <1>1, <1>2, <1>6, <2>2, <3>1 DEF SectionSound, MaskFollowsNest
  <2> QED BY <1>2, <2>1, <2>2
<1>8. saved' = 0
  BY <1>1 DEF SectionSound
<1> QED BY <1>1, <1>2, <1>4, <1>5, <1>7, <1>8, CounterFollows

\* The first saves a mask that is not up, and raises it.
LEMMA MaskingKeeps ==
  ASSUME SectionType, SectionSound, SectionType',
         NEW c \in Section!Contexts, Section!read_basepri(c) \/ Section!write_basepri(c)
  PROVE  SectionSound'
<1>1. /\ c = Section!Top /\ Entering(c) /\ nest' = nest /\ thread' = thread /\ active' = active
      /\ reg' = reg
  BY DEF Section!read_basepri, Section!write_basepri, Entering
<1>2. \/ /\ pc[c] = "counted" /\ saved' = basepri /\ basepri' = basepri /\ depth' = depth
         /\ pc' = [pc EXCEPT ![c] = "saved"]
      \/ /\ pc[c] = "saved" /\ saved' = saved /\ basepri' = 64 /\ depth' = [depth EXCEPT ![c] = depth[c] + 1]
         /\ pc' = [pc EXCEPT ![c] = "run"]
  BY DEF Section!read_basepri, Section!write_basepri, Section!kMaskLevel
<1>3. basepri = 0 /\ saved = 0 /\ nest \in Nat /\ depth[c] \in Nat
  BY <1>1, SectionConstants DEF SectionSound, SectionType, MaskFollowsNest
<1>4. /\ SectionStays(c) /\ ~Mid(c)'
      /\ \/ pc[c] = "counted" /\ pc'[c] = "saved" /\ depth'[c] = depth[c] /\ basepri' = 0
         \/ pc[c] = "saved" /\ pc'[c] = "run" /\ depth'[c] = depth[c] + 1 /\ basepri' = 64
  BY <1>1, <1>2, <1>3 DEF SectionStays, SectionType, Mid
<1>5. Section!Taken(c)' = Section!Taken(c) /\ Section!Taken(c) >= 1 /\ saved' = 0
  BY <1>2, <1>3, <1>4 DEF Section!Taken
<1>6. nest >= 1
  BY <1>5, GuardsCount
<1>7. \A d \in Section!Contexts : pc'[d] # "last"
  BY <1>4, <1>6 DEF SectionStays, SectionSound, MaskFollowsNest
<1>8. \A d \in Section!Contexts \ {c} : ~Entering(d)'
  BY <1>1, <1>4 DEF SectionStays, Entering, SectionSound, MaskFollowsNest
<1>9. MaskFollowsNest'
  <2>1. (basepri' = 0 /\ Entering(c)') \/ (basepri' = 64 /\ ~Entering(c)')
    BY <1>4 DEF Entering
  <2> QED BY <1>1, <1>3, <1>6, <1>7, <1>8, <2>1 DEF MaskFollowsNest
<1> QED BY <1>1, <1>4, <1>5, <1>9, CounterFollows

\* Whoever brings the counter to zero finds the mask up and goes on to lift it.
LEMMA LowerKeeps ==
  ASSUME SectionType, SectionSound, SectionType', NEW c \in Section!Contexts, Section!lower(c)
  PROVE  SectionSound'
<1>1. /\ c = Section!Top /\ pc[c] = "lower" /\ nest' = (reg[c] - 1) % Wrap /\ saved' = saved
      /\ pc' = [pc EXCEPT ![c] = IF reg[c] = 1 THEN "last" ELSE "run"] /\ depth' = depth
      /\ basepri' = basepri /\ thread' = thread /\ active' = active /\ reg' = [reg EXCEPT ![c] = 0]
  BY DEF Section!lower
<1>2. reg[c] = nest /\ nest \in Nat /\ nest >= 1 /\ nest' = nest - 1
  BY <1>1, LoadIsNest, CounterTurns DEF Mid
<1>3. /\ SectionStays(c) /\ ~Mid(c)' /\ ~Entering(c) /\ ~Entering(c)'
      /\ pc'[c] = (IF nest = 1 THEN "last" ELSE "run") /\ depth'[c] = depth[c]
  BY <1>1, <1>2 DEF SectionStays, SectionType, Mid, Entering
<1>4. Section!Taken(c)' + 1 = Section!Taken(c) /\ Section!Taken(c) >= 1
  BY <1>1, <1>3, SectionConstants DEF Section!Taken, SectionType
<1>5. \A d \in Section!Contexts : pc[d] # "last"
  BY <1>2 DEF SectionSound, MaskFollowsNest
<1>6. \A d \in Section!Contexts : Entering(d)' <=> Entering(d)
  BY <1>3 DEF SectionStays, Entering
<1>7. nest = 1 => basepri = 64
  <2>1. nest = 1 => \A d \in Section!Contexts \ {c} : ~Entering(d)
    BY <1>4, GuardsCount
  <2> QED BY <1>3, <2>1 DEF SectionSound, MaskFollowsNest
<1>8. MaskFollowsNest'
  <2>1. ASSUME NEW d \in Section!Contexts, pc'[d] = "last"
        PROVE  nest' = 0 /\ basepri' = 64 /\ d = Section!Top'
    <3>1. d = c /\ nest = 1
      BY <1>3, <1>5, <2>1 DEF SectionStays
    <3>2. Section!Top' = Section!Top
      BY <1>1 DEF Section!Top, Section!Last
    <3> QED BY <1>1, <1>2, <1>7, <3>1, <3>2
  <2>2. nest' > 0 => basepri' = 64 \/ \E d \in Section!Contexts : Entering(d)'
    BY <1>1, <1>2, <1>6 DEF SectionSound, MaskFollowsNest
  <2>3. nest' = 0 => \E d \in Section!Contexts : pc'[d] = "last"
    BY <1>2, <1>3
  <2> QED BY <1>1, <1>6, <2>1, <2>2, <2>3 DEF SectionSound, MaskFollowsNest
<1>9. saved' = 0 /\ nest' + 1 = nest
  BY <1>1, <1>2 DEF SectionSound
<1> QED BY <1>1, <1>3, <1>4, <1>8, <1>9, CounterFollows

\* The mask that is lifted is the one the first found: none.
LEMMA RestoreKeeps ==
  ASSUME SectionType, SectionSound, SectionType', NEW c \in Section!Contexts, Section!restore_basepri(c)
  PROVE  SectionSound'
<1>1. /\ c = Section!Top /\ pc[c] = "last" /\ basepri' = saved /\ pc' = [pc EXCEPT ![c] = "run"]
      /\ nest' = nest /\ reg' = reg /\ saved' = saved /\ depth' = depth
      /\ thread' = thread /\ active' = active
  BY DEF Section!restore_basepri
<1>2. nest = 0 /\ saved = 0 /\ \A d \in Section!Contexts : pc[d] = "last" => d = c
  BY <1>1 DEF SectionSound, MaskFollowsNest
<1>3. SectionStays(c) /\ pc'[c] = "run"
  BY <1>1 DEF SectionStays, SectionType
<1>4. Section!Taken(c)' = Section!Taken(c) /\ ~Mid(c)'
  BY <1>1, <1>3 DEF Section!Taken, Mid
<1>5. \A d \in Section!Contexts : ~Entering(d)' /\ pc'[d] # "last"
  BY <1>2, <1>3, GuardsCount DEF SectionStays, Entering
<1>6. MaskFollowsNest'
  BY <1>1, <1>2, <1>5 DEF MaskFollowsNest
<1> QED BY <1>1, <1>2, <1>3, <1>4, <1>6, CounterFollows

\* A handler is entered with no guard of its own, and leaves with none.
LEMMA HandlersComeAndGo ==
  ASSUME SectionType, SectionSound, NEW h \in Handlers, Section!Interrupt(h) \/ Section!Return(h)
  PROVE  /\ HandlersNest' /\ thread' = thread
         /\ pc[h] = "run" /\ depth[h] = 0
         /\ \A d \in Section!Contexts \ {h} : OnStack(d)' <=> OnStack(d)
         /\ \A d \in Section!Contexts : OnStack(d) => Over(d)' \cup {h} = Over(d) \cup {h}
<1> DEFINE n == Len(active)
<1>1. /\ active \in Seq(Handlers) /\ n \in Nat /\ \A i \in 1 .. n : active[i] \in Handlers
      /\ thread \in Threads /\ Threads \cap Handlers = {} /\ HandlersNest
      /\ \A g \in Handlers : Priority[g] \in Int
  BY SectionConstants DEF SectionType, SectionSound
<1>2. CASE Section!Interrupt(h)
  <2>1. active' = Append(active, h) /\ thread' = thread /\ Priority[h] < Section!Level(Section!Top)
    BY <1>2 DEF Section!Interrupt
  <2>2. /\ Len(active') = n + 1 /\ active'[n + 1] = h
        /\ \A i \in 1 .. n : active'[i] = active[i]
    BY <1>1, <2>1
  <2>3. \A i \in 1 .. n : Priority[h] < Priority[active[i]]
    <3>1. CASE n = 0
      BY <3>1
    <3>2. CASE n > 0
      <4>1. Section!Top = active[n] /\ active[n] \in Handlers /\ n \in 1 .. n
        BY <1>1, <3>2 DEF Section!Top, Section!Last
      <4>2. Priority[h] < Priority[active[n]]
        BY <2>1, <4>1 DEF Section!Level
      <4>3. \A i \in 1 .. n : i < n => Priority[active[n]] < Priority[active[i]]
        BY <1>1, <4>1 DEF HandlersNest
      <4> QED BY <1>1, <4>1, <4>2, <4>3
    <3> QED BY <1>1, <3>1, <3>2
  <2>4. HandlersNest'
    <3> SUFFICES ASSUME NEW i \in 1 .. n + 1, NEW j \in 1 .. n + 1, i < j
                 PROVE  Priority[active'[j]] < Priority[active'[i]]
      BY <2>2 DEF HandlersNest
    <3>1. CASE j = n + 1
      <4>1. i \in 1 .. n
        BY <1>1, <3>1
      <4> QED BY <2>2, <2>3, <3>1, <4>1
    <3>2. CASE j # n + 1
      <4>1. i \in 1 .. n /\ j \in 1 .. n
        BY <1>1, <3>2
      <4> QED BY <1>1, <2>2, <4>1 DEF HandlersNest
    <3> QED BY <3>1, <3>2
  <2>5. \A i \in 1 .. n : active[i] # h
    BY <1>1, <2>3
  <2>6. h # thread
    BY <1>1
  <2>7. pc[h] = "run" /\ depth[h] = 0
    BY <2>5, <2>6 DEF SectionSound, RestIsIdle, OnStack
  <2>8. ASSUME NEW d \in Section!Contexts \ {h} PROVE OnStack(d)' <=> OnStack(d)
    <3>1. (\E i \in 1 .. n + 1 : active'[i] = d) <=> (\E i \in 1 .. n : active[i] = d)
      BY <1>1, <2>2, <2>8
    <3> QED BY <2>1, <2>2, <3>1 DEF OnStack
  <2>9. ASSUME NEW d \in Section!Contexts, OnStack(d) PROVE Over(d)' \cup {h} = Over(d) \cup {h}
    <3> DEFINE Above(a, k) == d = thread \/ \E i \in 1 .. k - 1 : a[i] = d
    <3>1. \A k \in 1 .. n : Above(active', k) <=> Above(active, k)
      <4> SUFFICES ASSUME NEW k \in 1 .. n
                   PROVE  \A i \in 1 .. k - 1 : active'[i] = active[i]
        OBVIOUS
      <4> QED BY <1>1, <2>2
    <3>2. Over(d) = {g \in Handlers : \E k \in 1 .. n : active[k] = g /\ Above(active, k)}
      BY DEF Over
    <3>3. Over(d)' = {g \in Handlers : \E k \in 1 .. n + 1 : active'[k] = g /\ Above(active', k)}
      BY <2>1, <2>2 DEF Over
    <3> HIDE DEF Above
    <3>4. ASSUME NEW g \in Handlers \ {h} PROVE g \in Over(d)' <=> g \in Over(d)
      BY <1>1, <2>2, <3>1, <3>2, <3>3
    <3>5. Over(d) \subseteq Handlers /\ Over(d)' \subseteq Handlers
      BY <3>2, <3>3
    <3> QED BY <3>4, <3>5
  <2> QED BY <2>1, <2>4, <2>7, <2>8, <2>9
<1>3. CASE Section!Return(h)
  <2>1. Section!Top = h /\ pc[h] = "run" /\ depth[h] = 0 /\ thread' = thread
    BY <1>3 DEF Section!Return, Section!Runs
  <2>2. active # << >>
    BY <1>1, <2>1 DEF Section!Top
  <2>3. n >= 1 /\ active[n] = h
    BY <1>1, <2>1, <2>2 DEF Section!Top, Section!Last
  <2>4. /\ Len(active') = n - 1 /\ \A i \in 1 .. n - 1 : active'[i] = active[i]
    <3>1. active' = SubSeq(active, 1, n - 1)
      BY <1>3 DEF Section!Return, Section!Front
    <3>2. 1 \in Int /\ n - 1 \in Int /\ n - 1 >= 0 /\ \A i \in 1 .. n - 1 : active[i] \in Handlers
      BY <1>1, <2>3
    <3>3. /\ Len(SubSeq(active, 1, n - 1)) = IF 1 <= n - 1 THEN n - 1 - 1 + 1 ELSE 0
          /\ \A i \in 1 .. n - 1 - 1 + 1 : SubSeq(active, 1, n - 1)[i] = active[1 + i - 1]
      BY <3>2, SubSeqProperties
    <3> HIDE DEF n
    <3>4. \A i \in 1 .. n - 1 : i \in 1 .. n - 1 - 1 + 1 /\ 1 + i - 1 = i
      BY <3>2
    <3> QED BY <3>1, <3>2, <3>3, <3>4
  <2>5. HandlersNest'
    <3> SUFFICES ASSUME NEW i \in 1 .. n - 1, NEW j \in 1 .. n - 1, i < j
                 PROVE  Priority[active'[j]] < Priority[active'[i]]
      BY <2>4 DEF HandlersNest
    <3>1. i \in 1 .. n /\ j \in 1 .. n
      BY <1>1
    <3> QED BY <1>1, <2>4, <3>1 DEF HandlersNest
  <2>6. ASSUME NEW d \in Section!Contexts \ {h} PROVE OnStack(d)' <=> OnStack(d)
    <3>1. (\E i \in 1 .. n - 1 : active'[i] = d) <=> (\E i \in 1 .. n : active[i] = d)
      BY <1>1, <2>3, <2>4, <2>6
    <3> QED BY <2>1, <2>4, <3>1 DEF OnStack
  <2>7. ASSUME NEW d \in Section!Contexts, OnStack(d) PROVE Over(d)' \cup {h} = Over(d) \cup {h}
    <3> DEFINE Above(a, k) == d = thread \/ \E i \in 1 .. k - 1 : a[i] = d
    <3>1. \A k \in 1 .. n - 1 : Above(active', k) <=> Above(active, k)
      <4> SUFFICES ASSUME NEW k \in 1 .. n - 1
                   PROVE  \A i \in 1 .. k - 1 : active'[i] = active[i]
        OBVIOUS
      <4> QED BY <1>1, <2>4
    <3>2. Over(d) = {g \in Handlers : \E k \in 1 .. n : active[k] = g /\ Above(active, k)}
      BY DEF Over
    <3>3. Over(d)' = {g \in Handlers : \E k \in 1 .. n - 1 : active'[k] = g /\ Above(active', k)}
      BY <2>1, <2>4 DEF Over
    <3> HIDE DEF Above
    <3>4. ASSUME NEW g \in Handlers \ {h} PROVE g \in Over(d)' <=> g \in Over(d)
      BY <1>1, <2>3, <2>4, <3>1, <3>2, <3>3
    <3>5. Over(d) \subseteq Handlers /\ Over(d)' \subseteq Handlers
      BY <3>2, <3>3
    <3> QED BY <3>4, <3>5
  <2> QED BY <2>1, <2>5, <2>6, <2>7
<1> QED BY <1>2, <1>3

\* A change of who runs: while somebody lifts the mask it is up, and keeps
\* handlers and PendSV out; and no thread is between load and store unless torn.
LEMMA SectionSwitches ==
  ASSUME SectionType, SectionSound, SectionType', ~torn',
         \/ \E c \in Section!Contexts : Section!request_switch(c)
         \/ \E h \in Handlers : Section!Interrupt(h) \/ Section!Return(h)
         \/ Section!PendSV_Handler
  PROVE  SectionSound'
<1>1. nest' = nest /\ reg' = reg /\ saved' = saved /\ basepri' = basepri /\ pc' = pc /\ depth' = depth
  BY DEF Section!request_switch, Section!Interrupt, Section!Return, Section!PendSV_Handler
<1>2. Guards' = Guards
  BY <1>1 DEF Guards, Section!Taken
<1>3. ASSUME NEW c \in Section!Contexts, pc[c] = "last" PROVE c = Section!Top'
  <2>1. c = Section!Top /\ basepri = 64
    BY <1>3 DEF SectionSound, MaskFollowsNest
  <2>2. \A h \in Handlers : ~Section!Interrupt(h)
    BY <2>1, SectionConstants DEF Section!Interrupt, Section!Unmasked
  <2>3. \A h \in Handlers : ~Section!Return(h)
    BY <1>3, <2>1 DEF Section!Return, Section!Runs
  <2>4. ~Section!PendSV_Handler
    BY <2>1 DEF Section!PendSV_Handler, Section!Unmasked, Section!kPendSVPrio
  <2>5. thread' = thread /\ active' = active
    BY <2>2, <2>3, <2>4 DEF Section!request_switch
  <2> QED BY <2>1, <2>5 DEF Section!Top, Section!Last
<1>4. MaskFollowsNest'
  BY <1>1, <1>3 DEF SectionSound, MaskFollowsNest, Entering
<1>5. HandlersNest' /\ RestIsIdle' /\ LoadsAreFresh'
  <2>1. CASE \E c \in Section!Contexts : Section!request_switch(c)
    <3>1. thread' = thread /\ active' = active
      BY <2>1 DEF Section!request_switch
    <3>2. \A d : (OnStack(d)' <=> OnStack(d)) /\ Over(d)' = Over(d)
      BY <3>1 DEF OnStack, Over
    <3> QED BY <1>1, <1>2, <3>1, <3>2 DEF SectionSound, HandlersNest, RestIsIdle, LoadsAreFresh, Mid, Under
  <2>2. ASSUME NEW h \in Handlers, Section!Interrupt(h) \/ Section!Return(h)
        PROVE  HandlersNest' /\ RestIsIdle' /\ LoadsAreFresh'
    <3>1. /\ HandlersNest' /\ thread' = thread /\ pc[h] = "run" /\ depth[h] = 0
          /\ \A d \in Section!Contexts \ {h} : OnStack(d)' <=> OnStack(d)
          /\ \A d \in Section!Contexts : OnStack(d) => Over(d)' \cup {h} = Over(d) \cup {h}
      BY <2>2, HandlersComeAndGo
    <3>2. RestIsIdle'
      BY <1>1, <3>1, SectionConstants DEF SectionSound, RestIsIdle, Mid
    <3>3. \A g \in Guards : g[1] # h
      BY <3>1, SectionConstants DEF Guards, Section!Taken
    <3>4. ASSUME NEW d \in Section!Contexts, Mid(d) PROVE Under(d)' = Under(d)
      <4>1. OnStack(d)
        BY <3>4, SectionConstants DEF SectionSound, RestIsIdle, Mid
      <4>2. Over(d)' \cup {h} = Over(d) \cup {h}
        BY <3>1, <4>1
      <4> QED BY <1>2, <3>3, <4>2 DEF Under
    <3>5. LoadsAreFresh'
      BY <1>1, <3>4 DEF SectionSound, LoadsAreFresh, Mid
    <3> QED BY <3>1, <3>2, <3>5
  <2>3. CASE Section!PendSV_Handler
    <3>1. active = << >> /\ active' = << >> /\ thread' \in Threads /\ (thread' # thread => ~Mid(thread))
      BY <2>3, Zenon DEF Section!PendSV_Handler, Mid
    <3>2. HandlersNest' /\ \A d : Over(d) = {} /\ Over(d)' = {}
      BY <3>1 DEF HandlersNest, Over
    <3>3. \A d : OnStack(d) <=> d = thread
      BY <3>1 DEF OnStack
    <3>4. \A d : OnStack(d)' <=> d = thread'
      BY <3>1 DEF OnStack
    <3>5. RestIsIdle'
      <4>1. \A h \in Handlers : h # thread /\ h # thread'
        BY <3>1, SectionConstants DEF SectionType
      <4>2. \A t \in Threads : t # thread' => ~Mid(t)
        BY <3>1, <3>3 DEF SectionSound, RestIsIdle
      <4> QED BY <1>1, <3>3, <3>4, <4>1, <4>2 DEF SectionSound, RestIsIdle, Mid
    <3>6. LoadsAreFresh'
      BY <1>1, <1>2, <3>2 DEF SectionSound, LoadsAreFresh, Mid, Under
    <3> QED BY <3>2, <3>5, <3>6
  <2> QED BY <2>1, <2>2, <2>3
<1>6. saved' = 0 /\ nest' = Cardinality(Guards')
  BY <1>1, <1>2 DEF SectionSound
<1> QED BY <1>4, <1>5, <1>6 DEF SectionSound

\* Every step keeps what the section rests on; once torn, only the types.
LEMMA NextSectionInv ==
  ASSUME SectionInv, [BaseNext]_basevars
  PROVE  SectionInv'
<1>1. CASE UNCHANGED sectionvars
  <2>1. /\ nest' = nest /\ reg' = reg /\ saved' = saved /\ basepri' = basepri /\ pc' = pc /\ depth' = depth
        /\ thread' = thread /\ active' = active /\ pend' = pend /\ torn' = torn
    BY <1>1 DEF sectionvars
  <2>2. Guards' = Guards
    BY <2>1 DEF Guards, Section!Taken
  <2>3. SectionType'
    BY <2>1 DEF SectionInv, SectionType, Entering, Mid
  <2>4. MaskFollowsNest' <=> MaskFollowsNest
    BY <2>1 DEF MaskFollowsNest, Entering, Section!Top, Section!Last
  <2>5. \A d : (OnStack(d)' <=> OnStack(d)) /\ Over(d)' = Over(d)
    BY <2>1 DEF OnStack, Over
  <2>6. \A d : Under(d)' = Under(d)
    BY <2>2, <2>5 DEF Under
  <2>7. HandlersNest' <=> HandlersNest
    BY <2>1 DEF HandlersNest
  <2>8. (RestIsIdle' <=> RestIsIdle) /\ (LoadsAreFresh' <=> LoadsAreFresh)
    BY <2>1, <2>5, <2>6 DEF RestIsIdle, LoadsAreFresh, Mid
  <2> QED BY <2>1, <2>2, <2>3, <2>4, <2>7, <2>8 DEF SectionInv, SectionSound
<1>2. CASE Section!Next
  <2>1. SectionType /\ SectionType'
    BY <1>2, SectionTypes DEF SectionInv
  <2>2. ASSUME ~torn' PROVE ~torn
    BY <1>2, <2>2, Zenon DEF Section!Next, Section!lock, Section!raise, Section!read_basepri,
       Section!write_basepri, Section!unlock, Section!lower, Section!restore_basepri,
       Section!request_switch, Section!Interrupt, Section!Return, Section!PendSV_Handler
  <2>3. ASSUME ~torn' PROVE SectionSound'
    <3>1. SectionSound
      BY <2>2, <2>3 DEF SectionInv
    <3> QED BY <1>2, <2>1, <2>3, <3>1, LoadKeeps, RaiseKeeps, MaskingKeeps, LowerKeeps, RestoreKeeps,
               SectionSwitches DEF Section!Next
  <2> QED BY <2>1, <2>3 DEF SectionInv
<1>3. UNCHANGED sectionvars \/ Section!Next
  BY DEF BaseNext, basevars
<1> QED BY <1>1, <1>2, <1>3

\* GuardsAddUp: whoever interrupts whom in the middle of lock and unlock, the
\* shared nest_ counts the guards, and when all are out nothing stays masked,
\* as long as no switch of threads falls between a load of nest_ and its store.
THEOREM GuardsStayCounted == BaseSpec => []GuardsAddUp
<1>1. BaseInit => SectionInv
  <2> SUFFICES ASSUME Section!Init PROVE SectionInv
    BY DEF BaseInit
  <2>1. /\ nest = 0 /\ saved = 0 /\ basepri = 0 /\ thread \in Threads /\ active = << >>
        /\ pc = [c \in Section!Contexts |-> "run"] /\ depth = [c \in Section!Contexts |-> 0]
        /\ reg = [c \in Section!Contexts |-> 0]
    BY DEF Section!Init
  <2>2. pend \in BOOLEAN /\ torn \in BOOLEAN
    BY Zenon DEF Section!Init
  <2>3. \A c \in Section!Contexts : ~Entering(c) /\ ~Mid(c) /\ pc[c] # "last"
    BY <2>1 DEF Entering, Mid
  <2>4. SectionType
    BY <2>1, <2>2, <2>3, SectionConstants DEF SectionType
  <2>5. Guards = {}
    BY <2>1 DEF Guards, Section!Taken
  <2>6. MaskFollowsNest /\ LoadsAreFresh
    BY <2>1, <2>3 DEF MaskFollowsNest, LoadsAreFresh
  <2>7. HandlersNest
    BY <2>1 DEF HandlersNest
  <2>8. RestIsIdle
    BY <2>1, <2>3, SectionConstants DEF RestIsIdle
  <2> QED BY <2>1, <2>4, <2>5, <2>6, <2>7, <2>8, FS_EmptySet DEF SectionInv, SectionSound
<1>2. SectionInv /\ [BaseNext]_basevars => SectionInv'
  BY NextSectionInv
<1>3. SectionInv => GuardsAddUp
  <2> SUFFICES ASSUME SectionInv PROVE GuardsAddUp
    OBVIOUS
  <2>1. \A S : Section!Cardinality(S) = Cardinality(S)
    BY DEF Section!Cardinality, Cardinality
  <2>2. Section!NestCountsGuards
    BY <2>1 DEF Section!NestCountsGuards, Guards, SectionInv, SectionSound
  <2>3. Section!TypeOK
    BY DEF Section!TypeOK, Section!kMaskLevel, SectionInv, SectionType
  <2>4. Section!QuietIsOpen
    <3> SUFFICES ASSUME ~torn, \A c \in Section!Contexts : pc[c] = "run" /\ depth[c] = 0
                 PROVE  nest = 0 /\ basepri = 0
      BY DEF Section!QuietIsOpen, Section!NestReturnsToZero
    <3>1. Guards = {}
      BY DEF Guards, Section!Taken
    <3>2. nest = 0
      BY <3>1, FS_EmptySet DEF SectionInv, SectionSound
    <3> QED BY <3>2 DEF SectionInv, SectionSound, MaskFollowsNest
  <2> QED BY <2>2, <2>3, <2>4 DEF GuardsAddUp
<1> QED BY <1>1, <1>2, <1>3, PTL DEF BaseSpec

-----------------------------------------------------------------------------
(* The intrusive list.  The pointers form a chain along some sequence of   *)
(* distinct nodes, the walk from the head reads that sequence back, and    *)
(* each call changes it at one place.                                      *)

\* The pointer that stands at place i of a chain along s.
Place(s, i) == IF i \in 1 .. Len(s) THEN s[i] ELSE Null

\* The pointers lead along s.
Chain(s, hd, nx) ==
  /\ s \in Seq(Nodes)
  /\ \A i, j \in 1 .. Len(s) : s[i] = s[j] => i = j
  /\ hd = Place(s, 1)
  /\ \A i \in 1 .. Len(s) : nx[s[i]] = Place(s, i + 1)

\* r is s with e put in at place m.
Grown(r, s, m, e) ==
  /\ m \in 1 .. Len(s) + 1
  /\ Len(r) = Len(s) + 1
  /\ \A i \in 1 .. m - 1 : r[i] = s[i]
  /\ r[m] = e
  /\ \A i \in m .. Len(s) : r[i + 1] = s[i]

\* The nodes a walk meets, and the walk.
Met(hd, nx) ==
  CHOOSE at : at = [i \in 1 .. List!Cardinality(Nodes) |->
                    IF i = 1 THEN hd ELSE IF at[i - 1] = Null THEN Null ELSE nx[at[i - 1]]]

WalkOf(hd, nx) ==
  [i \in 1 .. List!Cardinality({i \in 1 .. List!Cardinality(Nodes) : Met(hd, nx)[i] # Null}) |->
     Met(hd, nx)[i]]

\* The list's module has its own copies of these.
LEMMA ListOperators ==
  /\ \A S : List!Cardinality(S) = Cardinality(S)
  /\ List!Walk = WalkOf(head, next)
  /\ List!Walk' = WalkOf(head', next')
  /\ List!NodesAssumption => Null \notin Nodes /\ Key \in [Nodes -> Int] /\ IsFiniteSet(Nodes)
<1>1. \A S : List!Cardinality(S) = Cardinality(S)
  BY DEF List!Cardinality, Cardinality
<1>2. List!Walk = WalkOf(head, next)
  BY Zenon DEF List!Walk, WalkOf, Met
<1>3. List!Walk' = WalkOf(head', next')
  BY Zenon DEF List!Walk, WalkOf, Met
<1>4. List!NodesAssumption => Null \notin Nodes /\ Key \in [Nodes -> Int] /\ IsFiniteSet(Nodes)
  BY DEF List!NodesAssumption, List!IsFiniteSet, IsFiniteSet
<1> QED BY <1>1, <1>2, <1>3, <1>4

\* The nodes are finitely many, and Null is none of them.
LEMMA NodesFacts ==
  /\ Null \notin Nodes /\ Key \in [Nodes -> Int]
  /\ IsFiniteSet(Nodes) /\ Cardinality(Nodes) \in Nat
<1>1. Null \notin Nodes /\ Key \in [Nodes -> Int] /\ IsFiniteSet(Nodes)
  BY ListAssumption, ListOperators
<1> QED BY <1>1, FS_CardinalityType

\* Distinct nodes are no more than there are.
LEMMA ChainIsShort ==
  ASSUME NEW s \in Seq(Nodes), \A i, j \in 1 .. Len(s) : s[i] = s[j] => i = j
  PROVE  Len(s) <= Cardinality(Nodes)
<1> DEFINE n == Len(s)
<1>1. n \in Nat /\ s \in [1 .. n -> Nodes]
  OBVIOUS
<1>2. IsFiniteSet(1 .. n) /\ Cardinality(1 .. n) = n
  BY <1>1, FS_Interval
<1>3. s \in Injection(1 .. n, Nodes)
  BY <1>1 DEF Injection, IsInjective
<1> HIDE DEF n
<1>4. Cardinality(1 .. n) <= Cardinality(Nodes)
  BY <1>2, <1>3, NodesFacts, FS_Injection
<1> QED BY <1>2, <1>4 DEF n

\* Induction along an interval, for a set of places.
LEMMA Counting ==
  ASSUME NEW n \in Nat, NEW G, 0 \in G, \A i \in 0 .. n - 1 : i \in G => i + 1 \in G
  PROVE  \A i \in 0 .. n : i \in G
<1> SUFFICES ASSUME NEW z \in 0 .. n, z \notin G PROVE FALSE
  OBVIOUS
<1> DEFINE R == {ss \in Nat \X Nat : ss[1] < ss[2]}
           Bad == {i \in 0 .. n : i \notin G}
<1>1. Bad \subseteq Nat /\ Bad # {}
  OBVIOUS
<1>2. IsWellFoundedOn(R, Nat)
  BY NatLessThanWellFounded DEF OpToRel
<1>3. \A x, y \in Nat : << y, x >> \in R <=> y < x
  OBVIOUS
<1> HIDE DEF R
<1>4. PICK x \in Bad : \A y \in Bad : ~(<< y, x >> \in R)
  <2> HIDE DEF Bad
  <2> QED BY <1>1, <1>2, WFMin
<1>5. x # 0 /\ x \in 0 .. n
  BY <1>4
<1>a. x \in Nat /\ x - 1 \in Nat /\ x - 1 \in 0 .. n - 1 /\ x - 1 < x /\ x - 1 \in 0 .. n
  BY <1>5
<1>6. x - 1 \notin Bad
  BY <1>3, <1>4, <1>a
<1>7. x - 1 \in G
  BY <1>a, <1>6
<1>8. (x - 1) + 1 \in G
  BY <1>a, <1>7
<1>9. (x - 1) + 1 = x
  BY <1>a
<1> QED BY <1>4, <1>8, <1>9

\* A chain is read back.
LEMMA WalkReads ==
  ASSUME NEW s, NEW hd, NEW nx, Chain(s, hd, nx)
  PROVE  WalkOf(hd, nx) = s
<1> DEFINE N == List!Cardinality(Nodes)
           Rule(f) == f = [i \in 1 .. N |->
                             IF i = 1 THEN hd ELSE IF f[i - 1] = Null THEN Null ELSE nx[f[i - 1]]]
           g == [i \in 1 .. N |-> Place(s, i)]
<1>1. /\ s \in Seq(Nodes) /\ hd = Place(s, 1) /\ Len(s) \in Nat
      /\ \A i \in 1 .. Len(s) : s[i] \in Nodes /\ nx[s[i]] = Place(s, i + 1)
  BY DEF Chain
<1>2. Null \notin Nodes /\ N \in Nat /\ Len(s) <= N
  BY NodesFacts, ListOperators, ChainIsShort DEF Chain
<1> HIDE DEF N
<1>3. ASSUME NEW i \in 1 .. N
      PROVE  g[i] = IF i = 1 THEN hd ELSE IF g[i - 1] = Null THEN Null ELSE nx[g[i - 1]]
  <2>1. CASE i = 1
    BY <1>1, <2>1
  <2>2. CASE i # 1 /\ i - 1 <= Len(s)
    <3>1. i - 1 \in 1 .. Len(s) /\ i - 1 \in 1 .. N /\ (i - 1) + 1 = i
      BY <1>2, <2>2
    <3>2. g[i - 1] = s[i - 1] /\ g[i] = Place(s, i)
      BY <3>1 DEF Place
    <3>3. nx[s[i - 1]] = Place(s, i) /\ s[i - 1] # Null
      BY <1>1, <1>2, <3>1
    <3> QED BY <2>2, <3>2, <3>3
  <2>3. CASE i # 1 /\ ~(i - 1 <= Len(s))
    <3>1. i - 1 \in 1 .. N /\ i - 1 \notin 1 .. Len(s) /\ i \notin 1 .. Len(s)
      BY <1>1, <1>2, <2>3
    <3>2. g[i - 1] = Null /\ g[i] = Null
      BY <3>1 DEF Place
    <3> QED BY <2>3, <3>2
  <2> QED BY <2>1, <2>2, <2>3
<1>4. g = [i \in 1 .. N |-> g[i]]
  OBVIOUS
<1> HIDE DEF g
<1>5. Rule(g)
  BY <1>3, <1>4
<1>6. Rule(Met(hd, nx))
  BY <1>5, Zenon DEF Met, N
<1> DEFINE f == Met(hd, nx)
           G == {i \in Nat : i \in 1 .. N => f[i] = g[i]}
<1>7. f = [i \in 1 .. N |-> IF i = 1 THEN hd ELSE IF f[i - 1] = Null THEN Null ELSE nx[f[i - 1]]]
  BY <1>6
<1> HIDE DEF f, Rule
<1>8. 0 \in G
  OBVIOUS
<1>9. ASSUME NEW i \in 0 .. N - 1, i \in G
      PROVE  i + 1 \in G
  <2>1. i + 1 \in 1 .. N /\ i + 1 \in Nat /\ (i + 1) - 1 = i
    BY <1>2
  <2>2. f[i + 1] = IF i + 1 = 1 THEN hd ELSE IF f[i] = Null THEN Null ELSE nx[f[i]]
    BY <1>7, <2>1
  <2>3. g[i + 1] = IF i + 1 = 1 THEN hd ELSE IF g[i] = Null THEN Null ELSE nx[g[i]]
    BY <1>3, <2>1
  <2>4. CASE i = 0
    BY <2>1, <2>2, <2>3, <2>4
  <2>5. CASE i # 0
    <3>1. f[i] = g[i]
      <4>1. i \in Nat /\ i \in 1 .. N
        BY <1>2, <2>5
      <4>2. i \in 1 .. N => f[i] = g[i]
        BY <1>9
      <4> QED BY <4>1, <4>2
    <3> QED BY <2>1, <2>2, <2>3, <3>1
  <2> QED BY <2>4, <2>5
<1>10. \A i \in 0 .. N : i \in G
  <2>1. \A i \in 0 .. N - 1 : i \in G => i + 1 \in G
    BY <1>9
  <2> HIDE DEF G
  <2> QED BY <1>2, <1>8, <2>1, Counting
<1>11. \A i \in 1 .. N : f[i] = Place(s, i)
  <2>1. ASSUME NEW i \in 1 .. N PROVE f[i] = Place(s, i)
    <3>1. i \in 0 .. N
      BY <1>2
    <3>2. i \in G
      BY <1>10, <3>1
    <3>3. f[i] = g[i]
      BY <3>2
    <3> QED BY <3>3 DEF g
  <2> QED BY <2>1
<1>12. {j \in 1 .. N : f[j] # Null} = 1 .. Len(s)
  <2>1. \A j \in 1 .. N : f[j] # Null <=> j \in 1 .. Len(s)
    <3> SUFFICES ASSUME NEW j \in 1 .. N PROVE f[j] # Null <=> j \in 1 .. Len(s)
      OBVIOUS
    <3>1. f[j] = Place(s, j)
      BY <1>11
    <3> QED BY <1>1, <1>2, <3>1 DEF Place
  <2>2. 1 .. Len(s) \subseteq 1 .. N
    BY <1>1, <1>2
  <2> QED BY <2>1, <2>2
<1>13. List!Cardinality(1 .. Len(s)) = Len(s)
  <2>1. ASSUME NEW n \in Nat PROVE Cardinality(1 .. n) = n
    BY FS_Interval
  <2>2. Cardinality(1 .. Len(s)) = Len(s)
    BY <1>1, <2>1
  <2> QED BY <2>2, ListOperators
<1>14. WalkOf(hd, nx) = [i \in 1 .. Len(s) |-> f[i]]
  BY <1>12, <1>13 DEF WalkOf, f, N
<1>15. \A i \in 1 .. Len(s) : f[i] = s[i]
  BY <1>1, <1>2, <1>11 DEF Place
<1>16. s = [i \in 1 .. Len(s) |-> s[i]]
  BY <1>1
<1> QED BY <1>14, <1>15, <1>16

\* A node put in at place m is linked behind the one before it.
LEMMA GrowChain ==
  ASSUME NEW s, NEW hd, NEW nx, Chain(s, hd, nx),
         NEW e \in Nodes, \A i \in 1 .. Len(s) : s[i] # e,
         NEW r \in Seq(Nodes), NEW m, Grown(r, s, m, e),
         NEW hd2, NEW nx2,
         hd2 = IF m = 1 THEN e ELSE hd,
         nx2[e] = Place(s, m),
         m # 1 => nx2[s[m - 1]] = e,
         \A n \in Nodes : n # e /\ (m # 1 => n # s[m - 1]) => nx2[n] = nx[n]
  PROVE  Chain(r, hd2, nx2)
<1>1. /\ s \in Seq(Nodes) /\ hd = Place(s, 1) /\ Len(s) \in Nat
      /\ \A i \in 1 .. Len(s) : s[i] \in Nodes /\ nx[s[i]] = Place(s, i + 1)
      /\ \A i, j \in 1 .. Len(s) : s[i] = s[j] => i = j
  BY DEF Chain
<1>2. /\ m \in 1 .. Len(s) + 1 /\ Len(r) = Len(s) + 1 /\ r[m] = e
      /\ \A i \in 1 .. m - 1 : r[i] = s[i]
      /\ \A i \in m .. Len(s) : r[i + 1] = s[i]
  BY DEF Grown
<1>3. m \in Nat /\ m >= 1 /\ m <= Len(s) + 1
  BY <1>1, <1>2
<1> DEFINE n == Len(s)
<1>4. n \in Nat /\ Len(s) = n
  BY <1>1
<1> HIDE DEF n
<1>5. \A i \in 1 .. n + 1 : \/ i < m /\ i \in 1 .. n /\ r[i] = s[i]
                            \/ i = m /\ r[i] = e
                            \/ i > m /\ i - 1 \in 1 .. n /\ r[i] = s[i - 1]
  <2> SUFFICES ASSUME NEW i \in 1 .. n + 1
               PROVE  \/ i < m /\ i \in 1 .. n /\ r[i] = s[i]
                      \/ i = m /\ r[i] = e
                      \/ i > m /\ i - 1 \in 1 .. n /\ r[i] = s[i - 1]
    OBVIOUS
  <2>1. CASE i < m
    BY <1>2, <1>3, <1>4, <2>1
  <2>2. CASE i = m
    BY <1>2, <2>2
  <2>3. CASE i > m
    <3>1. i - 1 \in m .. n /\ (i - 1) + 1 = i /\ i - 1 \in 1 .. n
      BY <1>3, <1>4, <2>3
    <3> QED BY <1>2, <1>4, <2>3, <3>1
  <2> QED BY <1>3, <2>1, <2>2, <2>3
<1>6. \A i, j \in 1 .. Len(r) : r[i] = r[j] => i = j
  <2> SUFFICES ASSUME NEW i \in 1 .. n + 1, NEW j \in 1 .. n + 1, r[i] = r[j] PROVE i = j
    BY <1>2, <1>4
  <2>1. i \in Nat /\ j \in Nat
    BY <1>4
  <2> QED BY <1>1, <1>3, <1>4, <1>5, <2>1
<1>7. hd2 = Place(r, 1)
  <2>1. 1 \in 1 .. Len(r)
    BY <1>2, <1>4
  <2>2. CASE m = 1
    BY <1>2, <2>1, <2>2 DEF Place
  <2>3. CASE m # 1
    <3>1. 1 \in 1 .. n /\ 1 \in 1 .. m - 1
      BY <1>3, <1>4, <2>3
    <3> QED BY <1>1, <1>2, <1>4, <2>1, <2>3, <3>1 DEF Place
  <2> QED BY <2>2, <2>3
<1>8. ASSUME NEW i \in 1 .. n + 1
      PROVE  nx2[r[i]] = Place(r, i + 1)
  <2>1. i \in Nat /\ Len(r) = n + 1 /\ i + 1 \in Nat
    BY <1>2, <1>4
  <2>2. CASE i = m
    <3>1. r[i] = e /\ nx2[r[i]] = Place(s, m)
      BY <1>2, <2>2
    <3>2. CASE m = n + 1
      BY <1>4, <2>1, <2>2, <3>1, <3>2 DEF Place
    <3>3. CASE m # n + 1
      <4>1. m \in 1 .. n /\ i + 1 \in 1 .. n + 1 /\ m \in m .. n
        BY <1>3, <1>4, <2>1, <2>2, <3>3
      <4>2. r[m + 1] = s[m]
        BY <1>2, <1>4, <4>1
      <4> QED BY <1>4, <2>1, <2>2, <3>1, <4>1, <4>2 DEF Place
    <3> QED BY <3>2, <3>3
  <2>3. CASE i < m /\ i + 1 = m
    <3>1. r[i] = s[i] /\ i = m - 1 /\ m # 1
      BY <1>3, <1>5, <2>1, <2>3
    <3>2. nx2[r[i]] = e
      BY <3>1
    <3>3. i + 1 \in 1 .. n + 1
      BY <1>2, <1>4, <2>3
    <3> QED BY <1>2, <2>1, <2>3, <3>2, <3>3 DEF Place
  <2>4. CASE i < m /\ i + 1 # m
    <3>1. r[i] = s[i] /\ i \in 1 .. n /\ i + 1 < m /\ i + 1 \in 1 .. n /\ i + 1 \in 1 .. m - 1 /\ i + 1 \in 1 .. n + 1
      BY <1>3, <1>4, <1>5, <2>1, <2>4
    <3>2. m # 1 /\ m - 1 \in 1 .. n /\ i # m - 1
      BY <1>3, <1>4, <2>1, <2>4
    <3>3. s[i] \in Nodes /\ s[i] # e /\ s[i] # s[m - 1]
      BY <1>1, <1>4, <3>1, <3>2
    <3>4. nx2[r[i]] = Place(s, i + 1)
      BY <1>1, <1>4, <3>1, <3>3
    <3>5. r[i + 1] = s[i + 1]
      BY <1>2, <3>1
    <3> QED BY <1>4, <2>1, <3>1, <3>4, <3>5 DEF Place
  <2>5. CASE i > m
    <3>1. r[i] = s[i - 1] /\ i - 1 \in 1 .. n /\ (i - 1) + 1 = i
      BY <1>3, <1>5, <2>1, <2>5
    <3>2. m # 1 => m - 1 \in 1 .. n /\ i - 1 # m - 1
      BY <1>3, <1>4, <2>1, <2>5
    <3>3. s[i - 1] \in Nodes /\ s[i - 1] # e /\ (m # 1 => s[i - 1] # s[m - 1])
      BY <1>1, <1>4, <3>1, <3>2
    <3>4. nx2[r[i]] = Place(s, i)
      BY <1>1, <1>4, <3>1, <3>3
    <3>5. CASE i = n + 1
      BY <1>4, <2>1, <3>4, <3>5 DEF Place
    <3>6. CASE i # n + 1
      <4>1. i \in 1 .. n /\ i \in m .. n /\ i + 1 \in 1 .. n + 1
        BY <1>3, <1>4, <2>1, <2>5, <3>6
      <4>2. r[i + 1] = s[i]
        BY <1>2, <1>4, <4>1
      <4> QED BY <1>4, <2>1, <3>4, <4>1, <4>2 DEF Place
    <3> QED BY <3>5, <3>6
  <2> QED BY <1>3, <2>1, <2>2, <2>3, <2>4, <2>5
<1>9. \A i \in 1 .. Len(r) : nx2[r[i]] = Place(r, i + 1)
  BY <1>2, <1>4, <1>8
<1> QED BY <1>6, <1>7, <1>9 DEF Chain

\* A node taken out from place m leaves the others linked past it.
LEMMA ShrinkChain ==
  ASSUME NEW s, NEW hd, NEW nx, Chain(s, hd, nx),
         NEW r \in Seq(Nodes), NEW m, NEW e, Grown(s, r, m, e),
         NEW hd2, NEW nx2,
         hd2 = IF m = 1 THEN Place(s, 2) ELSE hd,
         m # 1 => nx2[s[m - 1]] = Place(s, m + 1),
         \A n \in Nodes : n # e /\ (m # 1 => n # s[m - 1]) => nx2[n] = nx[n]
  PROVE  Chain(r, hd2, nx2) /\ \A i \in 1 .. Len(r) : r[i] # e
<1>1. /\ s \in Seq(Nodes) /\ hd = Place(s, 1) /\ Len(s) \in Nat
      /\ \A i \in 1 .. Len(s) : s[i] \in Nodes /\ nx[s[i]] = Place(s, i + 1)
      /\ \A i, j \in 1 .. Len(s) : s[i] = s[j] => i = j
  BY DEF Chain
<1>2. /\ m \in 1 .. Len(r) + 1 /\ Len(s) = Len(r) + 1 /\ s[m] = e
      /\ \A i \in 1 .. m - 1 : s[i] = r[i]
      /\ \A i \in m .. Len(r) : s[i + 1] = r[i]
  BY DEF Grown
<1> DEFINE n == Len(r)
<1>4. n \in Nat /\ Len(r) = n /\ Len(s) = n + 1
  BY <1>2
<1> HIDE DEF n
<1>3. m \in Nat /\ m >= 1 /\ m <= n + 1 /\ m \in 1 .. n + 1
  BY <1>2, <1>4
<1>5. \A i \in 1 .. n : \/ i < m /\ i \in 1 .. n + 1 /\ r[i] = s[i]
                        \/ i >= m /\ i + 1 \in 1 .. n + 1 /\ r[i] = s[i + 1]
  <2> SUFFICES ASSUME NEW i \in 1 .. n
               PROVE  \/ i < m /\ i \in 1 .. n + 1 /\ r[i] = s[i]
                      \/ i >= m /\ i + 1 \in 1 .. n + 1 /\ r[i] = s[i + 1]
    OBVIOUS
  <2>1. CASE i < m
    BY <1>2, <1>3, <1>4, <2>1
  <2>2. CASE i >= m
    <3>1. i \in m .. n
      BY <1>3, <1>4, <2>2
    <3> QED BY <1>2, <1>4, <2>2, <3>1
  <2> QED BY <1>3, <2>1, <2>2
<1>6. \A i, j \in 1 .. Len(r) : r[i] = r[j] => i = j
  <2> SUFFICES ASSUME NEW i \in 1 .. n, NEW j \in 1 .. n, r[i] = r[j] PROVE i = j
    BY <1>4
  <2>1. i \in Nat /\ j \in Nat /\ m \in Nat
    BY <1>3, <1>4
  <2>2. /\ \/ i < m /\ i \in 1 .. n + 1 /\ r[i] = s[i]
           \/ i >= m /\ i + 1 \in 1 .. n + 1 /\ r[i] = s[i + 1]
        /\ \/ j < m /\ j \in 1 .. n + 1 /\ r[j] = s[j]
           \/ j >= m /\ j + 1 \in 1 .. n + 1 /\ r[j] = s[j + 1]
    BY <1>5
  <2>3. \A a, b \in 1 .. n + 1 : s[a] = s[b] => a = b
    BY <1>1, <1>4
  <2>4. CASE i < m
    BY <2>1, <2>2, <2>3, <2>4
  <2>5. CASE ~(i < m)
    BY <2>1, <2>2, <2>3, <2>5
  <2> QED BY <2>4, <2>5
<1>e. \A i \in 1 .. Len(r) : r[i] # e
  <2> SUFFICES ASSUME NEW i \in 1 .. n PROVE r[i] # e
    BY <1>4
  <2>1. i \in Nat
    BY <1>4
  <2> QED BY <1>1, <1>2, <1>3, <1>4, <1>5, <2>1
<1>7. hd2 = Place(r, 1)
  <2>1. CASE m = 1 /\ n = 0
    BY <1>4, <2>1 DEF Place
  <2>2. CASE m = 1 /\ n # 0
    <3>1. 1 \in 1 .. n /\ 2 \in 1 .. n + 1 /\ 1 \in m .. n
      BY <1>4, <2>2
    <3>2. s[1 + 1] = r[1]
      BY <1>2, <1>4, <3>1
    <3> QED BY <1>4, <2>2, <3>1, <3>2 DEF Place
  <2>3. CASE m # 1
    <3>1. 1 \in 1 .. n /\ 1 \in 1 .. m - 1 /\ 1 \in 1 .. n + 1
      BY <1>3, <1>4, <2>3
    <3>2. s[1] = r[1]
      BY <1>2, <3>1
    <3> QED BY <1>1, <1>4, <2>3, <3>1, <3>2 DEF Place
  <2> QED BY <2>1, <2>2, <2>3
<1>8. ASSUME NEW i \in 1 .. n
      PROVE  nx2[r[i]] = Place(r, i + 1)
  <2>1. i \in Nat /\ i + 1 \in Nat /\ i + 1 \in 1 .. n + 1
    BY <1>4
  <2>2. CASE i < m /\ i + 1 = m
    <3>1. r[i] = s[i] /\ i = m - 1 /\ m # 1
      BY <1>3, <1>5, <2>1, <2>2
    <3>2. nx2[r[i]] = Place(s, m + 1)
      BY <3>1
    <3>3. CASE m = n + 1
      BY <1>4, <2>1, <2>2, <3>2, <3>3 DEF Place
    <3>4. CASE m # n + 1
      <4>1. m \in 1 .. n /\ m + 1 \in 1 .. n + 1 /\ m \in m .. n
        BY <1>3, <1>4, <3>4
      <4>2. s[m + 1] = r[m]
        BY <1>2, <1>4, <4>1
      <4> QED BY <1>4, <2>1, <2>2, <3>2, <4>1, <4>2 DEF Place
    <3> QED BY <3>3, <3>4
  <2>3. CASE i < m /\ i + 1 # m
    <3>1. r[i] = s[i] /\ i \in 1 .. n + 1 /\ i + 1 < m /\ i + 1 \in 1 .. m - 1 /\ i + 1 \in 1 .. n
      BY <1>3, <1>4, <1>5, <2>1, <2>3
    <3>2. m # 1 /\ m - 1 \in 1 .. n + 1 /\ i # m - 1 /\ i # m
      BY <1>3, <1>4, <2>1, <2>3
    <3>3. s[i] \in Nodes /\ s[i] # e /\ s[i] # s[m - 1]
      BY <1>1, <1>2, <1>3, <1>4, <3>1, <3>2
    <3>4. nx2[r[i]] = Place(s, i + 1)
      BY <1>1, <1>4, <3>1, <3>3
    <3>5. r[i + 1] = s[i + 1]
      BY <1>2, <3>1
    <3> QED BY <1>4, <2>1, <3>1, <3>4, <3>5 DEF Place
  <2>4. CASE i >= m
    <3>1. r[i] = s[i + 1] /\ i + 1 \in 1 .. n + 1
      BY <1>3, <1>5, <2>1, <2>4
    <3>2. (m # 1 => m - 1 \in 1 .. n + 1 /\ i + 1 # m - 1) /\ i + 1 # m
      BY <1>3, <1>4, <2>1, <2>4
    <3>3. s[i + 1] \in Nodes /\ s[i + 1] # e /\ (m # 1 => s[i + 1] # s[m - 1])
      BY <1>1, <1>2, <1>3, <1>4, <3>1, <3>2
    <3>4. nx2[r[i]] = Place(s, (i + 1) + 1)
      BY <1>1, <1>4, <3>1, <3>3
    <3>5. CASE i = n
      BY <1>4, <2>1, <3>4, <3>5 DEF Place
    <3>6. CASE i # n
      <4>1. i + 1 \in 1 .. n /\ i + 1 \in m .. n /\ (i + 1) + 1 \in 1 .. n + 1
        BY <1>3, <1>4, <2>1, <2>4, <3>6
      <4>2. s[(i + 1) + 1] = r[i + 1]
        BY <1>2, <1>4, <4>1
      <4> QED BY <1>4, <2>1, <3>4, <4>1, <4>2 DEF Place
    <3> QED BY <3>5, <3>6
  <2> QED BY <1>3, <2>1, <2>2, <2>3, <2>4
<1>9. \A i \in 1 .. Len(r) : nx2[r[i]] = Place(r, i + 1)
  BY <1>4, <1>8
<1> QED BY <1>6, <1>7, <1>9, <1>e DEF Chain

\* InsertAt puts a node in at its place.
LEMMA InsertAtGrows ==
  ASSUME NEW s \in Seq(Nodes), NEW m \in 1 .. Len(s) + 1, NEW e \in Nodes
  PROVE  /\ List!Promise!InsertAt(s, m, e) \in Seq(Nodes)
         /\ Grown(List!Promise!InsertAt(s, m, e), s, m, e)
<1> DEFINE a == SubSeq(s, 1, m - 1)
           b == SubSeq(s, m, Len(s))
           ae == a \o << e >>
           r == ae \o b
<1>l. Len(s) \in Nat /\ m \in Nat /\ m >= 1 /\ m <= Len(s) + 1
  OBVIOUS
<1>1. /\ a \in Seq(Nodes) /\ Len(a) = m - 1
      /\ \A i \in 1 .. m - 1 : a[i] = s[i]
  OBVIOUS
<1>2. /\ b \in Seq(Nodes) /\ Len(b) = Len(s) + 1 - m
      /\ \A i \in 1 .. Len(s) + 1 - m : b[i] = s[m + i - 1]
  OBVIOUS
<1>r. List!Promise!InsertAt(s, m, e) = r
  BY DEF List!Promise!InsertAt
<1> HIDE DEF a, b
<1>3. /\ ae \in Seq(Nodes) /\ Len(ae) = m /\ ae[m] = e
      /\ \A i \in 1 .. m - 1 : ae[i] = s[i]
  <2>1. << e >> \in Seq(Nodes) /\ Len(<< e >>) = 1 /\ << e >>[1] = e
    OBVIOUS
  <2>2. /\ ae \in Seq(Nodes) /\ Len(ae) = Len(a) + 1
        /\ \A i \in 1 .. Len(a) + 1 : ae[i] = IF i <= Len(a) THEN a[i] ELSE << e >>[i - Len(a)]
    BY <1>1, <2>1, ConcatProperties
  <2> QED BY <2>1, <2>2, <1>1, <1>l, SMTT(30)
<1> HIDE DEF ae
<1>4. /\ r \in Seq(Nodes) /\ Len(r) = Len(ae) + Len(b)
      /\ \A i \in 1 .. Len(ae) + Len(b) : r[i] = IF i <= Len(ae) THEN ae[i] ELSE b[i - Len(ae)]
  BY <1>2, <1>3, ConcatProperties
<1> HIDE DEF r
<1>5. Len(r) = Len(s) + 1 /\ r[m] = e /\ \A i \in 1 .. m - 1 : r[i] = s[i]
  BY <1>2, <1>3, <1>4, <1>l
<1>6. ASSUME NEW i \in m .. Len(s)
      PROVE  r[i + 1] = s[i]
  <2>1. /\ i + 1 \in 1 .. Len(ae) + Len(b) /\ ~(i + 1 <= Len(ae)) /\ (i + 1) - Len(ae) = i + 1 - m
        /\ i + 1 - m \in 1 .. Len(s) + 1 - m /\ m + (i + 1 - m) - 1 = i
    BY <1>2, <1>3, <1>l
  <2>2. r[i + 1] = b[i + 1 - m]
    BY <1>4, <2>1
  <2>3. b[i + 1 - m] = s[m + (i + 1 - m) - 1]
    BY <1>2, <2>1
  <2> QED BY <2>1, <2>2, <2>3
<1> QED BY <1>r, <1>4, <1>5, <1>6 DEF Grown

\* RemoveAt takes the node at its place out.
LEMMA RemoveAtShrinks ==
  ASSUME NEW s \in Seq(Nodes), NEW m \in 1 .. Len(s)
  PROVE  /\ List!Promise!RemoveAt(s, m) \in Seq(Nodes)
         /\ Grown(s, List!Promise!RemoveAt(s, m), m, s[m])
<1> DEFINE a == SubSeq(s, 1, m - 1)
           b == SubSeq(s, m + 1, Len(s))
           r == a \o b
<1>l. Len(s) \in Nat /\ m \in Nat /\ m >= 1 /\ m <= Len(s)
  OBVIOUS
<1>1. /\ a \in Seq(Nodes) /\ Len(a) = m - 1
      /\ \A i \in 1 .. m - 1 : a[i] = s[i]
  OBVIOUS
<1>2. /\ b \in Seq(Nodes) /\ Len(b) = Len(s) - m
      /\ \A i \in 1 .. Len(s) - m : b[i] = s[m + i]
  OBVIOUS
<1>r. List!Promise!RemoveAt(s, m) = r
  BY DEF List!Promise!RemoveAt
<1> HIDE DEF a, b
<1>3. /\ r \in Seq(Nodes) /\ Len(r) = Len(a) + Len(b)
      /\ \A i \in 1 .. Len(a) + Len(b) : r[i] = IF i <= Len(a) THEN a[i] ELSE b[i - Len(a)]
  BY <1>1, <1>2, ConcatProperties
<1> HIDE DEF r
<1>4. Len(s) = Len(r) + 1 /\ m \in 1 .. Len(r) + 1 /\ \A i \in 1 .. m - 1 : s[i] = r[i]
  <2>1. Len(a) + Len(b) = Len(s) - 1 /\ Len(r) = Len(s) - 1
    BY <1>1, <1>2, <1>3, <1>l
  <2>2. ASSUME NEW i \in 1 .. m - 1 PROVE s[i] = r[i]
    <3>1. i \in 1 .. Len(a) + Len(b) /\ i <= Len(a)
      BY <1>1, <1>l, <2>1
    <3> QED BY <1>1, <1>3, <3>1
  <2> QED BY <1>l, <2>1, <2>2
<1>5. ASSUME NEW i \in m .. Len(r)
      PROVE  s[i + 1] = r[i]
  <2>1. /\ i \in 1 .. Len(a) + Len(b) /\ ~(i <= Len(a)) /\ i - Len(a) = i + 1 - m
        /\ i + 1 - m \in 1 .. Len(s) - m /\ m + (i + 1 - m) = i + 1
    BY <1>1, <1>2, <1>3, <1>l
  <2>2. r[i] = b[i + 1 - m]
    BY <1>3, <2>1
  <2>3. b[i + 1 - m] = s[m + (i + 1 - m)]
    BY <1>2, <2>1
  <2> QED BY <2>1, <2>2, <2>3
<1> QED BY <1>r, <1>3, <1>4, <1>5 DEF Grown

\* The ends are places like any other.
LEMMA EndsGrow ==
  ASSUME NEW s \in Seq(Nodes)
  PROVE  /\ \A e \in Nodes : Append(s, e) \in Seq(Nodes) /\ Grown(Append(s, e), s, Len(s) + 1, e)
         /\ \A e \in Nodes : << e >> \o s \in Seq(Nodes) /\ Grown(<< e >> \o s, s, 1, e)
         /\ s # << >> => Tail(s) \in Seq(Nodes) /\ Grown(s, Tail(s), 1, s[1])
<1>1. Len(s) \in Nat
  OBVIOUS
<1>2. \A e \in Nodes : Append(s, e) \in Seq(Nodes) /\ Grown(Append(s, e), s, Len(s) + 1, e)
  BY <1>1 DEF Grown
<1>3. \A e \in Nodes : << e >> \o s \in Seq(Nodes) /\ Grown(<< e >> \o s, s, 1, e)
  BY <1>1 DEF Grown
<1>4. s # << >> => Tail(s) \in Seq(Nodes) /\ Grown(s, Tail(s), 1, s[1])
  <2> SUFFICES ASSUME s # << >> PROVE Tail(s) \in Seq(Nodes) /\ Grown(s, Tail(s), 1, s[1])
    OBVIOUS
  <2>1. Tail(s) \in Seq(Nodes) /\ Len(s) >= 1 /\ Len(Tail(s)) = Len(s) - 1
    OBVIOUS
  <2>2. \A i \in 1 .. Len(s) - 1 : Tail(s)[i] = s[i + 1]
    OBVIOUS
  <2> QED BY <1>1, <2>1, <2>2 DEF Grown
<1> QED BY <1>2, <1>3, <1>4

\* Sorted insertion goes in where the walk of insert stops.
LEMMA InsertedIs ==
  ASSUME NEW s \in Seq(Nodes), NEW e, NEW later, NEW m \in 1 .. Len(s) + 1,
         m <= Len(s) => s[m] \in later, \A j \in 1 .. m - 1 : s[j] \notin later
  PROVE  List!Promise!Inserted(s, e, later) = List!Promise!InsertAt(s, m, e)
<1>1. Len(s) \in Nat /\ m \in Nat
  OBVIOUS
<1>2. \A i \in 1 .. Len(s) + 1 :
        (/\ i <= Len(s) => s[i] \in later
         /\ \A j \in 1 .. i - 1 : s[j] \notin later) => i = m
  <2> SUFFICES ASSUME NEW i \in 1 .. Len(s) + 1,
                      i <= Len(s) => s[i] \in later, \A j \in 1 .. i - 1 : s[j] \notin later,
                      i # m
               PROVE  FALSE
    OBVIOUS
  <2>1. CASE i < m
    BY <1>1, <2>1
  <2>2. CASE i > m
    BY <1>1, <2>2
  <2> QED BY <1>1, <2>1, <2>2
<1>3. List!Promise!Slot(s, later) = m
  BY <1>2 DEF List!Promise!Slot
<1> QED BY <1>3 DEF List!Promise!Inserted

\* The node a call removes is the one it finds.
LEMMA RemoveIs ==
  ASSUME NEW s \in Seq(Nodes), NEW e, \A i, j \in 1 .. Len(s) : s[i] = s[j] => i = j
  PROVE  /\ \A m \in 1 .. Len(s) : s[m] = e => List!Promise!remove(s, e) = List!Promise!RemoveAt(s, m)
         /\ (\A m \in 1 .. Len(s) : s[m] # e) => List!Promise!remove(s, e) = s
<1>1. ASSUME NEW m \in 1 .. Len(s), s[m] = e
      PROVE  List!Promise!remove(s, e) = List!Promise!RemoveAt(s, m)
  <2>1. List!Promise!Contains(s, e)
    BY <1>1 DEF List!Promise!Contains
  <2>2. (CHOOSE i \in 1 .. Len(s) : s[i] = e) = m
    BY <1>1
  <2> QED BY <2>1, <2>2 DEF List!Promise!remove
<1>2. (\A m \in 1 .. Len(s) : s[m] # e) => List!Promise!remove(s, e) = s
  BY DEF List!Promise!remove, List!Promise!Contains
<1> QED BY <1>1, <1>2

\* The last pointer of a chain that has grown or shrunk.
LEMMA LastPlace ==
  ASSUME NEW s \in Seq(Nodes), NEW r \in Seq(Nodes), NEW m, NEW e, Grown(r, s, m, e)
  PROVE  /\ Place(r, Len(r)) = IF m = Len(s) + 1 THEN e ELSE Place(s, Len(s))
         /\ Place(s, Len(s)) = IF m = Len(r) THEN Place(r, m - 1) ELSE Place(r, Len(r))
<1>1. Len(s) \in Nat /\ Len(r) = Len(s) + 1 /\ m \in 1 .. Len(s) + 1 /\ r[m] = e /\ Len(r) \in 1 .. Len(r)
  BY DEF Grown
<1>2. CASE m = Len(s) + 1
  <2>1. Place(r, Len(r)) = e
    BY <1>1, <1>2 DEF Place
  <2>2. Place(s, Len(s)) = Place(r, m - 1)
    <3>1. CASE Len(s) = 0
      BY <1>1, <1>2, <3>1 DEF Place
    <3>2. CASE Len(s) # 0
      <4>1. Len(s) = m - 1 /\ Len(s) \in 1 .. m - 1 /\ Len(s) \in 1 .. Len(s) /\ Len(s) \in 1 .. Len(r)
        BY <1>1, <1>2, <3>2
      <4>2. r[Len(s)] = s[Len(s)]
        BY <4>1 DEF Grown
      <4> QED BY <4>1, <4>2 DEF Place
    <3> QED BY <3>1, <3>2
  <2> QED BY <1>1, <1>2, <2>1, <2>2
<1>3. CASE m # Len(s) + 1
  <2>1. Len(s) \in m .. Len(s) /\ Len(s) \in 1 .. Len(s) /\ m # Len(r)
    BY <1>1, <1>3
  <2>2. r[Len(s) + 1] = s[Len(s)]
    BY <2>1 DEF Grown
  <2> QED BY <1>1, <1>3, <2>1, <2>2 DEF Place
<1> QED BY <1>2, <1>3

\* The list stands for s.
Standing(s, hd, tl, nx) == Chain(s, hd, nx) /\ tl = Place(s, Len(s))

\* A walk stands behind place p of s, and has passed nothing it looks for.
Passed(s, p, o, a, pr) ==
  /\ p \in 0 .. Len(s) /\ pr = Place(s, p)
  /\ o = "insert" => /\ \A i \in 1 .. Len(s) : s[i] # a
                     /\ \A j \in 1 .. p : ~(Key[a] < Key[s[j]])
  /\ o = "remove" => \A j \in 1 .. p : s[j] # a

Walking(s, o, a, pr) == o # "none" => \E p : Passed(s, p, o, a, pr)

\* The pointers stand for a sequence, in a walk and between calls.
ListInv ==
  /\ List!TypeOK
  /\ \E s : Standing(s, head, tail, next) /\ Walking(s, op, arg, prev)

ListInvNext ==
  /\ List!TypeOK'
  /\ \E s : Standing(s, head', tail', next') /\ Walking(s, op', arg', prev')

\* What is read is what the pointers stand for.
LEMMA StandingReads ==
  ASSUME NEW s
  PROVE  /\ Standing(s, head, tail, next) => List!Walk = s
         /\ Standing(s, head', tail', next') => List!Walk' = s
<1>1. Standing(s, head, tail, next) => WalkOf(head, next) = s
  BY WalkReads DEF Standing
<1>2. Standing(s, head', tail', next') => WalkOf(head', next') = s
  <2> SUFFICES ASSUME NEW hd, NEW tl, NEW nx, Standing(s, hd, tl, nx)
               PROVE  WalkOf(hd, nx) = s
    OBVIOUS
  <2> QED BY WalkReads DEF Standing
<1> QED BY <1>1, <1>2, ListOperators

\* A list that stands for s.
LEMMA StandingFacts ==
  ASSUME NEW s, Standing(s, head, tail, next)
  PROVE  /\ s \in Seq(Nodes) /\ Len(s) \in Nat
         /\ \A i \in 1 .. Len(s) : s[i] \in Nodes /\ s[i] # Null /\ next[s[i]] = Place(s, i + 1)
         /\ \A i, j \in 1 .. Len(s) : s[i] = s[j] => i = j
         /\ head = Place(s, 1) /\ tail = Place(s, Len(s)) /\ Chain(s, head, next)
         /\ \A n : List!Linked(n) <=> \E i \in 1 .. Len(s) : s[i] = n
         /\ \A n : List!Promise!Contains(s, n) <=> \E i \in 1 .. Len(s) : s[i] = n
<1>1. List!Walk = s
  BY StandingReads
<1>2. \A n : List!Linked(n) <=> \E i \in 1 .. Len(s) : s[i] = n
  BY <1>1 DEF List!Linked, List!Contains
<1>3. \A n : List!Promise!Contains(s, n) <=> \E i \in 1 .. Len(s) : s[i] = n
  BY DEF List!Promise!Contains
<1>4. s \in Seq(Nodes) /\ Chain(s, head, next) /\ tail = Place(s, Len(s))
  BY DEF Standing, Chain
<1>5. /\ Len(s) \in Nat /\ \A i \in 1 .. Len(s) : s[i] \in Nodes /\ s[i] # Null
  BY <1>4, NodesFacts
<1> QED BY <1>2, <1>3, <1>4, <1>5 DEF Chain

\* What the slot of a walk holds.
LEMMA SlotHolds ==
  ASSUME NEW s, Standing(s, head, tail, next), NEW p \in 0 .. Len(s), prev = Place(s, p)
  PROVE  /\ List!Slot = Place(s, p + 1)
         /\ prev = Null <=> p = 0
         /\ List!Slot = Null <=> p = Len(s)
         /\ p # 0 => prev = s[p]
         /\ p # Len(s) => List!Slot = s[p + 1] /\ p + 1 \in 1 .. Len(s)
<1>1. /\ Len(s) \in Nat
      /\ \A i \in 1 .. Len(s) : s[i] # Null /\ next[s[i]] = Place(s, i + 1)
      /\ head = Place(s, 1)
  BY StandingFacts
<1>2. p \in Nat /\ p <= Len(s)
  BY <1>1
<1>3. CASE p = 0
  <2>1. prev = Null
    BY <1>3 DEF Place
  <2>2. List!Slot = Place(s, 0 + 1)
    BY <1>1, <2>1 DEF List!Slot
  <2>3. Place(s, p + 1) = Null <=> p = Len(s)
    BY <1>1, <1>3 DEF Place
  <2> QED BY <1>1, <1>2, <1>3, <2>1, <2>2, <2>3 DEF Place
<1>4. CASE p # 0
  <2>1. p \in 1 .. Len(s)
    BY <1>1, <1>2, <1>4
  <2>2. prev = s[p] /\ prev # Null /\ next[prev] = Place(s, p + 1)
    BY <1>1, <2>1 DEF Place
  <2>3. List!Slot = Place(s, p + 1)
    BY <2>2 DEF List!Slot
  <2>4. CASE p = Len(s)
    BY <1>1, <1>4, <2>2, <2>3, <2>4 DEF Place
  <2>5. CASE p # Len(s)
    <3>1. p + 1 \in 1 .. Len(s)
      BY <1>1, <1>2, <2>5
    <3> QED BY <1>1, <1>4, <2>2, <2>3, <2>5, <3>1 DEF Place
  <2> QED BY <2>4, <2>5
<1> QED BY <1>3, <1>4

\* A call begins at the head.
LEMMA BeginKeeps ==
  ASSUME List!TypeOK, NEW s, Standing(s, head, tail, next), NEW n \in Nodes,
         List!BeginInsert(n) \/ List!BeginRemove(n)
  PROVE  ListInvNext /\ List!Walk' = List!Walk
<1>1. /\ op' \in {"insert", "remove"} /\ arg' = n /\ prev' = Null
      /\ head' = head /\ tail' = tail /\ next' = next
      /\ op' = "insert" => ~List!Linked(n)
  BY DEF List!BeginInsert, List!BeginRemove, List!Begin
<1>2. Standing(s, head', tail', next')
  BY <1>1
<1>3. Passed(s, 0, op', arg', prev')
  BY <1>1, StandingFacts DEF Passed, Place
<1>4. List!TypeOK'
  BY <1>1, NodesFacts DEF List!TypeOK, List!Pointer
<1>5. List!Walk = s /\ List!Walk' = s
  BY <1>2, StandingReads
<1> QED BY <1>2, <1>3, <1>4, <1>5 DEF ListInvNext, Walking

\* A walk goes on to the next slot.
LEMMA WalkKeeps ==
  ASSUME List!TypeOK, NEW s, Standing(s, head, tail, next), Walking(s, op, arg, prev),
         List!InsertWalks \/ List!RemoveWalks
  PROVE  ListInvNext /\ List!Walk' = List!Walk
<1>1. /\ op # "none" /\ List!Slot # Null /\ prev' = List!Slot
      /\ head' = head /\ tail' = tail /\ next' = next /\ op' = op /\ arg' = arg
      /\ op \in {"insert", "remove"}
      /\ op = "insert" => ~(Key[arg] < Key[List!Slot])
      /\ op = "remove" => List!Slot # arg
  BY DEF List!InsertWalks, List!RemoveWalks
<1>2. PICK p : Passed(s, p, op, arg, prev)
  BY <1>1 DEF Walking
<1>3. p \in 0 .. Len(s) /\ prev = Place(s, p)
  BY <1>2 DEF Passed
<1>4. List!Slot = s[p + 1] /\ p + 1 \in 1 .. Len(s) /\ p \in Nat
  BY <1>1, <1>3, SlotHolds
<1>5. Standing(s, head', tail', next')
  BY <1>1
<1>6. /\ Len(s) \in Nat /\ \A i \in 1 .. Len(s) : s[i] \in Nodes /\ s[i] # Null
  BY StandingFacts
<1>7. prev' = Place(s, p + 1) /\ p + 1 \in 0 .. Len(s)
  BY <1>1, <1>4, <1>6 DEF Place
<1>8. \A j \in 1 .. p + 1 : j \in 1 .. p \/ j = p + 1
  BY <1>4
<1>9. Passed(s, p + 1, op', arg', prev')
  BY <1>1, <1>2, <1>4, <1>7, <1>8 DEF Passed
<1>10. prev' \in Nodes /\ prev' # arg'
  BY <1>1, <1>2, <1>4, <1>6 DEF Passed
<1>11. List!TypeOK'
  BY <1>1, <1>10 DEF List!TypeOK, List!Pointer
<1>12. List!Walk = s /\ List!Walk' = s
  BY <1>5, StandingReads
<1> QED BY <1>5, <1>9, <1>11, <1>12 DEF ListInvNext, Walking

\* insert links its node where the walk stopped, behind its equals.
LEMMA InsertKeeps ==
  ASSUME List!TypeOK, NEW s, Standing(s, head, tail, next), Walking(s, op, arg, prev),
         List!insert
  PROVE  ListInvNext /\ List!Promise!Link(arg)
<1>1. /\ op = "insert" /\ (List!Slot # Null => Key[arg] < Key[List!Slot])
      /\ head' = IF prev = Null THEN arg ELSE head
      /\ next' = IF prev = Null THEN [next EXCEPT ![arg] = List!Slot]
                 ELSE [[next EXCEPT ![arg] = List!Slot] EXCEPT ![prev] = arg]
      /\ tail' = IF List!Slot = Null THEN arg ELSE tail
      /\ op' = "none" /\ arg' = Null /\ prev' = Null
  BY DEF List!insert, List!StoreSlot, List!Return
<1>2. PICK p : Passed(s, p, op, arg, prev)
  BY <1>1 DEF Walking
<1>3. /\ p \in 0 .. Len(s) /\ prev = Place(s, p)
      /\ \A i \in 1 .. Len(s) : s[i] # arg
      /\ \A j \in 1 .. p : ~(Key[arg] < Key[s[j]])
  BY <1>1, <1>2 DEF Passed
<1>4. /\ List!Slot = Place(s, p + 1)
      /\ prev = Null <=> p = 0
      /\ List!Slot = Null <=> p = Len(s)
      /\ p # 0 => prev = s[p]
      /\ p # Len(s) => List!Slot = s[p + 1] /\ p + 1 \in 1 .. Len(s)
  BY <1>3, SlotHolds
<1>5. /\ s \in Seq(Nodes) /\ Len(s) \in Nat /\ Chain(s, head, next) /\ tail = Place(s, Len(s))
      /\ \A i \in 1 .. Len(s) : s[i] \in Nodes
  BY StandingFacts
<1>6. /\ arg \in Nodes /\ prev # arg /\ next \in [Nodes -> List!Pointer] /\ prev \in List!Pointer
      /\ head \in List!Pointer /\ tail \in List!Pointer
  BY <1>1 DEF List!TypeOK
<1>7. List!Slot \in List!Pointer /\ arg \in List!Pointer /\ Null \in List!Pointer
  BY <1>6 DEF List!Slot, List!Pointer
<1> DEFINE m == p + 1
           r == List!Promise!InsertAt(s, m, arg)
<1>8. m \in 1 .. Len(s) + 1
  BY <1>3, <1>5
<1>m. m - 1 = p /\ p \in Nat /\ (m = 1 <=> p = 0) /\ (m = Len(s) + 1 <=> p = Len(s))
  BY <1>3, <1>5
<1>9. r \in Seq(Nodes) /\ Grown(r, s, m, arg)
  BY <1>5, <1>6, <1>8, InsertAtGrows
<1>10. next'[arg] = Place(s, m) /\ next' \in [Nodes -> List!Pointer]
  BY <1>1, <1>4, <1>6, <1>7 DEF List!Pointer
<1>11. m # 1 => next'[s[m - 1]] = arg
  <2> SUFFICES ASSUME m # 1 PROVE next'[s[m - 1]] = arg
    OBVIOUS
  <2>1. prev # Null /\ prev = s[m - 1] /\ prev \in Nodes
    BY <1>4, <1>6, <1>m DEF List!Pointer
  <2> QED BY <1>1, <1>6, <2>1
<1>12. \A n \in Nodes : n # arg /\ (m # 1 => n # s[m - 1]) => next'[n] = next[n]
  <2> SUFFICES ASSUME NEW n \in Nodes, n # arg, m # 1 => n # s[m - 1] PROVE next'[n] = next[n]
    OBVIOUS
  <2>1. prev # Null => n # prev
    BY <1>4, <1>m
  <2> QED BY <1>1, <1>6, <2>1
<1>13. head' = IF m = 1 THEN arg ELSE head
  BY <1>1, <1>4, <1>m
<1> HIDE DEF m, r
<1>14. Chain(r, head', next')
  BY <1>3, <1>5, <1>6, <1>9, <1>10, <1>11, <1>12, <1>13, GrowChain
<1>15. tail' = Place(r, Len(r))
  <2>1. Place(r, Len(r)) = IF m = Len(s) + 1 THEN arg ELSE Place(s, Len(s))
    BY <1>5, <1>9, LastPlace
  <2> QED BY <1>1, <1>4, <1>5, <1>m, <2>1
<1>16. Standing(r, head', tail', next')
  BY <1>14, <1>15 DEF Standing
<1>17. List!Walk = s /\ List!Walk' = r
  BY <1>16, StandingReads
<1> DEFINE later == {n \in Nodes : Key[arg] < Key[n]}
<1>18. m <= Len(s) => s[m] \in later
  <2>1. m <= Len(s) => m = p + 1 /\ p # Len(s)
    BY <1>5, <1>m DEF m
  <2> QED BY <1>1, <1>4, <1>5, <2>1
<1>19. \A j \in 1 .. m - 1 : s[j] \notin later
  BY <1>3, <1>m
<1> HIDE DEF later
<1>20. List!Promise!Inserted(s, arg, later) = r
  BY <1>5, <1>8, <1>18, <1>19, InsertedIs DEF r
<1>21. ~List!Promise!Contains(s, arg)
  BY <1>3, StandingFacts
<1>22. List!Promise!Link(arg)
  BY <1>17, <1>20, <1>21 DEF List!Promise!Link, later
<1>23. List!TypeOK'
  BY <1>1, <1>6, <1>7, <1>10 DEF List!TypeOK
<1> QED BY <1>1, <1>16, <1>22, <1>23 DEF ListInvNext, Walking

\* remove unlinks the node the walk stopped at, or finds that it is not there.
LEMMA RemoveKeeps ==
  ASSUME List!TypeOK, NEW s, Standing(s, head, tail, next), Walking(s, op, arg, prev),
         List!remove
  PROVE  ListInvNext /\ List!Promise!Unlink(arg)
<1>1. /\ op = "remove" /\ op' = "none" /\ arg' = Null /\ prev' = Null
      /\ \/ /\ List!Slot = arg
            /\ head' = IF prev = Null THEN next[arg] ELSE head
            /\ next' = IF prev = Null THEN [next EXCEPT ![arg] = Null]
                       ELSE [[next EXCEPT ![arg] = Null] EXCEPT ![prev] = next[arg]]
            /\ tail' = IF arg = tail THEN prev ELSE tail
         \/ /\ List!Slot = Null
            /\ head' = head /\ tail' = tail /\ next' = next
  BY DEF List!remove, List!StoreSlot, List!Return
<1>2. PICK p : Passed(s, p, op, arg, prev)
  BY <1>1 DEF Walking
<1>3. p \in 0 .. Len(s) /\ prev = Place(s, p) /\ \A j \in 1 .. p : s[j] # arg
  BY <1>1, <1>2 DEF Passed
<1>4. /\ List!Slot = Place(s, p + 1)
      /\ prev = Null <=> p = 0
      /\ List!Slot = Null <=> p = Len(s)
      /\ p # 0 => prev = s[p]
      /\ p # Len(s) => List!Slot = s[p + 1] /\ p + 1 \in 1 .. Len(s)
  BY <1>3, SlotHolds
<1>5. /\ s \in Seq(Nodes) /\ Len(s) \in Nat /\ Chain(s, head, next) /\ tail = Place(s, Len(s))
      /\ \A i \in 1 .. Len(s) : s[i] \in Nodes /\ s[i] # Null /\ next[s[i]] = Place(s, i + 1)
      /\ \A i, j \in 1 .. Len(s) : s[i] = s[j] => i = j
  BY StandingFacts
<1>6. /\ arg \in Nodes /\ prev # arg /\ next \in [Nodes -> List!Pointer] /\ prev \in List!Pointer
      /\ head \in List!Pointer /\ tail \in List!Pointer /\ Null \in List!Pointer
  BY <1>1 DEF List!TypeOK, List!Pointer
<1>7. CASE /\ List!Slot = arg
           /\ head' = IF prev = Null THEN next[arg] ELSE head
           /\ next' = IF prev = Null THEN [next EXCEPT ![arg] = Null]
                      ELSE [[next EXCEPT ![arg] = Null] EXCEPT ![prev] = next[arg]]
           /\ tail' = IF arg = tail THEN prev ELSE tail
  <2> DEFINE m == p + 1
             r == List!Promise!RemoveAt(s, m)
  <2>1. p # Len(s) /\ m \in 1 .. Len(s) /\ s[m] = arg
    BY <1>4, <1>6, <1>7, NodesFacts
  <2>m. m - 1 = p /\ p \in Nat /\ (m = 1 <=> p = 0) /\ m + 1 \in Nat
    BY <1>3, <1>5
  <2>2. r \in Seq(Nodes) /\ Grown(s, r, m, arg)
    BY <1>5, <2>1, RemoveAtShrinks
  <2>3. next[arg] = Place(s, m + 1) /\ next[arg] \in List!Pointer
    BY <1>5, <1>6, <2>1
  <2>4. next' \in [Nodes -> List!Pointer] /\ head' \in List!Pointer /\ tail' \in List!Pointer
    BY <1>6, <1>7, <2>3
  <2>5. m # 1 => next'[s[m - 1]] = Place(s, m + 1)
    <3> SUFFICES ASSUME m # 1 PROVE next'[s[m - 1]] = Place(s, m + 1)
      OBVIOUS
    <3>1. prev # Null /\ prev = s[m - 1] /\ prev \in Nodes
      BY <1>4, <1>6, <2>m DEF List!Pointer
    <3> QED BY <1>6, <1>7, <2>3, <3>1
  <2>6. \A n \in Nodes : n # arg /\ (m # 1 => n # s[m - 1]) => next'[n] = next[n]
    <3> SUFFICES ASSUME NEW n \in Nodes, n # arg, m # 1 => n # s[m - 1] PROVE next'[n] = next[n]
      OBVIOUS
    <3>1. prev # Null => n # prev
      BY <1>4, <2>m
    <3> QED BY <1>6, <1>7, <3>1
  <2>7. head' = IF m = 1 THEN Place(s, 2) ELSE head
    <3>1. m = 1 => m + 1 = 2
      OBVIOUS
    <3> QED BY <1>4, <1>7, <2>m, <2>3, <3>1
  <2>8. s[m] = arg /\ m - 1 = p /\ m \in 1 .. Len(s)
    BY <2>1, <2>m
  <2> HIDE DEF m, r
  <2>9. Chain(r, head', next')
    BY <1>5, <2>2, <2>5, <2>6, <2>7, ShrinkChain
  <2>10. tail' = Place(r, Len(r))
    <3>1. Place(r, Len(r)) = IF m = Len(s) THEN Place(s, m - 1) ELSE Place(s, Len(s))
      BY <1>5, <2>2, LastPlace
    <3>2. Len(s) \in 1 .. Len(s)
      BY <1>5, <2>8
    <3>3. arg = tail <=> m = Len(s)
      BY <1>5, <2>8, <3>2 DEF Place
    <3> QED BY <1>3, <1>5, <1>7, <2>8, <3>1, <3>3
  <2>11. Standing(r, head', tail', next')
    BY <2>9, <2>10 DEF Standing
  <2>12. List!Walk = s /\ List!Walk' = r
    BY <2>11, StandingReads
  <2>13. List!Promise!remove(s, arg) = r
    BY <1>5, <2>8, RemoveIs DEF r
  <2>14. List!Promise!Unlink(arg)
    BY <2>12, <2>13 DEF List!Promise!Unlink
  <2>15. List!TypeOK'
    BY <1>1, <1>6, <2>4 DEF List!TypeOK
  <2> QED BY <1>1, <2>11, <2>14, <2>15 DEF ListInvNext, Walking
<1>8. CASE List!Slot = Null /\ head' = head /\ tail' = tail /\ next' = next
  <2>1. \A i \in 1 .. Len(s) : s[i] # arg
    BY <1>3, <1>4, <1>8
  <2>2. Standing(s, head', tail', next')
    BY <1>8
  <2>3. List!Walk = s /\ List!Walk' = s
    BY <2>2, StandingReads
  <2>4. List!Promise!Unlink(arg)
    BY <1>5, <2>1, <2>3, RemoveIs DEF List!Promise!Unlink
  <2>5. List!TypeOK'
    BY <1>1, <1>6, <1>8 DEF List!TypeOK
  <2> QED BY <1>1, <2>2, <2>4, <2>5 DEF ListInvNext, Walking
<1> QED BY <1>1, <1>7, <1>8

\* push_back finds the end without looking.
LEMMA PushBackKeeps ==
  ASSUME List!TypeOK, NEW s, Standing(s, head, tail, next), NEW n \in Nodes, List!push_back(n)
  PROVE  ListInvNext /\ List!Promise!PushBack(n)
<1>1. /\ op = "none" /\ ~List!Linked(n) /\ op' = op /\ arg' = arg /\ prev' = prev
      /\ head' = IF tail = Null THEN n ELSE head
      /\ tail' = n
      /\ next' = [k \in Nodes |-> CASE k = n -> Null [] k = tail -> n [] OTHER -> next[k]]
  BY DEF List!push_back
<1>2. /\ s \in Seq(Nodes) /\ Len(s) \in Nat /\ Chain(s, head, next) /\ tail = Place(s, Len(s))
      /\ \A i \in 1 .. Len(s) : s[i] \in Nodes /\ s[i] # Null
      /\ \A i \in 1 .. Len(s) : s[i] # n
      /\ ~List!Promise!Contains(s, n)
  BY <1>1, StandingFacts
<1>3. /\ next \in [Nodes -> List!Pointer] /\ head \in List!Pointer /\ n \in List!Pointer
      /\ arg \in List!Pointer /\ prev \in List!Pointer /\ Null \in List!Pointer
  BY DEF List!TypeOK, List!Pointer
<1>c. /\ next' \in [Nodes -> List!Pointer] /\ next'[n] = Null
      /\ \A k \in Nodes : k # n => next'[k] = IF k = tail THEN n ELSE next[k]
  <2>1. \A k \in Nodes : next'[k] = CASE k = n -> Null [] k = tail -> n [] OTHER -> next[k]
    BY <1>1, Zenon
  <2>2. next'[n] = Null
    <3>1. n \in Nodes /\ (n = tail => FALSE)
      BY <1>2, NodesFacts DEF Place
    <3> QED BY <2>1, <3>1
  <2>3. ASSUME NEW k \in Nodes, k # n PROVE next'[k] = IF k = tail THEN n ELSE next[k]
    BY <2>1, <2>3
  <2>4. \A k \in Nodes : next'[k] \in List!Pointer
    BY <1>3, <2>2, <2>3
  <2>5. next' = [k \in Nodes |-> next'[k]]
    BY <1>1
  <2> QED BY <2>2, <2>3, <2>4, <2>5
<1> DEFINE m == Len(s) + 1
           r == Append(s, n)
<1>m. m - 1 = Len(s) /\ m \in Nat /\ (m = 1 <=> Len(s) = 0) /\ m \notin 1 .. Len(s)
  BY <1>2
<1>4. r \in Seq(Nodes) /\ Grown(r, s, m, n)
  BY <1>2, EndsGrow
<1>5. m # 1 => tail = s[m - 1] /\ tail # n /\ tail \in Nodes /\ tail # Null
  <2>1. m # 1 => Len(s) \in 1 .. Len(s)
    BY <1>2, <1>m
  <2> QED BY <1>2, <1>m, <2>1 DEF Place
<1>6. m = 1 => tail = Null
  BY <1>2, <1>m DEF Place
<1>7. next'[n] = Place(s, m)
  BY <1>c, <1>m DEF Place
<1>8. m # 1 => next'[s[m - 1]] = n
  BY <1>c, <1>5
<1>9. \A k \in Nodes : k # n /\ (m # 1 => k # s[m - 1]) => next'[k] = next[k]
  BY <1>c, <1>5, <1>6, NodesFacts
<1>10. head' = IF m = 1 THEN n ELSE head
  BY <1>1, <1>5, <1>6
<1>e. m = Len(s) + 1
  OBVIOUS
<1> HIDE DEF m, r
<1>11. Chain(r, head', next')
  BY <1>2, <1>4, <1>7, <1>8, <1>9, <1>10, GrowChain
<1>12. tail' = Place(r, Len(r))
  BY <1>1, <1>2, <1>4, <1>e, LastPlace
<1>13. Standing(r, head', tail', next')
  BY <1>11, <1>12 DEF Standing
<1>14. List!Walk = s /\ List!Walk' = r
  BY <1>13, StandingReads
<1>15. List!Promise!PushBack(n)
  BY <1>2, <1>14 DEF List!Promise!PushBack, r
<1>16. next' \in [Nodes -> List!Pointer] /\ head' \in List!Pointer /\ tail' \in List!Pointer
  BY <1>1, <1>3, <1>c
<1>17. List!TypeOK'
  BY <1>1, <1>3, <1>16 DEF List!TypeOK
<1> QED BY <1>1, <1>13, <1>15, <1>17 DEF ListInvNext, Walking

\* push_front puts its node before the head.
LEMMA PushFrontKeeps ==
  ASSUME List!TypeOK, NEW s, Standing(s, head, tail, next), NEW n \in Nodes, List!push_front(n)
  PROVE  ListInvNext /\ List!Promise!PushFront(n)
<1>1. /\ op = "none" /\ ~List!Linked(n) /\ op' = op /\ arg' = arg /\ prev' = prev
      /\ head' = n
      /\ tail' = IF tail = Null THEN n ELSE tail
      /\ next' = [next EXCEPT ![n] = head]
  BY DEF List!push_front
<1>2. /\ s \in Seq(Nodes) /\ Len(s) \in Nat /\ Chain(s, head, next) /\ tail = Place(s, Len(s))
      /\ \A i \in 1 .. Len(s) : s[i] \in Nodes /\ s[i] # Null
      /\ \A i \in 1 .. Len(s) : s[i] # n
      /\ ~List!Promise!Contains(s, n) /\ head = Place(s, 1)
  BY <1>1, StandingFacts
<1>3. /\ next \in [Nodes -> List!Pointer] /\ head \in List!Pointer /\ n \in List!Pointer
      /\ tail \in List!Pointer /\ arg \in List!Pointer /\ prev \in List!Pointer
  BY DEF List!TypeOK, List!Pointer
<1> DEFINE r == << n >> \o s
<1>4. r \in Seq(Nodes) /\ Grown(r, s, 1, n)
  BY <1>2, EndsGrow
<1>5. /\ next'[n] = Place(s, 1)
      /\ \A k \in Nodes : k # n => next'[k] = next[k]
      /\ next' \in [Nodes -> List!Pointer]
  BY <1>1, <1>2, <1>3
<1>6. tail = Null <=> 1 = Len(s) + 1
  BY <1>2 DEF Place
<1> HIDE DEF r
<1> DEFINE m == 1
<1>7. /\ head' = IF m = 1 THEN n ELSE head
      /\ m # 1 => next'[s[m - 1]] = n
      /\ \A k \in Nodes : k # n /\ (m # 1 => k # s[m - 1]) => next'[k] = next[k]
      /\ Grown(r, s, m, n) /\ next'[n] = Place(s, m)
      /\ tail = Null <=> m = Len(s) + 1
  BY <1>1, <1>4, <1>5, <1>6
<1> HIDE DEF m
<1>8. Chain(r, head', next')
  BY <1>2, <1>4, <1>7, GrowChain
<1>9. tail' = Place(r, Len(r))
  <2>1. Place(r, Len(r)) = IF m = Len(s) + 1 THEN n ELSE Place(s, Len(s))
    BY <1>2, <1>4, <1>7, LastPlace
  <2> QED BY <1>1, <1>2, <1>7, <2>1
<1>10. Standing(r, head', tail', next')
  BY <1>8, <1>9 DEF Standing
<1>11. List!Walk = s /\ List!Walk' = r
  BY <1>10, StandingReads
<1>12. List!Promise!PushFront(n)
  BY <1>2, <1>11 DEF List!Promise!PushFront, r
<1>13. List!TypeOK'
  BY <1>1, <1>3, <1>5 DEF List!TypeOK
<1> QED BY <1>1, <1>10, <1>12, <1>13 DEF ListInvNext, Walking

\* pop_head takes the first node.
LEMMA PopHeadKeeps ==
  ASSUME List!TypeOK, NEW s, Standing(s, head, tail, next), List!pop_head
  PROVE  ListInvNext /\ List!Promise!PopHead
<1>1. /\ op = "none" /\ head # Null /\ op' = op /\ arg' = arg /\ prev' = prev
      /\ head' = next[head]
      /\ tail' = IF next[head] = Null THEN Null ELSE tail
      /\ next' = [next EXCEPT ![head] = Null]
  BY DEF List!pop_head
<1>2. /\ s \in Seq(Nodes) /\ Len(s) \in Nat /\ Chain(s, head, next) /\ tail = Place(s, Len(s))
      /\ \A i \in 1 .. Len(s) : s[i] \in Nodes /\ s[i] # Null /\ next[s[i]] = Place(s, i + 1)
      /\ head = Place(s, 1)
  BY StandingFacts
<1>3. 1 \in 1 .. Len(s) /\ head = s[1] /\ head \in Nodes /\ s # << >>
  BY <1>1, <1>2 DEF Place
<1>4. /\ next \in [Nodes -> List!Pointer] /\ tail \in List!Pointer /\ Null \in List!Pointer
      /\ arg \in List!Pointer /\ prev \in List!Pointer
  BY DEF List!TypeOK, List!Pointer
<1>5. /\ next[head] = Place(s, 2) /\ next[head] \in List!Pointer
      /\ \A k \in Nodes : k # head => next'[k] = next[k]
      /\ next' \in [Nodes -> List!Pointer]
  <2>1. next[s[1]] = Place(s, 1 + 1) /\ 1 + 1 = 2
    BY <1>2, <1>3
  <2>2. next[head] \in List!Pointer
    BY <1>3, <1>4
  <2>3. (\A k \in Nodes : k # head => next'[k] = next[k]) /\ next' \in [Nodes -> List!Pointer]
    BY <1>1, <1>3, <1>4
  <2> QED BY <1>3, <2>1, <2>2, <2>3
<1>6. Place(s, 2) = Null <=> 1 = Len(s)
  <2> DEFINE k == Len(s)
  <2>k. k \in Nat /\ k >= 1
    BY <1>2, <1>3
  <2> HIDE DEF k
  <2>1. CASE 1 = k
    <3>1. 2 \notin 1 .. k
      BY <2>1
    <3> QED BY <2>1, <3>1 DEF Place, k
  <2>2. CASE 1 # k
    <3>1. 2 \in 1 .. k
      BY <2>k, <2>2
    <3>2. Place(s, 2) = s[2] /\ s[2] # Null
      BY <1>2, <3>1 DEF Place, k
    <3> QED BY <2>2, <3>2 DEF k
  <2> QED BY <2>1, <2>2 DEF k
<1> DEFINE r == Tail(s)
           m == 1
<1>7. r \in Seq(Nodes) /\ Grown(s, r, m, head)
  BY <1>2, <1>3, EndsGrow
<1>8. /\ head' = IF m = 1 THEN Place(s, 2) ELSE head
      /\ m # 1 => next'[s[m - 1]] = Place(s, m + 1)
      /\ \A k \in Nodes : k # head /\ (m # 1 => k # s[m - 1]) => next'[k] = next[k]
      /\ Place(s, 2) = Null <=> m = Len(s)
      /\ Place(s, m - 1) = Null
  BY <1>1, <1>2, <1>5, <1>6 DEF Place
<1> HIDE DEF m, r
<1>9. Chain(r, head', next')
  BY <1>2, <1>7, <1>8, ShrinkChain
<1>10. tail' = Place(r, Len(r))
  <2>1. Place(r, Len(r)) = IF m = Len(s) THEN Place(s, m - 1) ELSE Place(s, Len(s))
    BY <1>2, <1>7, LastPlace
  <2> QED BY <1>1, <1>2, <1>5, <1>8, <2>1
<1>11. Standing(r, head', tail', next')
  BY <1>9, <1>10 DEF Standing
<1>12. List!Walk = s /\ List!Walk' = r
  BY <1>11, StandingReads
<1>13. List!Promise!PopHead
  BY <1>3, <1>12 DEF List!Promise!PopHead, r
<1>14. List!TypeOK'
  BY <1>1, <1>4, <1>5 DEF List!TypeOK
<1> QED BY <1>1, <1>11, <1>13, <1>14 DEF ListInvNext, Walking

\* An empty list stands for the empty sequence.
LEMMA ListStarts ==
  ASSUME BaseInit
  PROVE  ListInv /\ List!Promise!Init
<1>1. /\ head = Null /\ tail = Null /\ next = [n \in Nodes |-> Null]
      /\ op = "none" /\ arg = Null /\ prev = Null
  BY DEF BaseInit, List!Init
<1> DEFINE s == << >>
<1>2. s \in Seq(Nodes) /\ Len(s) = 0 /\ 1 .. Len(s) = {}
  OBVIOUS
<1>3. Standing(s, head, tail, next)
  BY <1>1, <1>2 DEF Standing, Chain, Place
<1>4. List!TypeOK
  BY <1>1 DEF List!TypeOK, List!Pointer
<1>5. List!Walk = s
  BY <1>3, StandingReads
<1> QED BY <1>1, <1>3, <1>4, <1>5 DEF ListInv, Walking, List!Promise!Init

\* Every call keeps what the pointers stand for and does what it is named for.
LEMMA CallsKeep ==
  ASSUME ListInv
  PROVE  /\ List!insert => ListInv' /\ List!Promise!Link(arg) /\ arg \in Nodes
         /\ List!remove => ListInv' /\ List!Promise!Unlink(arg) /\ arg \in Nodes
         /\ \A n \in Nodes : List!push_back(n) => ListInv' /\ List!Promise!PushBack(n)
         /\ \A n \in Nodes : List!push_front(n) => ListInv' /\ List!Promise!PushFront(n)
         /\ List!pop_head => ListInv' /\ List!Promise!PopHead
         /\ List!InsertWalks \/ List!RemoveWalks => ListInv' /\ List!Walk' = List!Walk
         /\ \A n \in Nodes : List!BeginInsert(n) \/ List!BeginRemove(n)
                               => ListInv' /\ List!Walk' = List!Walk
<1>1. PICK s : Standing(s, head, tail, next) /\ Walking(s, op, arg, prev)
  BY DEF ListInv
<1>2. List!TypeOK
  BY DEF ListInv
<1>3. ListInvNext => ListInv'
  BY DEF ListInv, ListInvNext
<1>4. List!insert \/ List!remove => arg \in Nodes
  BY <1>2 DEF List!TypeOK, List!insert, List!remove
<1>5. List!insert => ListInvNext /\ List!Promise!Link(arg)
  BY <1>1, <1>2, InsertKeeps
<1>6. List!remove => ListInvNext /\ List!Promise!Unlink(arg)
  BY <1>1, <1>2, RemoveKeeps
<1>7. \A n \in Nodes : List!push_back(n) => ListInvNext /\ List!Promise!PushBack(n)
  BY <1>1, <1>2, PushBackKeeps
<1>8. \A n \in Nodes : List!push_front(n) => ListInvNext /\ List!Promise!PushFront(n)
  BY <1>1, <1>2, PushFrontKeeps
<1>9. List!pop_head => ListInvNext /\ List!Promise!PopHead
  BY <1>1, <1>2, PopHeadKeeps
<1>10. List!InsertWalks \/ List!RemoveWalks => ListInvNext /\ List!Walk' = List!Walk
  BY <1>1, <1>2, WalkKeeps
<1>11. \A n \in Nodes : List!BeginInsert(n) \/ List!BeginRemove(n)
                          => ListInvNext /\ List!Walk' = List!Walk
  BY <1>1, <1>2, BeginKeeps
<1> QED BY <1>3, <1>4, <1>5, <1>6, <1>7, <1>8, <1>9, <1>10, <1>11

\* A step of the list is a step of the sequence, or shows nothing.
LEMMA ListSteps ==
  ASSUME ListInv, [BaseNext]_basevars
  PROVE  ListInv' /\ [List!Promise!Next]_(List!Walk)
<1>1. CASE UNCHANGED listvars
  <2>1. head' = head /\ tail' = tail /\ next' = next /\ op' = op /\ arg' = arg /\ prev' = prev
    BY <1>1 DEF listvars
  <2>2. ListInv'
    BY <2>1 DEF ListInv, List!TypeOK
  <2>3. List!Walk' = List!Walk
    BY <2>1, ListOperators
  <2> QED BY <2>2, <2>3
<1>2. CASE List!Next
  <2>1. CASE List!insert \/ List!remove
    <3>1. ListInv' /\ (List!Promise!Link(arg) \/ List!Promise!Unlink(arg)) /\ arg \in Nodes
      BY <2>1, CallsKeep
    <3> QED BY <3>1 DEF List!Promise!Next
  <2>2. CASE List!pop_head
    BY <2>2, CallsKeep DEF List!Promise!Next
  <2>3. ASSUME NEW n \in Nodes, List!push_back(n) \/ List!push_front(n)
        PROVE  ListInv' /\ List!Promise!Next
    <3>1. ListInv' /\ (List!Promise!PushBack(n) \/ List!Promise!PushFront(n))
      BY <2>3, CallsKeep
    <3> QED BY <3>1 DEF List!Promise!Next
  <2>4. CASE List!InsertWalks \/ List!RemoveWalks
    BY <2>4, CallsKeep
  <2>5. ASSUME NEW n \in Nodes, List!BeginInsert(n) \/ List!BeginRemove(n)
        PROVE  ListInv' /\ List!Walk' = List!Walk
    BY <2>5, CallsKeep
  <2> QED BY <1>2, <2>1, <2>2, <2>3, <2>4, <2>5 DEF List!Next, List!Step, List!Finish
<1> QED BY <1>1, <1>2 DEF BaseNext, basevars, listvars

\* For any nodes and keys, and whatever mixture of calls SelfList meets, its
\* pointers behave as a sequence of distinct nodes: no step loses, repeats or
\* reorders one, sorted insertion is stable, and tail_ is the last node.
THEOREM PointersAreASequence == BaseSpec => ListIsASequence
<1>1. BaseInit => ListInv /\ List!Promise!Init
  BY ListStarts
<1>2. ListInv /\ [BaseNext]_basevars => ListInv' /\ [List!Promise!Next]_(List!Walk)
  BY ListSteps
<1>3. ListInv => [ /\ List!insert => List!Promise!Link(arg)
                   /\ List!remove => List!Promise!Unlink(arg)
                   /\ \A n \in Nodes : List!push_back(n) => List!Promise!PushBack(n)
                   /\ \A n \in Nodes : List!push_front(n) => List!Promise!PushFront(n)
                   /\ List!pop_head => List!Promise!PopHead ]_(List!vars)
  BY CallsKeep
<1>4. ListInv => List!TypeOK /\ List!TailIsLast
  <2> SUFFICES ASSUME ListInv PROVE List!TailIsLast
    BY DEF ListInv
  <2>1. PICK s : Standing(s, head, tail, next)
    BY DEF ListInv
  <2>2. List!Walk = s
    BY <2>1, StandingReads
  <2>3. /\ Len(s) \in Nat /\ head = Place(s, 1) /\ tail = Place(s, Len(s))
        /\ \A i \in 1 .. Len(s) : s[i] # Null
    BY <2>1, StandingFacts
  <2>4. CASE Len(s) = 0
    BY <2>3, <2>4 DEF Place, List!TailIsLast
  <2>5. CASE Len(s) # 0
    <3>1. 1 \in 1 .. Len(s) /\ Len(s) \in 1 .. Len(s)
      BY <2>3, <2>5
    <3>2. head # Null /\ tail = s[Len(s)]
      BY <2>3, <3>1 DEF Place
    <3> QED BY <2>2, <3>2 DEF List!TailIsLast, List!Last
  <2> QED BY <2>4, <2>5
<1> QED BY <1>1, <1>2, <1>3, <1>4, PTL
     DEF BaseSpec, ListIsASequence, List!ImplementsListSpec, List!Promise!Spec, List!CallsDoWhatTheySay

=============================================================================
