-------------------------- MODULE ManualClockProofs --------------------------
(***************************************************************************)
(* Proofs about ManualClock, for any timers, durations and moves of the    *)
(* clock.  The four properties that TLC checks are inductive together: a   *)
(* timer that is reset, stopped or fired stays on one side of pending and  *)
(* fired only because no timer is listed twice.                            *)
(***************************************************************************)
EXTENDS ManualClock, Induction, SequenceTheorems

-----------------------------------------------------------------------------
(* The list of pending timers.                                             *)

\* Appending adds one element, and keeps a list without repetition so.
LEMMA AppendAdds ==
  ASSUME NEW S, NEW s \in Seq(S), NEW e \in S
  PROVE  /\ Append(s, e) \in Seq(S)
         /\ \A x : Contains(Append(s, e), x) <=> Contains(s, x) \/ x = e
         /\ IsInjective(s) /\ ~Contains(s, e) => IsInjective(Append(s, e))
  <1> DEFINE r == Append(s, e)
  <1>1. /\ r \in Seq(S) /\ Len(r) = Len(s) + 1 /\ r[Len(s) + 1] = e
        /\ \A i \in 1..Len(s) : r[i] = s[i]
        /\ Len(s) \in Nat /\ DOMAIN r = 1..(Len(s) + 1) /\ DOMAIN s = 1..Len(s)
    OBVIOUS
  <1> HIDE DEF r
  <1>2. ASSUME NEW x PROVE Contains(r, x) <=> Contains(s, x) \/ x = e
    BY <1>1 DEF Contains
  <1>3. ASSUME IsInjective(s), ~Contains(s, e) PROVE IsInjective(r)
    BY <1>1, <1>3 DEF Contains, IsInjective
  <1> QED
    BY <1>1, <1>2, <1>3 DEF r

\* Removing an element of a list without repetition removes it altogether.
LEMMA RemoveFirstRemoves ==
  ASSUME NEW S, NEW s \in Seq(S), IsInjective(s), NEW e
  PROVE  /\ RemoveFirst(s, e) \in Seq(S)
         /\ IsInjective(RemoveFirst(s, e))
         /\ \A x : Contains(RemoveFirst(s, e), x) <=> Contains(s, x) /\ x # e
  <1>1. CASE ~Contains(s, e)
    BY <1>1 DEF RemoveFirst, Contains
  <1>2. CASE Contains(s, e)
    <2> DEFINE I == { i \in 1..Len(s) : s[i] = e }
               j == Min(I)
               r == RemoveFirst(s, e)
    <2>1. r = RemoveAt(s, j)
      BY <1>2 DEF RemoveFirst, SelectInSeq, Contains
    <2>2. j \in I
      <3>1. I \subseteq Nat /\ I # {}
        BY <1>2 DEF Contains
      <3>2. \E i \in I : \A k \in I : i <= k
        BY <3>1, LeastNumber
      <3> QED
        BY <3>2 DEF Min
    <2>3. j \in 1..Len(s) /\ s[j] = e
      BY <2>2
    <2> HIDE DEF j, r
    <2>4. /\ r \in Seq(S) /\ Len(r) = Len(s) - 1
          /\ \A i \in 1..(Len(s) - 1) : r[i] = IF i < j THEN s[i] ELSE s[i + 1]
      <3> DEFINE u == SubSeq(s, 1, j - 1)
                 v == SubSeq(s, j + 1, Len(s))
      <3>1. /\ u \in Seq(S) /\ Len(u) = j - 1
            /\ \A i \in 1..(j - 1) : u[i] = s[i]
        BY <2>3
      <3>2. /\ v \in Seq(S) /\ Len(v) = Len(s) - j
            /\ \A i \in 1..(Len(s) - j) : v[i] = s[j + i]
        BY <2>3
      <3>3. r = u \o v
        BY <2>1 DEF RemoveAt
      <3> HIDE DEF u, v
      <3>4. r \in Seq(S) /\ Len(r) = Len(s) - 1
        <4>1. (u \o v) \in Seq(S) /\ Len(u \o v) = Len(u) + Len(v)
          BY <3>1, <3>2, ConcatProperties
        <4> QED
          BY <2>3, <3>1, <3>2, <3>3, <4>1
      <3>5. ASSUME NEW i \in 1..(Len(s) - 1)
            PROVE  r[i] = IF i < j THEN s[i] ELSE s[i + 1]
        <4>1. CASE i < j
          BY <2>3, <3>1, <3>2, <3>3, <4>1
        <4>2. CASE ~(i < j)
          <5>1. r[i] = v[i - (j - 1)]
            BY <2>3, <3>1, <3>2, <3>3, <4>2
          <5>2. i - (j - 1) \in 1..(Len(s) - j) /\ j + (i - (j - 1)) = i + 1
            BY <2>3, <4>2
          <5>3. v[i - (j - 1)] = s[i + 1]
            BY <3>2, <5>2
          <5> QED
            BY <4>2, <5>1, <5>3
        <4> QED
          BY <4>1, <4>2
      <3> QED
        BY <3>4, <3>5
    <2>5. Len(s) \in Nat /\ DOMAIN s = 1..Len(s) /\ DOMAIN r = 1..(Len(s) - 1)
      BY <2>4
    <2>6. IsInjective(r)
      <3> SUFFICES ASSUME NEW a \in 1..(Len(s) - 1), NEW b \in 1..(Len(s) - 1),
                          r[a] = r[b]
                   PROVE  a = b
        BY <2>5 DEF IsInjective
      <3>1. \A k, m \in 1..Len(s) : s[k] = s[m] => k = m
        BY <2>5 DEF IsInjective
      <3> QED
        BY <2>3, <2>4, <2>5, <3>1
    <2>7. ASSUME NEW x PROVE Contains(r, x) <=> Contains(s, x) /\ x # e
      <3>1. ASSUME NEW i \in 1..(Len(s) - 1), r[i] = x
            PROVE  Contains(s, x) /\ x # e
        <4>1. PICK k \in 1..Len(s) : k # j /\ s[k] = x
          BY <2>3, <2>4, <2>5, <3>1
        <4> QED
          BY <2>3, <2>5, <4>1 DEF Contains, IsInjective
      <3>2. ASSUME NEW k \in 1..Len(s), s[k] = x, x # e
            PROVE  \E i \in 1..(Len(s) - 1) : r[i] = x
        <4>1. CASE k < j
          BY <2>3, <2>4, <2>5, <3>2, <4>1
        <4>2. CASE k > j
          <5>1. k - 1 \in 1..(Len(s) - 1) /\ ~(k - 1 < j) /\ (k - 1) + 1 = k
            BY <2>3, <2>5, <4>2
          <5> QED
            BY <2>4, <3>2, <5>1
        <4> QED
          BY <2>3, <2>5, <3>2, <4>1, <4>2
      <3> QED
        BY <2>4, <3>1, <3>2 DEF Contains
    <2> QED
      BY <2>4, <2>6, <2>7 DEF r
  <1> QED
    BY <1>1, <1>2

\* What the loop of fireDueLocked leaves: the pending timers that are not due.
LEMMA KeptAreNotDue ==
  ASSUME timers \in Seq(Timers), IsInjective(timers), NEW now
  PROVE  /\ kept(now) \in Seq(Timers)
         /\ IsInjective(kept(now))
         /\ \A x : Contains(kept(now), x) <=> Contains(timers, x) /\ ~due(x, now)
  <1> DEFINE n == Len(timers)
             V == Seq(Timers)
             Round(s, i) == IF due(timers[i], now) THEN s ELSE Append(s, timers[i])
             step == [p \in V \X (1..n) |-> Round(p[1], p[2])]
             Loop(f) == f = [i \in 0..Len(timers) |->
                               IF i = 0 THEN << >>
                               ELSE IF due(timers[i], now) THEN f[i-1]
                                    ELSE Append(f[i-1], timers[i])]
             keep == CHOOSE f : Loop(f)
  <1>0. n \in Nat /\ DOMAIN timers = 1..n /\ \A i \in 1..n : timers[i] \in Timers
    OBVIOUS
  <1>1. /\ << >> \in V
        /\ \A s \in V, i \in 1..n : Round(s, i) \in V
    BY <1>0
  <1> HIDE DEF Round
  <1>2. step \in [V \X (1..n) -> V]
    BY <1>1
  <1>3. ASSUME NEW s \in V, NEW i \in 1..n PROVE step[<< s, i >>] = Round(s, i)
    OBVIOUS
  <1> HIDE DEF step, V
  <1>4. \E f : Loop(f)
    <2>1. PICK f : Computed(f, n, V, << >>, step)
      BY <1>0, <1>1, <1>2, RecursionUpTo
    <2>2. ASSUME NEW i \in 0..n
          PROVE  f[i] = IF i = 0 THEN << >> ELSE Round(f[i-1], i)
      <3>1. CASE i = 0
        BY <2>1, <3>1 DEF Computed
      <3>2. CASE i # 0
        <4>1. i \in 1..n
          BY <3>2
        <4>2. f[i - 1] \in V /\ f[i] = step[<< f[i - 1], i >>]
          BY <1>0, <2>1, <4>1, ComputedStep
        <4> QED
          BY <1>3, <3>2, <4>1, <4>2
      <3> QED
        BY <3>1, <3>2
    <2>3. f = [i \in 0..n |-> f[i]]
      BY <2>1 DEF Computed
    <2> QED
      BY <2>2, <2>3 DEF Round
  <1>5. Loop(keep)
    <2> HIDE DEF Loop
    <2> QED
      BY <1>4
  <1>6. kept(now) = keep[n]
    BY DEF kept
  <1> HIDE DEF keep
  <1>7. Computed(keep, n, V, << >>, step)
    <2> DEFINE body == [i \in 0..n |-> IF i = 0 THEN << >> ELSE Round(keep[i-1], i)]
    <2>1. keep = body
      BY <1>5 DEF Round
    <2>2. /\ body = [i \in 0..n |-> body[i]] /\ body[0] = << >>
          /\ \A i \in 1..n : body[i] = Round(keep[i-1], i)
      BY <1>0
    <2> HIDE DEF body
    <2>3. /\ keep = [i \in 0..n |-> keep[i]] /\ keep[0] = << >>
          /\ \A i \in 1..n : keep[i] = Round(keep[i - 1], i)
      BY <2>1, <2>2
    <2> QED
      BY <1>0, <1>1, <1>2, <1>3, <2>3, ComputedByEquation
  <1> DEFINE Good == { i \in 0..n :
                         /\ IsInjective(keep[i])
                         /\ \A x : Contains(keep[i], x) <=>
                                     \E k \in 1..i : timers[k] = x /\ ~due(x, now) }
  <1>8. 0 \in Good
    <2>1. keep[0] = << >> /\ 0 \in 0..n
      BY <1>0, <1>7 DEF Computed
    <2>2. IsInjective(<< >>) /\ \A x : ~Contains(<< >>, x)
      BY DEF IsInjective, Contains
    <2> QED
      BY <2>1, <2>2
  <1>9. ASSUME NEW i \in 0..(n - 1), i \in Good
        PROVE  i + 1 \in Good
    <2> DEFINE y == timers[i + 1]
    <2>1. /\ i + 1 \in 1..n /\ (i + 1) - 1 = i /\ i + 1 \in 0..n
          /\ 1..(i + 1) = (1..i) \cup {i + 1}
      BY <1>0
    <2>2. keep[i] \in V /\ keep[i + 1] = Round(keep[i], i + 1)
      <3>1. keep[i] \in V /\ keep[i + 1] = step[<< keep[i], i + 1 >>]
        BY <1>0, <1>7, <2>1, ComputedStep
      <3> QED
        BY <1>3, <2>1, <3>1
    <2>3. /\ IsInjective(keep[i])
          /\ \A x : Contains(keep[i], x) <=>
                      \E k \in 1..i : timers[k] = x /\ ~due(x, now)
      BY <1>9
    <2>4. CASE due(y, now)
      <3>1. keep[i + 1] = keep[i]
        BY <2>2, <2>4 DEF Round
      <3> QED
        BY <2>1, <2>3, <2>4, <3>1
    <2>5. CASE ~due(y, now)
      <3>1. keep[i + 1] = Append(keep[i], y)
        BY <2>2, <2>5 DEF Round
      <3>2. ~Contains(keep[i], y)
        <4>1. \A k \in 1..i : timers[k] # y
          BY <1>0, <2>1 DEF IsInjective
        <4> QED
          BY <2>3, <4>1
      <3>3. /\ \A x : Contains(keep[i + 1], x) <=> Contains(keep[i], x) \/ x = y
            /\ IsInjective(keep[i + 1])
        <4>1. y \in Timers /\ keep[i] \in Seq(Timers) /\ IsInjective(keep[i])
          BY <1>0, <2>1, <2>2, <2>3 DEF V
        <4> HIDE DEF y
        <4>2. /\ \A x : Contains(Append(keep[i], y), x) <=> Contains(keep[i], x) \/ x = y
              /\ IsInjective(Append(keep[i], y))
          BY <3>2, <4>1, AppendAdds
        <4> QED
          BY <3>1, <4>2
      <3> HIDE DEF y
      <3>4. ASSUME NEW x
            PROVE  Contains(keep[i + 1], x) <=>
                     \E k \in 1..(i + 1) : timers[k] = x /\ ~due(x, now)
        BY <2>1, <2>3, <2>5, <3>3 DEF y
      <3> QED
        BY <2>1, <3>3, <3>4
    <2> QED
      BY <2>4, <2>5
  <1>10. n \in Good
    <2> HIDE DEF Good
    <2>1. \A i \in 0..n : i \in Good
      BY <1>0, <1>8, <1>9, InductionUpTo
    <2> QED
      BY <1>0, <2>1
  <1>11. keep[n] \in V
    BY <1>0, <1>7 DEF Computed
  <1> QED
    BY <1>6, <1>10, <1>11 DEF V, Contains

-----------------------------------------------------------------------------
(* The inductive invariant.                                                *)

ClockInv == TypeOK /\ EveryArmingHasOneFate /\ NoEarlyFire /\ PendingIsAhead

\* No timer is made when the clock is.
LEMMA InitClock == Init => ClockInv
  <1> SUFFICES ASSUME Init PROVE ClockInv
    OBVIOUS
  <1>1. \A x : ~Pending(x)
    BY DEF Init, Pending, Contains
  <1>2. TypeOK
    BY ClockAssumption DEF Init, TypeOK, IsInjective, Never, Empty, Fates
  <1> QED
    BY <1>1, <1>2
    DEF Init, ClockInv, EveryArmingHasOneFate, NoEarlyFire, PendingIsAhead, Empty

\* Arming a timer that is not in the list and whose channel was emptied: its
\* fire is in the channel or to come, and no other timer is disturbed.
LEMMA ArmStep ==
  ASSUME ClockInv, NEW x \in Timers, NEW d \in Durations, NEW rest \in Seq(Timers),
         IsInjective(rest), \A y : Contains(rest, y) <=> Pending(y) /\ y # x,
         Arm(x, d, rest, Empty)
  PROVE  ClockInv'
  <1>0. /\ t \in 0..MaxTime /\ deadline \in [Timers -> Int] /\ d \in Int
        /\ c \in [Timers -> 0..MaxTime \cup {Empty}] /\ fate \in [Timers -> Fates]
        /\ MaxTime \in Nat /\ t' = t
    BY ClockAssumption DEF ClockInv, TypeOK, Arm
  <1>1. /\ deadline' \in [Timers -> Int] /\ deadline'[x] = t + d
        /\ \A y \in Timers \ {x} : deadline'[y] = deadline[y]
    BY <1>0 DEF Arm
  <1>2. /\ fate' \in [Timers -> Fates] /\ fate'[x] = "due"
        /\ \A y \in Timers \ {x} : fate'[y] = fate[y]
    BY <1>0 DEF Arm, Fates
  <1>3. /\ c' \in [Timers -> 0..MaxTime \cup {Empty}]
        /\ c'[x] = IF d <= 0 THEN t ELSE Empty
        /\ \A y \in Timers \ {x} : c'[y] = c[y]
    BY <1>0 DEF Arm, fireLocked
  <1>4. /\ timers' \in Seq(Timers) /\ IsInjective(timers')
        /\ Pending(x)' <=> d > 0
        /\ \A y \in Timers \ {x} : Pending(y)' <=> Pending(y)
    <2>1. CASE d <= 0
      BY <1>0, <2>1 DEF Arm, Pending
    <2>2. CASE ~(d <= 0)
      <3>1. timers' = Append(rest, x)
        BY <2>2 DEF Arm
      <3>2. ~Contains(rest, x)
        OBVIOUS
      <3>3. /\ timers' \in Seq(Timers) /\ IsInjective(timers')
            /\ \A y : Contains(timers', y) <=> Contains(rest, y) \/ y = x
        BY <3>1, <3>2, AppendAdds
      <3> QED
        BY <1>0, <2>2, <3>3 DEF Pending
    <2> QED
      BY <2>1, <2>2
  <1>5. TypeOK'
    BY <1>0, <1>1, <1>2, <1>3, <1>4 DEF TypeOK
  <1>6. t # Empty
    BY <1>0 DEF Empty
  <1>7. EveryArmingHasOneFate'
    <2> SUFFICES ASSUME NEW y \in Timers
                 PROVE  IF fate'[y] = "due" THEN Pending(y)' # (c'[y] # Empty)
                                            ELSE ~Pending(y)' /\ c'[y] = Empty
      BY DEF EveryArmingHasOneFate
    <2>1. CASE y = x
      <3>1. Pending(y)' <=> ~(c'[y] # Empty)
        BY <1>0, <1>3, <1>4, <1>6, <2>1
      <3> QED
        BY <1>2, <2>1, <3>1 DEF Pending, Contains
    <2>2. CASE y # x
      <3>1. /\ fate'[y] = fate[y] /\ c'[y] = c[y] /\ (Pending(y)' <=> Pending(y))
        BY <1>2, <1>3, <1>4, <2>2
      <3>2. IF fate[y] = "due" THEN Pending(y) # (c[y] # Empty)
                               ELSE ~Pending(y) /\ c[y] = Empty
        BY DEF ClockInv, EveryArmingHasOneFate
      <3> QED
        BY <3>1, <3>2 DEF Pending, Contains
    <2> QED
      BY <2>1, <2>2
  <1>8. NoEarlyFire'
    <2> SUFFICES ASSUME NEW y \in Timers, c'[y] # Empty PROVE c'[y] >= deadline'[y]
      BY DEF NoEarlyFire
    <2>1. CASE y = x
      BY <1>0, <1>1, <1>3, <2>1
    <2>2. CASE y # x
      BY <1>1, <1>3, <2>2 DEF ClockInv, NoEarlyFire
    <2> QED
      BY <2>1, <2>2
  <1>9. PendingIsAhead'
    BY <1>0, <1>1, <1>4 DEF ClockInv, PendingIsAhead
  <1> QED
    BY <1>5, <1>7, <1>8, <1>9 DEF ClockInv

\* The clock moves, forward or back, and fires what is due.
LEMMA MoveStep ==
  ASSUME ClockInv, NEW now, MoveTo(now)
  PROVE  ClockInv'
  <1>0. /\ deadline \in [Timers -> Int] /\ now \in 0..MaxTime /\ now # Empty
        /\ c \in [Timers -> 0..MaxTime \cup {Empty}]
        /\ t' = now /\ UNCHANGED << deadline, fate >>
    BY DEF ClockInv, TypeOK, MoveTo, Empty
  <1>1. /\ timers' \in Seq(Timers) /\ IsInjective(timers')
        /\ \A x \in Timers : Pending(x)' <=> Pending(x) /\ ~(deadline[x] <= now)
    <2>1. timers' = kept(now) /\ timers \in Seq(Timers) /\ IsInjective(timers)
      BY DEF MoveTo, fireDueLocked, ClockInv, TypeOK
    <2> QED
      BY <2>1, KeptAreNotDue DEF Pending, due
  <1>2. /\ c' \in [Timers -> 0..MaxTime \cup {Empty}]
        /\ \A x \in Timers :
             c'[x] = IF Pending(x) /\ deadline[x] <= now
                     THEN fireLocked(c[x], now) ELSE c[x]
    BY <1>0 DEF MoveTo, fireDueLocked, due, fireLocked
  <1>3. TypeOK'
    BY <1>0, <1>1, <1>2 DEF ClockInv, TypeOK
  <1>4. ASSUME NEW x \in Timers
        PROVE  IF fate[x] = "due" THEN Pending(x) # (c[x] # Empty)
                                  ELSE ~Pending(x) /\ c[x] = Empty
    BY DEF ClockInv, EveryArmingHasOneFate
  <1>5. ASSUME NEW x \in Timers, Pending(x)
        PROVE  c[x] = Empty /\ fate[x] = "due"
    BY <1>4, <1>5
  <1>6. EveryArmingHasOneFate'
    <2> SUFFICES ASSUME NEW x \in Timers
                 PROVE  IF fate'[x] = "due" THEN Pending(x)' # (c'[x] # Empty)
                                            ELSE ~Pending(x)' /\ c'[x] = Empty
      BY DEF EveryArmingHasOneFate
    <2>1. CASE Pending(x) /\ deadline[x] <= now
      <3>1. c'[x] = now /\ ~Pending(x)' /\ fate'[x] = "due"
        BY <1>0, <1>1, <1>2, <1>5, <2>1 DEF fireLocked
      <3> QED
        BY <1>0, <3>1 DEF Pending, Contains
    <2>2. CASE ~(Pending(x) /\ deadline[x] <= now)
      <3>1. c'[x] = c[x] /\ (Pending(x)' <=> Pending(x)) /\ fate'[x] = fate[x]
        BY <1>0, <1>1, <1>2, <2>2
      <3> QED
        BY <1>4, <3>1 DEF Pending, Contains
    <2> QED
      BY <2>1, <2>2
  <1>7. NoEarlyFire'
    <2> SUFFICES ASSUME NEW x \in Timers, c'[x] # Empty PROVE c'[x] >= deadline[x]
      BY <1>0 DEF NoEarlyFire
    <2>1. CASE Pending(x) /\ deadline[x] <= now
      BY <1>0, <1>2, <1>5, <2>1 DEF fireLocked
    <2>2. CASE ~(Pending(x) /\ deadline[x] <= now)
      BY <1>2, <2>2 DEF ClockInv, NoEarlyFire
    <2> QED
      BY <2>1, <2>2
  <1>8. PendingIsAhead'
    BY <1>0, <1>1 DEF PendingIsAhead
  <1> QED
    BY <1>3, <1>6, <1>7, <1>8 DEF ClockInv

\* Stop takes a timer out of the list, and says whether there will be a fire.
LEMMA StopStep == ClockInv /\ Stop => ClockInv'
  <1> SUFFICES ASSUME ClockInv, Stop PROVE ClockInv'
    OBVIOUS
  <1>1. PICK x \in Timers :
          /\ timers' = RemoveFirst(timers, x)
          /\ fate' = [fate EXCEPT ![x] = IF Pending(x) THEN "stopped" ELSE @]
          /\ UNCHANGED << t, deadline, c >>
    BY DEF Stop, removeLocked
  <1>2. /\ timers' \in Seq(Timers) /\ IsInjective(timers')
        /\ \A y : Pending(y)' <=> Pending(y) /\ y # x
    <2>1. timers \in Seq(Timers) /\ IsInjective(timers)
      BY DEF ClockInv, TypeOK
    <2> QED
      BY <1>1, <2>1, RemoveFirstRemoves DEF Pending
  <1>3. /\ fate' \in [Timers -> Fates]
        /\ fate'[x] = IF Pending(x) THEN "stopped" ELSE fate[x]
        /\ \A y \in Timers \ {x} : fate'[y] = fate[y]
    <2>1. fate \in [Timers -> Fates]
      BY DEF ClockInv, TypeOK
    <2> QED
      BY <1>1, <2>1 DEF Fates
  <1>4. TypeOK'
    BY <1>1, <1>2, <1>3 DEF ClockInv, TypeOK
  <1>5. EveryArmingHasOneFate'
    <2> SUFFICES ASSUME NEW y \in Timers
                 PROVE  IF fate'[y] = "due" THEN Pending(y)' # (c'[y] # Empty)
                                            ELSE ~Pending(y)' /\ c'[y] = Empty
      BY DEF EveryArmingHasOneFate
    <2>0. IF fate[y] = "due" THEN Pending(y) # (c[y] # Empty)
                             ELSE ~Pending(y) /\ c[y] = Empty
      BY DEF ClockInv, EveryArmingHasOneFate
    <2>1. CASE y = x /\ Pending(x)
      <3>1. fate'[y] = "stopped" /\ ~Pending(y)' /\ c'[y] = c[y]
        BY <1>1, <1>2, <1>3, <2>1
      <3> QED
        BY <2>0, <2>1, <3>1
    <2>2. CASE ~(y = x /\ Pending(x))
      <3>1. fate'[y] = fate[y] /\ (Pending(y)' <=> Pending(y)) /\ c'[y] = c[y]
        BY <1>1, <1>2, <1>3, <2>2
      <3> QED
        BY <2>0, <3>1 DEF Pending, Contains
    <2> QED
      BY <2>1, <2>2
  <1>6. NoEarlyFire' /\ PendingIsAhead'
    BY <1>1, <1>2 DEF ClockInv, NoEarlyFire, PendingIsAhead
  <1> QED
    BY <1>4, <1>5, <1>6 DEF ClockInv

\* The owner takes the fire of a timer that is then neither listed nor due.
LEMMA ReceiveStep == ClockInv /\ Receive => ClockInv'
  <1> SUFFICES ASSUME ClockInv, Receive PROVE ClockInv'
    OBVIOUS
  <1>1. PICK x \in Timers :
          /\ c[x] # Empty
          /\ c' = [c EXCEPT ![x] = Empty]
          /\ fate' = [fate EXCEPT ![x] = "received"]
          /\ UNCHANGED << t, timers, deadline >>
    BY DEF Receive
  <1>2. /\ c' \in [Timers -> 0..MaxTime \cup {Empty}] /\ c'[x] = Empty
        /\ \A y \in Timers \ {x} : c'[y] = c[y]
    BY <1>1 DEF ClockInv, TypeOK
  <1>3. /\ fate' \in [Timers -> Fates] /\ fate'[x] = "received"
        /\ \A y \in Timers \ {x} : fate'[y] = fate[y]
    BY <1>1 DEF ClockInv, TypeOK, Fates
  <1>4. \A y : Pending(y)' <=> Pending(y)
    BY <1>1 DEF Pending
  <1>5. ~Pending(x)
    BY <1>1 DEF ClockInv, EveryArmingHasOneFate, Pending, Contains
  <1>6. TypeOK'
    BY <1>1, <1>2, <1>3 DEF ClockInv, TypeOK
  <1>7. EveryArmingHasOneFate'
    <2> SUFFICES ASSUME NEW y \in Timers
                 PROVE  IF fate'[y] = "due" THEN Pending(y)' # (c'[y] # Empty)
                                            ELSE ~Pending(y)' /\ c'[y] = Empty
      BY DEF EveryArmingHasOneFate
    <2>1. CASE y = x
      BY <1>2, <1>3, <1>4, <1>5, <2>1
    <2>2. CASE y # x
      <3>1. fate'[y] = fate[y] /\ (Pending(y)' <=> Pending(y)) /\ c'[y] = c[y]
        BY <1>2, <1>3, <1>4, <2>2
      <3>2. IF fate[y] = "due" THEN Pending(y) # (c[y] # Empty)
                               ELSE ~Pending(y) /\ c[y] = Empty
        BY DEF ClockInv, EveryArmingHasOneFate
      <3> QED
        BY <3>1, <3>2 DEF Pending, Contains
    <2> QED
      BY <2>1, <2>2
  <1>8. NoEarlyFire' /\ PendingIsAhead'
    BY <1>1, <1>2, <1>4 DEF ClockInv, NoEarlyFire, PendingIsAhead
  <1> QED
    BY <1>6, <1>7, <1>8 DEF ClockInv

\* Every method of the clock and of its timers preserves the invariant.
LEMMA NextClock == ClockInv /\ [Next]_vars => ClockInv'
  <1> SUFFICES ASSUME ClockInv, [Next]_vars PROVE ClockInv'
    OBVIOUS
  <1>0. timers \in Seq(Timers) /\ IsInjective(timers)
    BY DEF ClockInv, TypeOK
  <1>1. CASE NewTimer
    <2>1. PICK x \in Timers, d \in Durations :
            fate[x] = "unmade" /\ Arm(x, d, timers, Empty)
      BY <1>1 DEF NewTimer
    <2>2. ~Pending(x)
      BY <2>1 DEF ClockInv, EveryArmingHasOneFate
    <2>3. \A y : Contains(timers, y) <=> Pending(y) /\ y # x
      BY <2>2 DEF Pending
    <2> QED
      BY <1>0, <2>1, <2>3, ArmStep
  <1>2. CASE Reset
    <2>1. PICK x \in Timers, d \in Durations :
            Arm(x, d, RemoveFirst(timers, x), Empty)
      BY <1>2 DEF Reset, removeLocked, drain
    <2>2. /\ RemoveFirst(timers, x) \in Seq(Timers)
          /\ IsInjective(RemoveFirst(timers, x))
          /\ \A y : Contains(RemoveFirst(timers, x), y) <=> Pending(y) /\ y # x
      BY <1>0, RemoveFirstRemoves DEF Pending
    <2> QED
      BY <2>1, <2>2, ArmStep
  <1>3. CASE Stop
    BY <1>3, StopStep
  <1>4. CASE Advance \/ Set
    BY <1>4, MoveStep DEF Advance, Set
  <1>5. CASE Receive
    BY <1>5, ReceiveStep
  <1>6. CASE UNCHANGED vars
    BY <1>6 DEF vars, ClockInv, TypeOK, EveryArmingHasOneFate, NoEarlyFire,
                PendingIsAhead, Pending
  <1> QED
    BY <1>1, <1>2, <1>3, <1>4, <1>5, <1>6 DEF Next

\* ClockInv is an invariant of the clock and its timers.
THEOREM ClockInvariant == Spec => []ClockInv
  BY InitClock, NextClock, PTL DEF Spec

\* Every variable keeps its type and no timer is ever listed twice.
THEOREM TypeCorrect == Spec => []TypeOK
  <1>1. ClockInv => TypeOK
    BY DEF ClockInv
  <1> QED
    BY <1>1, ClockInvariant, PTL

\* Every arming of a timer ends in exactly one of a fire and a stop.
THEOREM OneFatePerArming == Spec => []EveryArmingHasOneFate
  <1>1. ClockInv => EveryArmingHasOneFate
    BY DEF ClockInv
  <1> QED
    BY <1>1, ClockInvariant, PTL

\* No timer fires before the deadline of its last arming.
THEOREM FiresInTime == Spec => []NoEarlyFire
  <1>1. ClockInv => NoEarlyFire
    BY DEF ClockInv
  <1> QED
    BY <1>1, ClockInvariant, PTL

\* A timer still pending is ahead of the clock.
THEOREM PendingAhead == Spec => []PendingIsAhead
  <1>1. ClockInv => PendingIsAhead
    BY DEF ClockInv
  <1> QED
    BY <1>1, ClockInvariant, PTL
=============================================================================
