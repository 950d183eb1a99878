--------------------------- MODULE CppMonitor_proofs ---------------------------
(***************************************************************************)
(* Proofs about a metric of the C++ monitor: one chain of timers, and what *)
(* a late sample may still hope for, for any number of threads and samples,*)
(* however late the pool runs.                                             *)
(***************************************************************************)
EXTENDS CppMonitor, FiniteSetTheorems, SequenceTheorems, WellFoundedInduction, TLAPS

TypeOK ==
  /\ now \in Nat /\ running \in BOOLEAN /\ stop \in {"idle", "aggs", "join", "stopped"}
  /\ pc \in [Putters -> {"idle", "find", "insert", "put"}] /\ stamp \in [Putters -> Nat]
  /\ present \in BOOLEAN /\ active \in BOOLEAN /\ waits \in Nat /\ expires \in Nat
  /\ cur \in Nat \cup {Idle}
  /\ buffer \in Seq(Nat)
  /\ samples \in Seq([at : Nat, after : Nat])
  /\ ticks \in Seq([at : Nat, counted : SUBSET Nat])

\* A metric that is not there has no timer.
Chain == OneTimer /\ (~present => waits = 0 /\ cur = Idle /\ ~active)

\* Nothing is stamped in the future, and ticks run in order.
Clock ==
  /\ \A p \in Putters : stamp[p] <= Second(now)
  /\ \A i \in DOMAIN samples : Stamp(i) <= Second(now)
  /\ cur # Idle => cur <= Second(now)
  /\ \A k \in DOMAIN ticks : ticks[k].at <= Second(now) /\ (cur # Idle => ticks[k].at <= cur)
  /\ \A j, k \in DOMAIN ticks : j <= k => ticks[j].at <= ticks[k].at

\* Such a sequence holds the youngest samples, in the order they were put; the
\* buffer is one.
Youngest(q) ==
  /\ Len(q) <= Len(samples)
  /\ \A x \in 1 .. Len(q) : q[x] = Len(samples) - Len(q) + x

\* A tick that begins after a sample was put is not older than the sample, nor
\* than those put before it.
Causal ==
  \A i \in DOMAIN samples :
    /\ samples[i].after <= Started
    /\ \A b \in 1 .. i :
         /\ \A k \in DOMAIN ticks : k > samples[i].after => Stamp(b) <= ticks[k].at
         /\ cur # Idle /\ Len(ticks) + 1 > samples[i].after => Stamp(b) <= cur

\* Every tick so far ran in second s or before it.
UpTo(s) == \A k \in DOMAIN ticks : ticks[k].at <= s

WasCounted(i) == \E k \in DOMAIN ticks : i \in ticks[k].counted

\* No tick pops a sample before the second after the next.
Kept == \A i \in DOMAIN samples : UpTo(Stamp(i) + 1) => i \in ToSet(buffer)

\* A sample that a tick of the next second left out stands behind a younger one.
Blocked ==
  \A i \in DOMAIN samples :
    TickAfter(i, Stamp(i) + 1) /\ UpTo(Stamp(i) + 1) =>
      WasCounted(i) \/ \E b \in ToSet(buffer) : b < i /\ Stamp(b) >= Stamp(i) + 1

\* What a tick counted has before it in the buffer only what is older than the tick.
Spent ==
  \A k \in DOMAIN ticks : \A i \in ticks[k].counted :
    i \in DOMAIN samples /\ \A b \in ToSet(buffer) : b <= i => Stamp(b) < ticks[k].at

Inv ==
  TypeOK /\ Chain /\ Clock /\ Youngest(buffer) /\ Causal /\ Kept /\ Blocked /\ Spent /\ SamplesCounted
-----------------------------------------------------------------------------
\* A nonempty set of numbers has a smallest member.
LEMMA Smallest ==
  ASSUME NEW T \in SUBSET Nat, T # {}
  PROVE  Min(T) \in T /\ \A y \in T : Min(T) <= y
<1> DEFINE R == OpToRel(<, Nat)
<1>1. IsWellFoundedOn(R, Nat)
  BY NatLessThanWellFounded
<1>2. \A y, x \in Nat : y < x => <<y, x>> \in R
  BY DEF OpToRel
<1> HIDE DEF R
<1>3. PICK x \in T : \A y \in T : ~(<<y, x>> \in R)
  BY <1>1, WFMin
<1>4. \A y \in T : x <= y
  <2> SUFFICES ASSUME NEW y \in T PROVE x <= y
    OBVIOUS
  <2>1. x \in Nat /\ y \in Nat /\ ~(y < x)
    BY <1>2, <1>3
  <2> QED BY <2>1
<1>5. \E m \in T : \A y \in T : m <= y
  BY <1>4
<1> QED BY <1>5 DEF Min

\* The second of a later time is not earlier.
LEMMA SecondMonotone ==
  ASSUME NEW a \in Nat, NEW b \in Nat, a <= b
  PROVE  Second(a) \in Nat /\ Second(b) \in Nat /\ Second(a) <= Second(b)
<1>1. Sub \in Nat /\ Sub > 0
  BY WindowAssumption
<1>2. /\ a \div Sub \in Int /\ Sub * (a \div Sub) <= a /\ a < Sub * (a \div Sub) + Sub
      /\ b \div Sub \in Int /\ Sub * (b \div Sub) <= b /\ b < Sub * (b \div Sub) + Sub
  BY <1>1
<1> QED BY <1>1, <1>2 DEF Second

-----------------------------------------------------------------------------
LEMMA InitInv == Init => Inv
<1> SUFFICES ASSUME Init PROVE Inv
  OBVIOUS
<1>1. TypeOK
  <2>1. Sub \in Nat
    BY WindowAssumption
  <2>2. now \in Nat
    BY <2>1 DEF Init
  <2>3. buffer = <<>> /\ samples = <<>> /\ ticks = <<>>
    BY DEF Init
  <2>4. buffer \in Seq(Nat) /\ samples \in Seq([at : Nat, after : Nat])
        /\ ticks \in Seq([at : Nat, counted : SUBSET Nat])
    BY <2>3
  <2>5. pc \in [Putters -> {"idle", "find", "insert", "put"}] /\ stamp \in [Putters -> Nat]
    BY DEF Init
  <2> QED BY <2>2, <2>4, <2>5 DEF Init, TypeOK
<1>2. Chain
  BY DEF Init, Chain, OneTimer
<1>3. Second(now) \in Nat
  <2>1. now \in Nat
    BY <1>1 DEF TypeOK
  <2>2. now <= now
    BY <2>1
  <2> QED BY <2>1, <2>2, SecondMonotone
<1>4. Clock
  BY <1>3 DEF Init, Clock
<1>5. Youngest(buffer) /\ Causal /\ Kept /\ Blocked /\ Spent /\ SamplesCounted
  BY DEF Init, Youngest, Causal, Kept, Blocked, Spent, SamplesCounted
<1> QED BY <1>1, <1>2, <1>4, <1>5 DEF Inv
-----------------------------------------------------------------------------
LEMMA HistoryTyped ==
  ASSUME TypeOK
  PROVE  /\ Len(samples) \in Nat /\ DOMAIN samples = 1 .. Len(samples)
         /\ Len(ticks) \in Nat /\ DOMAIN ticks = 1 .. Len(ticks)
         /\ Started \in Nat /\ Started >= Len(ticks)
         /\ \A i \in 1 .. Len(samples) : Stamp(i) \in Nat /\ samples[i].at = Stamp(i) /\ samples[i].after \in Nat
         /\ \A k \in 1 .. Len(ticks) : ticks[k].at \in Nat /\ ticks[k].counted \in SUBSET Nat
<1> DEFINE R == [at : Nat, after : Nat]
<1> DEFINE T == [at : Nat, counted : SUBSET Nat]
<1>1. samples \in Seq(R) /\ ticks \in Seq(T)
  BY DEF TypeOK
<1>2. \A r \in R : r.at \in Nat /\ r.after \in Nat
  OBVIOUS
<1>3. \A t \in T : t.at \in Nat /\ t.counted \in SUBSET Nat
  OBVIOUS
<1> HIDE DEF R, T
<1>4. /\ Len(samples) \in Nat /\ DOMAIN samples = 1 .. Len(samples)
      /\ Len(ticks) \in Nat /\ DOMAIN ticks = 1 .. Len(ticks)
  BY <1>1
<1>5. \A i \in 1 .. Len(samples) : samples[i] \in R
  BY <1>1, ElementOfSeq
<1>6. \A k \in 1 .. Len(ticks) : ticks[k] \in T
  BY <1>1, ElementOfSeq
<1>7. Started \in Nat /\ Started >= Len(ticks)
  BY <1>4 DEF Started
<1> QED BY <1>2, <1>3, <1>4, <1>5, <1>6, <1>7 DEF Stamp

\* The members of such a sequence are the last places.
LEMMA YoungestMembers ==
  ASSUME TypeOK, NEW q \in Seq(Nat), Youngest(q)
  PROVE  /\ Len(q) \in Nat /\ Len(samples) \in Nat
         /\ \A i \in ToSet(q) : i \in 1 .. Len(samples) /\ i > Len(samples) - Len(q)
         /\ \A i \in 1 .. Len(samples) : i > Len(samples) - Len(q) => i \in ToSet(q)
<1>1. Len(q) \in Nat /\ Len(samples) \in Nat /\ DOMAIN q = 1 .. Len(q)
  BY DEF TypeOK
<1>2. Len(q) <= Len(samples) /\ \A x \in 1 .. Len(q) : q[x] = Len(samples) - Len(q) + x
  BY DEF Youngest
<1>3. ASSUME NEW i \in ToSet(q) PROVE i \in 1 .. Len(samples) /\ i > Len(samples) - Len(q)
  <2>1. PICK x \in 1 .. Len(q) : i = q[x]
    BY <1>1 DEF ToSet
  <2>2. i = Len(samples) - Len(q) + x
    BY <1>2, <2>1
  <2>3. x \in Int /\ 1 <= x /\ x <= Len(q)
    BY <1>1
  <2> QED BY <1>1, <1>2, <2>2, <2>3
<1>4. ASSUME NEW i \in 1 .. Len(samples), i > Len(samples) - Len(q) PROVE i \in ToSet(q)
  <2> DEFINE x == i - (Len(samples) - Len(q))
  <2>1. x \in 1 .. Len(q)
    BY <1>1, <1>4
  <2>2. q[x] = i
    <3>1. q[x] = Len(samples) - Len(q) + x
      BY <1>2, <2>1
    <3> QED BY <1>1, <3>1
  <2> QED BY <1>1, <2>1, <2>2 DEF ToSet
<1> QED BY <1>1, <1>3, <1>4

\* A tail of such a sequence is one.
LEMMA YoungestTail ==
  ASSUME TypeOK, NEW q \in Seq(Nat), Youngest(q), NEW e \in 1 .. Len(q)
  PROVE  LET u == SubSeq(q, e, Len(q))
         IN  /\ u \in Seq(Nat) /\ Youngest(u) /\ Len(u) = Len(q) - e + 1
             /\ \A x \in 1 .. Len(u) : u[x] = q[e + x - 1]
<1> DEFINE u == SubSeq(q, e, Len(q))
<1>1. Len(q) \in Nat /\ Len(samples) \in Nat /\ e \in Nat /\ 1 <= e /\ e <= Len(q)
  BY DEF TypeOK
<1>2. /\ u \in Seq(Nat) /\ Len(u) = Len(q) - e + 1
      /\ \A x \in 1 .. Len(q) - e + 1 : u[x] = q[e + x - 1]
  <2>1. e \in Int /\ Len(q) \in Int /\ e <= Len(q)
    BY <1>1
  <2>2. \A i \in e .. Len(q) : q[i] \in Nat
    BY <1>1
  <2>3. u \in Seq(Nat)
    BY <2>1, <2>2, SubSeqProperties
  <2>4. Len(u) = Len(q) - e + 1
    BY <2>1, <2>2, SubSeqProperties
  <2>5. \A x \in 1 .. Len(q) - e + 1 : u[x] = q[e + x - 1]
    <3>1. \A x \in 1 .. Len(q) - e + 1 : SubSeq(q, e, Len(q))[x] = q[e + x - 1]
      BY <2>1, <2>2, SubSeqProperties
    <3> QED BY <3>1
  <2> QED BY <2>3, <2>4, <2>5
<1> HIDE DEF u
<1>3. Len(q) <= Len(samples) /\ \A x \in 1 .. Len(q) : q[x] = Len(samples) - Len(q) + x
  BY DEF Youngest
<1>4. ASSUME NEW x \in 1 .. Len(u) PROVE u[x] = Len(samples) - Len(u) + x
  <2>1. e + x - 1 \in 1 .. Len(q) /\ x \in Int
    BY <1>1, <1>2
  <2>2. u[x] = Len(samples) - Len(q) + (e + x - 1)
    BY <1>2, <1>3, <2>1
  <2> QED BY <1>1, <1>2, <2>1, <2>2
<1>5. Len(u) <= Len(samples)
  BY <1>1, <1>2, <1>3
<1> QED BY <1>2, <1>4, <1>5 DEF Youngest, u

\* What a tick at cur keeps: everything from the first sample that is not older
\* than the second before.
LEMMA UnexpiredProperties ==
  ASSUME TypeOK, Youngest(buffer), cur \in Nat
  PROVE  /\ Unexpired \in Seq(Nat) /\ Youngest(Unexpired)
         /\ ToSet(Unexpired) \subseteq ToSet(buffer)
         /\ \A i \in ToSet(Unexpired) : \E b \in ToSet(Unexpired) : b <= i /\ Stamp(b) >= cur - 1
         /\ \A i, b \in ToSet(buffer) : b <= i /\ Stamp(b) >= cur - 1 => i \in ToSet(Unexpired)
<1> DEFINE n == Len(buffer)
<1> DEFINE I == {x \in 1 .. n : Stamp(buffer[x]) >= cur - 1}
<1>1. Expired = IF I # {} THEN Min(I) ELSE 0
  BY DEF Expired, SelectInSeq
<1>2. /\ buffer \in Seq(Nat) /\ n \in Nat /\ Len(samples) \in Nat /\ DOMAIN buffer = 1 .. n
      /\ n <= Len(samples) /\ \A x \in 1 .. n : buffer[x] = Len(samples) - n + x
  BY DEF TypeOK, Youngest
<1>3. CASE I = {}
  <2>1. Unexpired = <<>>
    BY <1>1, <1>3 DEF Unexpired
  <2>2. ToSet(Unexpired) = {}
    BY <2>1 DEF ToSet
  <2>3. Unexpired \in Seq(Nat) /\ Youngest(Unexpired)
    BY <1>2, <2>1 DEF Youngest
  <2>4. ASSUME NEW b \in ToSet(buffer) PROVE ~(Stamp(b) >= cur - 1)
    <3>1. PICK x \in 1 .. n : b = buffer[x]
      BY <1>2 DEF ToSet
    <3> QED BY <1>3, <3>1
  <2> QED BY <2>2, <2>3, <2>4
<1>4. CASE I # {}
  <2> DEFINE e == Min(I)
  <2>1. I \in SUBSET Nat
    BY <1>2
  <2>2. e \in I /\ \A y \in I : e <= y
    BY <1>4, <2>1, Smallest
  <2>3. e \in 1 .. n /\ Stamp(buffer[e]) >= cur - 1 /\ Expired = e
    BY <1>1, <1>4, <2>2
  <2> HIDE DEF e
  <2>4. Unexpired = SubSeq(buffer, e, n)
    BY <2>3 DEF Unexpired
  <2>5. /\ Unexpired \in Seq(Nat) /\ Youngest(Unexpired) /\ Len(Unexpired) = n - e + 1
        /\ \A x \in 1 .. Len(Unexpired) : Unexpired[x] = buffer[e + x - 1]
    BY <1>2, <2>3, <2>4, YoungestTail
  <2>6. /\ \A i \in ToSet(Unexpired) : i \in 1 .. Len(samples) /\ i > Len(samples) - (n - e + 1)
        /\ \A i \in 1 .. Len(samples) : i > Len(samples) - (n - e + 1) => i \in ToSet(Unexpired)
    BY <2>5, YoungestMembers
  <2>7. /\ \A i \in ToSet(buffer) : i \in 1 .. Len(samples) /\ i > Len(samples) - n
        /\ \A i \in 1 .. Len(samples) : i > Len(samples) - n => i \in ToSet(buffer)
    BY <1>2, YoungestMembers
  <2>8. buffer[e] = Len(samples) - n + e /\ buffer[e] \in 1 .. Len(samples)
    BY <1>2, <2>3
  <2>9. ToSet(Unexpired) \subseteq ToSet(buffer)
    BY <1>2, <2>3, <2>6, <2>7
  <2>10. ASSUME NEW i \in ToSet(Unexpired) PROVE \E b \in ToSet(Unexpired) : b <= i /\ Stamp(b) >= cur - 1
    <3>1. buffer[e] \in ToSet(Unexpired)
      BY <1>2, <2>3, <2>6, <2>8
    <3>2. buffer[e] <= i
      BY <1>2, <2>3, <2>6, <2>8
    <3> QED BY <2>3, <3>1, <3>2
  <2>11. ASSUME NEW i \in ToSet(buffer), NEW b \in ToSet(buffer), b <= i, Stamp(b) >= cur - 1
         PROVE  i \in ToSet(Unexpired)
    <3>1. PICK x \in 1 .. n : b = buffer[x]
      BY <1>2 DEF ToSet
    <3>2. x \in I
      BY <2>11, <3>1
    <3>3. e <= x /\ b = Len(samples) - n + x /\ x \in Nat
      BY <1>2, <2>2, <3>1, <3>2 DEF e
    <3>4. i \in 1 .. Len(samples) /\ i >= Len(samples) - n + e
      BY <1>2, <2>3, <2>7, <2>11, <3>3
    <3> QED BY <1>2, <2>3, <2>6, <3>4
  <2> QED BY <2>5, <2>9, <2>10, <2>11
<1> QED BY <1>3, <1>4

\* What it counts of that: everything before the first sample of its own second.
LEMMA CountedProperties ==
  ASSUME TypeOK, Youngest(buffer), cur \in Nat
  PROVE  /\ Counted \subseteq ToSet(Unexpired)
         /\ \A i \in Counted : \A b \in ToSet(Unexpired) : b <= i => Stamp(b) < cur
         /\ \A i \in ToSet(Unexpired) \ Counted : \E b \in ToSet(Unexpired) : b <= i /\ Stamp(b) >= cur
<1> DEFINE U == Unexpired
<1> DEFINE n == Len(U)
<1> DEFINE I == {x \in 1 .. n : Stamp(U[x]) >= cur}
<1> DEFINE end == IF I # {} THEN Min(I) ELSE 0
<1>1. Counted = ToSet(IF end = 0 THEN U ELSE SubSeq(U, 1, end - 1))
  BY DEF Counted, SelectInSeq
<1>2. U \in Seq(Nat) /\ Youngest(U)
  BY UnexpiredProperties
<1> HIDE DEF U
<1>3. /\ n \in Nat /\ Len(samples) \in Nat /\ DOMAIN U = 1 .. n
      /\ n <= Len(samples) /\ \A x \in 1 .. n : U[x] = Len(samples) - n + x
  BY <1>2 DEF TypeOK, Youngest
<1>4. \A b \in ToSet(U) : Stamp(b) \in Int
  <2> SUFFICES ASSUME NEW b \in ToSet(U) PROVE Stamp(b) \in Int
    OBVIOUS
  <2>1. b \in 1 .. Len(samples)
    BY <1>2, YoungestMembers
  <2> QED BY <2>1, HistoryTyped
<1>5. CASE I = {}
  <2>1. Counted = ToSet(U)
    BY <1>1, <1>5
  <2>2. ASSUME NEW b \in ToSet(U) PROVE Stamp(b) < cur
    <3>1. PICK x \in 1 .. n : b = U[x]
      BY <1>3 DEF ToSet
    <3>2. ~(Stamp(b) >= cur)
      BY <1>5, <3>1
    <3> QED BY <1>4, <3>2
  <2> QED BY <2>1, <2>2 DEF U
<1>6. CASE I # {}
  <2>1. I \in SUBSET Nat
    BY <1>3
  <2>2. end \in I /\ \A y \in I : end <= y
    BY <1>6, <2>1, Smallest
  <2> HIDE DEF end
  <2>3. end \in 1 .. n /\ Stamp(U[end]) >= cur
    BY <2>2
  <2> DEFINE F == SubSeq(U, 1, end - 1)
  <2>4. Counted = ToSet(F)
    BY <1>1, <2>3
  <2>5. F \in Seq(Nat) /\ Len(F) = end - 1 /\ \A x \in 1 .. end - 1 : F[x] = U[x]
    BY <1>2, <1>3, <2>3, SubSeqProperties
  <2> HIDE DEF F
  <2>6. DOMAIN F = 1 .. end - 1
    BY <2>5
  <2>7. ASSUME NEW i \in Counted
        PROVE  i \in ToSet(U) /\ \A b \in ToSet(U) : b <= i => Stamp(b) < cur
    <3>1. PICK x \in 1 .. end - 1 : i = U[x]
      BY <2>4, <2>5, <2>6 DEF ToSet
    <3>2. x \in 1 .. n /\ x < end /\ x \in Int
      BY <1>3, <2>3, <3>1
    <3>3. i \in ToSet(U)
      BY <1>3, <3>1, <3>2 DEF ToSet
    <3>4. ASSUME NEW b \in ToSet(U), b <= i PROVE Stamp(b) < cur
      <4>1. PICK y \in 1 .. n : b = U[y]
        BY <1>3 DEF ToSet
      <4>2. y <= x
        BY <1>3, <3>1, <3>2, <3>4, <4>1
      <4>3. y \notin I
        BY <2>2, <2>3, <3>2, <4>2
      <4>4. ~(Stamp(b) >= cur)
        BY <4>1, <4>3
      <4> QED BY <1>4, <4>4
    <3> QED BY <3>3, <3>4
  <2>8. ASSUME NEW i \in ToSet(U) \ Counted
        PROVE  \E b \in ToSet(U) : b <= i /\ Stamp(b) >= cur
    <3>1. PICK x \in 1 .. n : i = U[x]
      BY <1>3 DEF ToSet
    <3>2. x \notin 1 .. end - 1
      <4> SUFFICES ASSUME x \in 1 .. end - 1 PROVE FALSE
        OBVIOUS
      <4>1. i = F[x]
        BY <2>5, <3>1
      <4> QED BY <2>4, <2>6, <2>8, <4>1 DEF ToSet
    <3>3. U[end] \in ToSet(U)
      BY <1>3, <2>3 DEF ToSet
    <3>4. U[end] <= i
      BY <1>3, <2>3, <3>1, <3>2
    <3> QED BY <2>3, <3>3, <3>4
  <2> QED BY <2>7, <2>8 DEF U
<1> QED BY <1>5, <1>6
-----------------------------------------------------------------------------
LEMMA NowTyped ==
  ASSUME TypeOK
  PROVE  now \in Nat /\ Second(now) \in Nat
<1>1. now \in Nat /\ now <= now
  BY DEF TypeOK
<1> QED BY <1>1, SecondMonotone

\* A step that leaves the samples, the ticks and the buffer alone.
LEMMA QuietStep ==
  ASSUME Inv, UNCHANGED <<samples, ticks, buffer, cur>>, TypeOK', Chain', Clock'
  PROVE  Inv'
<1>1. samples' = samples /\ ticks' = ticks /\ buffer' = buffer /\ cur' = cur
  OBVIOUS
<1>2. Youngest(buffer)'
  BY <1>1 DEF Inv, Youngest
<1>3. Causal'
  BY <1>1 DEF Inv, Causal, Stamp, Started
<1>4. Kept'
  BY <1>1 DEF Inv, Kept, UpTo, Stamp
<1>5. Blocked'
  BY <1>1 DEF Inv, Blocked, UpTo, Stamp, TickAfter, WasCounted
<1>6. Spent'
  BY <1>1 DEF Inv, Spent, Stamp
<1>7. SamplesCounted'
  BY <1>1 DEF Inv, SamplesCounted, TickAfter, Stamp
<1> QED BY <1>2, <1>3, <1>4, <1>5, <1>6, <1>7 DEF Inv

LEMMA AdvanceStep == Inv /\ Advance => Inv'
<1> SUFFICES ASSUME Inv, Advance PROVE Inv'
  OBVIOUS
<1>1. /\ now' = now + 1
      /\ UNCHANGED <<stopVars, putVars, timerVars, cur, buffer, samples, ticks>>
  BY DEF Advance
<1>2. TypeOK'
  BY <1>1 DEF Inv, TypeOK, stopVars, putVars, timerVars
<1>3. Chain'
  BY <1>1 DEF Inv, Chain, OneTimer, timerVars
<1>4. Second(now) \in Nat /\ Second(now') \in Nat /\ Second(now) <= Second(now')
  <2>1. now \in Nat /\ now' \in Nat /\ now <= now'
    BY <1>1 DEF Inv, TypeOK
  <2> QED BY <2>1, SecondMonotone
<1>5. Clock'
  <2>1. /\ samples' = samples /\ ticks' = ticks /\ cur' = cur /\ stamp' = stamp
    BY <1>1 DEF putVars
  <2>2. Second(now)' = Second(now')
    BY DEF Second
  <2>3. ASSUME NEW p \in Putters PROVE stamp'[p] <= Second(now')
    <3>1. stamp[p] \in Nat /\ stamp[p] <= Second(now)
      BY DEF Inv, TypeOK, Clock
    <3> QED BY <1>4, <2>1, <3>1
  <2>4. ASSUME NEW i \in DOMAIN samples PROVE Stamp(i) <= Second(now')
    <3>1. Stamp(i) \in Nat /\ Stamp(i) <= Second(now)
      BY HistoryTyped DEF Inv, Clock
    <3> QED BY <1>4, <3>1
  <2>5. cur # Idle => cur <= Second(now')
    BY <1>4 DEF Inv, TypeOK, Clock
  <2>6. ASSUME NEW k \in DOMAIN ticks PROVE ticks[k].at <= Second(now')
    <3>1. ticks[k].at \in Nat /\ ticks[k].at <= Second(now)
      BY HistoryTyped DEF Inv, Clock
    <3> QED BY <1>4, <3>1
  <2>7. /\ \A k \in DOMAIN ticks : cur # Idle => ticks[k].at <= cur
        /\ \A j, k \in DOMAIN ticks : j <= k => ticks[j].at <= ticks[k].at
    BY DEF Inv, Clock
  <2> QED BY <2>1, <2>2, <2>3, <2>4, <2>5, <2>6, <2>7 DEF Clock, Stamp
<1> QED BY <1>1, <1>2, <1>3, <1>5, QuietStep

\* Steps that leave the clock alone too, and stamp nothing.
LEMMA ClockStep ==
  ASSUME Inv, UNCHANGED <<now, samples, ticks, cur>>,
         stamp' \in [Putters -> Nat], \A p \in Putters : stamp'[p] \in {stamp[p], Second(now)}
  PROVE  Clock'
<1>1. now' = now /\ samples' = samples /\ ticks' = ticks /\ cur' = cur
  OBVIOUS
<1>2. Second(now) \in Nat
  BY NowTyped DEF Inv
<1>3. ASSUME NEW p \in Putters PROVE stamp'[p] <= Second(now)
  <2>1. stamp[p] <= Second(now)
    BY DEF Inv, Clock
  <2> QED BY <1>2, <2>1
<1> QED BY <1>1, <1>3 DEF Inv, Clock, Second, Stamp

LEMMA EnterStep ==
  ASSUME Inv, NEW p \in Putters, Enter(p)
  PROVE  Inv'
<1>1. /\ pc' = [pc EXCEPT ![p] = "find"] /\ stamp' = [stamp EXCEPT ![p] = Second(now)]
      /\ UNCHANGED <<now, stopVars, timerVars, cur, buffer, samples, ticks>>
  BY DEF Enter
<1>2. Second(now) \in Nat
  BY NowTyped DEF Inv
<1>3. TypeOK'
  BY <1>1, <1>2 DEF Inv, TypeOK, stopVars, timerVars
<1>4. Chain'
  BY <1>1 DEF Inv, Chain, OneTimer, timerVars
<1>5. \A q \in Putters : stamp'[q] \in {stamp[q], Second(now)}
  BY <1>1 DEF Inv, TypeOK
<1>6. stamp' \in [Putters -> Nat]
  BY <1>3 DEF TypeOK
<1>7. Clock'
  BY <1>1, <1>5, <1>6, ClockStep
<1> QED BY <1>1, <1>3, <1>4, <1>7, QuietStep

LEMMA FindStep ==
  ASSUME Inv, NEW p \in Putters, Find(p)
  PROVE  Inv'
<1>1. /\ pc' = [pc EXCEPT ![p] = IF present THEN "put" ELSE "insert"]
      /\ UNCHANGED <<now, stopVars, stamp, timerVars, cur, buffer, samples, ticks>>
  BY DEF Find
<1>2. TypeOK'
  BY <1>1 DEF Inv, TypeOK, stopVars, timerVars
<1>3. Chain'
  BY <1>1 DEF Inv, Chain, OneTimer, timerVars
<1>4. Clock'
  BY <1>1, ClockStep DEF Inv, TypeOK
<1> QED BY <1>1, <1>2, <1>3, <1>4, QuietStep

\* The second lookup is what keeps a metric from getting a second timer.
LEMMA InsertStep ==
  ASSUME Inv, NEW p \in Putters, Insert(p)
  PROVE  Inv'
<1>1. /\ pc' = [pc EXCEPT ![p] = "put"]
      /\ UNCHANGED <<now, stopVars, stamp, cur, buffer, samples, ticks>>
  BY DEF Insert
<1>2. IF present THEN UNCHANGED timerVars
      ELSE present' = TRUE /\ active' = TRUE /\ waits' = waits + 1 /\ expires' = now + Sub
  BY DEF Insert, Start
<1>3. Sub \in Nat
  BY WindowAssumption
<1>4. TypeOK'
  <2>1. present' \in BOOLEAN /\ active' \in BOOLEAN /\ waits' \in Nat /\ expires' \in Nat
    <3>1. present \in BOOLEAN /\ active \in BOOLEAN /\ waits \in Nat /\ expires \in Nat /\ now \in Nat
      BY DEF Inv, TypeOK
    <3>2. CASE present
      BY <1>2, <3>1, <3>2 DEF timerVars
    <3>3. CASE ~present
      BY <1>2, <1>3, <3>1, <3>3
    <3> QED BY <3>2, <3>3
  <2> QED BY <1>1, <2>1 DEF Inv, TypeOK, stopVars
<1>5. Chain'
  <2>1. CASE present
    BY <1>1, <1>2, <2>1 DEF Inv, Chain, OneTimer, timerVars
  <2>2. CASE ~present
    BY <1>1, <1>2, <2>2 DEF Inv, Chain, OneTimer
  <2> QED BY <2>1, <2>2
<1>6. Clock'
  BY <1>1, ClockStep DEF Inv, TypeOK
<1> QED BY <1>1, <1>4, <1>5, <1>6, QuietStep

LEMMA StopStep ==
  ASSUME Inv, StopFlag \/ StopAggs \/ StopJoin
  PROVE  Inv'
<1>1. UNCHANGED <<now, stamp, pc, present, waits, expires, cur, buffer, samples, ticks>>
  BY DEF StopFlag, StopAggs, StopJoin, putVars, timerVars
<1>2. active' \in {active, FALSE} /\ running' \in {running, FALSE}
      /\ stop' \in {"aggs", "join", "stopped"}
  BY DEF StopFlag, StopAggs, StopJoin, timerVars
<1>3. TypeOK'
  BY <1>1, <1>2 DEF Inv, TypeOK
<1>4. Chain'
  <2>1. CASE active' = active
    BY <1>1, <2>1 DEF Inv, Chain, OneTimer
  <2>2. CASE active' = FALSE
    BY <1>1, <2>2 DEF Inv, Chain, OneTimer
  <2> QED BY <1>2, <2>1, <2>2
<1>5. Clock'
  BY <1>1, ClockStep DEF Inv, TypeOK
<1> QED BY <1>1, <1>3, <1>4, <1>5, QuietStep

\* A tick begins: every sample so far was stamped before.
LEMMA FireStep ==
  ASSUME Inv, Fire
  PROVE  Inv'
<1>1. /\ waits > 0 /\ cur = Idle /\ waits' = waits - 1
      /\ UNCHANGED <<now, stopVars, putVars, present, active, expires, buffer, samples, ticks>>
      /\ IF active THEN cur' = Second(now) ELSE cur' = cur
  BY DEF Fire
<1>2. Second(now) \in Nat
  BY NowTyped DEF Inv
<1>3. TypeOK'
  BY <1>1, <1>2 DEF Inv, TypeOK, stopVars, putVars
<1>4. Chain'
  <2>1. Second(now) # Idle
    BY <1>2, IdleAssumption
  <2>2. CASE active
    BY <1>1, <2>1, <2>2 DEF Inv, TypeOK, Chain, OneTimer
  <2>3. CASE ~active
    BY <1>1, <2>3 DEF Inv, TypeOK, Chain, OneTimer
  <2> QED BY <2>2, <2>3
<1>5. CASE ~active
  <2>1. UNCHANGED <<now, stamp, samples, ticks, buffer, cur>>
    BY <1>1, <1>5 DEF putVars
  <2>2. Clock'
    BY <2>1, ClockStep DEF Inv, TypeOK
  <2> QED BY <1>3, <1>4, <2>1, <2>2, QuietStep
<1>6. CASE active
  <2>1. /\ cur' = Second(now) /\ now' = now /\ stamp' = stamp /\ samples' = samples
        /\ ticks' = ticks /\ buffer' = buffer
    BY <1>1, <1>6 DEF putVars
  <2>2. Clock'
    BY <1>2, <2>1 DEF Inv, Clock, Second, Stamp
  <2>3. Youngest(buffer)' /\ Kept' /\ Blocked' /\ Spent' /\ SamplesCounted'
    BY <2>1 DEF Inv, Youngest, Kept, Blocked, Spent, SamplesCounted, UpTo, Stamp, TickAfter, WasCounted
  <2>4. Started' \in Nat /\ Started' >= Started
    <3>1. Len(ticks) \in Nat
      BY HistoryTyped DEF Inv
    <3>2. Started = Len(ticks)
      BY <1>1 DEF Started
    <3>3. Started' = Len(ticks) + 1
      BY <1>2, <2>1, IdleAssumption DEF Started
    <3> QED BY <3>1, <3>2, <3>3
  <2>5. ASSUME NEW i \in DOMAIN samples
        PROVE  /\ samples[i].after <= Started'
               /\ \A b \in 1 .. i : /\ \A k \in DOMAIN ticks : k > samples[i].after => Stamp(b) <= ticks[k].at
                                    /\ Stamp(b) <= cur'
    <3>1. samples[i].after <= Started'
      <4>1. samples[i].after \in Nat /\ Started \in Nat /\ samples[i].after <= Started
        BY HistoryTyped DEF Inv, Causal
      <4> QED BY <2>4, <4>1
    <3>2. ASSUME NEW b \in 1 .. i PROVE Stamp(b) <= cur'
      <4>1. b \in DOMAIN samples
        BY HistoryTyped DEF Inv
      <4> QED BY <2>1, <4>1 DEF Inv, Clock
    <3> QED BY <3>1, <3>2 DEF Inv, Causal
  <2>6. Causal'
    BY <2>1, <2>5 DEF Causal, Stamp
  <2> QED BY <1>3, <1>4, <2>2, <2>3, <2>6 DEF Inv
<1> QED BY <1>5, <1>6

\* A sample is put at the end of the samples and of the buffer.
LEMMA PutData ==
  ASSUME Inv, NEW p \in Putters, Put(p)
  PROVE  LET N == Len(samples) + 1
         IN  /\ samples' \in Seq([at : Nat, after : Nat]) /\ Len(samples') = N
             /\ \A i \in 1 .. Len(samples) : samples'[i] = samples[i]
             /\ samples'[N].at = stamp[p] /\ samples'[N].after = Started
             /\ buffer' \in Seq(Nat) /\ ToSet(buffer') = ToSet(buffer) \cup {N}
             /\ Youngest(buffer)'
<1> DEFINE N == Len(samples) + 1
<1> DEFINE R == [at : Nat, after : Nat]
<1> DEFINE new == [at |-> stamp[p], after |-> Started]
<1>1. samples' = Append(samples, new) /\ buffer' = Append(buffer, N)
  BY DEF Put
<1>2. samples \in Seq(R) /\ buffer \in Seq(Nat) /\ stamp[p] \in Nat /\ Started \in Nat /\ N \in Nat
  BY HistoryTyped DEF Inv, TypeOK
<1>3. new \in R /\ new.at = stamp[p] /\ new.after = Started
  BY <1>2
<1> HIDE DEF R, new
<1>4. samples' \in Seq(R) /\ Len(samples') = N
  BY <1>1, <1>2, <1>3, AppendProperties
<1>5. \A i \in 1 .. Len(samples) : samples'[i] = samples[i]
  BY <1>1, <1>2, <1>3, AppendProperties
<1>6. samples'[N] = new
  <2>1. Append(samples, new)[Len(samples) + 1] = new
    BY <1>2, <1>3, AppendProperties
  <2> QED BY <1>1, <2>1
<1>7. Len(buffer) \in Nat /\ Len(samples) \in Nat /\ DOMAIN buffer = 1 .. Len(buffer)
  BY <1>2, HistoryTyped DEF Inv
<1> HIDE DEF N
<1>8. /\ buffer' \in Seq(Nat) /\ Len(buffer') = Len(buffer) + 1
      /\ \A x \in 1 .. Len(buffer) : buffer'[x] = buffer[x]
      /\ buffer'[Len(buffer) + 1] = N
  BY <1>1, <1>2, AppendProperties
<1>9. ToSet(buffer') = ToSet(buffer) \cup {N}
  <2>1. DOMAIN buffer' = 1 .. Len(buffer) + 1
    BY <1>8
  <2>2. ASSUME NEW b \in ToSet(buffer') PROVE b \in ToSet(buffer) \cup {N}
    <3>1. PICK x \in 1 .. Len(buffer) + 1 : b = buffer'[x]
      BY <2>1 DEF ToSet
    <3>2. CASE x \in 1 .. Len(buffer)
      BY <1>7, <1>8, <3>1, <3>2 DEF ToSet
    <3>3. CASE x = Len(buffer) + 1
      BY <1>8, <3>1, <3>3
    <3> QED BY <1>7, <3>2, <3>3
  <2>3. ASSUME NEW b \in ToSet(buffer) PROVE b \in ToSet(buffer')
    <3>1. PICK x \in 1 .. Len(buffer) : b = buffer[x]
      BY <1>7 DEF ToSet
    <3>2. x \in DOMAIN buffer' /\ buffer'[x] = b
      BY <1>7, <1>8, <2>1, <3>1
    <3> QED BY <3>2 DEF ToSet
  <2>4. N \in ToSet(buffer')
    <3>1. Len(buffer) + 1 \in DOMAIN buffer'
      BY <1>7, <2>1
    <3> QED BY <1>8, <3>1 DEF ToSet
  <2> QED BY <2>2, <2>3, <2>4
<1>10. Youngest(buffer)'
  <2>1. Len(buffer) <= Len(samples) /\ \A x \in 1 .. Len(buffer) : buffer[x] = Len(samples) - Len(buffer) + x
    BY DEF Inv, Youngest
  <2>2. Len(buffer') <= Len(samples')
    BY <1>4, <1>7, <1>8, <2>1 DEF N
  <2>3. ASSUME NEW x \in 1 .. Len(buffer') PROVE buffer'[x] = Len(samples') - Len(buffer') + x
    <3>1. Len(samples') - Len(buffer') = Len(samples) - Len(buffer)
      BY <1>4, <1>7, <1>8 DEF N
    <3>2. CASE x \in 1 .. Len(buffer)
      BY <1>7, <1>8, <2>1, <3>1, <3>2
    <3>3. CASE x = Len(buffer) + 1
      BY <1>7, <1>8, <3>1, <3>3 DEF N
    <3> QED BY <1>7, <1>8, <3>2, <3>3
  <2> QED BY <2>2, <2>3 DEF Youngest
<1> QED BY <1>3, <1>4, <1>5, <1>6, <1>8, <1>9, <1>10 DEF N, R

LEMMA PutStep ==
  ASSUME Inv, NEW p \in Putters, Put(p)
  PROVE  Inv'
<1> DEFINE N == Len(samples) + 1
<1>1. /\ pc' = [pc EXCEPT ![p] = "idle"]
      /\ UNCHANGED <<now, stopVars, stamp, timerVars, cur, ticks>>
  BY DEF Put
<1>2. /\ samples' \in Seq([at : Nat, after : Nat]) /\ Len(samples') = N
      /\ \A i \in 1 .. Len(samples) : samples'[i] = samples[i]
      /\ samples'[N].at = stamp[p] /\ samples'[N].after = Started
      /\ buffer' \in Seq(Nat) /\ ToSet(buffer') = ToSet(buffer) \cup {N}
      /\ Youngest(buffer)'
  BY PutData
<1>3. TypeOK'
  BY <1>1, <1>2 DEF Inv, TypeOK, stopVars, timerVars
<1>4. Chain'
  BY <1>1 DEF Inv, Chain, OneTimer, timerVars
<1>5. /\ Len(samples) \in Nat /\ DOMAIN samples = 1 .. Len(samples)
      /\ Len(ticks) \in Nat /\ DOMAIN ticks = 1 .. Len(ticks) /\ Started \in Nat /\ Started >= Len(ticks)
      /\ \A k \in 1 .. Len(ticks) : ticks[k].counted \in SUBSET Nat
  BY HistoryTyped DEF Inv
<1>6. DOMAIN samples' = 1 .. N
  BY <1>2
<1>7. ASSUME NEW i \in 1 .. N PROVE i = N \/ i \in 1 .. Len(samples)
  BY <1>5
<1>8. ASSUME NEW i \in 1 .. Len(samples)
      PROVE  i \in 1 .. N /\ i < N /\ samples'[i].at = Stamp(i) /\ samples'[i].after = samples[i].after
  <2>1. samples'[i] = samples[i]
    BY <1>2
  <2>2. i \in 1 .. N /\ i < N
    BY <1>5
  <2> QED BY <2>1, <2>2 DEF Stamp
<1>9. ToSet(buffer) \subseteq 1 .. Len(samples)
  <2>1. buffer \in Seq(Nat) /\ Youngest(buffer) /\ TypeOK
    BY DEF Inv, TypeOK
  <2> QED BY <2>1, YoungestMembers
<1>10. ticks' = ticks /\ cur' = cur /\ Started' = Started /\ now' = now /\ stamp' = stamp
  BY <1>1 DEF Started
<1> HIDE DEF N
<1>11. Clock'
  <2>1. ASSUME NEW i \in 1 .. N PROVE samples'[i].at <= Second(now)
    <3>1. CASE i = N
      BY <1>2, <3>1 DEF Inv, Clock
    <3>2. CASE i \in 1 .. Len(samples)
      BY <1>5, <1>8, <3>2 DEF Inv, Clock
    <3> QED BY <1>7, <3>1, <3>2
  <2> QED BY <1>6, <1>10, <2>1 DEF Inv, Clock, Stamp, Second
<1>12. ASSUME NEW k \in DOMAIN ticks PROVE ~(k > samples'[N].after)
  BY <1>2, <1>5
<1>13. Causal'
  <2>1. ASSUME NEW i \in 1 .. N
        PROVE  /\ samples'[i].after <= Started
               /\ \A b \in 1 .. i :
                    /\ \A k \in DOMAIN ticks : k > samples'[i].after => samples'[b].at <= ticks[k].at
                    /\ cur # Idle /\ Len(ticks) + 1 > samples'[i].after => samples'[b].at <= cur
    <3>1. CASE i = N
      <4>1. cur # Idle => Started = Len(ticks) + 1
        BY DEF Started
      <4>2. ~(cur # Idle /\ Len(ticks) + 1 > samples'[i].after)
        BY <1>2, <1>5, <3>1, <4>1
      <4> QED BY <1>2, <1>5, <1>12, <3>1, <4>2
    <3>2. CASE i \in 1 .. Len(samples)
      <4>1. ASSUME NEW b \in 1 .. i PROVE b \in 1 .. Len(samples) /\ samples'[b].at = Stamp(b)
        BY <1>5, <1>8, <3>2
      <4>2. samples'[i].after = samples[i].after
        BY <1>8, <3>2
      <4> QED BY <1>5, <3>2, <4>1, <4>2 DEF Inv, Causal
    <3> QED BY <1>7, <3>1, <3>2
  <2> QED BY <1>6, <1>10, <2>1 DEF Causal, Stamp
<1>14. Kept'
  <2>1. ASSUME NEW i \in 1 .. N, \A k \in DOMAIN ticks : ticks[k].at <= samples'[i].at + 1
        PROVE  i \in ToSet(buffer')
    <3>1. CASE i = N
      BY <1>2, <3>1
    <3>2. CASE i \in 1 .. Len(samples)
      <4>1. UpTo(Stamp(i) + 1)
        BY <1>8, <2>1, <3>2 DEF UpTo
      <4>2. i \in ToSet(buffer)
        BY <1>5, <3>2, <4>1 DEF Inv, Kept
      <4> QED BY <1>2, <4>2
    <3> QED BY <1>7, <3>1, <3>2
  <2> QED BY <1>6, <1>10, <2>1 DEF Kept, UpTo, Stamp
<1> DEFINE After(i, s) == \E k \in DOMAIN ticks : k > samples'[i].after /\ ticks[k].at = s
<1>15. ASSUME NEW i \in 1 .. N, NEW s, After(i, s) PROVE i \in 1 .. Len(samples) /\ TickAfter(i, s)
  <2>1. CASE i = N
    BY <1>12, <1>15, <2>1
  <2>2. CASE i \in 1 .. Len(samples)
    <3>1. samples'[i].after = samples[i].after
      BY <1>8, <2>2
    <3> QED BY <1>15, <2>2, <3>1 DEF TickAfter
  <2> QED BY <1>7, <2>1, <2>2
<1>16. Blocked'
  <2>1. ASSUME NEW i \in 1 .. N, After(i, samples'[i].at + 1),
               \A k \in DOMAIN ticks : ticks[k].at <= samples'[i].at + 1
        PROVE  WasCounted(i) \/ \E b \in ToSet(buffer') : b < i /\ samples'[b].at >= samples'[i].at + 1
    <3>1. i \in 1 .. Len(samples) /\ TickAfter(i, samples'[i].at + 1)
      <4> HIDE DEF After
      <4> QED BY <1>15, <2>1
    <3>2. samples'[i].at = Stamp(i)
      BY <1>8, <3>1
    <3>3. WasCounted(i) \/ \E b \in ToSet(buffer) : b < i /\ Stamp(b) >= Stamp(i) + 1
      BY <1>5, <2>1, <3>1, <3>2 DEF Inv, Blocked, UpTo
    <3>4. ASSUME NEW b \in ToSet(buffer) PROVE b \in ToSet(buffer') /\ samples'[b].at = Stamp(b)
      BY <1>2, <1>8, <1>9
    <3> QED BY <3>2, <3>3, <3>4
  <2> QED BY <1>6, <1>10, <2>1 DEF Blocked, UpTo, Stamp, WasCounted, TickAfter
<1>17. Spent'
  <2>1. ASSUME NEW k \in DOMAIN ticks, NEW i \in ticks[k].counted
        PROVE  i \in 1 .. N /\ \A b \in ToSet(buffer') : b <= i => samples'[b].at < ticks[k].at
    <3>1. i \in 1 .. Len(samples) /\ \A b \in ToSet(buffer) : b <= i => Stamp(b) < ticks[k].at
      BY <1>5 DEF Inv, Spent
    <3>2. ~(N <= i)
      BY <1>5, <3>1 DEF N
    <3>3. ASSUME NEW b \in ToSet(buffer'), b <= i PROVE samples'[b].at < ticks[k].at
      <4>1. b \in ToSet(buffer)
        BY <1>2, <3>2, <3>3
      <4> QED BY <1>8, <1>9, <3>1, <3>3, <4>1
    <3> QED BY <1>8, <3>1, <3>3
  <2> QED BY <1>6, <1>10, <2>1 DEF Spent, Stamp
<1>18. SamplesCounted'
  <2>1. ASSUME NEW i \in 1 .. N, After(i, samples'[i].at + 1), After(i, samples'[i].at + 2)
        PROVE  \E k \in DOMAIN ticks : i \in ticks[k].counted
    <3>1. i \in 1 .. Len(samples) /\ TickAfter(i, samples'[i].at + 1) /\ TickAfter(i, samples'[i].at + 2)
      <4> HIDE DEF After
      <4> QED BY <1>15, <2>1
    <3>2. samples'[i].at = Stamp(i)
      BY <1>8, <3>1
    <3> QED BY <1>5, <3>1, <3>2 DEF Inv, SamplesCounted
  <2>2. \A j, k \in DOMAIN ticks :
          ticks[j].counted \cap ticks[k].counted # {} => ticks[j].at = ticks[k].at
    BY DEF Inv, SamplesCounted
  <2> QED BY <1>6, <1>10, <2>1, <2>2 DEF SamplesCounted, Stamp, TickAfter
<1> QED BY <1>2, <1>3, <1>4, <1>11, <1>13, <1>14, <1>16, <1>17, <1>18 DEF Inv

\* What a tick writes.
LEMMA AggregateData ==
  ASSUME Inv, Aggregate
  PROVE  LET n == Len(ticks) + 1
         IN  /\ cur \in Nat /\ cur' = Idle /\ waits' = waits + 1 /\ expires' = expires + Sub
             /\ UNCHANGED <<now, stopVars, putVars, present, active, samples>>
             /\ buffer' = Unexpired
             /\ ticks' \in Seq([at : Nat, counted : SUBSET Nat]) /\ DOMAIN ticks' = 1 .. n /\ Len(ticks') = n
             /\ \A k \in 1 .. Len(ticks) : ticks'[k] = ticks[k]
             /\ ticks'[n].at = cur /\ ticks'[n].counted = Counted
<1> DEFINE n == Len(ticks) + 1
<1> DEFINE T == [at : Nat, counted : SUBSET Nat]
<1> DEFINE new == [at |-> cur, counted |-> Counted]
<1>1. /\ cur # Idle /\ cur' = Idle /\ waits' = waits + 1 /\ expires' = expires + Sub
      /\ UNCHANGED <<now, stopVars, putVars, present, active, samples>>
      /\ buffer' = Unexpired /\ ticks' = Append(ticks, new)
  BY DEF Aggregate
<1>2. cur \in Nat /\ TypeOK /\ Youngest(buffer)
  BY <1>1 DEF Inv, TypeOK
<1>3. Counted \in SUBSET Nat
  <2>1. Counted \subseteq ToSet(Unexpired)
    BY <1>2, CountedProperties
  <2>2. Unexpired \in Seq(Nat)
    BY <1>2, UnexpiredProperties
  <2>3. ToSet(Unexpired) \subseteq Nat
    BY <2>2 DEF ToSet
  <2> QED BY <2>1, <2>3
<1>4. new \in T /\ new.at = cur /\ new.counted = Counted
  BY <1>2, <1>3
<1>5. ticks \in Seq(T) /\ Len(ticks) \in Nat
  BY <1>2, HistoryTyped DEF TypeOK
<1> HIDE DEF T, new
<1>6. ticks' \in Seq(T) /\ Len(ticks') = n
  BY <1>1, <1>4, <1>5, AppendProperties
<1>7. \A k \in 1 .. Len(ticks) : ticks'[k] = ticks[k]
  BY <1>1, <1>4, <1>5, AppendProperties
<1>8. ticks'[n] = new
  <2>1. Append(ticks, new)[Len(ticks) + 1] = new
    BY <1>4, <1>5, AppendProperties
  <2> QED BY <1>1, <2>1
<1>9. DOMAIN ticks' = 1 .. n
  BY <1>6
<1> QED BY <1>1, <1>2, <1>4, <1>6, <1>7, <1>8, <1>9 DEF T

LEMMA AggregateStep ==
  ASSUME Inv, Aggregate
  PROVE  Inv'
<1> DEFINE n == Len(ticks) + 1
<1> DEFINE U == ToSet(Unexpired)
<1> DEFINE C == Counted
<1>1. /\ cur \in Nat /\ cur' = Idle /\ waits' = waits + 1 /\ expires' = expires + Sub
      /\ UNCHANGED <<now, stopVars, putVars, present, active, samples>>
      /\ buffer' = Unexpired
      /\ ticks' \in Seq([at : Nat, counted : SUBSET Nat]) /\ DOMAIN ticks' = 1 .. n /\ Len(ticks') = n
      /\ \A k \in 1 .. Len(ticks) : ticks'[k] = ticks[k]
      /\ ticks'[n].at = cur /\ ticks'[n].counted = C
  BY AggregateData
<1>2. TypeOK /\ Youngest(buffer)
  BY DEF Inv
<1>3. /\ Unexpired \in Seq(Nat) /\ Youngest(Unexpired) /\ U \subseteq ToSet(buffer)
      /\ \A i \in U : \E b \in U : b <= i /\ Stamp(b) >= cur - 1
      /\ \A i, b \in ToSet(buffer) : b <= i /\ Stamp(b) >= cur - 1 => i \in U
  BY <1>1, <1>2, UnexpiredProperties
<1>4. /\ C \subseteq U
      /\ \A i \in C : \A b \in U : b <= i => Stamp(b) < cur
      /\ \A i \in U \ C : \E b \in U : b <= i /\ Stamp(b) >= cur
  BY <1>1, <1>2, CountedProperties
<1>5. /\ Len(samples) \in Nat /\ DOMAIN samples = 1 .. Len(samples)
      /\ Len(ticks) \in Nat /\ DOMAIN ticks = 1 .. Len(ticks)
      /\ \A i \in 1 .. Len(samples) : Stamp(i) \in Nat /\ samples[i].after \in Nat
      /\ \A k \in 1 .. Len(ticks) : ticks[k].at \in Nat /\ ticks[k].counted \in SUBSET Nat
  BY <1>2, HistoryTyped
<1>6. ToSet(buffer) \subseteq 1 .. Len(samples)
  <2>1. buffer \in Seq(Nat)
    BY <1>2 DEF TypeOK
  <2> QED BY <1>2, <2>1, YoungestMembers
<1>7. cur # Idle
  BY <1>1, IdleAssumption
<1> HIDE DEF U, C
<1>8. ASSUME NEW k \in 1 .. n PROVE k = n \/ k \in 1 .. Len(ticks)
  BY <1>5
<1>9. /\ \A k \in 1 .. Len(ticks) : ticks[k].at <= cur /\ k \in 1 .. n
      /\ n \in 1 .. n /\ n \in Nat
  BY <1>5, <1>7 DEF Inv, Clock
<1> HIDE DEF n
<1>10. samples' = samples /\ now' = now /\ stamp' = stamp
  BY <1>1 DEF putVars
<1>11. TypeOK'
  <2>1. Sub \in Nat
    BY WindowAssumption
  <2> QED BY <1>1, <1>3, <2>1 DEF Inv, TypeOK, stopVars, putVars
<1>12. Chain'
  BY <1>1, <1>7 DEF Inv, TypeOK, Chain, OneTimer
<1>13. Clock'
  <2>1. ASSUME NEW k \in 1 .. n PROVE ticks'[k].at <= Second(now)
    BY <1>1, <1>7, <1>8, <1>5 DEF Inv, Clock
  <2>2. ASSUME NEW j \in 1 .. n, NEW k \in 1 .. n, j <= k PROVE ticks'[j].at <= ticks'[k].at
    <3>1. CASE k = n /\ j = n
      BY <1>1, <3>1
    <3>2. CASE k = n /\ j \in 1 .. Len(ticks)
      BY <1>1, <1>9, <3>2
    <3>3. CASE k \in 1 .. Len(ticks) /\ j \in 1 .. Len(ticks)
      BY <1>1, <1>5, <2>2, <3>3 DEF Inv, Clock
    <3>4. CASE k \in 1 .. Len(ticks) /\ j = n
      BY <1>5, <2>2, <3>4 DEF n
    <3> QED BY <1>8, <3>1, <3>2, <3>3, <3>4
  <2> QED BY <1>1, <1>10, <2>1, <2>2 DEF Inv, Clock, Stamp, Second
<1>14. Youngest(buffer)'
  BY <1>1, <1>3, <1>10 DEF Youngest
<1>15. Causal'
  <2>1. Started = n /\ Started' = n
    BY <1>1, <1>7 DEF Started, n
  <2>2. ASSUME NEW i \in DOMAIN samples, NEW b \in 1 .. i, NEW k \in 1 .. n, k > samples[i].after
        PROVE  Stamp(b) <= ticks'[k].at
    <3>1. CASE k = n
      BY <1>1, <1>7, <2>2, <3>1 DEF Inv, Causal, n
    <3>2. CASE k \in 1 .. Len(ticks)
      BY <1>1, <1>5, <2>2, <3>2 DEF Inv, Causal
    <3> QED BY <1>8, <3>1, <3>2
  <2>3. \A i \in DOMAIN samples : samples[i].after <= n
    BY <2>1 DEF Inv, Causal
  <2> QED BY <1>1, <1>10, <2>1, <2>2, <2>3 DEF Causal, Stamp
\* If the tick is the last one and no tick is later than s, then cur is not.
<1>16. ASSUME NEW s, \A k \in 1 .. n : ticks'[k].at <= s PROVE cur <= s /\ UpTo(s)
  BY <1>1, <1>5, <1>9, <1>16 DEF UpTo
<1>17. Kept'
  <2>1. ASSUME NEW i \in 1 .. Len(samples), \A k \in 1 .. n : ticks'[k].at <= Stamp(i) + 1
        PROVE  i \in U
    <3>1. cur <= Stamp(i) + 1 /\ i \in ToSet(buffer)
      BY <1>5, <1>16, <2>1 DEF Inv, Kept
    <3>2. i <= i /\ Stamp(i) >= cur - 1
      BY <1>1, <1>5, <3>1
    <3> QED BY <1>3, <3>1, <3>2
  <2> QED BY <1>1, <1>5, <1>10, <2>1 DEF Kept, UpTo, Stamp, U
<1>18. ASSUME NEW i \in 1 .. Len(samples), WasCounted(i) PROVE \E k \in 1 .. n : i \in ticks'[k].counted
  <2>1. PICK k \in 1 .. Len(ticks) : i \in ticks[k].counted
    BY <1>5, <1>18 DEF WasCounted
  <2> QED BY <1>1, <1>9, <2>1
<1> DEFINE After(i, s) == \E k \in 1 .. n : k > samples[i].after /\ ticks'[k].at = s
\* A tick of second s after i was put is the one that ends, or one before it.
<1>19. ASSUME NEW i \in 1 .. Len(samples), NEW s, After(i, s) PROVE cur = s \/ TickAfter(i, s)
  <2>1. PICK k \in 1 .. n : k > samples[i].after /\ ticks'[k].at = s
    BY <1>19
  <2>2. CASE k = n
    BY <1>1, <2>1, <2>2
  <2>3. CASE k \in 1 .. Len(ticks)
    BY <1>1, <1>5, <2>1, <2>3 DEF TickAfter
  <2> QED BY <1>8, <2>2, <2>3
<1>20. ASSUME NEW i \in 1 .. Len(samples), NEW s, TickAfter(i, s) PROVE s \in Nat /\ s <= cur
  BY <1>5, <1>9, <1>20 DEF TickAfter
<1>21. Blocked'
  <2>1. ASSUME NEW i \in 1 .. Len(samples), After(i, Stamp(i) + 1),
               \A k \in 1 .. n : ticks'[k].at <= Stamp(i) + 1
        PROVE  \/ \E k \in 1 .. n : i \in ticks'[k].counted
               \/ \E b \in U : b < i /\ Stamp(b) >= Stamp(i) + 1
    <3>1. cur <= Stamp(i) + 1 /\ UpTo(Stamp(i) + 1)
      BY <1>16, <2>1
    <3>2. cur = Stamp(i) + 1
      <4> HIDE DEF After
      <4>1. cur = Stamp(i) + 1 \/ TickAfter(i, Stamp(i) + 1)
        BY <1>19, <2>1
      <4>2. TickAfter(i, Stamp(i) + 1) => Stamp(i) + 1 <= cur
        BY <1>20
      <4> QED BY <1>1, <1>5, <3>1, <4>1, <4>2
    <3>3. i \in ToSet(buffer)
      BY <1>5, <3>1 DEF Inv, Kept
    <3>4. i \in U
      <4>1. i <= i /\ Stamp(i) >= cur - 1
        BY <1>5, <3>2
      <4> QED BY <1>3, <3>3, <4>1
    <3>5. CASE i \in C
      BY <1>1, <1>9, <3>5
    <3>6. CASE i \notin C
      <4>1. PICK b \in U : b <= i /\ Stamp(b) >= cur
        BY <1>4, <3>4, <3>6
      <4>2. b # i
        BY <1>5, <3>2, <4>1
      <4>3. b \in Nat /\ i \in Nat
        BY <1>3, <1>6
      <4> QED BY <3>2, <4>1, <4>2, <4>3
    <3> QED BY <3>5, <3>6
  <2> SUFFICES ASSUME NEW i \in DOMAIN samples',
                      TickAfter(i, Stamp(i) + 1)', UpTo(Stamp(i) + 1)'
               PROVE  (WasCounted(i) \/ \E b \in ToSet(buffer) : b < i /\ Stamp(b) >= Stamp(i) + 1)'
    BY DEF Blocked
  <2>2. i \in 1 .. Len(samples) /\ \A j : Stamp(j)' = Stamp(j)
    BY <1>5, <1>10 DEF Stamp
  <2>3. After(i, Stamp(i) + 1)
    BY <1>1, <1>10 DEF TickAfter, Stamp
  <2>4. \A k \in 1 .. n : ticks'[k].at <= Stamp(i) + 1
    BY <1>1, <1>10 DEF UpTo, Stamp
  <2>5. \/ \E k \in 1 .. n : i \in ticks'[k].counted
        \/ \E b \in U : b < i /\ Stamp(b) >= Stamp(i) + 1
    <3> HIDE DEF After
    <3> QED BY <2>1, <2>2, <2>3, <2>4
  <2>6. CASE \E k \in 1 .. n : i \in ticks'[k].counted
    BY <1>1, <2>6 DEF WasCounted
  <2>7. CASE \E b \in U : b < i /\ Stamp(b) >= Stamp(i) + 1
    BY <1>1, <1>10, <2>7 DEF Stamp, U
  <2> QED BY <2>5, <2>6, <2>7
<1>22. Spent'
  <2>1. ASSUME NEW k \in 1 .. n, NEW i \in ticks'[k].counted
        PROVE  i \in 1 .. Len(samples) /\ \A b \in U : b <= i => Stamp(b) < ticks'[k].at
    <3>1. CASE k = n
      BY <1>1, <1>3, <1>4, <1>6, <3>1
    <3>2. CASE k \in 1 .. Len(ticks)
      BY <1>1, <1>3, <1>5, <3>2 DEF Inv, Spent
    <3> QED BY <1>8, <3>1, <3>2
  <2> QED BY <1>1, <1>5, <1>10, <2>1 DEF Spent, Stamp, U
<1>23. SamplesCounted'
  <2>1. ASSUME NEW k \in 1 .. Len(ticks), C \cap ticks[k].counted # {} PROVE ticks[k].at = cur
    <3>1. PICK i \in C : i \in ticks[k].counted
      BY <2>1
    <3>2. PICK b \in U : b <= i /\ Stamp(b) >= cur - 1
      BY <1>3, <1>4
    <3>3. Stamp(b) < ticks[k].at
      BY <1>3, <1>5, <3>1, <3>2 DEF Inv, Spent
    <3>4. ticks[k].at <= cur /\ ticks[k].at \in Nat /\ Stamp(b) \in Nat
      BY <1>3, <1>5, <1>6, <1>9
    <3> QED BY <1>1, <3>2, <3>3, <3>4
  <2>2. ASSUME NEW j \in 1 .. n, NEW k \in 1 .. n, ticks'[j].counted \cap ticks'[k].counted # {}
        PROVE  ticks'[j].at = ticks'[k].at
    <3>1. CASE j = n /\ k = n
      BY <3>1
    <3>2. CASE j = n /\ k \in 1 .. Len(ticks)
      BY <1>1, <2>1, <2>2, <3>2
    <3>3. CASE j \in 1 .. Len(ticks) /\ k = n
      BY <1>1, <2>1, <2>2, <3>3
    <3>4. CASE j \in 1 .. Len(ticks) /\ k \in 1 .. Len(ticks)
      <4>1. ticks'[j] = ticks[j] /\ ticks'[k] = ticks[k]
        BY <1>1, <3>4
      <4>2. j \in DOMAIN ticks /\ k \in DOMAIN ticks
        BY <1>5, <3>4
      <4>3. ticks[j].counted \cap ticks[k].counted # {}
        BY <2>2, <4>1
      <4>4. ticks[j].at = ticks[k].at
        BY <4>2, <4>3 DEF Inv, SamplesCounted
      <4> QED BY <4>1, <4>4
    <3> QED BY <1>8, <3>1, <3>2, <3>3, <3>4
  <2>3. ASSUME NEW i \in 1 .. Len(samples), After(i, Stamp(i) + 1), After(i, Stamp(i) + 2)
        PROVE  \E k \in 1 .. n : i \in ticks'[k].counted
    <3> DEFINE s == Stamp(i)
    <3>1. s \in Nat
      BY <1>5
    <3>2. /\ cur = s + 1 \/ TickAfter(i, s + 1)
          /\ cur = s + 2 \/ TickAfter(i, s + 2)
      <4> HIDE DEF After
      <4> QED BY <1>19, <2>3
    <3>3. /\ TickAfter(i, s + 1) => s + 1 <= cur
          /\ TickAfter(i, s + 2) => s + 2 <= cur
      BY <1>20
    <3>4. TickAfter(i, s + 1)
      BY <1>1, <3>1, <3>2, <3>3
    <3>5. CASE TickAfter(i, s + 2)
      <4>1. WasCounted(i)
        BY <1>5, <3>4, <3>5 DEF Inv, SamplesCounted, WasCounted
      <4> QED BY <1>18, <4>1
    <3>6. CASE ~TickAfter(i, s + 2)
      <4>1. cur = s + 2
        BY <3>2, <3>6
      <4>2. PICK a \in 1 .. Len(ticks) : a > samples[i].after /\ ticks[a].at = s + 1
        BY <1>5, <3>4 DEF TickAfter
      <4>3. UpTo(s + 1)
        <5> SUFFICES ASSUME NEW k \in 1 .. Len(ticks), ~(ticks[k].at <= s + 1) PROVE FALSE
          BY <1>5 DEF UpTo
        <5>1. ticks[k].at = s + 2
          <6>1. ticks[k].at \in Nat /\ ticks[k].at <= cur
            BY <1>5, <1>9
          <6> QED BY <3>1, <4>1, <6>1
        <5>2. ~(k <= a)
          BY <1>5, <3>1, <4>2, <5>1 DEF Inv, Clock
        <5>3. k > samples[i].after
          BY <1>5, <4>2, <5>2
        <5> QED BY <1>5, <3>6, <5>1, <5>3 DEF TickAfter
      <4>4. CASE WasCounted(i)
        BY <1>18, <4>4
      <4>5. CASE ~WasCounted(i)
        <5>1. PICK b \in ToSet(buffer) : b < i /\ Stamp(b) >= s + 1
          BY <1>5, <3>4, <4>3, <4>5 DEF Inv, Blocked
        <5>2. i \in ToSet(buffer)
          BY <1>5, <4>3 DEF Inv, Kept
        <5>3. b <= i /\ Stamp(b) >= cur - 1
          BY <1>5, <1>6, <3>1, <4>1, <5>1
        <5>4. i \in U
          BY <1>3, <5>1, <5>2, <5>3
        <5>5. ASSUME NEW c \in U, c <= i PROVE ~(Stamp(c) >= cur)
          <6>1. c \in 1 .. i /\ c \in 1 .. Len(samples)
            BY <1>3, <1>5, <1>6, <5>5
          <6>2. Stamp(c) <= s + 1
            BY <1>5, <4>2, <6>1 DEF Inv, Causal
          <6> QED BY <1>5, <3>1, <4>1, <6>1, <6>2
        <5>6. i \in C
          BY <1>4, <5>4, <5>5
        <5> QED BY <1>1, <1>9, <5>6
      <4> QED BY <4>4, <4>5
    <3> QED BY <3>5, <3>6
  <2>4. ASSUME NEW i \in DOMAIN samples', TickAfter(i, Stamp(i) + 1)', TickAfter(i, Stamp(i) + 2)'
        PROVE  \E k \in DOMAIN ticks' : i \in ticks'[k].counted
    <3>1. i \in 1 .. Len(samples)
      BY <1>5, <1>10, <2>4
    <3>2. After(i, Stamp(i) + 1) /\ After(i, Stamp(i) + 2)
      BY <1>1, <1>10, <2>4 DEF TickAfter, Stamp
    <3>3. \E k \in 1 .. n : i \in ticks'[k].counted
      <4> HIDE DEF After
      <4> QED BY <2>3, <3>1, <3>2
    <3> QED BY <1>1, <3>3
  <2>5. \A j, k \in DOMAIN ticks' :
          ticks'[j].counted \cap ticks'[k].counted # {} => ticks'[j].at = ticks'[k].at
    BY <1>1, <2>2
  <2> QED BY <2>4, <2>5 DEF SamplesCounted
<1> QED BY <1>11, <1>12, <1>13, <1>14, <1>15, <1>17, <1>21, <1>22, <1>23 DEF Inv
-----------------------------------------------------------------------------
LEMMA NextInv == Inv /\ [Next]_vars => Inv'
<1> SUFFICES ASSUME Inv, [Next]_vars PROVE Inv'
  OBVIOUS
<1>1. CASE UNCHANGED vars
  <2>1. /\ UNCHANGED <<now, running, stop, pc, stamp, present, active, waits, expires, cur, buffer, samples, ticks>>
    BY <1>1 DEF vars, stopVars, putVars, timerVars
  <2>2. TypeOK'
    BY <2>1 DEF Inv, TypeOK
  <2>3. Chain'
    BY <2>1 DEF Inv, Chain, OneTimer
  <2>4. Clock'
    BY <2>1, ClockStep DEF Inv, TypeOK
  <2> QED BY <2>1, <2>2, <2>3, <2>4, QuietStep
<1>2. CASE Advance
  BY <1>2, AdvanceStep
<1>3. ASSUME NEW p \in Putters, Putter(p) PROVE Inv'
  BY <1>3, EnterStep, FindStep, InsertStep, PutStep DEF Putter
<1>4. CASE Timer
  BY <1>4, FireStep, AggregateStep DEF Timer
<1>5. CASE StopFlag \/ Stopper
  BY <1>5, StopStep DEF Stopper
<1> QED BY <1>1, <1>2, <1>3, <1>4, <1>5 DEF Next

\* The strengthening of the two properties below: the order of the clock, the
\* buffer and the ticks.
THEOREM Invariant == Spec => []Inv
<1>1. Init => Inv
  BY InitInv
<1>2. Inv /\ [Next]_vars => Inv'
  BY NextInv
<1> QED BY <1>1, <1>2, PTL DEF Spec

\* However many threads create the metric at once, it has one chain of timers,
\* which lasts while the metric is active.
THEOREM OneTimerAlways == Spec => []OneTimer
<1>1. Inv => OneTimer
  BY DEF Inv, Chain
<1> QED BY <1>1, Invariant, PTL

\* Two ticks count the same sample only in the same second, and a sample is
\* counted when ticks of the two seconds after its own began after it was put.
THEOREM SamplesAlwaysCounted == Spec => []SamplesCounted
<1>1. Inv => SamplesCounted
  BY DEF Inv
<1> QED BY <1>1, Invariant, PTL
-----------------------------------------------------------------------------
(***************************************************************************)
(* Sums and periods.                                                       *)
(***************************************************************************)
\* Induction, over a set of numbers.
LEMMA Induction ==
  ASSUME NEW S \in SUBSET Nat, 0 \in S, \A n \in S : n + 1 \in S
  PROVE  S = Nat
<1> SUFFICES ASSUME S # Nat PROVE FALSE
  OBVIOUS
<1> DEFINE T == Nat \ S
<1>1. T # {} /\ T \in SUBSET Nat
  OBVIOUS
<1>2. Min(T) \in T /\ \A y \in T : Min(T) <= y
  BY <1>1, Smallest
<1> DEFINE m == Min(T)
<1> HIDE DEF m
<1>3. m \in Nat /\ m \notin S /\ \A y \in Nat \ S : m <= y
  BY <1>2 DEF m
<1>4. m # 0
  BY <1>3
<1>5. m - 1 \in Nat /\ m - 1 \in S
  BY <1>3, <1>4
<1> QED BY <1>3, <1>5

\* A nonempty set of positions has a largest member.
LEMMA Largest ==
  ASSUME NEW n \in Nat, NEW s \in SUBSET (1 .. n), s # {}
  PROVE  Max(s) \in s /\ \A y \in s : y <= Max(s)
<1> DEFINE T == {n - y : y \in s}
<1>1. T # {} /\ T \in SUBSET Nat
  <2>1. \A y \in s : y \in Nat /\ y <= n
    OBVIOUS
  <2>2. \A y \in s : n - y \in Nat
    BY <2>1
  <2>3. T # {}
    OBVIOUS
  <2> QED BY <2>2, <2>3
<1>2. Min(T) \in T /\ \A y \in T : Min(T) <= y
  BY <1>1, Smallest
<1>3. PICK x \in s : Min(T) = n - x
  BY <1>2
<1>4. \A y \in s : n - x <= n - y
  BY <1>2, <1>3
<1>5. \E m \in s : \A y \in s : m >= y
  BY <1>4
<1> QED BY <1>5 DEF Max

\* The fold that Total is has the values its recursion says.
LEMMA TotalRecursion ==
  ASSUME NEW w \in Seq(Int)
  PROVE  \E g : /\ Total(w) = g[1 .. Len(w)]
                /\ g = [s \in SUBSET (1 .. Len(w)) |->
                          IF s = {} THEN 0 ELSE g[s \ {Max(s)}] + w[Max(s)]]
<1> DEFINE F(n, g) == [s \in SUBSET (1 .. n) |-> IF s = {} THEN 0 ELSE g[s \ {Max(s)}] + w[Max(s)]]
<1> DEFINE A(n) == \E g : g = F(n, g)
<1>1. A(0)
  <2> DEFINE z == [s \in {{}} |-> 0]
  <2>1. SUBSET (1 .. 0) = {{}}
    OBVIOUS
  <2>2. z = F(0, z)
    BY <2>1
  <2> QED BY <2>2
<1>2. ASSUME NEW n \in Nat, A(n) PROVE A(n + 1)
  <2>1. PICK g : g = F(n, g)
    BY <1>2
  <2> DEFINE h == F(n + 1, g)
  <2>2. ASSUME NEW s \in SUBSET (1 .. n + 1), s # {}
        PROVE  s \ {Max(s)} \in SUBSET (1 .. n)
    <3>1. n + 1 \in Nat
      OBVIOUS
    <3>2. Max(s) \in s /\ \A y \in s : y <= Max(s)
      BY <2>2, <3>1, Largest
    <3> HIDE DEF F
    <3>3. ASSUME NEW y \in s, y # Max(s) PROVE y \in 1 .. n
      <4>1. y \in 1 .. n + 1 /\ Max(s) \in 1 .. n + 1 /\ y <= Max(s)
        BY <3>2
      <4> QED BY <3>3, <4>1
    <3> QED BY <3>3
  <2>3. ASSUME NEW t \in SUBSET (1 .. n) PROVE h[t] = g[t]
    <3>1. t \in SUBSET (1 .. n + 1)
      OBVIOUS
    <3>2. h[t] = IF t = {} THEN 0 ELSE g[t \ {Max(t)}] + w[Max(t)]
      BY <3>1
    <3>3. F(n, g)[t] = IF t = {} THEN 0 ELSE g[t \ {Max(t)}] + w[Max(t)]
      OBVIOUS
    <3> QED BY <2>1, <3>2, <3>3
  <2>4. h = F(n + 1, h)
    <3>1. ASSUME NEW s \in SUBSET (1 .. n + 1)
          PROVE  (IF s = {} THEN 0 ELSE g[s \ {Max(s)}] + w[Max(s)])
                 = (IF s = {} THEN 0 ELSE h[s \ {Max(s)}] + w[Max(s)])
      <4> HIDE DEF h, F
      <4> QED BY <2>2, <2>3
    <3> DEFINE a(s) == IF s = {} THEN 0 ELSE g[s \ {Max(s)}] + w[Max(s)]
    <3> DEFINE b(s) == IF s = {} THEN 0 ELSE h[s \ {Max(s)}] + w[Max(s)]
    <3>2. \A s \in SUBSET (1 .. n + 1) : a(s) = b(s)
      BY <3>1
    <3> HIDE DEF a, b
    <3>3. [s \in SUBSET (1 .. n + 1) |-> a(s)] = [s \in SUBSET (1 .. n + 1) |-> b(s)]
      BY <3>2
    <3> QED BY <3>3 DEF a, b
  <2> QED BY <2>4
<1>3. A(Len(w))
  <2> DEFINE S == {n \in Nat : A(n)}
  <2> HIDE DEF A
  <2>1. 0 \in S /\ \A n \in S : n + 1 \in S
    BY <1>1, <1>2
  <2>2. S = Nat
    <3>1. S \in SUBSET Nat
      OBVIOUS
    <3> HIDE DEF S
    <3> QED BY <2>1, <3>1, Induction
  <2> QED BY <2>2
<1>4. DOMAIN w = 1 .. Len(w)
  OBVIOUS
<1> DEFINE chosen == CHOOSE g : g = F(Len(w), g)
<1>5. chosen = F(Len(w), chosen)
  BY <1>3
<1>6. Total(w) = chosen[DOMAIN w]
  BY <1>4 DEF Total, FoldLeft, MapThenFoldSet
<1> QED BY <1>5, <1>6, <1>4

\* A window whose cells are the differences of a function is the difference of
\* its ends.
LEMMA TotalTelescopes ==
  ASSUME NEW w \in Seq(Int), NEW Q \in [0 .. Len(w) -> Int],
         \A i \in 1 .. Len(w) : w[i] = Q[i] - Q[i - 1]
  PROVE  Total(w) = Q[Len(w)] - Q[0]
<1> DEFINE n == Len(w)
<1>1. PICK g : /\ Total(w) = g[1 .. n]
               /\ g = [s \in SUBSET (1 .. n) |-> IF s = {} THEN 0 ELSE g[s \ {Max(s)}] + w[Max(s)]]
  BY TotalRecursion
<1> DEFINE S == {k \in Nat : k <= n => g[1 .. k] = Q[k] - Q[0]}
<1>2. n \in Nat /\ \A i \in 1 .. n : w[i] \in Int
  OBVIOUS
<1>3. \A s \in SUBSET (1 .. n) : g[s] = IF s = {} THEN 0 ELSE g[s \ {Max(s)}] + w[Max(s)]
  BY <1>1
<1> HIDE DEF n
<1>4. 0 \in S
  <2>1. 1 .. 0 = {}
    OBVIOUS
  <2>2. g[{}] = 0
    BY <1>3
  <2>3. Q[0] \in Int
    BY <1>2 DEF n
  <2> QED BY <2>1, <2>2, <2>3
<1>5. ASSUME NEW k \in S PROVE k + 1 \in S
  <2> SUFFICES ASSUME k + 1 <= n PROVE g[1 .. k + 1] = Q[k + 1] - Q[0]
    OBVIOUS
  <2>1. k \in Nat /\ k <= n /\ g[1 .. k] = Q[k] - Q[0]
    BY <1>2
  <2>2. 1 .. k + 1 \in SUBSET (1 .. n) /\ 1 .. k + 1 # {}
    <3>1. \A y \in 1 .. k + 1 : y \in 1 .. n
      BY <1>2, <2>1
    <3>2. k + 1 \in 1 .. k + 1
      BY <2>1
    <3> QED BY <3>1, <3>2
  <2>3. Max(1 .. k + 1) = k + 1
    <3>1. Max(1 .. k + 1) \in 1 .. k + 1 /\ \A y \in 1 .. k + 1 : y <= Max(1 .. k + 1)
      BY <1>2, <2>2, Largest
    <3> QED BY <2>1, <3>1
  <2>4. (1 .. k + 1) \ {k + 1} = 1 .. k
    BY <2>1
  <2>5. g[1 .. k + 1] = g[1 .. k] + w[k + 1]
    BY <1>3, <2>2, <2>3, <2>4
  <2>6. w[k + 1] = Q[k + 1] - Q[k] /\ k + 1 \in 1 .. n
    <3>1. k + 1 \in 1 .. n /\ (k + 1) - 1 = k
      BY <1>2, <2>1
    <3> QED BY <3>1 DEF n
  <2>7. Q[0] \in Int /\ Q[k] \in Int /\ Q[k + 1] \in Int
    BY <1>2, <2>1 DEF n
  <2> QED BY <2>1, <2>5, <2>6, <2>7
<1>6. S = Nat
  <2>1. S \in SUBSET Nat
    OBVIOUS
  <2> HIDE DEF S
  <2> QED BY <1>4, <1>5, <2>1, Induction
<1>7. g[1 .. n] = Q[n] - Q[0]
  <2>1. n \in S
    BY <1>2, <1>6
  <2> QED BY <1>2, <2>1
<1> QED BY <1>1, <1>7 DEF n

\* Each sequence of numbers has such a function.
LEMMA Sums ==
  ASSUME NEW w \in Seq(Nat)
  PROVE  \E Q \in [0 .. Len(w) -> Nat] : Q[0] = 0 /\ \A i \in 1 .. Len(w) : Q[i] = Q[i - 1] + w[i]
<1> DEFINE n == Len(w)
<1> DEFINE A(k) == k <= n => \E Q \in [0 .. k -> Nat] : Q[0] = 0 /\ \A i \in 1 .. k : Q[i] = Q[i - 1] + w[i]
<1> DEFINE S == {k \in Nat : A(k)}
<1>1. n \in Nat /\ \A i \in 1 .. n : w[i] \in Nat
  OBVIOUS
<1> HIDE DEF n
<1>2. A(0)
  <2> DEFINE Q == [i \in 0 .. 0 |-> 0]
  <2>1. Q \in [0 .. 0 -> Nat] /\ Q[0] = 0 /\ 1 .. 0 = {}
    OBVIOUS
  <2> QED BY <2>1
<1>3. ASSUME NEW k \in Nat, A(k) PROVE A(k + 1)
  <2> SUFFICES ASSUME k + 1 <= n
               PROVE  \E Q \in [0 .. k + 1 -> Nat] :
                        Q[0] = 0 /\ \A i \in 1 .. k + 1 : Q[i] = Q[i - 1] + w[i]
    OBVIOUS
  <2>1. PICK Q \in [0 .. k -> Nat] : Q[0] = 0 /\ \A i \in 1 .. k : Q[i] = Q[i - 1] + w[i]
    BY <1>1, <1>3
  <2> DEFINE P == [i \in 0 .. k + 1 |-> IF i = k + 1 THEN Q[k] + w[k + 1] ELSE Q[i]]
  <2>2. w[k + 1] \in Nat /\ Q[k] \in Nat
    BY <1>1
  <2>3. P \in [0 .. k + 1 -> Nat]
    <3> SUFFICES ASSUME NEW i \in 0 .. k + 1
                 PROVE  (IF i = k + 1 THEN Q[k] + w[k + 1] ELSE Q[i]) \in Nat
      OBVIOUS
    <3> QED BY <2>2
  <2>4. P[0] = 0
    BY <2>1
  <2>5. ASSUME NEW i \in 1 .. k + 1 PROVE P[i] = P[i - 1] + w[i]
    <3>1. CASE i = k + 1
      <4>1. P[i] = Q[k] + w[i] /\ i - 1 = k /\ P[k] = Q[k]
        BY <3>1
      <4> QED BY <4>1
    <3>2. CASE i # k + 1
      <4>1. P[i] = Q[i] /\ P[i - 1] = Q[i - 1] /\ i \in 1 .. k
        BY <3>2
      <4> QED BY <2>1, <4>1
    <3> QED BY <3>1, <3>2
  <2> QED BY <2>3, <2>4, <2>5
<1>4. n \in S
  <2> HIDE DEF A
  <2>1. 0 \in S /\ (\A k \in S : k + 1 \in S) /\ S \in SUBSET Nat
    BY <1>2, <1>3
  <2> HIDE DEF S
  <2>2. S = Nat
    BY <2>1, Induction
  <2> QED BY <1>1, <2>2
<1> QED BY <1>1, <1>4 DEF n

\* The total of a window of numbers is a number.
LEMMA TotalTyped ==
  ASSUME NEW w \in Seq(Nat)
  PROVE  Total(w) \in Nat
<1>1. PICK Q \in [0 .. Len(w) -> Nat] : Q[0] = 0 /\ \A i \in 1 .. Len(w) : Q[i] = Q[i - 1] + w[i]
  BY Sums
<1>2. Q \in [0 .. Len(w) -> Int] /\ w \in Seq(Int)
  OBVIOUS
<1>3. \A i \in 1 .. Len(w) : w[i] = Q[i] - Q[i - 1]
  <2> SUFFICES ASSUME NEW i \in 1 .. Len(w) PROVE w[i] = Q[i] - Q[i - 1]
    OBVIOUS
  <2>1. i \in 0 .. Len(w) /\ i - 1 \in 0 .. Len(w) /\ w[i] \in Nat
    OBVIOUS
  <2>2. Q[i] \in Nat /\ Q[i - 1] \in Nat
    BY <2>1
  <2> QED BY <1>1, <2>1, <2>2
<1>4. Total(w) = Q[Len(w)] - Q[0]
  BY <1>2, <1>3, TotalTelescopes
<1> QED BY <1>1, <1>4

\* A number has one quotient and one remainder.
LEMMA DivMod ==
  ASSUME NEW a \in Nat, NEW d \in Nat \ {0}
  PROVE  /\ a \div d \in Nat /\ a % d \in 0 .. d - 1
         /\ a = d * (a \div d) + (a % d)
OBVIOUS

LEMMA DivModUnique ==
  ASSUME NEW a \in Nat, NEW d \in Nat \ {0}, NEW q \in Nat, NEW r \in 0 .. d - 1, a = d * q + r
  PROVE  a \div d = q /\ a % d = r
<1> DEFINE p == a \div d
<1> DEFINE s == a % d
<1>1. p \in Nat /\ s \in 0 .. d - 1 /\ a = d * p + s
  BY DivMod
<1> HIDE DEF p, s
<1>2. d * q + r = d * p + s
  BY <1>1
<1>3. ~(q > p)
  <2> SUFFICES ASSUME q > p PROVE FALSE
    OBVIOUS
  <2>1. PICK e \in Nat : q = p + 1 + e
    <3>1. q - p - 1 \in Nat /\ q = p + 1 + (q - p - 1)
      BY <1>1
    <3> QED BY <3>1
  <2>2. d * q = d * p + d + d * e
    BY <1>1, <2>1
  <2>3. d * e >= 0 /\ d * p \in Nat
    BY <1>1, <2>1
  <2> QED BY <1>1, <1>2, <2>2, <2>3
<1>4. ~(p > q)
  <2> SUFFICES ASSUME p > q PROVE FALSE
    OBVIOUS
  <2>1. PICK e \in Nat : p = q + 1 + e
    <3>1. p - q - 1 \in Nat /\ p = q + 1 + (p - q - 1)
      BY <1>1
    <3> QED BY <3>1
  <2>2. d * p = d * q + d + d * e
    BY <1>1, <2>1
  <2>3. d * e >= 0 /\ d * q \in Nat
    BY <1>1, <2>1
  <2> QED BY <1>1, <1>2, <2>2, <2>3
<1>5. p = q
  BY <1>1, <1>3, <1>4
<1>6. s = r
  BY <1>1, <1>2, <1>5
<1> QED BY <1>5, <1>6 DEF p, s

\* What is left of a number by a multiple of d leaves the same by d.
LEMMA ModMultiple ==
  ASSUME NEW a \in Nat, NEW d \in Nat \ {0}, NEW e \in Nat \ {0}
  PROVE  /\ (a % (d * e)) % d = a % d
         /\ ((a % (d * e)) + 1) % d = (a + 1) % d
<1> DEFINE m == d * e
<1>1. m \in Nat \ {0}
  OBVIOUS
<1> DEFINE q == a \div m
<1> DEFINE r == a % m
<1>2. q \in Nat /\ r \in 0 .. m - 1 /\ a = m * q + r
  <2> HIDE DEF m
  <2> QED BY <1>1, DivMod
<1>3. r \in Nat /\ m * q = d * (e * q) /\ e * q \in Nat
  <2> HIDE DEF r, q
  <2> QED BY <1>2
<1> HIDE DEF m, r, q
<1>4. ASSUME NEW x \in Nat PROVE (d * (e * q) + x) % d = x % d
  <2> DEFINE p == x \div d
  <2> DEFINE s == x % d
  <2> DEFINE c == e * q
  <2>1. p \in Nat /\ s \in 0 .. d - 1 /\ x = d * p + s /\ c \in Nat
    BY <1>3, DivMod
  <2> HIDE DEF p, s, c
  <2>2. d * c + x = d * (c + p) + s /\ c + p \in Nat /\ d * c + x \in Nat
    BY <2>1
  <2>3. (d * c + x) % d = s
    BY <2>1, <2>2, DivModUnique
  <2> QED BY <2>3 DEF s, c
<1>5. a % d = r % d
  BY <1>2, <1>3, <1>4
<1>6. a + 1 = d * (e * q) + (r + 1) /\ r + 1 \in Nat
  BY <1>2, <1>3
<1>7. (a + 1) % d = (r + 1) % d
  BY <1>6, <1>4
<1> QED BY <1>5, <1>7 DEF r, m

\* The next number begins a quotient, or does not.
LEMMA NextDiv ==
  ASSUME NEW n \in Nat, NEW d \in Nat \ {0}
  PROVE  /\ (n + 1) % d # 0 => (n + 1) \div d = n \div d /\ (n + 1) % d = (n % d) + 1
         /\ (n + 1) % d = 0 => (n + 1) \div d = n \div d + 1 /\ n % d = d - 1
                               /\ n + 1 = d * (n \div d + 1)
<1> DEFINE u == n + 1
<1> DEFINE q == n \div d
<1> DEFINE r == n % d
<1>1. q \in Nat /\ r \in 0 .. d - 1 /\ n = d * q + r
  BY DivMod
<1>0. u = n + 1
  OBVIOUS
<1> HIDE DEF q, r, u
<1>2. CASE r = d - 1
  <2>1. u = d * (q + 1) + 0 /\ q + 1 \in Nat /\ 0 \in 0 .. d - 1 /\ u \in Nat
    BY <1>0, <1>1, <1>2
  <2>2. u \div d = q + 1 /\ u % d = 0
    BY <2>1, DivModUnique
  <2> QED BY <1>2, <2>1, <2>2 DEF q, r, u
<1>3. CASE r # d - 1
  <2>1. u = d * q + (r + 1) /\ r + 1 \in 0 .. d - 1 /\ u \in Nat
    BY <1>0, <1>1, <1>3
  <2>2. u \div d = q /\ u % d = r + 1
    BY <1>1, <2>1, DivModUnique
  <2> QED BY <1>1, <2>2 DEF q, r, u
<1> QED BY <1>2, <1>3

-----------------------------------------------------------------------------
(***************************************************************************)
(* The windows.  Q holds the samples counted by the ticks so far.          *)
(***************************************************************************)
Day == PerMinute * (PerHour * PerDay)

\* iter_ counts the ticks of the day, and the one under way.
Windows ==
  /\ seconds \in [1 .. PerMinute -> Nat] /\ minutes \in [1 .. PerHour -> Nat]
  /\ hours \in [1 .. PerDay -> Nat] /\ days \in [1 .. Days -> Nat]
  /\ iter = (Len(ticks) % Day) + (IF cur = Idle THEN 0 ELSE 1)
  /\ WindowsAligned

\* Q is the sum of what the first n ticks of T counted.
SumsOf(Q, T, n, N) ==
  /\ n \in 0 .. N /\ Q \in [0 .. N -> Nat]
  /\ \A k \in 1 .. n : /\ Cardinality(T[k].counted) \in Nat
                        /\ Q[k] = Q[k - 1] + Cardinality(T[k].counted)

\* A window of N cells that are periods of len ticks, of which last are complete.
Cells(w, N, Q, last, len) ==
  \A i \in 1 .. N :
    w[i] = IF last < N - i + 1 THEN 0
           ELSE Q[(last - (N - i)) * len] - Q[((last - (N - i)) - 1) * len]

\* A window is a sequence of its length.
LEMMA WindowSequence ==
  ASSUME NEW N \in Nat, NEW w \in [1 .. N -> Nat]
  PROVE  w \in Seq(Nat) /\ Len(w) = N /\ DOMAIN w = 1 .. N
OBVIOUS

\* PeriodTotal, of the ticks T.
PeriodOf(T, m, len) == Total([k \in 1 .. len |-> Cardinality(T[(m - 1) * len + k].counted)])

LEMMA PeriodSum ==
  ASSUME NEW N \in Nat, NEW n \in Nat, NEW T, NEW Q, SumsOf(Q, T, n, N),
         NEW m \in Nat \ {0}, NEW len \in Nat \ {0}, m * len <= n
  PROVE  PeriodOf(T, m, len) = Q[m * len] - Q[(m - 1) * len]
<1> DEFINE b == (m - 1) * len
<1> DEFINE w == [k \in 1 .. len |-> Cardinality(T[b + k].counted)]
<1>1. b \in Nat /\ b + len = m * len
  OBVIOUS
<1>2. b + len <= n /\ n <= N
  BY <1>1 DEF SumsOf
<1> DEFINE P == [k \in 0 .. len |-> Q[b + k]]
<1> HIDE DEF b
<1>3. \A k \in 1 .. len : b + k \in 1 .. n
  BY <1>1, <1>2
<1>0. ASSUME NEW k \in 1 .. len PROVE w[k] = Cardinality(T[b + k].counted) /\ w[k] \in Nat
  <2>1. w[k] = Cardinality(T[b + k].counted)
    OBVIOUS
  <2> QED BY <1>3, <2>1 DEF SumsOf
<1>4. w \in Seq(Int) /\ Len(w) = len
  <2>1. w = [k \in 1 .. len |-> w[k]]
    OBVIOUS
  <2> HIDE DEF w
  <2>2. w \in [1 .. len -> Nat]
    BY <1>0, <2>1
  <2>3. w \in Seq(Nat) /\ Len(w) = len
    BY <2>2, WindowSequence
  <2> QED BY <2>3
<1> HIDE DEF w
<1>5. P \in [0 .. len -> Int]
  <2>1. n <= N /\ Q \in [0 .. N -> Nat]
    BY DEF SumsOf
  <2>2. \A k \in 0 .. len : b + k \in 0 .. N
    BY <1>1, <1>2, <2>1
  <2>3. \A k \in 0 .. len : Q[b + k] \in Int
    BY <2>1, <2>2
  <2> QED BY <2>3
<1>6. \A k \in 1 .. len : w[k] = P[k] - P[k - 1]
  <2> SUFFICES ASSUME NEW k \in 1 .. len PROVE w[k] = P[k] - P[k - 1]
    OBVIOUS
  <2>1. b + k \in 1 .. n /\ k - 1 \in 0 .. len /\ k \in 0 .. len /\ b + (k - 1) = (b + k) - 1
    BY <1>1, <1>3
  <2>2. Q[b + k] = Q[(b + k) - 1] + Cardinality(T[b + k].counted)
    BY <2>1 DEF SumsOf
  <2>3. P[k] = Q[b + k] /\ P[k - 1] = Q[(b + k) - 1] /\ w[k] = Cardinality(T[b + k].counted)
    BY <1>0, <2>1
  <2>4. Q \in [0 .. N -> Nat] /\ (b + k) - 1 \in 0 .. N
    BY <1>1, <1>2, <2>1 DEF SumsOf
  <2>5. Q[(b + k) - 1] \in Nat /\ Cardinality(T[b + k].counted) \in Nat
    BY <2>1, <2>4 DEF SumsOf
  <2> HIDE DEF P
  <2> QED BY <2>2, <2>3, <2>5
<1>7. Total(w) = P[len] - P[0]
  <2> HIDE DEF P
  <2> QED BY <1>4, <1>5, <1>6, TotalTelescopes
<1>8. P[len] = Q[m * len] /\ P[0] = Q[b]
  <2>1. P[len] = Q[b + len] /\ P[0] = Q[b + 0] /\ b + 0 = b
    BY <1>1
  <2> QED BY <1>1, <2>1
<1> QED BY <1>7, <1>8 DEF b, w, PeriodOf

\* A window that is due is shifted and gets the last period.
LEMMA CellsShift ==
  ASSUME NEW N \in Nat \ {0}, NEW w \in [1 .. N -> Nat], NEW len \in Nat \ {0}, NEW q \in Nat, NEW Q,
         NEW v \in Nat, v = Q[(q + 1) * len] - Q[q * len],
         Cells(w, N, Q, q, len)
  PROVE  Shift(w, v) \in [1 .. N -> Nat] /\ Cells(Shift(w, v), N, Q, q + 1, len)
<1> DEFINE x == Shift(w, v)
<1>1. w \in Seq(Nat) /\ Len(w) = N /\ w # <<>>
  OBVIOUS
<1>2. Tail(w) \in Seq(Nat) /\ Len(Tail(w)) = N - 1 /\ \A i \in 1 .. N - 1 : Tail(w)[i] = w[i + 1]
  BY <1>1, HeadTailProperties
<1>3. /\ x \in Seq(Nat) /\ Len(x) = N
      /\ \A i \in 1 .. N - 1 : x[i] = w[i + 1]
      /\ x[N] = v
  <2> DEFINE t == Tail(w)
  <2> HIDE DEF t
  <2>1. /\ Append(t, v) \in Seq(Nat) /\ Len(Append(t, v)) = Len(t) + 1
        /\ \A i \in 1 .. Len(t) : Append(t, v)[i] = t[i]
        /\ Append(t, v)[Len(t) + 1] = v
    BY <1>2, AppendProperties DEF t
  <2>2. x = Append(t, v)
    BY DEF Shift, t
  <2>3. Len(t) = N - 1 /\ (N - 1) + 1 = N /\ \A i \in 1 .. N - 1 : t[i] = w[i + 1]
    BY <1>1, <1>2 DEF t
  <2> HIDE DEF x
  <2> QED BY <2>1, <2>2, <2>3
<1>4. \A i \in 1 .. N : w[i] = IF q < N - i + 1 THEN 0 ELSE Q[(q - (N - i)) * len] - Q[((q - (N - i)) - 1) * len]
  BY DEF Cells
<1> HIDE DEF x
<1>5. ASSUME NEW i \in 1 .. N
      PROVE  x[i] = IF q + 1 < N - i + 1 THEN 0
                    ELSE Q[((q + 1) - (N - i)) * len] - Q[(((q + 1) - (N - i)) - 1) * len]
  <2>1. CASE i = N
    <3>1. ~(q + 1 < N - i + 1) /\ (q + 1) - (N - i) = q + 1 /\ ((q + 1) - (N - i)) - 1 = q
      BY <2>1
    <3> QED BY <1>3, <2>1, <3>1
  <2>2. CASE i # N
    <3>1. i \in 1 .. N - 1 /\ i + 1 \in 1 .. N
      BY <2>2
    <3>2. x[i] = w[i + 1]
      BY <1>3, <3>1
    <3>3. q - (N - (i + 1)) = (q + 1) - (N - i) /\ (q < N - (i + 1) + 1 <=> q + 1 < N - i + 1)
      OBVIOUS
    <3> QED BY <1>4, <3>1, <3>2, <3>3
  <2> QED BY <2>1, <2>2
<1>6. x \in [1 .. N -> Nat]
  BY <1>3
<1> QED BY <1>5, <1>6 DEF Cells, x

\* The total of a window is the period of the coarser one that ends with it.
LEMMA CellsTotal ==
  ASSUME NEW N \in Nat \ {0}, NEW w \in [1 .. N -> Nat], NEW len \in Nat \ {0}, NEW q \in Nat,
         NEW Q \in [0 .. ((q + 1) * N) * len -> Nat],
         Cells(w, N, Q, (q + 1) * N, len)
  PROVE  /\ Total(w) = Q[((q + 1) * N) * len] - Q[(q * N) * len]
         /\ Total(w) \in Nat
<1> DEFINE d == q * N
<1>1. d \in Nat /\ (q + 1) * N = d + N
  OBVIOUS
<1> HIDE DEF d
<1> DEFINE P == [k \in 0 .. N |-> Q[(d + k) * len]]
<1>2. ASSUME NEW k \in 0 .. N PROVE (d + k) * len \in 0 .. (d + N) * len
  <2>1. N - k \in Nat /\ (N - k) * len \in Nat /\ (d + k) * len \in Nat
    BY <1>1
  <2>2. (d + N) * len = (d + k) * len + (N - k) * len
    BY <1>1, <2>1
  <2> DEFINE x == (d + k) * len
  <2> DEFINE y == (N - k) * len
  <2> DEFINE z == (d + N) * len
  <2>3. x \in Nat /\ y \in Nat /\ z = x + y
    BY <2>1, <2>2
  <2> HIDE DEF x, y, z
  <2>4. x \in 0 .. z
    BY <2>3
  <2> QED BY <2>4 DEF x, z
<1>3. Q \in [0 .. (d + N) * len -> Nat] /\ Cells(w, N, Q, d + N, len)
  BY <1>1
<1>4. \A k \in 0 .. N : Q[(d + k) * len] \in Int
  <2> SUFFICES ASSUME NEW k \in 0 .. N PROVE Q[(d + k) * len] \in Int
    OBVIOUS
  <2> DEFINE x == (d + k) * len
  <2> DEFINE z == (d + N) * len
  <2>1. x \in 0 .. z /\ Q \in [0 .. z -> Nat]
    BY <1>2, <1>3
  <2> HIDE DEF x, z
  <2>2. Q[x] \in Nat
    BY <2>1, Zenon
  <2> QED BY <2>2 DEF x
<1>5. P \in [0 .. N -> Int]
  BY <1>4
<1>6. ASSUME NEW i \in 1 .. N PROVE w[i] = P[i] - P[i - 1]
  <2>1. w[i] = IF d + N < N - i + 1 THEN 0
               ELSE Q[((d + N) - (N - i)) * len] - Q[(((d + N) - (N - i)) - 1) * len]
    BY <1>3 DEF Cells
  <2>2. ~(d + N < N - i + 1) /\ (d + N) - (N - i) = d + i /\ ((d + N) - (N - i)) - 1 = d + (i - 1)
    BY <1>1
  <2>3. P[i] = Q[(d + i) * len] /\ P[i - 1] = Q[(d + (i - 1)) * len]
    OBVIOUS
  <2> HIDE DEF P
  <2> QED BY <2>1, <2>2, <2>3
<1>7. w \in Seq(Nat) /\ Len(w) = N
  BY WindowSequence
<1>8. Total(w) = P[N] - P[0]
  <2>1. w \in Seq(Int)
    BY <1>7
  <2> HIDE DEF P
  <2> QED BY <1>5, <1>6, <1>7, <2>1, TotalTelescopes
<1>9. P[N] = Q[(d + N) * len] /\ P[0] = Q[d * len]
  <2>1. P[N] = Q[(d + N) * len] /\ P[0] = Q[(d + 0) * len] /\ d + 0 = d
    BY <1>1
  <2> HIDE DEF P
  <2> QED BY <2>1
<1>10. Total(w) \in Nat
  BY <1>7, TotalTyped
<1> HIDE DEF P
<1> QED BY <1>1, <1>8, <1>9, <1>10 DEF d

LEMMA Constants ==
  /\ Sub \in Nat \ {0} /\ PerMinute \in Nat \ {0} /\ PerHour \in Nat \ {0}
  /\ PerDay \in Nat \ {0} /\ Days \in Nat \ {0}
  /\ PerMinute * PerHour \in Nat \ {0} /\ PerHour * PerDay \in Nat \ {0} /\ Day \in Nat \ {0}
  /\ Day = (PerMinute * PerHour) * PerDay /\ Day = PerMinute * PerHour * PerDay
<1>1. /\ Sub \in Nat \ {0} /\ PerMinute \in Nat \ {0} /\ PerHour \in Nat \ {0}
      /\ PerDay \in Nat \ {0} /\ Days \in Nat \ {0}
  BY WindowAssumption
<1>2. PerMinute * PerHour \in Nat \ {0} /\ PerHour * PerDay \in Nat \ {0}
  BY <1>1
<1> QED BY <1>1, <1>2 DEF Day

LEMMA ZerosTyped ==
  ASSUME NEW n \in Nat \ {0}
  PROVE  Zeros(n) \in [1 .. n -> Nat] /\ \A i \in 1 .. n : Zeros(n)[i] = 0
BY DEF Zeros

LEMMA InitWindows == Init => Windows
<1> SUFFICES ASSUME Init PROVE Windows
  OBVIOUS
<1>1. /\ seconds = Zeros(PerMinute) /\ minutes = Zeros(PerHour) /\ hours = Zeros(PerDay)
      /\ days = Zeros(Days) /\ ticks = <<>> /\ iter = 0 /\ cur = Idle
  BY DEF Init
<1>2. Len(ticks) = 0 /\ 0 % Day = 0
  BY <1>1, Constants
<1>3. ASSUME NEW len \in Nat \ {0}, NEW n \in Nat \ {0} PROVE Holds(Zeros(n), len)
  <2>1. 0 \div len = 0
    BY <1>3
  <2>2. \A i \in 1 .. n : 0 < n - i + 1
    BY <1>3
  <2>3. Zeros(n) \in Seq(Nat) /\ Len(Zeros(n)) = n /\ DOMAIN Zeros(n) = 1 .. n
    <3>1. Zeros(n) \in [1 .. n -> Nat] /\ n \in Nat
      BY ZerosTyped
    <3> QED BY <3>1, WindowSequence
  <2>4. \A i \in 1 .. n : Zeros(n)[i] = 0
    BY ZerosTyped
  <2> QED BY <1>2, <2>1, <2>2, <2>3, <2>4 DEF Holds
<1>4. WindowsAligned
  <2>1. PerMinute * PerHour * PerDay \in Nat \ {0}
    BY Constants
  <2> QED BY <1>1, <1>3, <2>1, Constants DEF WindowsAligned
<1> QED BY <1>1, <1>2, <1>4, ZerosTyped, Constants DEF Windows

\* Each tick counted some number of samples.
LEMMA CountsTyped ==
  ASSUME TypeOK, Spent
  PROVE  /\ Len(ticks) \in Nat /\ DOMAIN ticks = 1 .. Len(ticks)
         /\ \A k \in 1 .. Len(ticks) : Cardinality(ticks[k].counted) \in Nat
<1>1. /\ Len(ticks) \in Nat /\ DOMAIN ticks = 1 .. Len(ticks)
      /\ Len(samples) \in Nat /\ DOMAIN samples = 1 .. Len(samples)
  BY HistoryTyped
<1>2. ASSUME NEW k \in 1 .. Len(ticks) PROVE Cardinality(ticks[k].counted) \in Nat
  <2>1. ticks[k].counted \in SUBSET (1 .. Len(samples))
    BY <1>1 DEF Spent
  <2>2. IsFiniteSet(1 .. Len(samples))
    BY <1>1, FS_Interval
  <2>3. IsFiniteSet(ticks[k].counted)
    BY <2>1, <2>2, FS_Subset
  <2> QED BY <2>3, FS_CardinalityType
<1> QED BY <1>1, <1>2

LEMMA CountsTypedNext ==
  ASSUME TypeOK', Spent'
  PROVE  \A k \in 1 .. Len(ticks') : Cardinality(ticks'[k].counted) \in Nat
<1>1. /\ DOMAIN ticks' = 1 .. Len(ticks')
      /\ Len(samples') \in Nat /\ DOMAIN samples' = 1 .. Len(samples')
  BY DEF TypeOK
<1>2. ASSUME NEW k \in 1 .. Len(ticks') PROVE Cardinality(ticks'[k].counted) \in Nat
  <2>1. ticks'[k].counted \in SUBSET (1 .. Len(samples'))
    BY <1>1 DEF Spent
  <2>2. IsFiniteSet(1 .. Len(samples'))
    BY <1>1, FS_Interval
  <2>3. IsFiniteSet(ticks'[k].counted)
    BY <2>1, <2>2, FS_Subset
  <2> QED BY <2>3, FS_CardinalityType
<1> QED BY <1>2

\* Holds, of the first n ticks of T.
HoldsOf(T, n, w, len) ==
  LET last == n \div len
  IN  \A i \in DOMAIN w :
        w[i] = IF last < Len(w) - i + 1 THEN 0 ELSE PeriodOf(T, last - (Len(w) - i), len)

LEMMA HoldsCells ==
  ASSUME NEW T, NEW n \in Nat, NEW N \in Nat, NEW Q, SumsOf(Q, T, n, N),
         NEW K \in Nat, NEW w \in [1 .. K -> Nat], NEW len \in Nat \ {0}
  PROVE  Cells(w, K, Q, n \div len, len) <=> HoldsOf(T, n, w, len)
<1> DEFINE last == n \div len
<1>1. last \in Nat /\ last * len <= n
  <2>1. n = len * (n \div len) + (n % len) /\ n \div len \in Nat /\ n % len \in 0 .. len - 1
    BY DivMod
  <2>2. len * (n \div len) = (n \div len) * len
    BY <2>1
  <2> DEFINE x == (n \div len) * len
  <2>3. x \in Nat /\ x + (n % len) = n /\ n % len \in Nat
    BY <2>1, <2>2
  <2> HIDE DEF x
  <2>4. x <= n
    BY <2>3
  <2> QED BY <2>1, <2>4 DEF x
<1>2. DOMAIN w = 1 .. K /\ Len(w) = K
  BY WindowSequence
<1> HIDE DEF last
<1>3. ASSUME NEW i \in 1 .. K, ~(last < K - i + 1)
      PROVE  PeriodOf(T, last - (K - i), len)
             = Q[(last - (K - i)) * len] - Q[((last - (K - i)) - 1) * len]
  <2> DEFINE m == last - (K - i)
  <2>1. m \in Nat \ {0} /\ last - m \in Nat
    <3> DEFINE e == K - i
    <3>1. e \in Nat /\ e < last
      BY <1>1, <1>3
    <3> HIDE DEF e
    <3>2. last - e \in Nat \ {0} /\ last - (last - e) \in Nat
      BY <1>1, <3>1
    <3> QED BY <3>2 DEF e
  <2> HIDE DEF m
  <2>2. m * len <= n
    <3> DEFINE x == m * len
    <3> DEFINE y == (last - m) * len
    <3> DEFINE z == last * len
    <3>1. x + y = z /\ x \in Nat /\ y \in Nat /\ z <= n /\ z \in Nat
      BY <1>1, <2>1
    <3> HIDE DEF x, y, z
    <3>2. x <= n
      BY <3>1
    <3> QED BY <3>2 DEF x
  <2>3. PeriodOf(T, m, len) = Q[m * len] - Q[(m - 1) * len]
    BY <2>1, <2>2, PeriodSum
  <2> QED BY <2>3 DEF m
<1>4. ASSUME NEW i \in 1 .. K
      PROVE  (IF last < K - i + 1 THEN 0 ELSE PeriodOf(T, last - (K - i), len))
             = (IF last < K - i + 1 THEN 0
                ELSE Q[(last - (K - i)) * len] - Q[((last - (K - i)) - 1) * len])
  BY <1>3
<1>5. HoldsOf(T, n, w, len)
      <=> \A i \in 1 .. K : w[i] = IF last < K - i + 1 THEN 0 ELSE PeriodOf(T, last - (K - i), len)
  BY <1>2 DEF HoldsOf, last
<1>6. Cells(w, K, Q, last, len)
      <=> \A i \in 1 .. K : w[i] = IF last < K - i + 1 THEN 0
                                     ELSE Q[(last - (K - i)) * len] - Q[((last - (K - i)) - 1) * len]
  BY DEF Cells
<1>7. Cells(w, K, Q, last, len) <=> HoldsOf(T, n, w, len)
  BY <1>4, <1>5, <1>6
<1> QED BY <1>7 DEF last

\* A window that is not due keeps its cells.
LEMMA CellsKept ==
  ASSUME NEW n \in Nat, NEW K, NEW x, NEW Q, NEW len \in Nat \ {0},
         Cells(x, K, Q, n \div len, len), (n + 1) % len # 0
  PROVE  Cells(x, K, Q, (n + 1) \div len, len)
<1>1. (n + 1) \div len = n \div len
  BY NextDiv
<1> QED BY <1>1

\* The finest window, after one more tick.
LEMMA CellsFinest ==
  ASSUME NEW n \in Nat, NEW N \in Nat \ {0}, NEW w \in [1 .. N -> Nat], NEW Q,
         NEW v \in Nat, v = Q[n + 1] - Q[n], Cells(w, N, Q, n \div 1, 1)
  PROVE  Shift(w, v) \in [1 .. N -> Nat] /\ Cells(Shift(w, v), N, Q, (n + 1) \div 1, 1)
<1>1. n \div 1 = n /\ (n + 1) \div 1 = n + 1 /\ (n + 1) * 1 = n + 1 /\ n * 1 = n /\ 1 \in Nat \ {0}
  OBVIOUS
<1>2. Cells(w, N, Q, n, 1) /\ v = Q[(n + 1) * 1] - Q[n * 1]
  BY <1>1
<1>3. Shift(w, v) \in [1 .. N -> Nat] /\ Cells(Shift(w, v), N, Q, n + 1, 1)
  BY <1>1, <1>2, CellsShift
<1> QED BY <1>1, <1>3

\* A window x of K cells, each the total of the N cells of the window w, when it is due.
LEMMA CellsCoarser ==
  ASSUME NEW n \in Nat, NEW N \in Nat \ {0}, NEW w \in [1 .. N -> Nat], NEW len \in Nat \ {0},
         NEW K \in Nat \ {0}, NEW x \in [1 .. K -> Nat], NEW Q \in [0 .. n + 1 -> Nat],
         Cells(w, N, Q, (n + 1) \div len, len), Cells(x, K, Q, n \div (len * N), len * N),
         (n + 1) % (len * N) = 0
  PROVE  /\ Shift(x, Total(w)) \in [1 .. K -> Nat]
         /\ Cells(Shift(x, Total(w)), K, Q, (n + 1) \div (len * N), len * N)
<1> DEFINE M == len * N
<1> DEFINE q == n \div M
<1> DEFINE u == n + 1
<1>1. M \in Nat \ {0}
  OBVIOUS
<1>2. q \in Nat /\ u \div M = q + 1 /\ u = M * (q + 1)
  <2> HIDE DEF M
  <2>1. (n + 1) % M = 0
    BY DEF M
  <2>2. n \div M \in Nat
    BY <1>1, DivMod
  <2>3. (n + 1) \div M = n \div M + 1 /\ n + 1 = M * (n \div M + 1)
    BY <1>1, <2>1, NextDiv
  <2> QED BY <2>2, <2>3
<1>3. /\ Cells(w, N, Q, u \div len, len) /\ Cells(x, K, Q, q, M) /\ Q \in [0 .. u -> Nat]
      /\ u \in Nat
  OBVIOUS
<1> HIDE DEF q, u
<1> DEFINE c == (q + 1) * N
<1>4. c \in Nat /\ u = len * c + 0 /\ u = c * len /\ (q * N) * len = q * M /\ u = (q + 1) * M /\ 0 \in 0 .. len - 1
  BY <1>2
<1> HIDE DEF M
<1>5. u \div len = c
  <2> HIDE DEF c
  <2> QED BY <1>3, <1>4, DivModUnique
<1>6. Q \in [0 .. ((q + 1) * N) * len -> Nat] /\ Cells(w, N, Q, (q + 1) * N, len)
  BY <1>3, <1>4, <1>5
<1> HIDE DEF c
<1> DEFINE v == Total(w)
<1>7. v = Q[((q + 1) * N) * len] - Q[(q * N) * len] /\ v \in Nat
  BY <1>2, <1>6, CellsTotal
<1> HIDE DEF v
<1>8. v = Q[(q + 1) * M] - Q[q * M]
  BY <1>4, <1>7 DEF c
<1>9. Shift(x, v) \in [1 .. K -> Nat] /\ Cells(Shift(x, v), K, Q, q + 1, M)
  BY <1>1, <1>2, <1>3, <1>7, <1>8, CellsShift
<1> QED BY <1>2, <1>9 DEF u, v, M

\* The sums after a tick are sums before it.
LEMMA AggregateSums ==
  ASSUME Inv, Inv', Aggregate
  PROVE  LET n == Len(ticks)
         IN  \E Q : /\ Q \in [0 .. n + 1 -> Nat]
                    /\ SumsOf(Q, ticks, n, n + 1) /\ SumsOf(Q, ticks', n + 1, n + 1)
                    /\ Q[n + 1] - Q[n] = Cardinality(Counted) /\ Cardinality(Counted) \in Nat
<1> DEFINE n == Len(ticks)
<1>1. /\ Len(ticks') = n + 1 /\ \A k \in 1 .. n : ticks'[k] = ticks[k]
      /\ ticks'[n + 1].counted = Counted
  BY AggregateData
<1>2. n \in Nat
  BY HistoryTyped DEF Inv
<1>3. \A k \in 1 .. n + 1 : Cardinality(ticks'[k].counted) \in Nat
  <2>1. TypeOK' /\ Spent'
    BY DEF Inv
  <2>2. \A k \in 1 .. Len(ticks') : Cardinality(ticks'[k].counted) \in Nat
    BY <2>1, CountsTypedNext
  <2> QED BY <1>1, <2>2
<1> HIDE DEF n
<1>4. PICK Q \in [0 .. n + 1 -> Nat] : \A k \in 1 .. n + 1 : Q[k] = Q[k - 1] + Cardinality(ticks'[k].counted)
  <2> DEFINE w == [k \in 1 .. n + 1 |-> Cardinality(ticks'[k].counted)]
  <2>1. w \in Seq(Nat) /\ Len(w) = n + 1
    BY <1>2, <1>3
  <2>2. \A k \in 1 .. n + 1 : w[k] = Cardinality(ticks'[k].counted)
    OBVIOUS
  <2> HIDE DEF w
  <2>3. \E Q \in [0 .. Len(w) -> Nat] : Q[0] = 0 /\ \A i \in 1 .. Len(w) : Q[i] = Q[i - 1] + w[i]
    BY <2>1, Sums
  <2> QED BY <2>1, <2>2, <2>3
<1>5. SumsOf(Q, ticks', n + 1, n + 1)
  BY <1>2, <1>3, <1>4 DEF SumsOf
<1>6. SumsOf(Q, ticks, n, n + 1)
  <2>1. \A k \in 1 .. n : k \in 1 .. n + 1 /\ ticks'[k] = ticks[k]
    BY <1>1, <1>2
  <2>2. n \in 0 .. n + 1
    BY <1>2
  <2> QED BY <1>3, <1>4, <2>1, <2>2 DEF SumsOf
<1>7. Q[n + 1] - Q[n] = Cardinality(Counted) /\ Cardinality(Counted) \in Nat
  <2> DEFINE v == Cardinality(Counted)
  <2>1. n + 1 \in 1 .. n + 1 /\ (n + 1) - 1 = n /\ n \in 0 .. n + 1
    BY <1>2
  <2>2. v \in Nat /\ Q[n] \in Nat /\ Q[n + 1] = Q[n] + v
    BY <1>1, <1>3, <1>4, <2>1
  <2> HIDE DEF v
  <2>3. Q[n + 1] - Q[n] = v
    BY <2>2
  <2> QED BY <2>2, <2>3 DEF v
<1> QED BY <1>5, <1>6, <1>7 DEF n

LEMMA AggregateWindows ==
  ASSUME Inv, Inv', Windows, Aggregate
  PROVE  Windows'
<1> DEFINE n == Len(ticks)
<1> DEFINE v == Cardinality(Counted)
<1> DEFINE a == PerMinute
<1> DEFINE b == PerMinute * PerHour
<1>1. cur \in Nat /\ cur' = Idle /\ Len(ticks') = n + 1 /\ n \in Nat
  BY AggregateData, HistoryTyped DEF Inv
<1>2. PICK Q : /\ Q \in [0 .. n + 1 -> Nat]
               /\ SumsOf(Q, ticks, n, n + 1) /\ SumsOf(Q, ticks', n + 1, n + 1)
               /\ Q[n + 1] - Q[n] = v /\ v \in Nat
  BY AggregateSums
<1>3. /\ a \in Nat \ {0} /\ b \in Nat \ {0} /\ Day \in Nat \ {0}
      /\ PerMinute \in Nat \ {0} /\ PerHour \in Nat \ {0} /\ PerDay \in Nat \ {0} /\ Days \in Nat \ {0}
      /\ PerHour * PerDay \in Nat \ {0}
  BY Constants
<1>4. Day = a * (PerHour * PerDay) /\ Day = b * PerDay /\ b = a * PerHour /\ PerMinute * PerHour * PerDay = Day
  BY Constants DEF Day
<1>5. 1 * PerMinute = a /\ 1 \in Nat \ {0} /\ n + 1 \in Nat
  BY <1>1, <1>3
<1>6. iter = (n % Day) + 1
  BY <1>1, IdleAssumption DEF Windows
<1>7. /\ seconds \in [1 .. PerMinute -> Nat] /\ minutes \in [1 .. PerHour -> Nat]
      /\ hours \in [1 .. PerDay -> Nat] /\ days \in [1 .. Days -> Nat]
  BY DEF Windows
<1>8. /\ HoldsOf(ticks, n, seconds, 1) /\ HoldsOf(ticks, n, minutes, a)
      /\ HoldsOf(ticks, n, hours, b) /\ HoldsOf(ticks, n, days, Day)
  BY <1>4 DEF Windows, WindowsAligned, Holds, HoldsOf, PeriodTotal, PeriodOf
<1>9. /\ seconds' = Shift(seconds, v)
      /\ minutes' = IF iter % a = 0 THEN Shift(minutes, Total(seconds')) ELSE minutes
      /\ hours' = IF iter % b = 0 THEN Shift(hours, Total(minutes')) ELSE hours
      /\ days' = IF iter % Day = 0 THEN Shift(days, Total(hours')) ELSE days
      /\ iter' = IF iter % Day = 0 THEN 0 ELSE iter
  BY <1>4 DEF Aggregate, Roll
<1>10. /\ Holds(seconds, 1)' <=> HoldsOf(ticks', n + 1, seconds', 1)
       /\ Holds(minutes, PerMinute)' <=> HoldsOf(ticks', n + 1, minutes', a)
       /\ Holds(hours, PerMinute * PerHour)' <=> HoldsOf(ticks', n + 1, hours', b)
       /\ Holds(days, PerMinute * PerHour * PerDay)' <=> HoldsOf(ticks', n + 1, days', Day)
  BY <1>1, <1>4 DEF Holds, HoldsOf, PeriodTotal, PeriodOf
<1>11. n % Day \in 0 .. Day - 1 /\ (n + 1) % Day \in 0 .. Day - 1
  BY <1>3, <1>5, <1>1, DivMod
<1> HIDE DEF n, v, a, b
\* The ticks of the day are counted as well as all of them, to see what is due.
<1>12. iter % a = (n + 1) % a
  <2>1. ((n % (a * (PerHour * PerDay))) + 1) % a = (n + 1) % a
    BY <1>1, <1>3, ModMultiple
  <2> QED BY <1>4, <1>6, <2>1
<1>13. iter % b = (n + 1) % b
  <2>1. ((n % (b * PerDay)) + 1) % b = (n + 1) % b
    BY <1>1, <1>3, ModMultiple
  <2> QED BY <1>4, <1>6, <2>1
<1>14. /\ iter % Day = 0 <=> (n + 1) % Day = 0
       /\ iter % Day # 0 => iter = (n + 1) % Day
  <2>1. /\ (n + 1) % Day # 0 => (n + 1) % Day = (n % Day) + 1
        /\ (n + 1) % Day = 0 => n % Day = Day - 1
    BY <1>1, <1>3, NextDiv
  <2>2. CASE iter = Day
    <3>1. Day = Day * 1 + 0 /\ 0 \in 0 .. Day - 1 /\ Day \in Nat /\ 1 \in Nat
      BY <1>3
    <3>2. Day % Day = 0
      BY <1>3, <3>1, DivModUnique
    <3>3. n % Day = Day - 1
      BY <1>3, <1>6, <1>11, <2>2
    <3>4. (n + 1) % Day # 0 => (n + 1) % Day = Day
      BY <1>6, <2>1, <2>2
    <3>5. (n + 1) % Day # Day
      BY <1>3, <1>11
    <3> QED BY <2>2, <3>2, <3>4, <3>5
  <2>3. CASE iter # Day
    <3>1. iter = Day * 0 + iter /\ iter \in 0 .. Day - 1 /\ iter \in Nat /\ 0 \in Nat /\ iter # 0
      BY <1>3, <1>6, <1>11, <2>3
    <3>2. iter % Day = iter
      BY <1>3, <3>1, DivModUnique
    <3>3. (n + 1) % Day # 0
      BY <1>3, <1>6, <1>11, <2>1, <2>3
    <3> QED BY <1>6, <2>1, <3>1, <3>2, <3>3
  <2> QED BY <2>2, <2>3
<1>15. ASSUME NEW K \in Nat, NEW w \in [1 .. K -> Nat], NEW len \in Nat \ {0}, HoldsOf(ticks, n, w, len)
       PROVE  Cells(w, K, Q, n \div len, len)
  BY <1>1, <1>2, <1>5, <1>15, HoldsCells
<1>16. ASSUME NEW K \in Nat, NEW w \in [1 .. K -> Nat], NEW len \in Nat \ {0},
              Cells(w, K, Q, (n + 1) \div len, len)
       PROVE  HoldsOf(ticks', n + 1, w, len)
  <2> DEFINE T == ticks'
  <2>1. SumsOf(Q, T, n + 1, n + 1)
    BY <1>2
  <2> HIDE DEF T
  <2>2. HoldsOf(T, n + 1, w, len)
    BY <1>5, <1>16, <2>1, HoldsCells
  <2> QED BY <2>2 DEF T
<1>17. seconds' \in [1 .. PerMinute -> Nat] /\ Cells(seconds', PerMinute, Q, (n + 1) \div 1, 1)
  <2>1. Cells(seconds, PerMinute, Q, n \div 1, 1)
    BY <1>3, <1>5, <1>7, <1>8, <1>15
  <2>2. v \in Nat /\ v = Q[n + 1] - Q[n]
    BY <1>2
  <2>3. /\ Shift(seconds, v) \in [1 .. PerMinute -> Nat]
        /\ Cells(Shift(seconds, v), PerMinute, Q, (n + 1) \div 1, 1)
    BY <1>1, <1>3, <1>7, <2>1, <2>2, CellsFinest
  <2> QED BY <1>9, <2>3
\* The next window, of K cells that are N of the cells of w.
<1>18. ASSUME NEW N \in Nat \ {0}, NEW w \in [1 .. N -> Nat], NEW len \in Nat \ {0},
              NEW K \in Nat \ {0}, NEW x \in [1 .. K -> Nat],
              Cells(w, N, Q, (n + 1) \div len, len), HoldsOf(ticks, n, x, len * N)
       PROVE  LET y == IF (n + 1) % (len * N) = 0 THEN Shift(x, Total(w)) ELSE x
              IN  y \in [1 .. K -> Nat] /\ Cells(y, K, Q, (n + 1) \div (len * N), len * N)
  <2>1. len * N \in Nat \ {0} /\ K \in Nat
    OBVIOUS
  <2>2. Cells(x, K, Q, n \div (len * N), len * N)
    BY <1>15, <1>18, <2>1
  <2>3. CASE (n + 1) % (len * N) = 0
    <3>1. /\ Shift(x, Total(w)) \in [1 .. K -> Nat]
          /\ Cells(Shift(x, Total(w)), K, Q, (n + 1) \div (len * N), len * N)
      BY <1>1, <1>2, <1>18, <2>2, <2>3, CellsCoarser
    <3> QED BY <2>3, <3>1
  <2>4. CASE (n + 1) % (len * N) # 0
    <3> DEFINE M == len * N
    <3>1. M \in Nat \ {0} /\ (n + 1) % M # 0 /\ Cells(x, K, Q, n \div M, M)
      BY <2>1, <2>2, <2>4
    <3> HIDE DEF M
    <3>2. Cells(x, K, Q, (n + 1) \div M, M)
      BY <1>1, <3>1, CellsKept
    <3> QED BY <2>4, <3>2 DEF M
  <2> QED BY <2>3, <2>4
<1>19. minutes' \in [1 .. PerHour -> Nat] /\ Cells(minutes', PerHour, Q, (n + 1) \div a, a)
  <2>1. HoldsOf(ticks, n, minutes, 1 * PerMinute)
    BY <1>5, <1>8
  <2> DEFINE y == IF (n + 1) % (1 * PerMinute) = 0 THEN Shift(minutes, Total(seconds')) ELSE minutes
  <2>2. y \in [1 .. PerHour -> Nat] /\ Cells(y, PerHour, Q, (n + 1) \div (1 * PerMinute), 1 * PerMinute)
    BY <1>3, <1>5, <1>7, <1>17, <1>18, <2>1
  <2>3. minutes' = y
    BY <1>5, <1>9, <1>12
  <2> HIDE DEF y
  <2> QED BY <1>5, <2>2, <2>3
<1>20. hours' \in [1 .. PerDay -> Nat] /\ Cells(hours', PerDay, Q, (n + 1) \div b, b)
  <2>1. HoldsOf(ticks, n, hours, a * PerHour)
    BY <1>4, <1>8
  <2> DEFINE y == IF (n + 1) % (a * PerHour) = 0 THEN Shift(hours, Total(minutes')) ELSE hours
  <2>2. y \in [1 .. PerDay -> Nat] /\ Cells(y, PerDay, Q, (n + 1) \div (a * PerHour), a * PerHour)
    BY <1>3, <1>7, <1>18, <1>19, <2>1
  <2>3. hours' = y
    BY <1>4, <1>9, <1>13
  <2> HIDE DEF y
  <2> QED BY <1>4, <2>2, <2>3
<1>21. days' \in [1 .. Days -> Nat] /\ Cells(days', Days, Q, (n + 1) \div Day, Day)
  <2>1. HoldsOf(ticks, n, days, b * PerDay)
    BY <1>4, <1>8
  <2> DEFINE y == IF (n + 1) % (b * PerDay) = 0 THEN Shift(days, Total(hours')) ELSE days
  <2>2. y \in [1 .. Days -> Nat] /\ Cells(y, Days, Q, (n + 1) \div (b * PerDay), b * PerDay)
    BY <1>3, <1>7, <1>18, <1>20, <2>1
  <2>3. days' = y
    BY <1>4, <1>9, <1>14
  <2> HIDE DEF y
  <2> QED BY <1>4, <2>2, <2>3
<1>22. WindowsAligned'
  <2>1. HoldsOf(ticks', n + 1, seconds', 1)
    BY <1>3, <1>5, <1>16, <1>17
  <2>2. HoldsOf(ticks', n + 1, minutes', a)
    BY <1>3, <1>16, <1>19
  <2>3. HoldsOf(ticks', n + 1, hours', b)
    BY <1>3, <1>16, <1>20
  <2>4. HoldsOf(ticks', n + 1, days', Day)
    BY <1>3, <1>16, <1>21
  <2> QED BY <1>10, <2>1, <2>2, <2>3, <2>4 DEF WindowsAligned
<1>23. iter' = (Len(ticks') % Day) + (IF cur' = Idle THEN 0 ELSE 1)
  <2>1. iter' = (n + 1) % Day
    BY <1>9, <1>14
  <2>2. (n + 1) % Day \in Nat
    BY <1>11, <1>3
  <2> QED BY <1>1, <2>1, <2>2 DEF n
<1> QED BY <1>17, <1>19, <1>20, <1>21, <1>22, <1>23 DEF Windows

\* The steps that leave the ticks alone.
LEMMA QuietWindows ==
  ASSUME Inv, Windows, Next \/ UNCHANGED vars, ~Aggregate
  PROVE  Windows'
<1>1. UNCHANGED <<seconds, minutes, hours, days, ticks>>
  BY DEF Next, Putter, Timer, Stopper, Advance, Enter, Find, Insert, Put, Fire, StopFlag, StopAggs, StopJoin,
         windowVars, vars
<1>2. \/ iter' = iter /\ cur' = cur
      \/ iter' = iter + 1 /\ cur = Idle /\ cur' # Idle
  <2>1. CASE Fire /\ active
    <3>1. cur = Idle /\ cur' = Second(now) /\ iter' = iter + 1
      BY <2>1 DEF Fire
    <3>2. Second(now) \in Nat
      BY NowTyped DEF Inv
    <3> QED BY <3>1, <3>2, IdleAssumption
  <2>2. CASE ~(Fire /\ active)
    BY <2>2 DEF Next, Putter, Timer, Stopper, Advance, Enter, Find, Insert, Put, Fire, StopFlag, StopAggs, StopJoin,
           windowVars, vars
  <2> QED BY <2>1, <2>2
<1>3. Len(ticks) \in Nat /\ Day \in Nat \ {0} /\ Len(ticks) % Day \in Nat
  <2>1. Len(ticks) \in Nat
    BY HistoryTyped DEF Inv
  <2>2. Day \in Nat \ {0}
    BY Constants
  <2> QED BY <2>1, <2>2, DivMod
<1>4. iter' = (Len(ticks') % Day) + (IF cur' = Idle THEN 0 ELSE 1)
  <2>1. iter = (Len(ticks) % Day) + (IF cur = Idle THEN 0 ELSE 1) /\ ticks' = ticks
    BY <1>1 DEF Windows
  <2> QED BY <1>2, <1>3, <2>1
<1>5. WindowsAligned'
  BY <1>1 DEF Windows, WindowsAligned, Holds, PeriodTotal
<1> QED BY <1>1, <1>4, <1>5 DEF Windows

LEMMA NextWindows == Inv /\ Inv' /\ Windows /\ [Next]_vars => Windows'
<1> SUFFICES ASSUME Inv, Inv', Windows, [Next]_vars PROVE Windows'
  OBVIOUS
<1>1. CASE Aggregate
  BY <1>1, AggregateWindows
<1>2. CASE ~Aggregate
  BY <1>2, QuietWindows
<1> QED BY <1>1, <1>2

\* Every tick enters one cell of each window, and the cells are the last complete
\* periods, whatever the lengths of the windows, also when iter_ starts again.
THEOREM WindowsAlwaysAligned == Spec => []WindowsAligned
<1>1. Init => Windows
  BY InitWindows
<1>2. Inv /\ Inv' /\ Windows /\ [Next]_vars => Windows'
  BY NextWindows
<1>3. Windows => WindowsAligned
  BY DEF Windows
<1>4. Spec => []Windows
  BY <1>1, <1>2, Invariant, PTL DEF Spec
<1> QED BY <1>3, <1>4, PTL
=============================================================================
