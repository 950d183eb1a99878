----------------------- MODULE PyDynamicBatcher_proofs -----------------------
(***************************************************************************)
(* Theorems about PyDynamicBatcher, for every set of requests and of       *)
(* workers and every batch size, and about the converters its workers, and *)
(* those of the C++ batcher, call (TensorBatch, in the second half).       *)
(***************************************************************************)
EXTENDS PyDynamicBatcher, TensorBatch, TLAPS, SequenceTheorems, FiniteSetTheorems,
        WellFoundedInduction

TypeOK ==
  /\ queue \in Seq(Requests) /\ tasks \in Seq(Requests)
  /\ sched \in SchedPcs /\ expired \in BOOLEAN
  /\ posted \in Seq(Seq(Requests))
  /\ wpc \in [Workers -> WorkerPcs] /\ wbatch \in [Workers -> Seq(Requests)]
  /\ phase \in [Requests -> {"new", "waiting", "returned"}]
  /\ outcome \in [Requests -> {"none", "ok", "error"}]
  /\ future \in [Requests -> {"none", "pending", "set"}]
  /\ err \in [Requests -> BOOLEAN] /\ blamed \in [Requests -> BOOLEAN]
  /\ out \in [Requests -> BOOLEAN] /\ streamEnd \in [Requests -> BOOLEAN]

\* Between two rounds there is no batch; within one it is never empty.
Rounds == tasks = <<>> <=> sched \in {"wait", "asleep1"}

\* Exactly the busy workers hold something, and what is posted is something.
Busy ==
  /\ \A w \in Workers : wpc[w] = "idle" <=> wbatch[w] = <<>>
  /\ \A k \in DOMAIN posted : posted[k] # <<>>

\* Accepted calls that are in no batch yet, in the order of their arrival.
Pending == tasks \o queue

\* The tasks of the batches posted or run.
Away == PostedTasks \cup WorkerTasks

\* No task is in two places.
Apart ==
  /\ IsInjective(Pending)
  /\ \A k \in DOMAIN posted : IsInjective(posted[k])
  /\ \A w \in Workers : IsInjective(wbatch[w])
  /\ ToSet(Pending) \cap Away = {}
  /\ PostedTasks \cap WorkerTasks = {}
  /\ \A j, k \in DOMAIN posted : ToSet(posted[j]) \cap ToSet(posted[k]) # {} => j = k
  /\ \A v, w \in Workers : ToSet(wbatch[v]) \cap ToSet(wbatch[w]) # {} => v = w

\* How far the call of a request and its future have come, by where its task is.
Calls ==
  /\ \A r \in Requests : future[r] = "none" <=> phase[r] = "new"
  /\ \A r \in Requests : future[r] = "pending" => phase[r] = "waiting"
  /\ \A r \in ToSet(Pending) : future[r] = "pending"
  /\ \A r \in Away : future[r] = "pending" \/ (future[r] = "set" /\ streamEnd[r])

(***************************************************************************)
(* A caller whose future is not set yet is in the queue, in the batch      *)
(* being assembled, in one between the lock and the submission, or in one  *)
(* some worker has or will have: no thread forgets it.                     *)
(***************************************************************************)
NoTaskLost ==
  \A r \in Requests : phase[r] = "waiting" /\ future[r] # "set" => r \in Held

\* Why a context is in error.
Cause == \A r \in Requests : err[r] => blamed[r] \/ (LateNotifyErrs /\ streamEnd[r])

Inv == TypeOK /\ Rounds /\ Busy /\ Apart /\ Calls /\ NoTaskLost /\ Cause /\ AnswerJustified
-----------------------------------------------------------------------------
(***************************************************************************)
(* What the operations on the queue and the batches do to their members.   *)
(***************************************************************************)
LEMMA ToSetMembers ==
  ASSUME NEW S, NEW s \in Seq(S)
  PROVE  /\ ToSet(s) \subseteq S
         /\ \A x \in ToSet(s) : \E i \in 1 .. Len(s) : s[i] = x
         /\ \A i \in 1 .. Len(s) : s[i] \in ToSet(s)
BY DEF ToSet

LEMMA AppendMembers ==
  ASSUME NEW S, NEW s \in Seq(S), NEW x \in S
  PROVE  /\ ToSet(Append(s, x)) = ToSet(s) \cup {x}
         /\ IsInjective(s) /\ x \notin ToSet(s) => IsInjective(Append(s, x))
<1>1. /\ DOMAIN Append(s, x) = 1 .. Len(s) + 1
      /\ \A i \in 1 .. Len(s) : Append(s, x)[i] = s[i]
      /\ Append(s, x)[Len(s) + 1] = x
      /\ DOMAIN s = 1 .. Len(s) /\ Len(s) \in Nat
  OBVIOUS
<1>2. ToSet(Append(s, x)) \subseteq ToSet(s) \cup {x}
  BY <1>1 DEF ToSet
<1>3. ToSet(s) \subseteq ToSet(Append(s, x)) /\ x \in ToSet(Append(s, x))
  BY <1>1 DEF ToSet
<1>4. ASSUME IsInjective(s), x \notin ToSet(s) PROVE IsInjective(Append(s, x))
  <2> SUFFICES ASSUME NEW i \in 1 .. Len(s) + 1, NEW j \in 1 .. Len(s) + 1,
                      Append(s, x)[i] = Append(s, x)[j]
               PROVE  i = j
    BY <1>1 DEF IsInjective
  <2>1. \A k \in 1 .. Len(s) : s[k] # x
    BY <1>1, <1>4 DEF ToSet
  <2>2. \A k, l \in 1 .. Len(s) : s[k] = s[l] => k = l
    BY <1>1, <1>4 DEF IsInjective
  <2> QED BY <1>1, <2>1, <2>2
<1> QED BY <1>2, <1>3, <1>4

LEMMA ConcatMembers ==
  ASSUME NEW S, NEW s \in Seq(S), NEW t \in Seq(S)
  PROVE  /\ s \o t \in Seq(S) /\ Len(s \o t) = Len(s) + Len(t)
         /\ ToSet(s \o t) = ToSet(s) \cup ToSet(t)
         /\ IsInjective(s) /\ IsInjective(t) /\ ToSet(s) \cap ToSet(t) = {} => IsInjective(s \o t)
<1> DEFINE u == s \o t
<1>1. /\ DOMAIN u = 1 .. Len(s) + Len(t) /\ u \in Seq(S) /\ Len(u) = Len(s) + Len(t)
      /\ \A i \in 1 .. Len(s) : u[i] = s[i]
      /\ \A i \in 1 .. Len(t) : u[Len(s) + i] = t[i]
      /\ DOMAIN s = 1 .. Len(s) /\ DOMAIN t = 1 .. Len(t)
      /\ Len(s) \in Nat /\ Len(t) \in Nat
  OBVIOUS
<1> HIDE DEF u
<1>2. ASSUME NEW i \in 1 .. Len(s) + Len(t)
      PROVE  i \in 1 .. Len(s) \/ \E k \in 1 .. Len(t) : i = Len(s) + k
  <2>1. CASE i <= Len(s)
    BY <1>1, <2>1
  <2>2. CASE ~(i <= Len(s))
    <3>1. i - Len(s) \in 1 .. Len(t) /\ i = Len(s) + (i - Len(s))
      BY <1>1, <2>2
    <3> QED BY <3>1
  <2> QED BY <2>1, <2>2
<1>3. ToSet(u) \subseteq ToSet(s) \cup ToSet(t)
  <2>1. ASSUME NEW i \in 1 .. Len(s) + Len(t) PROVE u[i] \in ToSet(s) \cup ToSet(t)
    BY <1>1, <1>2 DEF ToSet
  <2> QED BY <1>1, <2>1 DEF ToSet
<1>4. ToSet(s) \subseteq ToSet(u)
  BY <1>1 DEF ToSet
<1>5. ToSet(t) \subseteq ToSet(u)
  <2>1. \A i \in 1 .. Len(t) : Len(s) + i \in 1 .. Len(s) + Len(t)
    BY <1>1
  <2>2. \A i \in 1 .. Len(t) : t[i] \in ToSet(u)
    BY <1>1, <2>1 DEF ToSet
  <2> QED BY <1>1, <2>2 DEF ToSet
<1>6. ASSUME IsInjective(s), IsInjective(t), ToSet(s) \cap ToSet(t) = {} PROVE IsInjective(u)
  <2>1. /\ \A k, l \in 1 .. Len(s) : s[k] = s[l] => k = l
        /\ \A k, l \in 1 .. Len(t) : t[k] = t[l] => k = l
    BY <1>1, <1>6 DEF IsInjective
  <2>2. \A k \in 1 .. Len(s), l \in 1 .. Len(t) : s[k] # t[l]
    BY <1>1, <1>6 DEF ToSet
  <2> SUFFICES ASSUME NEW i \in 1 .. Len(s) + Len(t), NEW j \in 1 .. Len(s) + Len(t), u[i] = u[j]
               PROVE  i = j
    BY <1>1 DEF IsInjective
  <2>3. CASE i \in 1 .. Len(s) /\ j \in 1 .. Len(s)
    BY <1>1, <2>1, <2>3
  <2>4. CASE i \in 1 .. Len(s) /\ \E l \in 1 .. Len(t) : j = Len(s) + l
    BY <1>1, <2>2, <2>4
  <2>5. CASE j \in 1 .. Len(s) /\ \E l \in 1 .. Len(t) : i = Len(s) + l
    BY <1>1, <2>2, <2>5
  <2>6. CASE (\E k \in 1 .. Len(t) : i = Len(s) + k) /\ \E l \in 1 .. Len(t) : j = Len(s) + l
    <3>1. PICK k \in 1 .. Len(t), l \in 1 .. Len(t) : i = Len(s) + k /\ j = Len(s) + l
      BY <2>6
    <3>2. t[k] = t[l]
      BY <1>1, <3>1
    <3> QED BY <2>1, <3>1, <3>2
  <2> QED BY <1>2, <2>3, <2>4, <2>5, <2>6
<1> QED BY <1>1, <1>3, <1>4, <1>5, <1>6 DEF u

LEMMA HeadTailMembers ==
  ASSUME NEW S, NEW s \in Seq(S), s # <<>>
  PROVE  /\ Head(s) \in S /\ Tail(s) \in Seq(S) /\ Len(Tail(s)) = Len(s) - 1
         /\ ToSet(s) = {Head(s)} \cup ToSet(Tail(s))
         /\ IsInjective(s) => IsInjective(Tail(s)) /\ Head(s) \notin ToSet(Tail(s))
<1>1. /\ DOMAIN s = 1 .. Len(s) /\ Len(s) \in Nat /\ Len(s) >= 1
      /\ Head(s) = s[1] /\ Head(s) \in S /\ Tail(s) \in Seq(S) /\ Len(Tail(s)) = Len(s) - 1
      /\ DOMAIN Tail(s) = 1 .. Len(s) - 1
      /\ \A i \in 1 .. Len(s) - 1 : Tail(s)[i] = s[i + 1]
  OBVIOUS
<1>2. ASSUME NEW i \in 1 .. Len(s) PROVE s[i] \in {Head(s)} \cup ToSet(Tail(s))
  <2>1. CASE i = 1
    BY <1>1, <2>1
  <2>2. CASE i # 1
    <3>1. i - 1 \in DOMAIN Tail(s) /\ Tail(s)[i - 1] = s[i]
      BY <1>1, <2>2
    <3> QED BY <3>1 DEF ToSet
  <2> QED BY <2>1, <2>2
<1>3. ToSet(s) \subseteq {Head(s)} \cup ToSet(Tail(s))
  BY <1>1, <1>2 DEF ToSet
<1>4. \A i \in 1 .. Len(s) - 1 : i + 1 \in 1 .. Len(s) /\ 1 \in 1 .. Len(s) /\ i + 1 # 1
  BY <1>1
<1>5. Head(s) \in ToSet(s) /\ ToSet(Tail(s)) \subseteq ToSet(s)
  <2>1. Head(s) \in ToSet(s)
    BY <1>1 DEF ToSet
  <2>2. \A i \in 1 .. Len(s) - 1 : Tail(s)[i] \in ToSet(s)
    BY <1>1, <1>4 DEF ToSet
  <2> QED BY <1>1, <2>1, <2>2 DEF ToSet
<1>6. ASSUME IsInjective(s) PROVE IsInjective(Tail(s)) /\ Head(s) \notin ToSet(Tail(s))
  <2>1. \A k, l \in 1 .. Len(s) : s[k] = s[l] => k = l
    BY <1>1, <1>6 DEF IsInjective
  <2>2. ASSUME NEW i \in 1 .. Len(s) - 1, NEW j \in 1 .. Len(s) - 1, Tail(s)[i] = Tail(s)[j]
        PROVE  i = j
    <3>1. i + 1 = j + 1
      BY <1>1, <1>4, <2>1, <2>2
    <3> QED BY <3>1
  <2>3. ASSUME NEW i \in 1 .. Len(s) - 1 PROVE Tail(s)[i] # Head(s)
    BY <1>1, <1>4, <2>1
  <2>4. IsInjective(Tail(s))
    BY <1>1, <2>2 DEF IsInjective
  <2>5. Head(s) \notin ToSet(Tail(s))
    BY <1>1, <2>3 DEF ToSet
  <2> QED BY <2>4, <2>5
<1> QED BY <1>1, <1>3, <1>5, <1>6

LEMMA InjectiveParts ==
  ASSUME NEW S, NEW s \in Seq(S), NEW t \in Seq(S), IsInjective(s \o t)
  PROVE  IsInjective(s) /\ IsInjective(t) /\ ToSet(s) \cap ToSet(t) = {}
<1> DEFINE u == s \o t
<1>1. /\ DOMAIN u = 1 .. Len(s) + Len(t)
      /\ \A i \in 1 .. Len(s) : u[i] = s[i]
      /\ \A i \in 1 .. Len(t) : u[Len(s) + i] = t[i]
      /\ DOMAIN s = 1 .. Len(s) /\ DOMAIN t = 1 .. Len(t)
      /\ Len(s) \in Nat /\ Len(t) \in Nat
  OBVIOUS
<1> HIDE DEF u
<1>2. \A i, j \in 1 .. Len(s) + Len(t) : u[i] = u[j] => i = j
  BY <1>1 DEF IsInjective, u
<1>3. /\ \A i \in 1 .. Len(s) : i \in 1 .. Len(s) + Len(t)
      /\ \A i \in 1 .. Len(t) : Len(s) + i \in 1 .. Len(s) + Len(t)
  BY <1>1
<1>4. IsInjective(s)
  BY <1>1, <1>2, <1>3 DEF IsInjective
<1>5. IsInjective(t)
  <2>1. ASSUME NEW i \in 1 .. Len(t), NEW j \in 1 .. Len(t), t[i] = t[j] PROVE i = j
    <3>1. Len(s) + i = Len(s) + j
      BY <1>1, <1>2, <1>3, <2>1
    <3> QED BY <1>1, <3>1
  <2> QED BY <1>1, <2>1 DEF IsInjective
<1>6. ASSUME NEW i \in 1 .. Len(s), NEW j \in 1 .. Len(t) PROVE s[i] # t[j]
  <2>1. i # Len(s) + j
    BY <1>1
  <2> QED BY <1>1, <1>2, <1>3, <2>1
<1> QED BY <1>1, <1>4, <1>5, <1>6 DEF ToSet

\* A sequence is what its first n members and the rest are.
LEMMA Cut ==
  ASSUME NEW S, NEW s \in Seq(S), NEW n \in 0 .. Len(s)
  PROVE  /\ SubSeq(s, 1, n) \in Seq(S) /\ SubSeq(s, n + 1, Len(s)) \in Seq(S)
         /\ Len(SubSeq(s, 1, n)) = n
         /\ SubSeq(s, 1, n) \o SubSeq(s, n + 1, Len(s)) = s
<1>1. Len(s) \in Nat /\ n \in Nat /\ n <= Len(s)
  OBVIOUS
<1>2. SubSeq(s, 1, n) \in Seq(S) /\ Len(SubSeq(s, 1, n)) = n /\ SubSeq(s, n + 1, Len(s)) \in Seq(S)
  BY <1>1
<1>3. 1 \in 1 .. Len(s) + 1 /\ n \in 1 - 1 .. Len(s) /\ Len(s) \in n .. Len(s)
  BY <1>1
<1>4. SubSeq(s, 1, n) \o SubSeq(s, n + 1, Len(s)) = SubSeq(s, 1, Len(s))
  BY <1>3, ConcatAdjacentSubSeq
<1> QED BY <1>2, <1>4, SubSeqFull

\* Members moved from the front of s to the back of t leave the whole as it is.
LEMMA CutMoved ==
  ASSUME NEW S, NEW s \in Seq(S), NEW t \in Seq(S), NEW n \in 0 .. Len(s)
  PROVE  (t \o SubSeq(s, 1, n)) \o SubSeq(s, n + 1, Len(s)) = t \o s
<1> DEFINE a == SubSeq(s, 1, n)
<1> DEFINE b == SubSeq(s, n + 1, Len(s))
<1> DEFINE ta == t \o a
<1> DEFINE left == ta \o b
<1> DEFINE right == t \o s
<1>1. a \in Seq(S) /\ b \in Seq(S) /\ a \o b = s
  BY Cut
<1> HIDE DEF a, b
<1>2. /\ ta \in Seq(S) /\ Len(ta) = Len(t) + Len(a)
      /\ \A i \in 1 .. Len(t) + Len(a) : ta[i] = IF i <= Len(t) THEN t[i] ELSE a[i - Len(t)]
  BY <1>1, ConcatProperties
<1>3. /\ Len(s) = Len(a) + Len(b)
      /\ \A i \in 1 .. Len(a) + Len(b) : s[i] = IF i <= Len(a) THEN a[i] ELSE b[i - Len(a)]
  BY <1>1, ConcatProperties
<1>4. /\ right \in Seq(S) /\ Len(right) = Len(t) + Len(s)
      /\ \A i \in 1 .. Len(t) + Len(s) : right[i] = IF i <= Len(t) THEN t[i] ELSE s[i - Len(t)]
  BY ConcatProperties
<1> HIDE DEF ta, right
<1>5. /\ left \in Seq(S) /\ Len(left) = Len(ta) + Len(b)
      /\ \A i \in 1 .. Len(ta) + Len(b) : left[i] = IF i <= Len(ta) THEN ta[i] ELSE b[i - Len(ta)]
  <2>1. ta \in Seq(S) /\ b \in Seq(S)
    BY <1>1, <1>2
  <2> QED BY <2>1, ConcatProperties
<1> HIDE DEF left
<1>6. Len(t) \in Nat /\ Len(a) \in Nat /\ Len(b) \in Nat
  BY <1>1, LenProperties
<1>7. Len(left) = Len(right)
  BY <1>2, <1>3, <1>4, <1>5, <1>6
<1>8. ASSUME NEW i \in 1 .. Len(left) PROVE left[i] = right[i]
  <2>1. i \in Int /\ i >= 1 /\ i <= Len(t) + Len(a) + Len(b)
    BY <1>2, <1>5, <1>6
  <2>2. CASE i <= Len(t)
    <3>1. /\ i \in 1 .. Len(ta) + Len(b) /\ i <= Len(ta)
          /\ i \in 1 .. Len(t) + Len(a) /\ i \in 1 .. Len(t) + Len(s)
      BY <1>2, <1>3, <1>6, <2>1, <2>2
    <3> QED BY <1>2, <1>4, <1>5, <2>2, <3>1
  <2>3. CASE ~(i <= Len(t)) /\ i <= Len(t) + Len(a)
    <3>1. i - Len(t) \in 1 .. Len(a) + Len(b) /\ i - Len(t) <= Len(a)
      BY <1>6, <2>1, <2>3
    <3>2. left[i] = a[i - Len(t)] /\ right[i] = s[i - Len(t)]
      BY <1>2, <1>3, <1>4, <1>5, <1>6, <2>1, <2>3
    <3> QED BY <1>3, <3>1, <3>2
  <2>4. CASE ~(i <= Len(t) + Len(a))
    <3>1. i - Len(t) \in 1 .. Len(a) + Len(b) /\ ~(i - Len(t) <= Len(a)) /\ ~(i <= Len(t))
          /\ (i - Len(t)) - Len(a) = i - (Len(t) + Len(a))
      BY <1>6, <2>1, <2>4
    <3>2. left[i] = b[i - (Len(t) + Len(a))] /\ right[i] = s[i - Len(t)]
      BY <1>2, <1>3, <1>4, <1>5, <1>6, <2>1, <2>4, <3>1
    <3> QED BY <1>3, <3>1, <3>2
  <2> QED BY <2>2, <2>3, <2>4
<1>9. left = right
  BY <1>4, <1>5, <1>7, <1>8, SeqEqual
<1> QED BY <1>9 DEF left, right, ta, a, b

\* What is left of a sequence after its first part.
LEMMA ConcatParts ==
  ASSUME NEW S, NEW s \in Seq(S), NEW t \in Seq(S), s # <<>>
  PROVE  /\ Len(s) \in 1 .. Len(s \o t)
         /\ SubSeq(s \o t, 1, Len(s)) = s
         /\ SubSeq(s \o t, Len(s) + 1, Len(s \o t)) = t
<1>1. Len(s) \in Nat /\ Len(s) >= 1 /\ Len(t) \in Nat /\ Len(s \o t) = Len(s) + Len(t)
  BY ConcatProperties, EmptySeq
<1>2. /\ \A i \in 1 .. Len(s) : (s \o t)[i] = s[i]
      /\ \A i \in 1 .. Len(t) : (s \o t)[Len(s) + i] = t[i]
  OBVIOUS
<1>3. s \o t \in Seq(S) /\ Len(s) \in 0 .. Len(s \o t)
  BY <1>1, ConcatProperties
<1> DEFINE a == SubSeq(s \o t, 1, Len(s))
<1> DEFINE b == SubSeq(s \o t, Len(s) + 1, Len(s \o t))
<1>4. a \in Seq(S) /\ b \in Seq(S) /\ Len(a) = Len(s) /\ a \o b = s \o t
  BY <1>3, Cut
<1>5. \A i \in 1 .. Len(s) : a[i] = s[i]
  <2>1. \A i \in 1 .. Len(s) : a[i] = (a \o b)[i]
    <3> HIDE DEF a, b
    <3> QED BY <1>4
  <2> QED BY <1>2, <1>4, <2>1
<1> HIDE DEF a, b
<1>6. a = s
  BY <1>4, <1>5, SeqEqual
<1>7. b = t
  <2>1. s \o b = s \o t
    BY <1>4, <1>6
  <2> QED BY <1>4, <2>1, ConcatSimplifications
<1> QED BY <1>1, <1>6, <1>7 DEF a, b

\* Requests in a row, none twice, are no more than there are.
LEMMA InjectiveLength ==
  ASSUME NEW S, IsFiniteSet(S), NEW s \in Seq(S), IsInjective(s)
  PROVE  Len(s) \in Nat /\ Cardinality(S) \in Nat /\ Len(s) <= Cardinality(S)
<1>1. Len(s) \in Nat /\ s \in [1 .. Len(s) -> S]
  BY LenProperties
<1>2. s \in Injection(1 .. Len(s), S)
  BY <1>1 DEF Injection
<1>3. Cardinality(1 .. Len(s)) <= Cardinality(S) /\ Cardinality(S) \in Nat
  BY <1>2, FS_Injection, FS_CardinalityType
<1>4. Cardinality(1 .. Len(s)) = Len(s)
  <2>1. 1 \in Int /\ Len(s) \in Int
    BY <1>1
  <2>2. Cardinality(1 .. Len(s)) = IF 1 > Len(s) THEN 0 ELSE Len(s) - 1 + 1
    BY <2>1, FS_Interval
  <2> QED BY <1>1, <2>2
<1> QED BY <1>1, <1>3, <1>4
-----------------------------------------------------------------------------
(***************************************************************************)
(* What the steps do to the order of the calls and to the batches.         *)
(***************************************************************************)
LEMMA PendingTyped ==
  ASSUME TypeOK
  PROVE  /\ Pending \in Seq(Requests) /\ ToSet(Pending) = ToSet(tasks) \cup ToSet(queue)
         /\ ToSet(Pending) \subseteq Requests
<1>1. tasks \in Seq(Requests) /\ queue \in Seq(Requests)
  BY DEF TypeOK
<1>2. Pending \in Seq(Requests) /\ ToSet(Pending) = ToSet(tasks) \cup ToSet(queue)
  BY <1>1, ConcatMembers DEF Pending
<1> QED BY <1>2, ToSetMembers

LEMMA HeldParts == ASSUME TypeOK PROVE Held = ToSet(Pending) \cup Away
BY PendingTyped DEF Held, Away

LEMMA AwayTyped ==
  ASSUME TypeOK
  PROVE  PostedTasks \subseteq Requests /\ WorkerTasks \subseteq Requests
<1>1. posted \in Seq(Seq(Requests)) /\ wbatch \in [Workers -> Seq(Requests)]
  BY DEF TypeOK
<1>2. \A k \in DOMAIN posted : posted[k] \in Seq(Requests)
  BY <1>1
<1> QED BY <1>1, <1>2, ToSetMembers DEF PostedTasks, WorkerTasks

\* The first n tasks of the queue go to the batch.
Moved ==
  \E n \in 0 .. Len(queue) :
    /\ tasks' = tasks \o SubSeq(queue, 1, n)
    /\ queue' = SubSeq(queue, n + 1, Len(queue))

\* A drain of the collect loop takes no more than the batch has room for.
LEMMA DrainMoves ==
  ASSUME TypeOK, Drain
  PROVE  /\ Moved
         /\ Len(tasks') <= MaxBatch \/ tasks' = tasks
<1>1. queue \in Seq(Requests) /\ tasks \in Seq(Requests)
  BY DEF TypeOK
<1>2. Len(queue) \in Nat /\ Len(tasks) \in Nat /\ MaxBatch \in Nat
  BY <1>1, MaxBatchAssumption
<1> DEFINE n == IF Len(queue) < Room THEN Len(queue) ELSE Room
<1>3. n \in 0 .. Len(queue) /\ (Len(tasks) < MaxBatch => n <= MaxBatch - Len(tasks))
      /\ (~(Len(tasks) < MaxBatch) => n = 0)
  BY <1>2 DEF Room
<1>4. Taken = SubSeq(queue, 1, n)
  BY DEF Taken
<1> HIDE DEF n
<1>5. Taken \in Seq(Requests) /\ Len(Taken) = n
  BY <1>1, <1>3, <1>4, Cut
<1>6. tasks' = tasks \o Taken /\ queue' = SubSeq(queue, n + 1, Len(queue))
  BY <1>5 DEF Drain
<1>7. Moved
  BY <1>3, <1>4, <1>6 DEF Moved
<1>8. Len(tasks') = Len(tasks) + n
  BY <1>1, <1>5, <1>6, ConcatMembers
<1>9. CASE Len(tasks) < MaxBatch
  BY <1>2, <1>3, <1>7, <1>8, <1>9
<1>10. CASE ~(Len(tasks) < MaxBatch)
  <2>1. Taken = <<>>
    BY <1>3, <1>5, <1>10, EmptySeq
  <2> QED BY <1>1, <1>6, <1>7, <2>1, ConcatEmptySeq
<1> QED BY <1>9, <1>10

LEMMA FirstDrainMoves ==
  ASSUME TypeOK, Rounds, FirstDrain, queue # <<>>
  PROVE  Moved /\ tasks = <<>>
<1>1. queue \in Seq(Requests) /\ tasks = <<>> /\ tasks' = queue /\ queue' = <<>>
  BY DEF TypeOK, Rounds, FirstDrain
<1>2. Len(queue) \in Nat /\ Len(queue) \in 0 .. Len(queue)
  BY <1>1
<1>3. SubSeq(queue, 1, Len(queue)) = queue
  BY <1>1, SubSeqFull
<1>4. SubSeq(queue, Len(queue) + 1, Len(queue)) = <<>>
  BY <1>2, SubSeqEmpty
<1>5. tasks \o queue = queue
  BY <1>1, ConcatEmptySeq
<1> QED BY <1>1, <1>2, <1>3, <1>4, <1>5 DEF Moved

LEMMA MovedKeepsOrder ==
  ASSUME TypeOK, Moved
  PROVE  /\ tasks' \in Seq(Requests) /\ queue' \in Seq(Requests)
         /\ Pending' = Pending
         /\ tasks # <<>> => tasks' # <<>>
<1>1. queue \in Seq(Requests) /\ tasks \in Seq(Requests)
  BY DEF TypeOK
<1>2. PICK n \in 0 .. Len(queue) : /\ tasks' = tasks \o SubSeq(queue, 1, n)
                                   /\ queue' = SubSeq(queue, n + 1, Len(queue))
  BY DEF Moved
<1> DEFINE a == SubSeq(queue, 1, n)
<1> DEFINE b == SubSeq(queue, n + 1, Len(queue))
<1>3. a \in Seq(Requests) /\ b \in Seq(Requests) /\ a \o b = queue
  BY <1>1, Cut
<1> HIDE DEF a, b
<1>4. (tasks \o a) \o b = tasks \o queue
  BY <1>1, CutMoved DEF a, b
<1>5. tasks' = tasks \o a /\ queue' = b
  BY <1>2 DEF a, b
<1>6. tasks' \in Seq(Requests) /\ (tasks # <<>> => tasks' # <<>>)
  BY <1>1, <1>3, <1>5, ConcatProperties, ConcatEqualIffEmpty
<1> QED BY <1>3, <1>4, <1>5, <1>6 DEF Pending

LEMMA SchedulerCases ==
  ASSUME TypeOK, Rounds, Scheduler
  PROVE  /\ UNCHANGED <<workVars, callVars, ctxVars>>
         /\ sched' \in SchedPcs /\ expired' \in BOOLEAN /\ Rounds'
         /\ \/ UNCHANGED <<queue, tasks, posted>>
            \/ Moved /\ UNCHANGED posted /\ (Len(tasks') <= MaxBatch \/ tasks' = tasks \/ tasks = <<>>)
            \/ /\ tasks # <<>> /\ tasks' = <<>> /\ UNCHANGED queue
               /\ posted' = Append(posted, tasks)
<1>1. UNCHANGED <<workVars, callVars, ctxVars>>
  BY DEF Scheduler
<1>2. CASE FirstDrain /\ UNCHANGED posted
  <2>1. CASE queue = <<>>
    BY <1>1, <1>2, <2>1 DEF FirstDrain, Rounds, TypeOK, SchedPcs
  <2>2. CASE queue # <<>>
    <3>1. Moved /\ tasks = <<>>
      BY <1>2, <2>2, FirstDrainMoves
    <3>2. sched' = "collect" /\ expired' = FALSE /\ tasks' # <<>>
      BY <1>2, <2>2 DEF FirstDrain
    <3> QED BY <1>1, <1>2, <3>1, <3>2 DEF Rounds, SchedPcs
  <2> QED BY <2>1, <2>2
<1>3. CASE Drain /\ tasks # <<>> /\ UNCHANGED posted
  <2>1. Moved /\ (Len(tasks') <= MaxBatch \/ tasks' = tasks) /\ tasks' # <<>>
    BY <1>3, DrainMoves, MovedKeepsOrder
  <2>2. sched' = "collect" /\ expired' = expired
    BY <1>3 DEF Drain
  <2> QED BY <1>1, <1>3, <2>1, <2>2 DEF Rounds, SchedPcs, TypeOK
<1>4. CASE (Collect \/ Timeout2 \/ Wake2) /\ UNCHANGED posted
  <2>1. tasks # <<>>
    BY <1>4 DEF Collect, Timeout2, Wake2, Rounds
  <2>2. CASE Drain
    BY <1>3, <1>4, <2>1, <2>2
  <2>3. CASE ~Drain
    BY <1>1, <1>4, <2>1, <2>3 DEF Collect, Timeout2, Wake2, Rounds, SchedPcs, TypeOK
  <2> QED BY <2>2, <2>3
<1>5. CASE Submit
  BY <1>1, <1>5 DEF Submit, Rounds, SchedPcs, TypeOK
<1> QED BY <1>2, <1>4, <1>5 DEF Scheduler

LEMMA SubmitParts ==
  ASSUME TypeOK, tasks' = <<>>, UNCHANGED <<queue, wbatch>>, posted' = Append(posted, tasks)
  PROVE  /\ Pending' = queue /\ PostedTasks' = PostedTasks \cup ToSet(tasks)
         /\ WorkerTasks' = WorkerTasks /\ Away' = Away \cup ToSet(tasks)
<1>1. /\ queue \in Seq(Requests) /\ tasks \in Seq(Requests) /\ posted \in Seq(Seq(Requests))
  BY DEF TypeOK
<1>2. Pending' = queue
  BY <1>1, ConcatEmptySeq DEF Pending
<1>3. ToSet(posted') = ToSet(posted) \cup {tasks}
  BY <1>1, AppendMembers
<1>4. PostedTasks = UNION {ToSet(b) : b \in ToSet(posted)}
  BY DEF PostedTasks, ToSet
<1>5. PostedTasks' = UNION {ToSet(b) : b \in ToSet(posted')}
  BY DEF PostedTasks, ToSet
<1>6. WorkerTasks' = WorkerTasks
  BY DEF WorkerTasks
<1>7. PostedTasks' = PostedTasks \cup ToSet(tasks)
  BY <1>3, <1>4, <1>5
<1>8. Away' = PostedTasks' \cup WorkerTasks'
  BY DEF Away
<1> QED BY <1>2, <1>6, <1>7, <1>8 DEF Away

LEMMA TakeParts ==
  ASSUME TypeOK, Busy, NEW w \in Workers, Take(w)
  PROVE  /\ posted \in Seq(Seq(Requests)) /\ posted # <<>> /\ posted' = Tail(posted)
         /\ posted[1] \in Seq(Requests) /\ posted[1] # <<>> /\ wbatch[w] = <<>>
         /\ wbatch' = [wbatch EXCEPT ![w] = posted[1]]
         /\ PostedTasks = PostedTasks' \cup ToSet(posted[1])
         /\ WorkerTasks' = WorkerTasks \cup ToSet(posted[1])
         /\ Away' = Away
<1>1. /\ posted \in Seq(Seq(Requests)) /\ posted # <<>> /\ posted' = Tail(posted)
      /\ wbatch' = [wbatch EXCEPT ![w] = Head(posted)]
      /\ wbatch \in [Workers -> Seq(Requests)] /\ wbatch[w] = <<>>
  BY DEF TypeOK, Take, Busy
<1>2. Head(posted) = posted[1] /\ 1 \in DOMAIN posted /\ posted[1] \in Seq(Requests)
  BY <1>1
<1>3. posted[1] # <<>>
  BY <1>2 DEF Busy
<1>4. ToSet(posted) = {posted[1]} \cup ToSet(posted')
  BY <1>1, <1>2, HeadTailMembers
<1>5. PostedTasks = UNION {ToSet(b) : b \in ToSet(posted)}
  BY DEF PostedTasks, ToSet
<1>6. PostedTasks' = UNION {ToSet(b) : b \in ToSet(posted')}
  BY DEF PostedTasks, ToSet
<1>7. PostedTasks = PostedTasks' \cup ToSet(posted[1])
  BY <1>4, <1>5, <1>6
<1>8. WorkerTasks' = WorkerTasks \cup ToSet(posted[1])
  <2>1. ToSet(wbatch[w]) = {}
    BY <1>1 DEF ToSet
  <2>2. WorkerTasks = ToSet(wbatch[w]) \cup UNION {ToSet(wbatch[v]) : v \in Workers \ {w}}
    BY DEF WorkerTasks
  <2>3. WorkerTasks' = ToSet(wbatch'[w]) \cup UNION {ToSet(wbatch'[v]) : v \in Workers \ {w}}
    BY DEF WorkerTasks, ToSet
  <2>4. \A v \in Workers \ {w} : wbatch'[v] = wbatch[v]
    BY <1>1
  <2>5. wbatch'[w] = posted[1]
    BY <1>1, <1>2
  <2> QED BY <2>1, <2>2, <2>3, <2>4, <2>5
<1>9. Away' = PostedTasks' \cup WorkerTasks'
  BY DEF Away
<1> QED BY <1>1, <1>2, <1>3, <1>7, <1>8, <1>9 DEF Away

LEMMA NotifyParts ==
  ASSUME TypeOK, Busy, Apart, NEW w \in Workers, Notify(w)
  PROVE  /\ wbatch[w] \in Seq(Requests) /\ wbatch[w] # <<>>
         /\ wbatch' = [wbatch EXCEPT ![w] = Tail(wbatch[w])]
         /\ Head(wbatch[w]) \in Requests \cap WorkerTasks
         /\ UNCHANGED PostedTasks /\ WorkerTasks' = WorkerTasks \ {Head(wbatch[w])}
         /\ Away' = Away \ {Head(wbatch[w])} /\ Pending' = Pending
<1>1. /\ wbatch[w] \in Seq(Requests) /\ wbatch[w] # <<>> /\ UNCHANGED <<posted, tasks, queue>>
      /\ wbatch' = [wbatch EXCEPT ![w] = Tail(wbatch[w])]
      /\ wbatch \in [Workers -> Seq(Requests)]
  BY DEF TypeOK, Busy, Notify, schedVars
<1> DEFINE r == Head(wbatch[w])
<1>2. /\ ToSet(wbatch[w]) = {r} \cup ToSet(Tail(wbatch[w])) /\ r \in Requests
      /\ r \notin ToSet(Tail(wbatch[w]))
  BY <1>1, HeadTailMembers DEF Apart
<1> HIDE DEF r
<1>3. r \in WorkerTasks
  BY <1>2 DEF WorkerTasks
<1>4. \A v \in Workers \ {w} : r \notin ToSet(wbatch[v])
  BY <1>2 DEF Apart
<1>5. WorkerTasks' = WorkerTasks \ {r}
  <2>1. WorkerTasks = ToSet(wbatch[w]) \cup UNION {ToSet(wbatch[v]) : v \in Workers \ {w}}
    BY DEF WorkerTasks
  <2>2. WorkerTasks' = ToSet(wbatch'[w]) \cup UNION {ToSet(wbatch'[v]) : v \in Workers \ {w}}
    BY DEF WorkerTasks, ToSet
  <2>3. \A v \in Workers \ {w} : wbatch'[v] = wbatch[v]
    BY <1>1
  <2>4. wbatch'[w] = Tail(wbatch[w])
    BY <1>1
  <2> QED BY <1>2, <1>4, <2>1, <2>2, <2>3, <2>4
<1>6. UNCHANGED PostedTasks /\ Pending' = Pending
  BY <1>1 DEF PostedTasks, Pending
<1>7. r \notin PostedTasks
  BY <1>3 DEF Apart
<1>8. Away' = PostedTasks' \cup WorkerTasks'
  BY DEF Away
<1> QED BY <1>1, <1>2, <1>3, <1>5, <1>6, <1>7, <1>8 DEF Away, r

LEMMA AwayUnchanged ==
  ASSUME UNCHANGED <<posted, wbatch>>
  PROVE  UNCHANGED <<PostedTasks, WorkerTasks, Away>>
BY DEF PostedTasks, WorkerTasks, Away
-----------------------------------------------------------------------------
(***************************************************************************)
(* Types, rounds and workers.                                              *)
(***************************************************************************)
Shape == TypeOK /\ Rounds /\ Busy

LEMMA InitShape == Init => Shape
<1> SUFFICES ASSUME Init PROVE Shape
  OBVIOUS
<1>1. /\ queue \in Seq(Requests) /\ tasks \in Seq(Requests) /\ posted \in Seq(Seq(Requests))
      /\ wbatch \in [Workers -> Seq(Requests)] /\ wpc \in [Workers -> WorkerPcs]
  BY DEF Init, WorkerPcs
<1>2. sched \in SchedPcs /\ expired \in BOOLEAN
  BY DEF Init, SchedPcs
<1>3. TypeOK
  BY <1>1, <1>2 DEF Init, TypeOK
<1> QED BY <1>3 DEF Shape, Rounds, Busy, Init

LEMMA InferShape ==
  ASSUME Shape, NEW r \in Requests, Infer(r) PROVE Shape'
<1>1. /\ queue' = Append(queue, r) /\ sched' = Notified(sched) /\ queue \in Seq(Requests)
      /\ UNCHANGED <<tasks, expired, posted, wpc, wbatch, outcome, err, blamed, out, streamEnd>>
  BY DEF Infer, Enqueue, workVars, Shape, TypeOK
<1>2. queue' \in Seq(Requests)
  BY <1>1
<1>3. sched' \in SchedPcs /\ (sched' \in {"wait", "asleep1"} <=> sched \in {"wait", "asleep1"})
  BY <1>1 DEF Shape, TypeOK, SchedPcs, Notified
<1>4. TypeOK'
  BY <1>1, <1>2, <1>3 DEF Infer, Shape, TypeOK
<1> QED BY <1>1, <1>3, <1>4 DEF Shape, Rounds, Busy

LEMMA CallerShape ==
  ASSUME Shape, NEW r \in Requests, Return(r) \/ Renew(r) PROVE Shape'
<1>1. UNCHANGED <<queue, sched, tasks, expired, posted, wpc, wbatch>>
  BY DEF Return, Renew, schedVars, workVars
<1>2. CASE Return(r)
  <2>1. Verdict(r) \in {"none", "ok", "error"}
    BY DEF Verdict
  <2>2. TypeOK'
    BY <1>1, <1>2, <2>1 DEF Return, ctxVars, Shape, TypeOK
  <2> QED BY <1>1, <2>2 DEF Shape, Rounds, Busy
<1>3. CASE Renew(r)
  <2>1. TypeOK'
    BY <1>1, <1>3 DEF Renew, Shape, TypeOK
  <2> QED BY <1>1, <2>1 DEF Shape, Rounds, Busy
<1> QED BY <1>2, <1>3

LEMMA SchedulerShape == ASSUME Shape, Scheduler PROVE Shape'
<1>1. /\ UNCHANGED <<wpc, wbatch, phase, outcome, future, err, blamed, out, streamEnd>>
      /\ sched' \in SchedPcs /\ expired' \in BOOLEAN /\ Rounds'
  BY SchedulerCases DEF Shape, workVars, callVars, ctxVars
<1>2. queue \in Seq(Requests) /\ tasks \in Seq(Requests) /\ posted \in Seq(Seq(Requests))
  BY DEF Shape, TypeOK
<1> DEFINE Good == /\ queue \in Seq(Requests) /\ tasks \in Seq(Requests) /\ posted \in Seq(Seq(Requests))
                   /\ \A k \in DOMAIN posted : posted[k] # <<>>
<1>3. Good'
  <2>1. CASE UNCHANGED <<queue, tasks, posted>>
    BY <1>2, <2>1 DEF Shape, Busy
  <2>2. CASE Moved /\ UNCHANGED posted
    BY <1>2, <2>2, MovedKeepsOrder DEF Shape, Busy
  <2>3. CASE tasks # <<>> /\ tasks' = <<>> /\ UNCHANGED queue /\ posted' = Append(posted, tasks)
    <3>1. /\ posted' \in Seq(Seq(Requests)) /\ DOMAIN posted' = 1 .. Len(posted) + 1
          /\ \A k \in 1 .. Len(posted) : posted'[k] = posted[k]
          /\ posted'[Len(posted) + 1] = tasks
          /\ DOMAIN posted = 1 .. Len(posted) /\ Len(posted) \in Nat
      BY <1>2, <2>3
    <3>2. \A k \in 1 .. Len(posted) + 1 : k = Len(posted) + 1 \/ k \in 1 .. Len(posted)
      BY <3>1
    <3>3. tasks' \in Seq(Requests)
      BY <2>3
    <3> QED BY <1>2, <2>3, <3>1, <3>2, <3>3 DEF Shape, Busy
  <2> QED BY <2>1, <2>2, <2>3, SchedulerCases DEF Shape
<1>4. TypeOK'
  BY <1>1, <1>3 DEF Shape, TypeOK
<1> QED BY <1>1, <1>3, <1>4 DEF Shape, Busy

LEMMA ExpireShape == ASSUME Shape, Expire PROVE Shape'
<1>1. UNCHANGED <<queue, sched, tasks, posted, wpc, wbatch, phase, outcome, future, err, blamed, out, streamEnd>>
      /\ expired' = TRUE
  BY DEF Expire, workVars, callVars, ctxVars
<1>2. TypeOK'
  BY <1>1 DEF Shape, TypeOK
<1> QED BY <1>1, <1>2 DEF Shape, Rounds, Busy

LEMMA TakeShape == ASSUME Shape, NEW w \in Workers, Take(w) PROVE Shape'
<1>1. /\ UNCHANGED <<queue, sched, tasks, expired, phase, outcome, future, err, blamed, out, streamEnd>>
      /\ wpc' = [wpc EXCEPT ![w] = IF HasConverter THEN "pre" ELSE "infer"]
      /\ wpc \in [Workers -> WorkerPcs] /\ wbatch \in [Workers -> Seq(Requests)]
  BY DEF Take, schedVars, callVars, ctxVars, Shape, TypeOK
<1>2. /\ posted \in Seq(Seq(Requests)) /\ posted # <<>> /\ posted' = Tail(posted)
      /\ posted[1] \in Seq(Requests) /\ posted[1] # <<>>
      /\ wbatch' = [wbatch EXCEPT ![w] = posted[1]]
  BY TakeParts DEF Shape
<1>3. /\ posted' \in Seq(Seq(Requests)) /\ DOMAIN posted' = 1 .. Len(posted) - 1
      /\ \A k \in 1 .. Len(posted) - 1 : posted'[k] = posted[k + 1] /\ k + 1 \in DOMAIN posted
  BY <1>2
<1>4. wbatch' \in [Workers -> Seq(Requests)] /\ wpc' \in [Workers -> WorkerPcs]
  BY <1>1, <1>2 DEF WorkerPcs, Stages
<1>5. TypeOK'
  BY <1>1, <1>3, <1>4 DEF Shape, TypeOK
<1>6. \A k \in DOMAIN posted' : posted'[k] # <<>>
  BY <1>3 DEF Shape, Busy
<1>7. ASSUME NEW v \in Workers PROVE wpc'[v] = "idle" <=> wbatch'[v] = <<>>
  <2>1. CASE v = w
    BY <1>1, <1>2, <2>1
  <2>2. CASE v # w
    BY <1>1, <1>2, <2>2 DEF Shape, Busy
  <2> QED BY <2>1, <2>2
<1> QED BY <1>1, <1>5, <1>6, <1>7 DEF Shape, Rounds, Busy

\* A call of the converter or of the inferer ends, one way or the other.
LEMMA CallShape ==
  ASSUME Shape, NEW w \in Workers, Stage(w) \/ Raise(w)
  PROVE  /\ Shape' /\ wpc[w] \in Stages
         /\ UNCHANGED <<queue, sched, tasks, expired, posted, wbatch, phase, outcome, future, streamEnd>>
         /\ \A r \in Requests : (out[r] => out'[r]) /\ (blamed[r] => blamed'[r]) /\ (err'[r] => err[r] \/ blamed'[r])
<1>1. /\ UNCHANGED <<queue, sched, tasks, expired, posted, wbatch, phase, outcome, future, streamEnd>>
      /\ wpc[w] \in Stages /\ wpc \in [Workers -> WorkerPcs]
  BY DEF Stage, Raise, schedVars, callVars, ctxVars, Shape, TypeOK
<1>2. /\ err \in [Requests -> BOOLEAN] /\ blamed \in [Requests -> BOOLEAN] /\ out \in [Requests -> BOOLEAN]
  BY DEF Shape, TypeOK
<1>3. /\ \E pc \in {"notify", "fail"} \cup Stages : wpc' = [wpc EXCEPT ![w] = pc]
      /\ err' \in [Requests -> BOOLEAN] /\ blamed' \in [Requests -> BOOLEAN] /\ out' \in [Requests -> BOOLEAN]
      /\ \A r \in Requests : (out[r] => out'[r]) /\ (blamed[r] => blamed'[r]) /\ (err'[r] => err[r] \/ blamed'[r])
  <2>1. CASE Raise(w)
    BY <1>2, <2>1 DEF Raise, ctxVars
  <2>2. CASE Stage(w)
    <3>1. PICK bad \in SUBSET ToSet(wbatch[w]) :
            /\ err' = [r \in Requests |-> err[r] \/ r \in bad]
            /\ blamed' = [r \in Requests |-> blamed[r] \/ r \in bad]
      BY <2>2 DEF Stage
    <3>2. /\ err' \in [Requests -> BOOLEAN] /\ blamed' \in [Requests -> BOOLEAN]
          /\ \A r \in Requests : (blamed[r] => blamed'[r]) /\ (err'[r] => err[r] \/ blamed'[r])
      BY <1>2, <3>1
    <3>3. CASE UNCHANGED out /\ wpc' = [wpc EXCEPT ![w] = "notify"]
      BY <1>2, <3>2, <3>3
    <3>4. CASE UNCHANGED out /\ wpc' = [wpc EXCEPT ![w] = NextPc(wpc[w])]
      <4>1. NextPc(wpc[w]) \in Stages
        BY DEF NextPc, Stages
      <4> QED BY <1>2, <3>2, <3>4, <4>1
    <3>5. CASE \E n \in 0 .. Len(wbatch[w]) :
                 /\ out' = [r \in Requests |-> out[r] \/ r \in ToSet(SubSeq(wbatch[w], 1, n))]
                 /\ wpc' = [wpc EXCEPT ![w] = "notify"] \/ wpc' = [wpc EXCEPT ![w] = "fail"]
      BY <1>2, <3>2, <3>5
    <3> QED BY <2>2, <3>3, <3>4, <3>5 DEF Stage
  <2> QED BY <2>1, <2>2
<1>4. wpc' \in [Workers -> WorkerPcs] /\ wpc[w] # "idle" /\ wpc'[w] # "idle"
      /\ \A v \in Workers \ {w} : wpc'[v] = wpc[v]
  BY <1>1, <1>3 DEF WorkerPcs, Stages
<1>5. TypeOK'
  BY <1>1, <1>3, <1>4 DEF Shape, TypeOK
<1>6. \A v \in Workers : wpc'[v] = "idle" <=> wbatch'[v] = <<>>
  BY <1>1, <1>4 DEF Shape, Busy
<1> QED BY <1>1, <1>3, <1>5, <1>6 DEF Shape, Rounds, Busy

\* What a notification of r does to the contexts.
LEMMA NotificationContexts ==
  ASSUME TypeOK, NEW r \in Requests, NEW failed \in BOOLEAN, BatcherFutureNotify(r, failed)
  PROVE  /\ future' \in [Requests -> {"none", "pending", "set"}]
         /\ err' \in [Requests -> BOOLEAN] /\ blamed' \in [Requests -> BOOLEAN]
         /\ future'[r] = "set" /\ (blamed'[r] <=> blamed[r] \/ failed)
         /\ err'[r] => err[r] \/ failed \/ (future[r] = "set" /\ LateNotifyErrs)
         /\ \A q \in Requests \ {r} : future'[q] = future[q] /\ err'[q] = err[q] /\ blamed'[q] = blamed[q]
<1>1. /\ future \in [Requests -> {"none", "pending", "set"}]
      /\ err \in [Requests -> BOOLEAN] /\ blamed \in [Requests -> BOOLEAN] /\ LateNotifyErrs \in BOOLEAN
  BY FlagsAssumption DEF TypeOK
<1>2. /\ future' = [future EXCEPT ![r] = "set"]
      /\ err' = [err EXCEPT ![r] = err[r] \/ failed \/ (future[r] = "set" /\ LateNotifyErrs)]
      /\ blamed' = [blamed EXCEPT ![r] = blamed[r] \/ failed]
  BY <1>1 DEF BatcherFutureNotify
<1> QED BY <1>1, <1>2

LEMMA StreamFinalShape ==
  ASSUME Shape, NEW w \in Workers, NEW r \in Requests, StreamFinal(w, r) PROVE Shape'
<1>1. /\ UNCHANGED <<queue, sched, tasks, expired, posted, wpc, wbatch, phase, outcome, out>>
      /\ streamEnd' = [streamEnd EXCEPT ![r] = TRUE] /\ BatcherFutureNotify(r, FALSE)
  BY DEF StreamFinal, schedVars, workVars, callVars
<1>2. /\ future' \in [Requests -> {"none", "pending", "set"}]
      /\ err' \in [Requests -> BOOLEAN] /\ blamed' \in [Requests -> BOOLEAN]
  BY <1>1, NotificationContexts DEF Shape
<1>3. TypeOK'
  BY <1>1, <1>2 DEF Shape, TypeOK
<1> QED BY <1>1, <1>3 DEF Shape, Rounds, Busy

LEMMA NotifyShape ==
  ASSUME Shape, Apart, NEW w \in Workers, Notify(w) PROVE Shape'
<1>1. /\ UNCHANGED <<queue, sched, tasks, expired, posted, phase, outcome, out, streamEnd>>
      /\ wpc[w] \in {"notify", "fail"} /\ BatcherFutureNotify(Head(wbatch[w]), wpc[w] = "fail")
      /\ wpc' = [wpc EXCEPT ![w] = IF Len(wbatch[w]) = 1 THEN "idle" ELSE wpc[w]]
      /\ wpc \in [Workers -> WorkerPcs] /\ wbatch \in [Workers -> Seq(Requests)]
  BY DEF Notify, schedVars, callVars, Shape, TypeOK
<1>2. /\ wbatch[w] \in Seq(Requests) /\ wbatch[w] # <<>> /\ Head(wbatch[w]) \in Requests
      /\ wbatch' = [wbatch EXCEPT ![w] = Tail(wbatch[w])]
  BY NotifyParts DEF Shape
<1>3. Tail(wbatch[w]) \in Seq(Requests) /\ Len(Tail(wbatch[w])) = Len(wbatch[w]) - 1 /\ Len(wbatch[w]) \in Nat
  BY <1>2, HeadTailMembers, LenProperties
<1>4. /\ future' \in [Requests -> {"none", "pending", "set"}]
      /\ err' \in [Requests -> BOOLEAN] /\ blamed' \in [Requests -> BOOLEAN]
  <2>1. (wpc[w] = "fail") \in BOOLEAN
    OBVIOUS
  <2> QED BY <1>1, <1>2, <2>1, NotificationContexts DEF Shape
<1>5. wbatch' \in [Workers -> Seq(Requests)] /\ wpc' \in [Workers -> WorkerPcs]
  BY <1>1, <1>2, <1>3 DEF WorkerPcs
<1>6. TypeOK'
  BY <1>1, <1>4, <1>5 DEF Shape, TypeOK
<1>7. ASSUME NEW v \in Workers PROVE wpc'[v] = "idle" <=> wbatch'[v] = <<>>
  <2>1. CASE v = w
    <3>1. Tail(wbatch[w]) = <<>> <=> Len(wbatch[w]) = 1
      <4>1. Tail(wbatch[w]) = <<>> <=> Len(Tail(wbatch[w])) = 0
        BY <1>3, EmptySeq
      <4>2. Len(Tail(wbatch[w])) = 0 <=> Len(wbatch[w]) = 1
        BY <1>3
      <4> QED BY <4>1, <4>2
    <3> QED BY <1>1, <1>2, <2>1, <3>1
  <2>2. CASE v # w
    BY <1>1, <1>2, <2>2 DEF Shape, Busy
  <2> QED BY <2>1, <2>2
<1> QED BY <1>1, <1>6, <1>7 DEF Shape, Rounds, Busy
-----------------------------------------------------------------------------
(***************************************************************************)
(* No task gets into two places.                                           *)
(***************************************************************************)
LEMMA InitApart == Init => Apart /\ Pending = <<>> /\ Away = {} /\ Held = {}
<1> SUFFICES ASSUME Init PROVE Apart /\ Pending = <<>> /\ Away = {} /\ Held = {}
  OBVIOUS
<1>1. tasks = <<>> /\ queue = <<>> /\ posted = <<>> /\ wbatch = [w \in Workers |-> <<>>]
  BY DEF Init
<1>2. Pending = <<>>
  <2>1. <<>> \in Seq(Requests)
    OBVIOUS
  <2> QED BY <1>1, <2>1, ConcatEmptySeq DEF Pending
<1>3. PostedTasks = {} /\ WorkerTasks = {} /\ ToSet(queue) = {} /\ ToSet(tasks) = {}
  BY <1>1 DEF PostedTasks, WorkerTasks, ToSet
<1>4. IsInjective(<<>>) /\ ToSet(<<>>) = {}
  BY DEF IsInjective, ToSet
<1> QED BY <1>1, <1>2, <1>3, <1>4 DEF Apart, Away, Held

LEMMA ApartUnchanged ==
  ASSUME Apart, UNCHANGED <<queue, tasks, posted, wbatch>>
  PROVE  Apart' /\ UNCHANGED <<Pending, PostedTasks, WorkerTasks, Away, Held>>
<1>1. UNCHANGED <<Pending, PostedTasks, WorkerTasks, Away, Held>>
  BY DEF Pending, PostedTasks, WorkerTasks, Away, Held
<1> QED BY SMTT(30), <1>1 DEF Apart, ToSet, IsInjective

\* The parts that speak of the batches handed over only.
LEMMA BatchesUnchanged ==
  ASSUME Apart, UNCHANGED <<posted, wbatch>>
  PROVE  /\ \A k \in DOMAIN posted' : IsInjective(posted'[k])
         /\ \A w \in Workers : IsInjective(wbatch'[w])
         /\ PostedTasks' \cap WorkerTasks' = {}
         /\ \A j, k \in DOMAIN posted' : ToSet(posted'[j]) \cap ToSet(posted'[k]) # {} => j = k
         /\ \A v, w \in Workers : ToSet(wbatch'[v]) \cap ToSet(wbatch'[w]) # {} => v = w
<1>1. UNCHANGED <<PostedTasks, WorkerTasks>>
  BY AwayUnchanged
<1> QED BY <1>1 DEF Apart

\* The calls of a request that is new have left nothing behind.
LEMMA InferApart ==
  ASSUME Shape, Apart, Calls, NEW r \in Requests, Infer(r)
  PROVE  /\ Apart' /\ Pending' = Append(Pending, r) /\ ToSet(Pending') = ToSet(Pending) \cup {r}
         /\ r \notin ToSet(Pending) \cup Away /\ UNCHANGED Away
<1>1. /\ queue' = Append(queue, r) /\ UNCHANGED <<tasks, posted, wbatch>> /\ phase[r] = "new"
      /\ queue \in Seq(Requests) /\ tasks \in Seq(Requests)
  BY DEF Infer, Enqueue, workVars, Shape, TypeOK
<1>2. UNCHANGED <<PostedTasks, WorkerTasks, Away>>
  BY <1>1, AwayUnchanged
<1>3. Pending \in Seq(Requests)
  BY PendingTyped DEF Shape
<1>4. Pending' = Append(Pending, r)
  <2>1. /\ <<r>> \in Seq(Requests) /\ Append(queue, r) = queue \o <<r>>
        /\ Append(Pending, r) = Pending \o <<r>>
    BY <1>1, <1>3, AppendIsConcat
  <2> QED BY <1>1, <2>1, ConcatAssociative DEF Pending
<1>5. r \notin ToSet(Pending) \cup Away
  BY <1>1 DEF Calls
<1>6. ToSet(Pending') = ToSet(Pending) \cup {r} /\ IsInjective(Pending')
  BY <1>3, <1>4, <1>5, AppendMembers DEF Apart
<1>7. ToSet(Pending') \cap Away' = {}
  BY <1>2, <1>5, <1>6 DEF Apart
<1>8. Apart'
  BY <1>1, <1>6, <1>7, BatchesUnchanged DEF Apart, ToSet
<1> QED BY <1>2, <1>4, <1>5, <1>6, <1>8

LEMMA MovedApart ==
  ASSUME Shape, Apart, Moved, UNCHANGED <<posted, wbatch>>
  PROVE  Apart' /\ UNCHANGED <<Pending, Away>>
<1>1. UNCHANGED <<Pending, PostedTasks, WorkerTasks, Away>>
  BY AwayUnchanged, MovedKeepsOrder DEF Shape
<1>2. IsInjective(Pending') /\ ToSet(Pending') \cap Away' = {}
  BY <1>1 DEF Apart
<1>3. Apart'
  BY <1>2, BatchesUnchanged DEF Apart, ToSet
<1> QED BY <1>1, <1>3

LEMMA SubmitApart ==
  ASSUME Shape, Apart, tasks # <<>>, tasks' = <<>>, UNCHANGED <<queue, wbatch>>,
         posted' = Append(posted, tasks)
  PROVE  /\ Apart' /\ Pending' = queue /\ ToSet(Pending) = ToSet(Pending') \cup ToSet(tasks)
         /\ Away' = Away \cup ToSet(tasks)
<1>1. /\ queue \in Seq(Requests) /\ tasks \in Seq(Requests) /\ posted \in Seq(Seq(Requests))
  BY DEF Shape, TypeOK
<1>2. /\ Pending' = queue /\ PostedTasks' = PostedTasks \cup ToSet(tasks)
      /\ WorkerTasks' = WorkerTasks /\ Away' = Away \cup ToSet(tasks)
  BY SubmitParts DEF Shape
<1>3. IsInjective(tasks) /\ IsInjective(queue) /\ ToSet(tasks) \cap ToSet(queue) = {}
  <2>1. IsInjective(tasks \o queue)
    BY DEF Apart, Pending
  <2> QED BY <1>1, <2>1, InjectiveParts
<1>4. ToSet(Pending) = ToSet(tasks) \cup ToSet(queue)
  BY PendingTyped DEF Shape
<1>5. ToSet(tasks) \cap Away = {} /\ ToSet(queue) \cap Away = {}
  BY <1>4 DEF Apart
<1>6. /\ DOMAIN posted' = 1 .. Len(posted) + 1 /\ posted'[Len(posted) + 1] = tasks
      /\ \A k \in 1 .. Len(posted) : posted'[k] = posted[k]
      /\ DOMAIN posted = 1 .. Len(posted) /\ Len(posted) \in Nat
  BY <1>1
<1> DEFINE n == Len(posted) + 1
<1>7. ASSUME NEW k \in DOMAIN posted' PROVE k = n \/ (k \in DOMAIN posted /\ posted'[k] = posted[k])
  BY <1>6
<1>8. posted'[n] = tasks
  BY <1>6
<1> HIDE DEF n
<1>9. \A k \in DOMAIN posted' : IsInjective(posted'[k])
  BY <1>3, <1>7, <1>8 DEF Apart
<1>10. \A k \in DOMAIN posted : ToSet(posted[k]) \cap ToSet(tasks) = {}
  BY <1>5 DEF PostedTasks, Away
<1>11. ASSUME NEW j \in DOMAIN posted', NEW k \in DOMAIN posted',
              ToSet(posted'[j]) \cap ToSet(posted'[k]) # {}
       PROVE  j = k
  BY <1>7, <1>8, <1>10, <1>11 DEF Apart
<1>12. IsInjective(Pending')
  BY <1>2, <1>3
<1>13. ToSet(Pending') \cap Away' = {}
  BY <1>2, <1>3, <1>5
<1>14. PostedTasks' \cap WorkerTasks' = {}
  BY <1>2, <1>5 DEF Apart, Away
<1>15. Apart'
  <2>1. \A v \in Workers : IsInjective(wbatch'[v])
    BY DEF Apart
  <2>2. \A v, w \in Workers : ToSet(wbatch'[v]) \cap ToSet(wbatch'[w]) # {} => v = w
    BY DEF Apart
  <2> QED BY <1>9, <1>11, <1>12, <1>13, <1>14, <2>1, <2>2 DEF Apart, ToSet
<1> QED BY <1>2, <1>4, <1>15

LEMMA TakeApart ==
  ASSUME Shape, Apart, NEW w \in Workers, Take(w)
  PROVE  Apart' /\ UNCHANGED <<Pending, Away>>
<1> DEFINE h == posted[1]
<1>1. /\ posted \in Seq(Seq(Requests)) /\ posted # <<>> /\ posted' = Tail(posted)
      /\ wbatch' = [wbatch EXCEPT ![w] = h] /\ wbatch \in [Workers -> Seq(Requests)]
      /\ PostedTasks = PostedTasks' \cup ToSet(h)
      /\ WorkerTasks' = WorkerTasks \cup ToSet(h) /\ Away' = Away
  BY TakeParts DEF Shape, TypeOK
<1>2. UNCHANGED Pending
  BY DEF Take, schedVars, Pending
<1>3. /\ 1 \in DOMAIN posted /\ DOMAIN posted' = 1 .. Len(posted) - 1
      /\ \A k \in DOMAIN posted' : posted'[k] = posted[k + 1] /\ k + 1 \in DOMAIN posted /\ k + 1 # 1 /\ k \in Int
  BY <1>1
<1>4. \A k \in DOMAIN posted' : IsInjective(posted'[k])
  BY <1>3 DEF Apart
<1>5. ASSUME NEW j \in DOMAIN posted', NEW k \in DOMAIN posted',
             ToSet(posted'[j]) \cap ToSet(posted'[k]) # {}
      PROVE  j = k
  <2>1. j + 1 = k + 1
    BY <1>3, <1>5 DEF Apart
  <2> QED BY <1>3, <2>1
<1>6. \A k \in DOMAIN posted' : ToSet(posted'[k]) \cap ToSet(h) = {}
  BY <1>3 DEF Apart
<1>7. PostedTasks' = UNION {ToSet(posted'[k]) : k \in DOMAIN posted'}
  BY DEF PostedTasks, ToSet
<1>8. PostedTasks' \cap ToSet(h) = {}
  BY <1>6, <1>7
<1>9. PostedTasks' \cap WorkerTasks' = {}
  BY <1>1, <1>8 DEF Apart
<1>10. IsInjective(h) /\ \A v \in Workers : ToSet(wbatch[v]) \cap ToSet(h) = {}
  BY <1>1, <1>3 DEF Apart, WorkerTasks
<1> HIDE DEF h
<1>11. \A v \in Workers : (v = w /\ wbatch'[v] = h) \/ (v # w /\ wbatch'[v] = wbatch[v])
  BY <1>1
<1>12. \A v \in Workers : IsInjective(wbatch'[v])
  BY <1>10, <1>11 DEF Apart
<1>13. ASSUME NEW u \in Workers, NEW v \in Workers, ToSet(wbatch'[u]) \cap ToSet(wbatch'[v]) # {}
       PROVE  u = v
  BY <1>10, <1>11, <1>13 DEF Apart
<1>14. IsInjective(Pending') /\ ToSet(Pending') \cap Away' = {}
  BY <1>1, <1>2 DEF Apart
<1>15. Apart'
  BY <1>4, <1>5, <1>9, <1>12, <1>13, <1>14 DEF Apart, ToSet
<1> QED BY <1>1, <1>2, <1>15

LEMMA NotifyApart ==
  ASSUME Shape, Apart, NEW w \in Workers, Notify(w)
  PROVE  /\ Apart' /\ UNCHANGED Pending /\ Head(wbatch[w]) \in Requests \cap Away
         /\ Away' = Away \ {Head(wbatch[w])}
<1> DEFINE r == Head(wbatch[w])
<1>1. /\ wbatch[w] \in Seq(Requests) /\ wbatch[w] # <<>>
      /\ wbatch' = [wbatch EXCEPT ![w] = Tail(wbatch[w])] /\ wbatch \in [Workers -> Seq(Requests)]
      /\ r \in Requests \cap WorkerTasks
      /\ UNCHANGED PostedTasks /\ WorkerTasks' = WorkerTasks \ {r}
      /\ Away' = Away \ {r} /\ Pending' = Pending /\ UNCHANGED posted
  BY NotifyParts DEF Shape, TypeOK, Notify
<1>2. IsInjective(Tail(wbatch[w])) /\ ToSet(Tail(wbatch[w])) \subseteq ToSet(wbatch[w])
  BY <1>1, HeadTailMembers DEF Apart
<1> HIDE DEF r
<1>3. \A v \in Workers : wbatch'[v] = wbatch[v] \/ (v = w /\ wbatch'[v] = Tail(wbatch[v]))
  BY <1>1
<1>4. \A v \in Workers : IsInjective(wbatch'[v]) /\ ToSet(wbatch'[v]) \subseteq ToSet(wbatch[v])
  BY <1>2, <1>3 DEF Apart
<1>5. \A u, v \in Workers : ToSet(wbatch'[u]) \cap ToSet(wbatch'[v]) # {} => u = v
  BY <1>4 DEF Apart
<1>6. IsInjective(Pending') /\ ToSet(Pending') \cap Away' = {} /\ PostedTasks' \cap WorkerTasks' = {}
  BY <1>1 DEF Apart
<1>7. /\ \A k \in DOMAIN posted' : IsInjective(posted'[k])
      /\ \A j, k \in DOMAIN posted' : ToSet(posted'[j]) \cap ToSet(posted'[k]) # {} => j = k
  BY <1>1 DEF Apart
<1>8. Apart'
  BY <1>4, <1>5, <1>6, <1>7 DEF Apart, ToSet
<1> QED BY <1>1, <1>8 DEF r, Away
-----------------------------------------------------------------------------
(***************************************************************************)
(* The calls, their futures and their answers.                             *)
(***************************************************************************)
Ledger == Calls /\ NoTaskLost /\ Cause /\ AnswerJustified

LEMMA LedgerNext ==
  ASSUME TypeOK',
         \A r \in Requests : future'[r] = "none" <=> phase'[r] = "new",
         \A r \in Requests : future'[r] = "pending" => phase'[r] = "waiting",
         \A r \in ToSet(Pending') : future'[r] = "pending",
         \A r \in Away' : future'[r] = "pending" \/ (future'[r] = "set" /\ streamEnd'[r]),
         \A r \in Requests : phase'[r] = "waiting" /\ future'[r] # "set" => r \in ToSet(Pending') \cup Away',
         Cause', AnswerJustified'
  PROVE  Ledger'
<1>1. tasks' \in Seq(Requests) /\ queue' \in Seq(Requests)
  BY DEF TypeOK
<1>2. ToSet(tasks' \o queue') = ToSet(tasks') \cup ToSet(queue')
  BY <1>1, ConcatMembers
<1>3. Pending' = tasks' \o queue' /\ Away' = PostedTasks' \cup WorkerTasks'
  BY DEF Pending, Away
<1>4. Held' = ToSet(queue') \cup ToSet(tasks') \cup PostedTasks' \cup WorkerTasks'
  BY DEF Held, ToSet
<1>5. Held' = ToSet(Pending') \cup Away'
  BY <1>2, <1>3, <1>4
<1>6. NoTaskLost'
  BY <1>5 DEF NoTaskLost
<1>7. Calls'
  BY DEF Calls, ToSet
<1> QED BY <1>6, <1>7 DEF Ledger

\* A step that only moves tasks, or that puts contexts in error.
LEMMA LedgerKept ==
  ASSUME TypeOK, TypeOK', Ledger, UNCHANGED <<phase, outcome, future, streamEnd>>,
         ToSet(Pending') \subseteq ToSet(Pending), Away' \subseteq Away \cup ToSet(Pending),
         ToSet(Pending) \cup Away \subseteq ToSet(Pending') \cup Away',
         \A r \in Requests : (out[r] => out'[r]) /\ (blamed[r] => blamed'[r]) /\ (err'[r] => err[r] \/ blamed'[r])
  PROVE  Ledger'
<1>1. Cause'
  BY DEF Ledger, Cause
<1>2. AnswerJustified'
  BY RequestsAssumption DEF Ledger, AnswerJustified
<1>3. \A r \in ToSet(Pending') : future'[r] = "pending"
  BY DEF Ledger, Calls
<1>4. \A r \in Away' : future'[r] = "pending" \/ (future'[r] = "set" /\ streamEnd'[r])
  BY DEF Ledger, Calls
<1>5. \A r \in Requests : phase'[r] = "waiting" /\ future'[r] # "set" => r \in ToSet(Pending') \cup Away'
  BY HeldParts DEF Ledger, NoTaskLost
<1>6. \A r \in Requests : /\ future'[r] = "none" <=> phase'[r] = "new"
                          /\ future'[r] = "pending" => phase'[r] = "waiting"
  BY DEF Ledger, Calls
<1> QED BY <1>1, <1>2, <1>3, <1>4, <1>5, <1>6, LedgerNext

LEMMA InferLedger ==
  ASSUME Shape, Shape', Apart, Ledger, NEW r \in Requests, Infer(r) PROVE Ledger'
<1>1. /\ UNCHANGED <<outcome, err, blamed, out, streamEnd>>
      /\ phase' = [phase EXCEPT ![r] = "waiting"] /\ future' = [future EXCEPT ![r] = "pending"]
      /\ TypeOK /\ TypeOK'
  BY DEF Infer, Shape
<1>2. /\ ToSet(Pending') = ToSet(Pending) \cup {r} /\ r \notin ToSet(Pending) \cup Away
      /\ Away' = Away
  BY InferApart DEF Ledger
<1>3. /\ phase \in [Requests -> {"new", "waiting", "returned"}]
      /\ future \in [Requests -> {"none", "pending", "set"}]
  BY <1>1 DEF TypeOK
<1>4. /\ phase'[r] = "waiting" /\ future'[r] = "pending"
      /\ \A q \in Requests \ {r} : phase'[q] = phase[q] /\ future'[q] = future[q]
  BY <1>1, <1>3
<1>5. ToSet(Pending) \subseteq Requests /\ Away \subseteq Requests
  BY <1>1, PendingTyped, AwayTyped DEF Away
<1>6. Cause' /\ AnswerJustified'
  BY <1>1 DEF Ledger, Cause, AnswerJustified
<1>7. \A q \in Requests : /\ future'[q] = "none" <=> phase'[q] = "new"
                          /\ future'[q] = "pending" => phase'[q] = "waiting"
  BY <1>4 DEF Ledger, Calls
<1>8. \A q \in ToSet(Pending') : future'[q] = "pending"
  BY <1>2, <1>4, <1>5 DEF Ledger, Calls
<1>9. \A q \in Away' : future'[q] = "pending" \/ (future'[q] = "set" /\ streamEnd'[q])
  BY <1>1, <1>2, <1>4, <1>5 DEF Ledger, Calls
<1>10. \A q \in Requests : phase'[q] = "waiting" /\ future'[q] # "set" => q \in ToSet(Pending') \cup Away'
  BY <1>1, <1>2, <1>4, HeldParts DEF Ledger, NoTaskLost
<1> QED BY <1>1, <1>6, <1>7, <1>8, <1>9, <1>10, LedgerNext

LEMMA ReturnLedger ==
  ASSUME Shape, Shape', Ledger, NEW r \in Requests, Return(r),
         UNCHANGED <<Pending, Away>>
  PROVE  Ledger'
<1>1. /\ UNCHANGED <<future, err, blamed, out, streamEnd>> /\ phase[r] = "waiting" /\ future[r] = "set"
      /\ phase' = [phase EXCEPT ![r] = "returned"] /\ outcome' = [outcome EXCEPT ![r] = Verdict(r)]
      /\ TypeOK /\ TypeOK'
  BY DEF Return, ctxVars, Shape
<1>2. /\ phase \in [Requests -> {"new", "waiting", "returned"}]
      /\ outcome \in [Requests -> {"none", "ok", "error"}]
  BY <1>1 DEF TypeOK
<1>3. /\ phase'[r] = "returned" /\ outcome'[r] = Verdict(r)
      /\ \A q \in Requests \ {r} : phase'[q] = phase[q] /\ outcome'[q] = outcome[q]
  BY <1>1, <1>2
<1>4. /\ Verdict(r) = "ok" /\ r \notin Streaming => out[r]
      /\ Verdict(r) = "error" /\ r \in Streaming => err[r]
  BY DEF Verdict
<1>5. Cause'
  BY <1>1 DEF Ledger, Cause
<1>6. AnswerJustified'
  <2>1. \A q \in Requests \ Streaming : outcome'[q] = "ok" => out'[q]
    BY <1>1, <1>3, <1>4 DEF Ledger, AnswerJustified
  <2>2. \A q \in Streaming : outcome'[q] = "error" => blamed'[q] \/ (LateNotifyErrs /\ streamEnd'[q])
    BY <1>1, <1>3, <1>4, RequestsAssumption DEF Ledger, AnswerJustified, Cause
  <2> QED BY <2>1, <2>2 DEF AnswerJustified
<1>7. \A q \in Requests : /\ future'[q] = "none" <=> phase'[q] = "new"
                          /\ future'[q] = "pending" => phase'[q] = "waiting"
  BY <1>1, <1>3 DEF Ledger, Calls
<1>8. /\ \A q \in ToSet(Pending') : future'[q] = "pending"
      /\ \A q \in Away' : future'[q] = "pending" \/ (future'[q] = "set" /\ streamEnd'[q])
  BY <1>1 DEF Ledger, Calls
<1>9. \A q \in Requests : phase'[q] = "waiting" /\ future'[q] # "set" => q \in ToSet(Pending') \cup Away'
  BY <1>1, <1>3, HeldParts DEF Ledger, NoTaskLost
<1> QED BY <1>1, <1>5, <1>6, <1>7, <1>8, <1>9, LedgerNext

LEMMA RenewLedger ==
  ASSUME Shape, Shape', Ledger, NEW r \in Requests, Renew(r),
         UNCHANGED <<Pending, Away>>
  PROVE  Ledger'
<1>1. /\ r \notin ToSet(Pending) \cup Away
      /\ phase' = [phase EXCEPT ![r] = "new"] /\ outcome' = [outcome EXCEPT ![r] = "none"]
      /\ future' = [future EXCEPT ![r] = "none"] /\ err' = [err EXCEPT ![r] = FALSE]
      /\ blamed' = [blamed EXCEPT ![r] = FALSE] /\ out' = [out EXCEPT ![r] = FALSE]
      /\ streamEnd' = [streamEnd EXCEPT ![r] = FALSE]
      /\ TypeOK /\ TypeOK'
  BY HeldParts DEF Renew, Shape
<1>2. /\ phase \in [Requests -> {"new", "waiting", "returned"}]
      /\ outcome \in [Requests -> {"none", "ok", "error"}]
      /\ future \in [Requests -> {"none", "pending", "set"}] /\ err \in [Requests -> BOOLEAN]
      /\ blamed \in [Requests -> BOOLEAN] /\ out \in [Requests -> BOOLEAN]
      /\ streamEnd \in [Requests -> BOOLEAN]
  BY <1>1 DEF TypeOK
<1>3. /\ phase'[r] = "new" /\ outcome'[r] = "none" /\ future'[r] = "none" /\ ~err'[r]
      /\ \A q \in Requests \ {r} :
           /\ phase'[q] = phase[q] /\ outcome'[q] = outcome[q] /\ future'[q] = future[q]
           /\ err'[q] = err[q] /\ blamed'[q] = blamed[q] /\ out'[q] = out[q] /\ streamEnd'[q] = streamEnd[q]
  BY <1>1, <1>2
<1>4. ToSet(Pending) \subseteq Requests \ {r} /\ Away \subseteq Requests \ {r}
  BY <1>1, PendingTyped, AwayTyped DEF Away
<1>5. Cause'
  BY <1>3 DEF Ledger, Cause
<1>6. AnswerJustified'
  BY <1>3, RequestsAssumption DEF Ledger, AnswerJustified
<1>7. \A q \in Requests : /\ future'[q] = "none" <=> phase'[q] = "new"
                          /\ future'[q] = "pending" => phase'[q] = "waiting"
  BY <1>3 DEF Ledger, Calls
<1>8. /\ \A q \in ToSet(Pending') : future'[q] = "pending"
      /\ \A q \in Away' : future'[q] = "pending" \/ (future'[q] = "set" /\ streamEnd'[q])
  BY <1>3, <1>4 DEF Ledger, Calls
<1>9. \A q \in Requests : phase'[q] = "waiting" /\ future'[q] # "set" => q \in ToSet(Pending') \cup Away'
  BY <1>1, <1>3, HeldParts DEF Ledger, NoTaskLost
<1> QED BY <1>1, <1>5, <1>6, <1>7, <1>8, <1>9, LedgerNext

\* A notification, first or second, of a request whose batch is away.
LEMMA NotificationLedger ==
  ASSUME TypeOK, TypeOK', Apart, Ledger, NEW r \in Requests \cap Away, NEW failed \in BOOLEAN,
         BatcherFutureNotify(r, failed), UNCHANGED <<Pending, phase, outcome, out>>,
         Away' \subseteq Away, Away \subseteq Away' \cup {r}, r \in Away' => streamEnd'[r],
         \A q \in Requests : streamEnd[q] => streamEnd'[q]
  PROVE  Ledger'
<1>1. /\ future'[r] = "set" /\ (blamed'[r] <=> blamed[r] \/ failed)
      /\ err'[r] => err[r] \/ failed \/ (future[r] = "set" /\ LateNotifyErrs)
      /\ \A q \in Requests \ {r} : future'[q] = future[q] /\ err'[q] = err[q] /\ blamed'[q] = blamed[q]
  BY NotificationContexts
<1>2. ToSet(Pending) \subseteq Requests /\ Away \subseteq Requests
  BY PendingTyped, AwayTyped DEF Away
<1>3. future[r] \in {"pending", "set"} /\ phase[r] # "new" /\ (future[r] = "set" => streamEnd[r])
  BY DEF Ledger, Calls
<1>4. Cause'
  <2>1. ASSUME NEW q \in Requests, err'[q] PROVE blamed'[q] \/ (LateNotifyErrs /\ streamEnd'[q])
    <3>1. CASE q = r
      BY <1>1, <1>3, <2>1, <3>1 DEF Ledger, Cause
    <3>2. CASE q # r
      BY <1>1, <2>1, <3>2 DEF Ledger, Cause
    <3> QED BY <3>1, <3>2
  <2> QED BY <2>1 DEF Cause
<1>5. AnswerJustified'
  <2>1. \A q \in Requests : blamed[q] => blamed'[q]
    BY <1>1
  <2> QED BY <2>1, RequestsAssumption DEF Ledger, AnswerJustified
<1>6. \A q \in Requests : /\ future'[q] = "none" <=> phase'[q] = "new"
                          /\ future'[q] = "pending" => phase'[q] = "waiting"
  BY <1>1, <1>3 DEF Ledger, Calls
<1>7. \A q \in Away' : future'[q] = "pending" \/ (future'[q] = "set" /\ streamEnd'[q])
  BY <1>1, <1>2 DEF Ledger, Calls
<1>8. \A q \in Requests : phase'[q] = "waiting" /\ future'[q] # "set" => q \in ToSet(Pending') \cup Away'
  BY <1>1, HeldParts DEF Ledger, NoTaskLost
<1>9. \A q \in ToSet(Pending') : future'[q] = "pending"
  <2>1. r \notin ToSet(Pending)
    BY DEF Apart
  <2> QED BY <1>1, <1>2, <2>1 DEF Ledger, Calls
<1> QED BY <1>1, <1>4, <1>5, <1>6, <1>7, <1>8, <1>9, LedgerNext
-----------------------------------------------------------------------------
(***************************************************************************)
(* The invariant.                                                          *)
(***************************************************************************)
LEMMA InitInv == Init => Inv
<1> SUFFICES ASSUME Init PROVE Inv
  OBVIOUS
<1>1. Shape /\ Apart /\ Pending = <<>> /\ Away = {} /\ ToSet(<<>>) = {}
  BY InitShape, InitApart DEF ToSet
<1>2. Calls /\ NoTaskLost /\ Cause
  BY <1>1 DEF Calls, NoTaskLost, Cause, Init
<1>3. AnswerJustified
  BY RequestsAssumption DEF AnswerJustified, Init
<1> QED BY <1>1, <1>2, <1>3 DEF Inv, Shape

LEMMA InvParts == Inv <=> Shape /\ Apart /\ Ledger
BY DEF Inv, Shape, Ledger

LEMMA InvNextParts == Inv' <=> Shape' /\ Apart' /\ Ledger'
BY DEF Inv, Shape, Ledger

\* A step that moves no task and touches no future.
LEMMA KeptInv ==
  ASSUME Inv, Shape', UNCHANGED <<queue, tasks, posted, wbatch, phase, outcome, future, streamEnd>>,
         \A r \in Requests : (out[r] => out'[r]) /\ (blamed[r] => blamed'[r]) /\ (err'[r] => err[r] \/ blamed'[r])
  PROVE  Inv'
<1>1. Apart' /\ UNCHANGED <<Pending, Away>>
  BY ApartUnchanged, InvParts
<1>2. ToSet(Pending') = ToSet(Pending)
  BY <1>1
<1>3. Ledger'
  BY <1>1, <1>2, LedgerKept, InvParts DEF Shape
<1> QED BY <1>1, <1>3, InvNextParts

LEMMA CallerInv ==
  ASSUME Inv, NEW r \in Requests, Infer(r) \/ Return(r) \/ Renew(r) PROVE Inv'
<1>1. CASE Infer(r)
  <2>1. Shape' /\ Apart'
    BY <1>1, InferShape, InferApart, InvParts DEF Ledger
  <2> QED BY <1>1, <2>1, InferLedger, InvParts, InvNextParts
<1>2. CASE Return(r) \/ Renew(r)
  <2>1. UNCHANGED <<queue, tasks, posted, wbatch>>
    BY <1>2 DEF Return, Renew, schedVars, workVars
  <2>2. Shape' /\ Apart' /\ UNCHANGED <<Pending, Away>>
    BY <1>2, <2>1, CallerShape, ApartUnchanged, InvParts
  <2> QED BY <1>2, <2>2, ReturnLedger, RenewLedger, InvParts, InvNextParts
<1> QED BY <1>1, <1>2

LEMMA SchedulerInv == ASSUME Inv, Scheduler PROVE Inv'
<1>1. Shape /\ Apart /\ Ledger /\ TypeOK /\ Rounds
  BY InvParts DEF Shape
<1>2. Shape' /\ TypeOK'
  BY <1>1, SchedulerShape DEF Shape
<1>3. UNCHANGED <<wbatch, phase, outcome, future, err, blamed, out, streamEnd>>
  BY <1>1, SchedulerCases DEF workVars, callVars, ctxVars
<1>4. CASE UNCHANGED <<queue, tasks, posted>>
  BY <1>2, <1>3, <1>4, KeptInv
<1>5. CASE Moved /\ UNCHANGED posted
  <2>1. Apart' /\ UNCHANGED <<Pending, Away>>
    BY <1>1, <1>3, <1>5, MovedApart
  <2>2. Ledger'
    BY <1>1, <1>2, <1>3, <2>1, LedgerKept
  <2> QED BY <1>2, <2>1, <2>2, InvNextParts
<1>6. CASE tasks # <<>> /\ tasks' = <<>> /\ UNCHANGED queue /\ posted' = Append(posted, tasks)
  <2>1. /\ Apart' /\ ToSet(Pending) = ToSet(Pending') \cup ToSet(tasks)
        /\ Away' = Away \cup ToSet(tasks)
    BY <1>1, <1>3, <1>6, SubmitApart
  <2>2. Ledger'
    BY <1>1, <1>2, <1>3, <2>1, LedgerKept
  <2> QED BY <1>2, <2>1, <2>2, InvNextParts
<1> QED BY <1>1, <1>4, <1>5, <1>6, SchedulerCases

LEMMA WorkerInv == ASSUME Inv, NEW w \in Workers, WorkerStep(w) PROVE Inv'
<1>1. Shape /\ Apart /\ Ledger /\ TypeOK
  BY InvParts DEF Shape
<1>2. CASE Take(w)
  <2>1. Shape' /\ Apart' /\ UNCHANGED <<Pending, Away>>
    BY <1>1, <1>2, TakeShape, TakeApart
  <2>2. UNCHANGED <<phase, outcome, future, err, blamed, out, streamEnd>>
    BY <1>2 DEF Take, callVars, ctxVars
  <2>3. Ledger'
    BY <1>1, <2>1, <2>2, LedgerKept DEF Shape
  <2> QED BY <2>1, <2>3, InvNextParts
<1>3. CASE Stage(w) \/ Raise(w)
  BY <1>1, <1>3, CallShape, KeptInv
<1>4. CASE Notify(w)
  <2> DEFINE r == Head(wbatch[w])
  <2>1. /\ Shape' /\ TypeOK' /\ Apart' /\ UNCHANGED Pending /\ r \in Requests \cap Away
        /\ Away' = Away \ {r}
    BY <1>1, <1>4, NotifyShape, NotifyApart DEF Shape
  <2>2. /\ BatcherFutureNotify(r, wpc[w] = "fail") /\ UNCHANGED <<phase, outcome, out, streamEnd>>
        /\ (wpc[w] = "fail") \in BOOLEAN
    BY <1>4 DEF Notify, callVars
  <2> HIDE DEF r
  <2>3. Ledger'
    BY <1>1, <2>1, <2>2, NotificationLedger
  <2> QED BY <2>1, <2>3, InvNextParts
<1> QED BY <1>2, <1>3, <1>4 DEF WorkerStep

LEMMA WorkerBatchAway == ASSUME NEW w \in Workers PROVE ToSet(wbatch[w]) \subseteq Away
BY DEF Away, WorkerTasks

LEMMA StreamFinalInv ==
  ASSUME Inv, NEW w \in Workers, NEW r \in Requests, StreamFinal(w, r) PROVE Inv'
<1>1. /\ Shape /\ Apart /\ Ledger /\ TypeOK /\ Shape' /\ TypeOK' /\ streamEnd \in [Requests -> BOOLEAN]
  BY InvParts, StreamFinalShape DEF Shape, TypeOK
<1>2. /\ UNCHANGED <<queue, tasks, posted, wbatch, phase, outcome, out>>
      /\ streamEnd' = [streamEnd EXCEPT ![r] = TRUE] /\ BatcherFutureNotify(r, FALSE)
      /\ r \in ToSet(wbatch[w])
  BY DEF StreamFinal, schedVars, workVars, callVars
<1>3. Apart' /\ UNCHANGED <<Pending, Away>> /\ r \in Away
  BY <1>1, <1>2, ApartUnchanged, WorkerBatchAway
<1>4. streamEnd'[r] /\ \A q \in Requests : streamEnd[q] => streamEnd'[q]
  BY <1>1, <1>2
<1>5. Ledger'
  BY <1>1, <1>2, <1>3, <1>4, NotificationLedger
<1> QED BY <1>1, <1>3, <1>5, InvNextParts

LEMMA InvNext == Inv /\ [Next]_vars => Inv'
<1> SUFFICES ASSUME Inv, [Next]_vars PROVE Inv'
  OBVIOUS
<1>1. CASE Expire
  <2>1. Shape'
    BY <1>1, ExpireShape, InvParts
  <2> QED BY <1>1, <2>1, KeptInv DEF Expire, workVars, callVars, ctxVars
<1>2. CASE UNCHANGED vars
  <2>1. UNCHANGED <<queue, sched, tasks, expired, posted, wpc, wbatch, phase, outcome, future, err,
                    blamed, out, streamEnd>>
    BY <1>2 DEF vars, schedVars, workVars, callVars, ctxVars
  <2>2. Shape'
    <3>1. TypeOK'
      BY <2>1 DEF Inv, TypeOK
    <3> QED BY <2>1, <3>1 DEF Inv, Shape, Rounds, Busy
  <2> QED BY <2>1, <2>2, KeptInv
<1> QED BY <1>1, <1>2, CallerInv, SchedulerInv, WorkerInv, StreamFinalInv DEF Next

(***************************************************************************)
(* Always: types and rounds; no task is in two places; a future has been   *)
(* set only for a call whose batch is away or over; and what the theorems  *)
(* below state.                                                            *)
(***************************************************************************)
THEOREM Invariant == Spec => []Inv
BY InitInv, InvNext, PTL DEF Spec

(***************************************************************************)
(* An answer is justified: none without its output unless it is streamed,  *)
(* and no error of a stream without a model, or a late notification, that  *)
(* is to blame.                                                            *)
(***************************************************************************)
THEOREM AnswersJustified == Spec => []AnswerJustified
<1>1. Inv => AnswerJustified
  BY DEF Inv
<1> QED BY <1>1, Invariant, PTL

(***************************************************************************)
(* No drain and no hand-over loses the task of a caller that waits.        *)
(***************************************************************************)
THEOREM TasksKept == Spec => []NoTaskLost
<1>1. Inv => NoTaskLost
  BY DEF Inv
<1> QED BY <1>1, Invariant, PTL
-----------------------------------------------------------------------------
(***************************************************************************)
(* The batcher implements BatchService.                                    *)
(***************************************************************************)
Call == [r \in Requests |-> IF phase[r] # "waiting" THEN "idle"
                            ELSE IF future[r] = "set" THEN "answered" ELSE "pending"]
Open == {r \in Held \ ToSet(tasks \o queue) : future[r] # "set"}

ServiceStep == [Service!Next]_(Service!vars)

LEMMA StutterStep ==
  ASSUME Call' = Call, Pending' = Pending, Open' = Open PROVE ServiceStep
BY DEF ServiceStep, Service!vars, Call, Pending, Open

LEMMA AcceptStep ==
  ASSUME NEW r \in Requests, Call[r] = "idle", Call' = [Call EXCEPT ![r] = "pending"],
         Pending' = Append(Pending, r), Open' = Open
  PROVE  ServiceStep
BY DEF ServiceStep, Service!Next, Service!Accept, Call, Pending, Open

LEMMA AnswerStep ==
  ASSUME NEW r \in Requests, r \in Open, Open' = Open \ {r},
         Call' = [Call EXCEPT ![r] = "answered"], Pending' = Pending
  PROVE  ServiceStep
BY DEF ServiceStep, Service!Next, Service!Answer, Call, Pending, Open

LEMMA LeaveStep ==
  ASSUME NEW r \in Requests, Call[r] = "answered", Call' = [Call EXCEPT ![r] = "idle"],
         Pending' = Pending, Open' = Open
  PROVE  ServiceStep
BY DEF ServiceStep, Service!Next, Service!Leave, Call, Pending, Open

LEMMA FormStep ==
  ASSUME NEW n \in 1 .. Cardinality(Requests), n \in 1 .. Len(Pending), n <= Len(Pending),
         Open' = Open \cup ToSet(SubSeq(Pending, 1, n)),
         Pending' = SubSeq(Pending, n + 1, Len(Pending)), Call' = Call
  PROVE  ServiceStep
BY DEF ServiceStep, Service!Next, Service!Form, Service!First, Service!Rest, Service!ToSet, ToSet,
       Call, Pending, Open

\* The calls under way are those whose task is away and not notified.
LEMMA OpenIsAway == Inv => Open = {r \in Away : future[r] # "set"}
<1> SUFFICES ASSUME Inv PROVE Open = {r \in Away : future[r] # "set"}
  OBVIOUS
<1>1. Held = ToSet(Pending) \cup Away /\ ToSet(Pending) \cap Away = {}
  BY HeldParts DEF Inv, Apart
<1>2. Open = {r \in Held \ ToSet(Pending) : future[r] # "set"}
  BY DEF Open, Pending
<1> QED BY <1>1, <1>2

LEMMA OpenIsAwayNext == Inv' => Open' = {r \in Away' : future'[r] # "set"}
<1> SUFFICES ASSUME Inv' PROVE Open' = {r \in Away' : future'[r] # "set"}
  OBVIOUS
<1>1. ToSet(tasks' \o queue') = ToSet(tasks') \cup ToSet(queue')
  <2>1. tasks' \in Seq(Requests) /\ queue' \in Seq(Requests)
    BY DEF Inv, TypeOK
  <2> QED BY <2>1, ConcatMembers
<1>2. Held' = ToSet(queue') \cup ToSet(tasks') \cup PostedTasks' \cup WorkerTasks'
  BY DEF Held, ToSet
<1>3. Away' = PostedTasks' \cup WorkerTasks' /\ Pending' = tasks' \o queue'
  BY DEF Away, Pending
<1>4. Open' = {r \in Held' \ ToSet(tasks' \o queue') : future'[r] # "set"}
  BY DEF Open, ToSet
<1>5. ToSet(Pending') \cap Away' = {}
  BY DEF Inv, Apart, ToSet
<1> QED BY <1>1, <1>2, <1>3, <1>4, <1>5

LEMMA CallUnchanged == ASSUME UNCHANGED <<phase, future>> PROVE Call' = Call
BY DEF Call

LEMMA OpenUnchanged == ASSUME Inv, Inv', UNCHANGED future, Away' = Away PROVE Open' = Open
BY OpenIsAway, OpenIsAwayNext

LEMMA InferStep == ASSUME Inv, Inv', NEW r \in Requests, Infer(r) PROVE ServiceStep
<1>1. /\ phase[r] = "new" /\ phase' = [phase EXCEPT ![r] = "waiting"]
      /\ future' = [future EXCEPT ![r] = "pending"]
      /\ phase \in [Requests -> {"new", "waiting", "returned"}]
      /\ future \in [Requests -> {"none", "pending", "set"}] /\ Shape /\ Apart /\ Calls /\ TypeOK
  BY DEF Infer, Inv, Shape, TypeOK
<1>2. Pending' = Append(Pending, r) /\ r \notin Away /\ Away' = Away
  BY <1>1, InferApart
<1>3. Call[r] = "idle" /\ Call' = [Call EXCEPT ![r] = "pending"]
  BY <1>1 DEF Call
<1>4. Away \subseteq Requests
  BY <1>1, AwayTyped DEF Away
<1>5. \A q \in Away : future'[q] = future[q]
  BY <1>1, <1>2, <1>4
<1>6. Open' = Open
  BY <1>2, <1>5, OpenIsAway, OpenIsAwayNext
<1> QED BY <1>2, <1>3, <1>6, AcceptStep

LEMMA ReturnStep == ASSUME Inv, Inv', NEW r \in Requests, Return(r) PROVE ServiceStep
<1>1. /\ UNCHANGED <<queue, tasks, posted, wbatch, future>>
      /\ phase[r] = "waiting" /\ future[r] = "set" /\ phase' = [phase EXCEPT ![r] = "returned"]
      /\ phase \in [Requests -> {"new", "waiting", "returned"}]
  BY DEF Return, schedVars, workVars, ctxVars, Inv, TypeOK
<1>2. Call[r] = "answered" /\ Call' = [Call EXCEPT ![r] = "idle"]
  BY <1>1 DEF Call
<1>3. Pending' = Pending /\ Away' = Away
  BY <1>1, AwayUnchanged DEF Pending
<1> QED BY <1>1, <1>2, <1>3, OpenUnchanged, LeaveStep

LEMMA RenewStep == ASSUME Inv, Inv', NEW r \in Requests, Renew(r) PROVE ServiceStep
<1>1. /\ UNCHANGED <<queue, tasks, posted, wbatch>> /\ r \notin Held
      /\ phase[r] = "returned" /\ phase' = [phase EXCEPT ![r] = "new"]
      /\ future' = [future EXCEPT ![r] = "none"]
      /\ phase \in [Requests -> {"new", "waiting", "returned"}]
      /\ future \in [Requests -> {"none", "pending", "set"}] /\ TypeOK
  BY DEF Renew, schedVars, workVars, Inv, TypeOK
<1>2. Call' = Call
  BY <1>1 DEF Call
<1>3. Pending' = Pending /\ Away' = Away
  BY <1>1, AwayUnchanged DEF Pending
<1>4. Away \subseteq Requests \ {r}
  BY <1>1, AwayTyped, HeldParts DEF Away
<1>5. \A q \in Away : future'[q] = future[q]
  BY <1>1, <1>4
<1>6. Open' = Open
  BY <1>3, <1>5, OpenIsAway, OpenIsAwayNext
<1> QED BY <1>2, <1>3, <1>6, StutterStep

\* A batch is cut from the front when it is handed over.
LEMMA SubmitStep ==
  ASSUME Inv, Inv', UNCHANGED <<wbatch, phase, future, queue>>,
         tasks # <<>>, tasks' = <<>>, posted' = Append(posted, tasks)
  PROVE  ServiceStep
<1>1. /\ queue \in Seq(Requests) /\ tasks \in Seq(Requests) /\ IsInjective(tasks \o queue)
      /\ Shape /\ Apart /\ \A r \in ToSet(Pending) : future[r] = "pending"
  BY DEF Inv, Shape, TypeOK, Apart, Calls, Pending
<1>2. /\ Pending' = queue /\ ToSet(Pending) = ToSet(Pending') \cup ToSet(tasks)
      /\ Away' = Away \cup ToSet(tasks)
  BY <1>1, SubmitApart
<1>3. Call' = Call
  BY CallUnchanged
<1>4. Open' = Open \cup ToSet(tasks)
  <2>1. \A r \in ToSet(tasks) : future'[r] # "set"
    BY <1>1, <1>2
  <2> QED BY <1>2, <2>1, OpenIsAway, OpenIsAwayNext
<1>5. /\ Len(tasks) \in 1 .. Len(Pending) /\ SubSeq(Pending, 1, Len(tasks)) = tasks
      /\ SubSeq(Pending, Len(tasks) + 1, Len(Pending)) = queue
  BY <1>1, ConcatParts DEF Pending
<1>6. Len(tasks) \in 1 .. Cardinality(Requests) /\ Len(tasks) <= Len(Pending)
  <2>1. IsInjective(tasks)
    BY <1>1, InjectiveParts
  <2>2. Len(tasks) \in Nat /\ Cardinality(Requests) \in Nat /\ Len(tasks) <= Cardinality(Requests)
    BY <1>1, <2>1, InjectiveLength, RequestsAssumption
  <2>3. Len(Pending) \in Nat
    BY <1>1, ConcatMembers DEF Pending
  <2> QED BY <1>5, <2>2, <2>3
<1> QED BY <1>2, <1>3, <1>4, <1>5, <1>6, FormStep

LEMMA SchedulerStep == ASSUME Inv, Inv', Scheduler PROVE ServiceStep
<1>1. Shape /\ Apart /\ TypeOK /\ Rounds
  BY DEF Inv, Shape
<1>2. UNCHANGED <<wbatch, phase, future>>
  BY <1>1, SchedulerCases DEF workVars, callVars, ctxVars
<1>3. CASE UNCHANGED <<queue, tasks, posted>>
  <2>1. Pending' = Pending /\ Away' = Away
    BY <1>2, <1>3, AwayUnchanged DEF Pending
  <2> QED BY <1>2, <2>1, CallUnchanged, OpenUnchanged, StutterStep
<1>4. CASE Moved /\ UNCHANGED posted
  <2>1. Pending' = Pending /\ Away' = Away
    BY <1>1, <1>2, <1>4, MovedApart
  <2> QED BY <1>2, <2>1, CallUnchanged, OpenUnchanged, StutterStep
<1>5. CASE tasks # <<>> /\ tasks' = <<>> /\ UNCHANGED queue /\ posted' = Append(posted, tasks)
  BY <1>2, <1>5, SubmitStep
<1> QED BY <1>1, <1>3, <1>4, <1>5, SchedulerCases

\* A notification answers the call, unless it has been answered.
LEMMA NotificationStep ==
  ASSUME Inv, Inv', NEW r \in Requests \cap Away, future' = [future EXCEPT ![r] = "set"],
         Away' \subseteq Away, Away \subseteq Away' \cup {r}, UNCHANGED <<Pending, phase>>
  PROVE  ServiceStep
<1>1. /\ future \in [Requests -> {"none", "pending", "set"}] /\ Away \subseteq Requests
      /\ phase \in [Requests -> {"new", "waiting", "returned"}]
  BY AwayTyped DEF Inv, TypeOK, Away
<1>2. future'[r] = "set" /\ \A q \in Requests \ {r} : future'[q] = future[q]
  BY <1>1
<1>3. Open' = Open \ {r}
  BY <1>1, <1>2, OpenIsAway, OpenIsAwayNext
<1>4. CASE future[r] = "set"
  <2>1. r \notin Open
    BY <1>4, OpenIsAway
  <2>2. future' = future
    BY <1>1, <1>4
  <2> QED BY <1>3, <2>1, <2>2, CallUnchanged, StutterStep
<1>5. CASE future[r] # "set"
  <2>1. r \in Open
    BY <1>5, OpenIsAway
  <2>2. phase[r] = "waiting"
    BY <1>5 DEF Inv, Calls
  <2>3. Call' = [Call EXCEPT ![r] = "answered"]
    BY <1>1, <1>2, <2>2 DEF Call
  <2> QED BY <1>3, <2>1, <2>3, AnswerStep
<1> QED BY <1>4, <1>5

LEMMA RefinementStep == ASSUME Inv, Inv', [Next]_vars PROVE ServiceStep
<1>1. Shape /\ Apart
  BY DEF Inv, Shape
<1>2. ASSUME NEW w \in Workers, Take(w) PROVE ServiceStep
  <2>1. Pending' = Pending /\ Away' = Away /\ UNCHANGED <<phase, future>>
    BY <1>1, <1>2, TakeApart DEF Take, callVars, ctxVars
  <2> QED BY <2>1, CallUnchanged, OpenUnchanged, StutterStep
<1>3. ASSUME NEW w \in Workers, NEW r \in Requests, StreamFinal(w, r) PROVE ServiceStep
  <2>1. /\ UNCHANGED <<queue, tasks, posted, wbatch, phase>> /\ r \in Away
        /\ future' = [future EXCEPT ![r] = "set"]
    BY <1>3, WorkerBatchAway DEF StreamFinal, BatcherFutureNotify, schedVars, workVars, callVars
  <2>2. Away' = Away /\ Pending' = Pending
    BY <2>1, AwayUnchanged DEF Pending
  <2> QED BY <2>1, <2>2, NotificationStep
<1>4. ASSUME NEW w \in Workers, Notify(w) PROVE ServiceStep
  <2>1. UNCHANGED phase /\ future' = [future EXCEPT ![Head(wbatch[w])] = "set"]
    BY <1>4 DEF Notify, BatcherFutureNotify, callVars
  <2>2. /\ UNCHANGED Pending /\ Head(wbatch[w]) \in Requests \cap Away
        /\ Away' = Away \ {Head(wbatch[w])}
    BY <1>1, <1>4, NotifyApart
  <2> QED BY <2>1, <2>2, NotificationStep
<1>5. CASE UNCHANGED <<queue, tasks, posted, wbatch, phase, future>>
  <2>1. Pending' = Pending /\ Away' = Away
    BY <1>5, AwayUnchanged DEF Pending
  <2> QED BY <1>5, <2>1, CallUnchanged, OpenUnchanged, StutterStep
<1>6. ASSUME NEW w \in Workers, Stage(w) \/ Raise(w) PROVE ServiceStep
  BY <1>5, <1>6 DEF Stage, Raise, schedVars, callVars, ctxVars
<1>7. CASE Expire \/ UNCHANGED vars
  BY <1>5, <1>7 DEF Expire, vars, schedVars, workVars, callVars, ctxVars
<1> QED
  BY <1>2, <1>3, <1>4, <1>6, <1>7, InferStep, ReturnStep, RenewStep, SchedulerStep DEF Next, WorkerStep

LEMMA RefinementInit == Init => Service!Init
<1> SUFFICES ASSUME Init PROVE Service!Init
  OBVIOUS
<1>1. Call = [r \in Requests |-> "idle"]
  BY DEF Init, Call
<1>2. Pending = <<>> /\ Held = {}
  BY InitApart
<1>3. Open = {}
  BY <1>2 DEF Open
<1> QED BY <1>1, <1>2, <1>3 DEF Service!Init, Call, Pending, Open

(***************************************************************************)
(* The batcher implements the service: batches are cut from the front of   *)
(* the order of arrival, and each call is answered once, through the batch *)
(* it is in, however many times its future is set.                         *)
(***************************************************************************)
THEOREM Implements == Spec => ServiceSpec
<1>1. Inv /\ Inv' /\ [Next]_vars => [Service!Next]_(Service!vars)
  BY RefinementStep DEF ServiceStep
<1> QED BY <1>1, RefinementInit, Invariant, PTL DEF Spec, ServiceSpec, Service!Spec

-----------------------------------------------------------------------------
(***************************************************************************)
(* The tensor converters of TensorBatch, which the workers of the batchers *)
(* call before and after the model.  The rest of this module is about any  *)
(* batch one of them is handed: how many requests it has, how many tensors *)
(* in a request, how many rows in a tensor and what shape a row has is     *)
(* open.                                                                   *)
(***************************************************************************)

(***************************************************************************)
(* Numbers.                                                                *)
(***************************************************************************)
\* A nonempty set of numbers has a smallest member.
LEMMA Smallest ==
  ASSUME NEW T \in SUBSET Nat, T # {}
  PROVE  Min(T) \in T /\ \A y \in T : Min(T) <= y
<1> DEFINE R == OpToRel(<, Nat)
<1>1. IsWellFoundedOn(R, Nat)
  BY NatLessThanWellFounded
<1>2. \A y, x \in Nat : y < x => <<y, x>> \in R
  BY DEF OpToRel
<1> HIDE DEF R
<1>3. PICK x \in T : \A y \in T : ~(<<y, x>> \in R)
  BY <1>1, WFMin
<1>4. \A y \in T : x <= y
  <2> SUFFICES ASSUME NEW y \in T PROVE x <= y
    OBVIOUS
  <2>1. x \in Nat /\ y \in Nat /\ ~(y < x)
    BY <1>2, <1>3
  <2> QED BY <2>1
<1>5. \E m \in T : \A y \in T : m <= y
  BY <1>4
<1> QED BY <1>5 DEF Min

\* Induction, over a set of numbers.
LEMMA Induction ==
  ASSUME NEW S \in SUBSET Nat, 0 \in S, \A n \in S : n + 1 \in S
  PROVE  S = Nat
<1> SUFFICES ASSUME S # Nat PROVE FALSE
  OBVIOUS
<1> DEFINE T == Nat \ S
<1>1. T # {} /\ T \in SUBSET Nat
  OBVIOUS
<1>2. Min(T) \in T /\ \A y \in T : Min(T) <= y
  BY <1>1, Smallest
<1> DEFINE m == Min(T)
<1> HIDE DEF m
<1>3. m \in Nat /\ m \notin S /\ \A y \in Nat \ S : m <= y
  BY <1>2 DEF m
<1>4. m # 0
  BY <1>3
<1>5. m - 1 \in Nat /\ m - 1 \in S
  BY <1>3, <1>4
<1> QED BY <1>3, <1>5

\* A nonempty set of positions has a largest member.
LEMMA Largest ==
  ASSUME NEW n \in Nat, NEW s \in SUBSET (1 .. n), s # {}
  PROVE  Max(s) \in s /\ \A y \in s : y <= Max(s)
<1> DEFINE T == {n - y : y \in s}
<1>1. T # {} /\ T \in SUBSET Nat
  <2>1. \A y \in s : y \in Nat /\ y <= n
    OBVIOUS
  <2>2. \A y \in s : n - y \in Nat
    BY <2>1
  <2>3. T # {}
    OBVIOUS
  <2> QED BY <2>2, <2>3
<1>2. Min(T) \in T /\ \A y \in T : Min(T) <= y
  BY <1>1, Smallest
<1>3. PICK x \in s : Min(T) = n - x
  BY <1>2
<1>4. \A y \in s : n - x <= n - y
  BY <1>2, <1>3
<1>5. \E m \in s : \A y \in s : m >= y
  BY <1>4
<1> QED BY <1>5 DEF Max

\* A number has one quotient and one remainder.
LEMMA DivMod ==
  ASSUME NEW a \in Nat, NEW d \in Nat \ {0}
  PROVE  /\ a \div d \in Nat /\ a % d \in 0 .. d - 1
         /\ a = d * (a \div d) + (a % d)
OBVIOUS

LEMMA DivModUnique ==
  ASSUME NEW a \in Nat, NEW d \in Nat \ {0}, NEW q \in Nat, NEW r \in 0 .. d - 1, a = d * q + r
  PROVE  a \div d = q /\ a % d = r
<1> DEFINE p == a \div d
<1> DEFINE s == a % d
<1>1. p \in Nat /\ s \in 0 .. d - 1 /\ a = d * p + s
  BY DivMod
<1> HIDE DEF p, s
<1>2. d * q + r = d * p + s
  BY <1>1
<1>3. ~(q > p)
  <2> SUFFICES ASSUME q > p PROVE FALSE
    OBVIOUS
  <2>1. PICK e \in Nat : q = p + 1 + e
    <3>1. q - p - 1 \in Nat /\ q = p + 1 + (q - p - 1)
      BY <1>1
    <3> QED BY <3>1
  <2>2. d * q = d * p + d + d * e
    BY <1>1, <2>1
  <2>3. d * e >= 0 /\ d * p \in Nat
    BY <1>1, <2>1
  <2> QED BY <1>1, <1>2, <2>2, <2>3
<1>4. ~(p > q)
  <2> SUFFICES ASSUME p > q PROVE FALSE
    OBVIOUS
  <2>1. PICK e \in Nat : p = q + 1 + e
    <3>1. p - q - 1 \in Nat /\ p = q + 1 + (p - q - 1)
      BY <1>1
    <3> QED BY <3>1
  <2>2. d * p = d * q + d + d * e
    BY <1>1, <2>1
  <2>3. d * e >= 0 /\ d * q \in Nat
    BY <1>1, <2>1
  <2> QED BY <1>1, <1>2, <2>2, <2>3
<1>5. p = q
  BY <1>1, <1>3, <1>4
<1>6. s = r
  BY <1>1, <1>2, <1>5
<1> QED BY <1>5, <1>6 DEF p, s

\* A product grows with its factor.
LEMMA Monotone ==
  ASSUME NEW a \in Nat, NEW b \in Nat, a <= b, NEW len \in Nat
  PROVE  a * len \in Nat /\ b * len \in Nat /\ a * len <= b * len
<1>1. PICK e \in Nat : b = a + e
  <2>1. b - a \in Nat /\ b = a + (b - a)
    OBVIOUS
  <2> QED BY <2>1
<1>2. b * len = a * len + e * len /\ e * len \in Nat /\ a * len \in Nat
  BY <1>1
<1> DEFINE x == a * len
<1> DEFINE y == e * len
<1> DEFINE z == b * len
<1>3. z = x + y /\ y \in Nat /\ x \in Nat
  BY <1>2
<1> HIDE DEF x, y, z
<1>4. x \in Nat /\ z \in Nat /\ x <= z
  BY <1>3
<1> QED BY <1>4 DEF x, z

-----------------------------------------------------------------------------
(***************************************************************************)
(* Folds.                                                                  *)
(***************************************************************************)
\* The results of n steps, from a base.
Steps(P, n, V, base, Step) ==
  /\ P \in [0 .. n -> V] /\ P[0] = base
  /\ \A k \in 1 .. n : P[k] = Step[<<P[k - 1], k>>]

LEMMA StepsExist ==
  ASSUME NEW n \in Nat, NEW V, NEW base \in V, NEW Step \in [V \X (1 .. n) -> V]
  PROVE  \E P : Steps(P, n, V, base, Step)
<1> DEFINE Sofar(P, k) == /\ P \in [0 .. k -> V] /\ P[0] = base
                          /\ \A j \in 1 .. k : P[j] = Step[<<P[j - 1], j>>]
<1> DEFINE A(k) == k <= n => \E P : Sofar(P, k)
<1> DEFINE S == {k \in Nat : A(k)}
<1>1. A(0)
  <2> DEFINE P == [i \in 0 .. 0 |-> base]
  <2>1. P \in [0 .. 0 -> V] /\ P[0] = base /\ 1 .. 0 = {}
    OBVIOUS
  <2> QED BY <2>1
<1>2. ASSUME NEW k \in Nat, A(k) PROVE A(k + 1)
  <2> SUFFICES ASSUME k + 1 <= n PROVE \E P : Sofar(P, k + 1)
    OBVIOUS
  <2>1. PICK P : Sofar(P, k)
    BY <1>2
  <2> DEFINE Q == [i \in 0 .. k + 1 |-> IF i = k + 1 THEN Step[<<P[k], k + 1>>] ELSE P[i]]
  <2>2. P[k] \in V /\ k + 1 \in 1 .. n
    BY <2>1
  <2>3. Step[<<P[k], k + 1>>] \in V
    BY <2>2
  <2>4. Q \in [0 .. k + 1 -> V]
    <3> SUFFICES ASSUME NEW i \in 0 .. k + 1
                 PROVE  (IF i = k + 1 THEN Step[<<P[k], k + 1>>] ELSE P[i]) \in V
      OBVIOUS
    <3> QED BY <2>1, <2>3
  <2>5. Q[0] = base
    BY <2>1
  <2>6. ASSUME NEW i \in 1 .. k + 1 PROVE Q[i] = Step[<<Q[i - 1], i>>]
    <3>1. CASE i = k + 1
      <4>1. Q[i] = Step[<<P[k], i>>] /\ i - 1 = k /\ Q[k] = P[k]
        BY <3>1
      <4> QED BY <4>1
    <3>2. CASE i # k + 1
      <4>1. Q[i] = P[i] /\ Q[i - 1] = P[i - 1] /\ i \in 1 .. k
        BY <3>2
      <4> QED BY <2>1, <4>1
    <3> QED BY <3>1, <3>2
  <2> QED BY <2>4, <2>5, <2>6
<1>3. n \in S
  <2> HIDE DEF A
  <2>1. 0 \in S /\ (\A k \in S : k + 1 \in S) /\ S \in SUBSET Nat
    BY <1>1, <1>2
  <2> HIDE DEF S
  <2>2. S = Nat
    BY <2>1, Induction
  <2> QED BY <2>2
<1> QED BY <1>3 DEF Steps

\* What the recursion of a fold, over the sets of positions, makes of g.
Solves(g, n, V, base, Step) ==
  /\ g \in [SUBSET (1 .. n) -> V]
  /\ \A s \in SUBSET (1 .. n) : g[s] = IF s = {} THEN base ELSE Step[<<g[s \ {Max(s)}], Max(s)>>]

\* As far as its values are known to be of the type.
Follows(g, n, V, base, Step) ==
  /\ g[{}] = base
  /\ \A s \in SUBSET (1 .. n) :
       s # {} /\ g[s \ {Max(s)}] \in V => g[s] = Step[<<g[s \ {Max(s)}], Max(s)>>]

\* It has a solution.
LEMMA FoldExists ==
  ASSUME NEW n \in Nat, NEW V, NEW base \in V, NEW Step \in [V \X (1 .. n) -> V]
  PROVE  \E g : Solves(g, n, V, base, Step)
<1> DEFINE F(g, s) == IF s = {} THEN base ELSE Step[<<g[s \ {Max(s)}], Max(s)>>]
<1> DEFINE Sofar(g, k) == /\ g \in [SUBSET (1 .. k) -> V]
                          /\ \A s \in SUBSET (1 .. k) : g[s] = F(g, s)
<1> DEFINE A(k) == k <= n => \E g : Sofar(g, k)
<1> DEFINE S == {k \in Nat : A(k)}
<1>1. A(0)
  <2> DEFINE g == [s \in SUBSET (1 .. 0) |-> base]
  <2>1. \A s \in SUBSET (1 .. 0) : s = {}
    OBVIOUS
  <2>2. Sofar(g, 0)
    BY <2>1
  <2> QED BY <2>2
<1>2. ASSUME NEW k \in Nat, A(k) PROVE A(k + 1)
  <2> SUFFICES ASSUME k + 1 <= n PROVE \E g : Sofar(g, k + 1)
    OBVIOUS
  <2>0. \E g : Sofar(g, k)
    <3> HIDE DEF Sofar
    <3> QED BY <1>2
  <2>1. PICK g : Sofar(g, k)
    BY <2>0
  <2>2. ASSUME NEW s \in SUBSET (1 .. k + 1), s # {}
        PROVE  s \ {Max(s)} \in SUBSET (1 .. k) /\ Max(s) \in 1 .. n
    <3>1. k + 1 \in Nat
      OBVIOUS
    <3>2. Max(s) \in s /\ \A y \in s : y <= Max(s)
      BY <2>2, <3>1, Largest
    <3>3. ASSUME NEW y \in s, y # Max(s) PROVE y \in 1 .. k
      <4>1. y \in 1 .. k + 1 /\ Max(s) \in 1 .. k + 1 /\ y <= Max(s)
        BY <3>2
      <4> QED BY <3>3, <4>1
    <3>4. Max(s) \in 1 .. n
      <4>1. Max(s) \in 1 .. k + 1
        BY <3>2
      <4> QED BY <4>1
    <3> QED BY <3>3, <3>4
  <2> DEFINE h == [s \in SUBSET (1 .. k + 1) |-> F(g, s)]
  <2>3. ASSUME NEW s \in SUBSET (1 .. k + 1) PROVE F(g, s) \in V
    <3>1. CASE s = {}
      BY <3>1
    <3>2. CASE s # {}
      <4>1. g[s \ {Max(s)}] \in V /\ Max(s) \in 1 .. n
        BY <2>1, <2>2, <3>2
      <4> QED BY <3>2, <4>1
    <3> QED BY <3>1, <3>2
  <2>4. ASSUME NEW t \in SUBSET (1 .. k) PROVE h[t] = g[t]
    <3>1. t \in SUBSET (1 .. k + 1)
      OBVIOUS
    <3>2. h[t] = F(g, t)
      BY <3>1
    <3> QED BY <2>1, <3>2
  <2>5. ASSUME NEW s \in SUBSET (1 .. k + 1) PROVE h[s] = F(h, s)
    <3>1. h[s] = F(g, s)
      OBVIOUS
    <3>2. s # {} => h[s \ {Max(s)}] = g[s \ {Max(s)}]
      <4> HIDE DEF h
      <4> QED BY <2>2, <2>4
    <3> HIDE DEF h
    <3> QED BY <3>1, <3>2
  <2>6. h \in [SUBSET (1 .. k + 1) -> V]
    <3> HIDE DEF F
    <3> QED BY <2>3
  <2> HIDE DEF h, F
  <2>7. Sofar(h, k + 1)
    BY <2>5, <2>6
  <2> QED BY <2>7
<1>3. n \in S
  <2> HIDE DEF A
  <2>1. 0 \in S /\ (\A k \in S : k + 1 \in S) /\ S \in SUBSET Nat
    BY <1>1, <1>2
  <2> HIDE DEF S
  <2>2. S = Nat
    BY <2>1, Induction
  <2> QED BY <2>2
<1>4. \E g : Sofar(g, n)
  <2> HIDE DEF Sofar
  <2> QED BY <1>3
<1> QED BY <1>4 DEF Solves

\* The recursion says what its solutions are for the positions up to k.
LEMMA FoldValue ==
  ASSUME NEW n \in Nat, NEW V, NEW base, NEW Step,
         NEW P, Steps(P, n, V, base, Step),
         NEW g, Follows(g, n, V, base, Step)
  PROVE  g[1 .. n] = P[n]
<1> DEFINE S == {k \in Nat : k <= n => g[1 .. k] = P[k]}
<1>1. 0 \in S
  <2>1. 1 .. 0 = {}
    OBVIOUS
  <2> QED BY <2>1 DEF Steps, Follows
<1>2. ASSUME NEW k \in S PROVE k + 1 \in S
  <2> SUFFICES ASSUME k + 1 <= n PROVE g[1 .. k + 1] = P[k + 1]
    OBVIOUS
  <2>1. k \in Nat /\ k <= n /\ g[1 .. k] = P[k]
    OBVIOUS
  <2>2. 1 .. k + 1 \in SUBSET (1 .. n) /\ 1 .. k + 1 # {}
    <3>1. \A y \in 1 .. k + 1 : y \in 1 .. n
      BY <2>1
    <3>2. k + 1 \in 1 .. k + 1
      BY <2>1
    <3> QED BY <3>1, <3>2
  <2>3. Max(1 .. k + 1) = k + 1
    <3>1. Max(1 .. k + 1) \in 1 .. k + 1 /\ \A y \in 1 .. k + 1 : y <= Max(1 .. k + 1)
      BY <2>2, Largest
    <3> QED BY <2>1, <3>1
  <2>4. (1 .. k + 1) \ {k + 1} = 1 .. k
    BY <2>1
  <2>5. P[k] \in V /\ P[k + 1] = Step[<<P[k], k + 1>>]
    <3>1. k \in 0 .. n /\ k + 1 \in 1 .. n /\ (k + 1) - 1 = k
      BY <2>1
    <3> QED BY <3>1 DEF Steps
  <2>6. g[1 .. k + 1] = Step[<<g[1 .. k], k + 1>>]
    BY <2>1, <2>2, <2>3, <2>4, <2>5 DEF Follows
  <2> QED BY <2>1, <2>5, <2>6
<1>3. S = Nat
  <2>1. S \in SUBSET Nat
    OBVIOUS
  <2> HIDE DEF S
  <2> QED BY <1>1, <1>2, <2>1, Induction
<1> QED BY <1>3

\* The ends of sequences grow.
Grows(E, n) == E \in [0 .. n -> Nat] /\ \A i \in 1 .. n : E[i - 1] <= E[i]

LEMMA Growing ==
  ASSUME NEW n \in Nat, NEW E, Grows(E, n), NEW i \in Nat, NEW k \in Nat, i <= k, k <= n
  PROVE  E[i] <= E[k]
<1> DEFINE S == {d \in Nat : i + d <= n => E[i] <= E[i + d]}
<1>1. 0 \in S
  <2>1. i + 0 = i /\ i \in 0 .. n
    OBVIOUS
  <2>2. E[i] \in Nat
    BY <2>1 DEF Grows
  <2> QED BY <2>1, <2>2
<1>2. ASSUME NEW d \in S PROVE d + 1 \in S
  <2> SUFFICES ASSUME i + (d + 1) <= n PROVE E[i] <= E[i + (d + 1)]
    OBVIOUS
  <2> DEFINE j == i + (d + 1)
  <2>1. j \in 1 .. n /\ j - 1 = i + d /\ i + d <= n /\ i \in 0 .. n /\ j - 1 \in 0 .. n /\ j \in 0 .. n
    OBVIOUS
  <2>2. E[i] <= E[j - 1]
    BY <2>1
  <2> HIDE DEF j
  <2>3. E[j - 1] <= E[j] /\ E[i] \in Nat /\ E[j - 1] \in Nat /\ E[j] \in Nat
    BY <2>1 DEF Grows
  <2>4. E[i] <= E[j]
    BY <2>2, <2>3
  <2> QED BY <2>4 DEF j
<1>3. S = Nat
  <2>1. S \in SUBSET Nat
    OBVIOUS
  <2> HIDE DEF S
  <2> QED BY <1>1, <1>2, <2>1, Induction
<1> DEFINE d == k - i
<1>4. d \in Nat /\ i + d = k
  OBVIOUS
<1>5. d \in S
  BY <1>3, <1>4
<1> HIDE DEF d
<1>6. E[i] <= E[i + d]
  BY <1>4, <1>5
<1> QED BY <1>4, <1>6

\* The rows of the first i of some messages.
Starts(P, ms) ==
  /\ P \in [0 .. Len(ms) -> Nat] /\ P[0] = 0
  /\ \A i \in 1 .. Len(ms) : P[i] = P[i - 1] + ms[i][1].rows

LEMMA TotalSteps ==
  ASSUME requests \in Seq(Seq(Tensor)), \A i \in DOMAIN requests : requests[i] # <<>>
  PROVE  \E P : Starts(P, requests) /\ Total = P[Len(requests)]
<1> DEFINE n == Len(requests)
<1>1. n \in Nat
  OBVIOUS
<1> DEFINE Step == [p \in Nat \X (1 .. n) |-> p[1] + requests[p[2]][1].rows]
<1>2. \A k \in 1 .. n : requests[k][1].rows \in Nat
  <2> SUFFICES ASSUME NEW k \in 1 .. n PROVE requests[k][1].rows \in Nat
    OBVIOUS
  <2>1. requests[k] \in Seq(Tensor) /\ requests[k] # <<>>
    OBVIOUS
  <2>2. requests[k][1] \in Tensor
    BY <2>1
  <2> QED BY <2>2 DEF Tensor
<1> HIDE DEF n
<1>3. ASSUME NEW a \in Nat, NEW k \in 1 .. n
      PROVE  Step[<<a, k>>] = a + requests[k][1].rows /\ Step[<<a, k>>] \in Nat
  <2>1. a + requests[k][1].rows \in Nat
    BY <1>2
  <2> QED BY <2>1
<1>4. Step \in [Nat \X (1 .. n) -> Nat]
  <2>1. ASSUME NEW p \in Nat \X (1 .. n) PROVE Step[p] \in Nat
    BY <1>3
  <2>2. Step = [p \in Nat \X (1 .. n) |-> Step[p]]
    OBVIOUS
  <2> HIDE DEF Step
  <2> QED BY <2>1, <2>2
<1> HIDE DEF Step
<1> DEFINE F(g) == [s \in SUBSET (1 .. n) |-> IF s = {} THEN 0 ELSE g[s \ {Max(s)}] + requests[Max(s)][1].rows]
<1>5. ASSUME NEW s \in SUBSET (1 .. n), s # {}
      PROVE  s \ {Max(s)} \in SUBSET (1 .. n) /\ Max(s) \in 1 .. n
  <2>1. Max(s) \in s
    BY <1>1, <1>5, Largest
  <2> QED BY <2>1
<1>6. \E g : g = F(g)
  <2>0. PICK g : Solves(g, n, Nat, 0, Step)
    BY <1>1, <1>4, FoldExists
  <2>1. /\ g \in [SUBSET (1 .. n) -> Nat]
        /\ \A s \in SUBSET (1 .. n) :
             g[s] = IF s = {} THEN 0 ELSE Step[<<g[s \ {Max(s)}], Max(s)>>]
    BY <2>0 DEF Solves
  <2>2. ASSUME NEW s \in SUBSET (1 .. n)
        PROVE  g[s] = IF s = {} THEN 0 ELSE g[s \ {Max(s)}] + requests[Max(s)][1].rows
    <3>1. CASE s = {}
      BY <2>1, <3>1
    <3>2. CASE s # {}
      <4>1. g[s \ {Max(s)}] \in Nat /\ Max(s) \in 1 .. n
        BY <1>5, <2>1, <3>2
      <4>2. g[s] = Step[<<g[s \ {Max(s)}], Max(s)>>]
        BY <2>1, <3>2
      <4> QED BY <1>3, <3>2, <4>1, <4>2
    <3> QED BY <3>1, <3>2
  <2> DEFINE h(s) == IF s = {} THEN 0 ELSE g[s \ {Max(s)}] + requests[Max(s)][1].rows
  <2>3. \A s \in SUBSET (1 .. n) : g[s] = h(s)
    BY <2>2
  <2> HIDE DEF h
  <2>4. g = [s \in SUBSET (1 .. n) |-> h(s)]
    <3>1. g \in [SUBSET (1 .. n) -> Nat]
      BY <2>1
    <3> QED BY <2>3, <3>1
  <2> QED BY <2>4 DEF h
<1> DEFINE iter == CHOOSE g : g = F(g)
<1>7. iter = F(iter)
  BY <1>6
<1>8. Total = iter[1 .. n]
  <2>1. DOMAIN requests = 1 .. n
    BY DEF n
  <2> QED BY <2>1 DEF Total, RowsIn, FoldLeft, MapThenFoldSet
<1> HIDE DEF iter
<1>9. iter[{}] = 0
  BY <1>7
<1>10. ASSUME NEW s \in SUBSET (1 .. n), s # {}, iter[s \ {Max(s)}] \in Nat
       PROVE  iter[s] = Step[<<iter[s \ {Max(s)}], Max(s)>>]
  <2> DEFINE g == iter
  <2> HIDE DEF g
  <2>1. iter[s] = iter[s \ {Max(s)}] + requests[Max(s)][1].rows
    BY <1>7, <1>10
  <2> QED BY <1>3, <1>5, <1>10, <2>1
<1>11. Follows(iter, n, Nat, 0, Step)
  BY <1>9, <1>10 DEF Follows
<1>12. PICK P : Steps(P, n, Nat, 0, Step)
  BY <1>1, <1>4, StepsExist
<1>13. iter[1 .. n] = P[n]
  BY <1>1, <1>11, <1>12, FoldValue
<1>14. ASSUME NEW i \in 1 .. n PROVE P[i] = P[i - 1] + requests[i][1].rows
  <2>1. P[i - 1] \in Nat /\ P[i] = Step[<<P[i - 1], i>>]
    <3>1. i - 1 \in 0 .. n
      BY <1>1
    <3> QED BY <1>12, <3>1 DEF Steps
  <2> QED BY <1>3, <2>1
<1> QED BY <1>8, <1>12, <1>13, <1>14 DEF Starts, Steps, n

\* The elements of a row are counted by a number.
LEMMA WidthTyped ==
  ASSUME NEW t \in Tensor
  PROVE  Width(t) \in Nat
<1> DEFINE w == t.inner
<1> DEFINE n == Len(w)
<1>0. w \in Seq(Nat)
  BY DEF Tensor
<1>1. n \in Nat
  BY <1>0
<1>0x. \A k \in 1 .. n : w[k] \in Nat
  BY <1>0
<1>0y. DOMAIN w = 1 .. n
  BY <1>0
<1> DEFINE Step == [p \in Nat \X (1 .. n) |-> p[1] * w[p[2]]]
<1>2. \A k \in 1 .. n : w[k] \in Nat
  BY <1>0x
<1> HIDE DEF n, w
<1>3. ASSUME NEW a \in Nat, NEW k \in 1 .. n
      PROVE  Step[<<a, k>>] = a * w[k] /\ Step[<<a, k>>] \in Nat
  <2>1. a * w[k] \in Nat
    BY <1>2
  <2> QED BY <2>1
<1>4. Step \in [Nat \X (1 .. n) -> Nat]
  <2>1. ASSUME NEW p \in Nat \X (1 .. n) PROVE Step[p] \in Nat
    BY <1>3
  <2>2. Step = [p \in Nat \X (1 .. n) |-> Step[p]]
    OBVIOUS
  <2> HIDE DEF Step
  <2> QED BY <2>1, <2>2
<1> HIDE DEF Step
<1> DEFINE F(g) == [s \in SUBSET (1 .. n) |-> IF s = {} THEN 1 ELSE g[s \ {Max(s)}] * w[Max(s)]]
<1>5. ASSUME NEW s \in SUBSET (1 .. n), s # {}
      PROVE  s \ {Max(s)} \in SUBSET (1 .. n) /\ Max(s) \in 1 .. n
  <2>1. Max(s) \in s
    BY <1>1, <1>5, Largest
  <2> QED BY <2>1
<1>6. \E g : g = F(g)
  <2>0. PICK g : Solves(g, n, Nat, 1, Step)
    BY <1>1, <1>4, FoldExists
  <2>1. /\ g \in [SUBSET (1 .. n) -> Nat]
        /\ \A s \in SUBSET (1 .. n) :
             g[s] = IF s = {} THEN 1 ELSE Step[<<g[s \ {Max(s)}], Max(s)>>]
    BY <2>0 DEF Solves
  <2>2. ASSUME NEW s \in SUBSET (1 .. n)
        PROVE  g[s] = IF s = {} THEN 1 ELSE g[s \ {Max(s)}] * w[Max(s)]
    <3>1. CASE s = {}
      BY <2>1, <3>1
    <3>2. CASE s # {}
      <4>1. g[s \ {Max(s)}] \in Nat /\ Max(s) \in 1 .. n
        BY <1>5, <2>1, <3>2
      <4>2. g[s] = Step[<<g[s \ {Max(s)}], Max(s)>>]
        BY <2>1, <3>2
      <4> QED BY <1>3, <3>2, <4>1, <4>2
    <3> QED BY <3>1, <3>2
  <2> DEFINE h(s) == IF s = {} THEN 1 ELSE g[s \ {Max(s)}] * w[Max(s)]
  <2>3. \A s \in SUBSET (1 .. n) : g[s] = h(s)
    BY <2>2
  <2> HIDE DEF h
  <2>4. g = [s \in SUBSET (1 .. n) |-> h(s)]
    <3>1. g \in [SUBSET (1 .. n) -> Nat]
      BY <2>1
    <3> QED BY <2>3, <3>1
  <2> QED BY <2>4 DEF h
<1> DEFINE iter == CHOOSE g : g = F(g)
<1>7. iter = F(iter)
  BY <1>6
<1>8. Width(t) = iter[1 .. n]
  <2>1. DOMAIN w = 1 .. n
    BY <1>0y DEF n
  <2> QED BY <2>1 DEF w, Width, FoldLeft, MapThenFoldSet
<1> HIDE DEF iter
<1>9. iter[{}] = 1
  BY <1>7
<1>10. ASSUME NEW s \in SUBSET (1 .. n), s # {}, iter[s \ {Max(s)}] \in Nat
       PROVE  iter[s] = Step[<<iter[s \ {Max(s)}], Max(s)>>]
  <2> DEFINE g == iter
  <2> HIDE DEF g
  <2>1. iter[s] = iter[s \ {Max(s)}] * w[Max(s)]
    BY <1>7, <1>10
  <2> QED BY <1>3, <1>5, <1>10, <2>1
<1>11. Follows(iter, n, Nat, 1, Step)
  BY <1>9, <1>10 DEF Follows
<1>12. PICK P : Steps(P, n, Nat, 1, Step)
  BY <1>1, <1>4, StepsExist
<1>13. iter[1 .. n] = P[n]
  BY <1>1, <1>11, <1>12, FoldValue
<1>14. P[n] \in Nat
  BY <1>1, <1>12 DEF Steps
<1> QED BY <1>8, <1>13, <1>14

\* Where each of some sequences ends when they follow one another.
Ends(E, s, n) ==
  /\ E \in [0 .. n -> Nat] /\ E[0] = 0
  /\ \A i \in 1 .. n : E[i] = E[i - 1] + Len(s[i])

LEMMA EndsGrow ==
  ASSUME NEW n \in Nat, NEW V, NEW s, \A i \in 1 .. n : s[i] \in Seq(V), NEW E, Ends(E, s, n),
         NEW i \in Nat, NEW k \in Nat, i <= k, k <= n
  PROVE  E[i] <= E[k]
<1>1. ASSUME NEW j \in 1 .. n PROVE E[j - 1] <= E[j]
  <2>1. j - 1 \in 0 .. n /\ j \in 0 .. n /\ Len(s[j]) \in Nat
    OBVIOUS
  <2>2. E[j] = E[j - 1] + Len(s[j]) /\ E[j - 1] \in Nat /\ E[j] \in Nat
    BY <2>1 DEF Ends
  <2> QED BY <2>1, <2>2
<1>2. Grows(E, n)
  BY <1>1 DEF Grows, Ends
<1> QED BY <1>2, Growing

\* The first k of them, one after another.
Behind(p, E, s, k, V) ==
  /\ p \in Seq(V) /\ Len(p) = E[k]
  /\ \A i \in 1 .. k : \A x \in 1 .. Len(s[i]) : p[E[i - 1] + x] = s[i][x]

LEMMA BehindNext ==
  ASSUME NEW n \in Nat, NEW V, NEW s, \A i \in 1 .. n : s[i] \in Seq(V),
         NEW E, Ends(E, s, n), NEW k \in Nat, k + 1 <= n, NEW p, Behind(p, E, s, k, V)
  PROVE  Behind(p \o s[k + 1], E, s, k + 1, V)
<1> DEFINE t == s[k + 1]
<1>1. t \in Seq(V) /\ p \in Seq(V) /\ Len(p) = E[k] /\ k + 1 \in 1 .. n
  BY DEF Behind
<1>2. E[k + 1] = E[k] + Len(t) /\ E[k] \in Nat /\ E[k + 1] \in Nat
  <2>1. (k + 1) - 1 = k /\ k \in 0 .. n /\ k + 1 \in 0 .. n
    OBVIOUS
  <2> QED BY <1>1, <2>1 DEF Ends
<1>3. /\ p \o t \in Seq(V) /\ Len(p \o t) = Len(p) + Len(t)
      /\ \A x \in 1 .. Len(p) : (p \o t)[x] = p[x]
      /\ \A x \in 1 .. Len(t) : (p \o t)[Len(p) + x] = t[x]
  <2> HIDE DEF t
  <2>1. Len(p) \in Nat /\ Len(t) \in Nat
    BY <1>1
  <2>2. p \o t \in Seq(V) /\ Len(p \o t) = Len(p) + Len(t)
    BY <1>1, ConcatProperties
  <2>3. \A x \in 1 .. Len(p) + Len(t) : (p \o t)[x] = IF x <= Len(p) THEN p[x] ELSE t[x - Len(p)]
    BY <1>1, ConcatProperties
  <2>4. ASSUME NEW x \in 1 .. Len(p) PROVE (p \o t)[x] = p[x]
    BY <2>1, <2>3
  <2>5. ASSUME NEW x \in 1 .. Len(t) PROVE (p \o t)[Len(p) + x] = t[x]
    <3>1. Len(p) + x \in 1 .. Len(p) + Len(t) /\ ~(Len(p) + x <= Len(p)) /\ (Len(p) + x) - Len(p) = x
      BY <2>1
    <3> QED BY <2>3, <3>1
  <2> QED BY <2>2, <2>4, <2>5
<1>4. ASSUME NEW i \in 1 .. k + 1, NEW x \in 1 .. Len(s[i])
      PROVE  (p \o t)[E[i - 1] + x] = s[i][x]
  <2>1. CASE i = k + 1
    <3>1. i - 1 = k
      BY <2>1
    <3> QED BY <1>1, <1>3, <2>1, <3>1
  <2>2. CASE i # k + 1
    <3>1. i \in 1 .. k
      BY <2>2
    <3>2. p[E[i - 1] + x] = s[i][x]
      BY <3>1 DEF Behind
    <3>3. E[i - 1] + x \in 1 .. Len(p)
      <4>1. E[i] \in Nat /\ E[i - 1] \in Nat /\ E[i] = E[i - 1] + Len(s[i]) /\ s[i] \in Seq(V)
        <5>1. i \in 1 .. n /\ i - 1 \in 0 .. n /\ i \in 0 .. n
          BY <3>1
        <5> QED BY <5>1 DEF Ends
      <4>2. E[i] <= E[k]
        <5>1. i \in Nat /\ i <= k /\ k <= n
          BY <3>1
        <5> QED BY <5>1, EndsGrow
      <4>3. Len(s[i]) \in Nat /\ x \in 1 .. Len(s[i])
        BY <4>1
      <4>4. Len(p) = E[k] /\ E[k] \in Nat
        BY <1>1, <1>2
      <4> DEFINE len == Len(s[i])
      <4> HIDE DEF t, len
      <4>5. len \in Nat /\ x \in 1 .. len /\ E[i] = E[i - 1] + len
        BY <4>1, <4>3 DEF len
      <4> QED BY <4>1, <4>2, <4>4, <4>5
    <3> QED BY <1>3, <3>2, <3>3
  <2> QED BY <2>1, <2>2
<1>5. Len(p \o t) = E[k + 1]
  BY <1>1, <1>2, <1>3
<1> QED BY <1>3, <1>4, <1>5 DEF Behind

LEMMA Flattened ==
  ASSUME NEW n \in Nat \ {0}, NEW V, NEW s \in [1 .. n -> Seq(V)], NEW E, Ends(E, s, n)
  PROVE  Behind(FlattenSeq(s), E, s, n, V)
<1> DEFINE Q == Seq(V)
<1> DEFINE Step == [p \in Q \X (1 .. n) |-> p[1] \o s[p[2]]]
<1>1. ASSUME NEW a \in Q, NEW k \in 1 .. n
      PROVE  Step[<<a, k>>] = a \o s[k] /\ Step[<<a, k>>] \in Q
  <2>1. s[k] \in Seq(V) /\ a \in Seq(V)
    OBVIOUS
  <2>2. a \o s[k] \in Seq(V)
    BY <2>1, ConcatProperties
  <2> QED BY <2>2
<1>2. Step \in [Q \X (1 .. n) -> Q]
  <2>1. ASSUME NEW p \in Q \X (1 .. n) PROVE Step[p] \in Q
    <3> HIDE DEF Step, Q
    <3>1. PICK a \in Q, k \in 1 .. n : p = <<a, k>>
      OBVIOUS
    <3> QED BY <1>1, <3>1
  <2>2. Step = [p \in Q \X (1 .. n) |-> Step[p]]
    OBVIOUS
  <2> HIDE DEF Step
  <2> QED BY <2>1, <2>2
<1>3. <<>> \in Q
  OBVIOUS
<1> HIDE DEF Step, Q
<1>4. PICK P : Steps(P, n, Q, <<>>, Step)
  BY <1>2, <1>3, StepsExist
<1>5. /\ P[0] = <<>>
      /\ \A k \in 1 .. n : P[k - 1] \in Q /\ P[k] = P[k - 1] \o s[k]
      /\ \A k \in 1 .. n : P[k] \in Q
  <2>1. \A k \in 1 .. n : k - 1 \in 0 .. n /\ k \in 0 .. n
    OBVIOUS
  <2>2. \A k \in 0 .. n : P[k] \in Q
    BY <1>4 DEF Steps
  <2>3. \A k \in 1 .. n : P[k] = Step[<<P[k - 1], k>>]
    BY <1>4 DEF Steps
  <2>4. P[0] = <<>>
    BY <1>4 DEF Steps
  <2> QED BY <1>1, <2>1, <2>2, <2>3, <2>4
<1>6. P[1] = s[1]
  <2>1. 1 \in 1 .. n /\ 1 - 1 = 0
    OBVIOUS
  <2>2. P[1] = <<>> \o s[1] /\ s[1] \in Seq(V)
    BY <1>5, <2>1
  <2> QED BY <2>2, ConcatEmptySeq
<1> DEFINE F(f) == [i \in 1 .. n |-> IF i = 1 THEN s[i] ELSE f[i - 1] \o s[i]]
<1>7. \E f : f = F(f)
  <2> DEFINE f == [i \in 1 .. n |-> P[i]]
  <2>1. ASSUME NEW i \in 1 .. n PROVE P[i] = IF i = 1 THEN s[i] ELSE f[i - 1] \o s[i]
    <3>1. CASE i = 1
      BY <1>6, <3>1
    <3>2. CASE i # 1
      <4>1. i - 1 \in 1 .. n
        BY <3>2
      <4>2. f[i - 1] = P[i - 1]
        BY <4>1
      <4> QED BY <1>5, <3>2, <4>2
    <3> QED BY <3>1, <3>2
  <2>2. \A i \in 1 .. n : f[i] = P[i]
    OBVIOUS
  <2>3. f = [i \in 1 .. n |-> f[i]]
    OBVIOUS
  <2> HIDE DEF f
  <2> DEFINE h(i) == IF i = 1 THEN s[i] ELSE f[i - 1] \o s[i]
  <2>4. \A i \in 1 .. n : f[i] = h(i)
    BY <2>1, <2>2
  <2> HIDE DEF h
  <2>5. f = [i \in 1 .. n |-> h(i)]
    BY <2>3, <2>4
  <2>6. f = F(f)
    BY <2>5 DEF h
  <2> QED BY <2>6
<1> DEFINE f == CHOOSE f : f = F(f)
<1>8. f = F(f)
  BY <1>7
<1>9. FlattenSeq(s) = f[n]
  <2>1. Len(s) = n /\ Len(s) # 0
    OBVIOUS
  <2> QED BY <2>1 DEF FlattenSeq
<1> HIDE DEF f
<1>10. \A i \in 1 .. n : f[i] = IF i = 1 THEN s[i] ELSE f[i - 1] \o s[i]
  BY <1>8
<1> HIDE DEF F
<1> DEFINE A(k) == k + 1 <= n => f[k + 1] = P[k + 1] /\ Behind(P[k + 1], E, s, k + 1, V)
<1> DEFINE S == {k \in Nat : A(k)}
<1>11. ASSUME NEW k \in Nat, k + 1 <= n, Behind(P[k], E, s, k, V)
       PROVE  Behind(P[k + 1], E, s, k + 1, V)
  <2>1. k + 1 \in 1 .. n /\ (k + 1) - 1 = k
    BY <1>11
  <2>2. P[k + 1] = P[k] \o s[k + 1]
    BY <1>5, <2>1
  <2>3. \A i \in 1 .. n : s[i] \in Seq(V)
    OBVIOUS
  <2>4. Behind(P[k] \o s[k + 1], E, s, k + 1, V)
    BY <1>11, <2>3, BehindNext
  <2> QED BY <2>2, <2>4
<1>12. Behind(P[0], E, s, 0, V)
  <2>1. P[0] = <<>> /\ E[0] = 0 /\ 1 .. 0 = {}
    BY <1>5 DEF Ends
  <2> QED BY <2>1 DEF Behind
<1>13. 0 \in S
  <2>1. 0 + 1 = 1 /\ 1 \in 1 .. n /\ 1 <= n
    OBVIOUS
  <2>2. f[1] = P[1]
    BY <1>6, <1>10, <2>1
  <2>3. Behind(P[0 + 1], E, s, 0 + 1, V)
    BY <1>11, <1>12, <2>1
  <2> QED BY <2>1, <2>2, <2>3
<1>14. ASSUME NEW k \in S PROVE k + 1 \in S
  <2> SUFFICES ASSUME (k + 1) + 1 <= n
               PROVE  /\ f[(k + 1) + 1] = P[(k + 1) + 1]
                      /\ Behind(P[(k + 1) + 1], E, s, (k + 1) + 1, V)
    OBVIOUS
  <2> DEFINE j == k + 1
  <2>1. j \in Nat /\ j <= n /\ f[j] = P[j] /\ Behind(P[j], E, s, j, V)
    OBVIOUS
  <2>2. j + 1 <= n /\ j + 1 \in 1 .. n /\ (j + 1) - 1 = j /\ j + 1 # 1
    OBVIOUS
  <2> HIDE DEF j
  <2>3. Behind(P[j + 1], E, s, j + 1, V)
    BY <1>11, <2>1, <2>2
  <2>4. f[j + 1] = f[j] \o s[j + 1]
    BY <1>10, <2>2
  <2>5. P[j + 1] = P[j] \o s[j + 1]
    BY <1>5, <2>2
  <2> QED BY <2>1, <2>3, <2>4, <2>5 DEF j
<1>15. n - 1 \in S
  <2> HIDE DEF A
  <2>1. 0 \in S /\ (\A k \in S : k + 1 \in S) /\ S \in SUBSET Nat
    BY <1>13, <1>14
  <2> HIDE DEF S
  <2>2. S = Nat
    BY <2>1, Induction
  <2> QED BY <2>2
<1>16. (n - 1) + 1 = n
  OBVIOUS
<1>17. f[n] = P[n] /\ Behind(P[n], E, s, n, V)
  BY <1>15, <1>16
<1> QED BY <1>9, <1>17

-----------------------------------------------------------------------------
(***************************************************************************)
(* The tensors of a checked batch.                                         *)
(***************************************************************************)
Place   == Nat \X Nat \X Nat
StartsOf(ms) == CHOOSE P : Starts(P, ms)
Start   == StartsOf(requests)
RowsOf(i) == requests[i][1].rows
W(j)    == Width(requests[1][j])
Whole(j) == FlattenSeq([i \in DOMAIN requests |-> Flat(i, j)])

\* The requests of a batch that passed the checks.
Sound ==
  /\ requests \in Seq(Seq(Tensor))
  /\ \A i \in DOMAIN requests : RequestChecked(requests[i]) /\ Matches(requests[i], requests[1])

LEMMA StartFacts ==
  ASSUME Sound
  PROVE  /\ Len(requests) \in Nat /\ DOMAIN requests = 1 .. Len(requests)
         /\ Start \in [0 .. Len(requests) -> Nat] /\ Start[0] = 0
         /\ \A i \in 1 .. Len(requests) :
              /\ RowsOf(i) \in Nat /\ Start[i - 1] \in Nat /\ Start[i] \in Nat
              /\ Start[i] = Start[i - 1] + RowsOf(i)
         /\ Total = Start[Len(requests)] /\ Total \in Nat
<1>1. requests \in Seq(Seq(Tensor)) /\ Len(requests) \in Nat /\ DOMAIN requests = 1 .. Len(requests)
  BY DEF Sound
<1>2. \A i \in DOMAIN requests : requests[i] \in Seq(Tensor) /\ requests[i] # <<>>
  <2>1. \A i \in DOMAIN requests : requests[i] # <<>>
    BY DEF Sound, RequestChecked, NamesChecked
  <2>2. \A i \in DOMAIN requests : requests[i] \in Seq(Tensor)
    BY <1>1
  <2> QED BY <2>1, <2>2
<1>3. PICK P : Starts(P, requests) /\ Total = P[Len(requests)]
  BY <1>1, <1>2, TotalSteps
<1>4. Starts(Start, requests)
  BY <1>3 DEF Start, StartsOf
<1>5. ASSUME NEW i \in 1 .. Len(requests)
      PROVE  /\ RowsOf(i) \in Nat /\ Start[i - 1] \in Nat /\ Start[i] \in Nat
             /\ Start[i] = Start[i - 1] + RowsOf(i)
  <2>1. requests[i][1] \in Tensor
    <3>1. requests[i] \in Seq(Tensor) /\ requests[i] # <<>>
      BY <1>1, <1>2
    <3> QED BY <3>1
  <2>2. i - 1 \in 0 .. Len(requests) /\ i \in 0 .. Len(requests)
    BY <1>1
  <2> QED BY <1>4, <2>1, <2>2 DEF Starts, Tensor, RowsOf
<1>6. Start[Len(requests)] = P[Len(requests)]
  <2> DEFINE S == {k \in Nat : k <= Len(requests) => Start[k] = P[k]}
  <2>1. 0 \in S
    BY <1>3, <1>4 DEF Starts
  <2>2. ASSUME NEW k \in S PROVE k + 1 \in S
    <3> SUFFICES ASSUME k + 1 <= Len(requests) PROVE Start[k + 1] = P[k + 1]
      OBVIOUS
    <3>1. k \in Nat /\ k <= Len(requests) /\ Start[k] = P[k]
      BY <1>1
    <3>2. k + 1 \in 1 .. Len(requests) /\ (k + 1) - 1 = k
      BY <1>1, <3>1
    <3> QED BY <1>3, <1>4, <3>1, <3>2 DEF Starts
  <2>3. S = Nat
    <3>1. S \in SUBSET Nat
      OBVIOUS
    <3> HIDE DEF S
    <3> QED BY <2>1, <2>2, <3>1, Induction
  <2> QED BY <1>1, <2>3
<1>7. Start[Len(requests)] \in Nat
  <2>1. Len(requests) \in 0 .. Len(requests)
    BY <1>1
  <2> QED BY <1>4, <2>1 DEF Starts
<1> QED BY <1>1, <1>3, <1>4, <1>5, <1>6, <1>7 DEF Starts

\* Starts do not shrink.
LEMMA StartGrows ==
  ASSUME Sound, NEW i \in Nat, NEW k \in Nat, i <= k, k <= Len(requests)
  PROVE  Start[i] \in Nat /\ Start[k] \in Nat /\ Start[i] <= Start[k]
<1>1. Grows(Start, Len(requests))
  <2> SUFFICES ASSUME NEW j \in 1 .. Len(requests) PROVE Start[j - 1] <= Start[j]
    BY StartFacts DEF Grows
  <2>1. RowsOf(j) \in Nat /\ Start[j - 1] \in Nat /\ Start[j] = Start[j - 1] + RowsOf(j)
    BY StartFacts
  <2> QED BY <2>1
<1>2. Len(requests) \in Nat
  BY StartFacts
<1>3. i \in 0 .. Len(requests) /\ k \in 0 .. Len(requests)
  BY <1>2
<1> QED BY <1>1, <1>2, <1>3, Growing DEF Grows

\* What the checks say of the tensors of one input.
LEMMA SizeOfInput ==
  ASSUME Sound, NEW i \in DOMAIN requests, NEW j \in Inputs
  PROVE  /\ j \in DOMAIN requests[i] /\ DOMAIN requests[i] = Inputs
         /\ W(j) \in Nat /\ RowsOf(i) \in Nat
         /\ Size(requests[i][j]) = RowsOf(i) * W(j)
         /\ Width(requests[i][j]) = W(j)
         /\ Flat(i, j) \in Seq(Place) /\ Len(Flat(i, j)) = RowsOf(i) * W(j)
         /\ \A k \in 1 .. RowsOf(i) * W(j) : Flat(i, j)[k] = <<i, j, k>>
<1>1. /\ requests[i] \in Seq(Tensor) /\ requests[1] \in Seq(Tensor)
      /\ RequestChecked(requests[i]) /\ Matches(requests[i], requests[1])
  <2>1. requests \in Seq(Seq(Tensor)) /\ 1 \in DOMAIN requests
    BY DEF Sound
  <2> QED BY <2>1 DEF Sound
<1>2. DOMAIN requests[i] = Inputs
  BY <1>1 DEF Matches, Inputs
<1>3. j \in DOMAIN requests[i] /\ j \in DOMAIN requests[1]
  BY <1>2 DEF Inputs
<1>4. requests[i][j].inner = requests[1][j].inner /\ requests[i][j].rows = RowsOf(i)
  BY <1>1, <1>3 DEF Matches, RequestChecked, RowsOf
<1>5. Width(requests[i][j]) = W(j)
  BY <1>4 DEF Width, W
<1>6. requests[i][j] \in Tensor /\ requests[1][j] \in Tensor
  BY <1>1, <1>3
<1>7. W(j) \in Nat /\ RowsOf(i) \in Nat
  <2>1. requests[i][j].rows \in Nat
    BY <1>6 DEF Tensor
  <2>2. Width(requests[1][j]) \in Nat
    BY <1>6, WidthTyped
  <2> QED BY <1>4, <2>1, <2>2 DEF W
<1>8. Size(requests[i][j]) = RowsOf(i) * W(j)
  BY <1>4, <1>5 DEF Size
<1> DEFINE n == RowsOf(i) * W(j)
<1>9. n \in Nat
  BY <1>7
<1>10. Flat(i, j) = [k \in 1 .. n |-> <<i, j, k>>]
  BY <1>8 DEF Flat
<1> HIDE DEF n
<1>11. i \in Nat /\ j \in Nat
  <2>1. DOMAIN requests = 1 .. Len(requests) /\ DOMAIN requests[i] = 1 .. Len(requests[i])
    BY <1>1 DEF Sound
  <2> QED BY <1>3, <2>1
<1>12. Flat(i, j) \in Seq(Place) /\ Len(Flat(i, j)) = n /\ \A k \in 1 .. n : Flat(i, j)[k] = <<i, j, k>>
  <2>1. \A k \in 1 .. n : <<i, j, k>> \in Place
    BY <1>9, <1>11 DEF Place
  <2>2. Flat(i, j) \in [1 .. n -> Place]
    BY <1>10, <2>1
  <2>3. Len(Flat(i, j)) = n /\ Flat(i, j) \in Seq(Place)
    BY <1>9, <2>2
  <2> QED BY <1>10, <2>3
<1> QED BY <1>2, <1>3, <1>5, <1>7, <1>8, <1>12 DEF n

\* The flat lists of an input, one after another.
LEMMA WholeFacts ==
  ASSUME Sound, requests # <<>>, NEW j \in Inputs
  PROVE  /\ Whole(j) \in Seq(Place) /\ Len(Whole(j)) = Total * W(j)
         /\ \A i \in DOMAIN requests : \A x \in 1 .. RowsOf(i) * W(j) :
              Whole(j)[Start[i - 1] * W(j) + x] = <<i, j, x>>
<1> DEFINE n == Len(requests)
<1> DEFINE s == [i \in DOMAIN requests |-> Flat(i, j)]
<1> DEFINE E == [i \in 0 .. n |-> Start[i] * W(j)]
<1>1. n \in Nat \ {0} /\ DOMAIN requests = 1 .. n
  BY DEF Sound
<1>2. \A i \in 1 .. n : /\ W(j) \in Nat /\ RowsOf(i) \in Nat /\ Flat(i, j) \in Seq(Place)
                        /\ Len(Flat(i, j)) = RowsOf(i) * W(j)
                        /\ \A k \in 1 .. RowsOf(i) * W(j) : Flat(i, j)[k] = <<i, j, k>>
  BY <1>1, SizeOfInput
<1>3. W(j) \in Nat
  BY <1>1, <1>2
<1>4. s \in [1 .. n -> Seq(Place)] /\ \A i \in 1 .. n : s[i] = Flat(i, j)
  BY <1>1, <1>2
<1>5. Ends(E, s, n)
  <2>1. Start \in [0 .. n -> Nat] /\ Start[0] = 0
    BY StartFacts
  <2>2. E \in [0 .. n -> Nat]
    <3> SUFFICES ASSUME NEW i \in 0 .. n PROVE Start[i] * W(j) \in Nat
      OBVIOUS
    <3>1. Start[i] \in Nat
      BY <2>1
    <3> QED BY <1>3, <3>1
  <2>3. E[0] = 0
    <3>1. 0 \in 0 .. n
      BY <1>1
    <3> QED BY <1>3, <2>1, <3>1
  <2>4. ASSUME NEW i \in 1 .. n PROVE E[i] = E[i - 1] + Len(s[i])
    <3>1. i - 1 \in 0 .. n /\ i \in 0 .. n
      BY <1>1
    <3>2. E[i] = Start[i] * W(j) /\ E[i - 1] = Start[i - 1] * W(j)
      BY <3>1
    <3>3. Start[i] = Start[i - 1] + RowsOf(i) /\ Start[i - 1] \in Nat /\ RowsOf(i) \in Nat
      BY StartFacts
    <3>4. Len(s[i]) = RowsOf(i) * W(j)
      BY <1>2, <1>4
    <3>5. (Start[i - 1] + RowsOf(i)) * W(j) = Start[i - 1] * W(j) + RowsOf(i) * W(j)
      BY <1>3, <3>3
    <3> QED BY <3>2, <3>3, <3>4, <3>5
  <2> HIDE DEF E, s
  <2> QED BY <2>2, <2>3, <2>4 DEF Ends
<1>6. Behind(FlattenSeq(s), E, s, n, Place)
  <2> HIDE DEF n, s, E
  <2> QED BY <1>1, <1>4, <1>5, Flattened
<1>7. Whole(j) = FlattenSeq(s)
  BY DEF Whole
<1> HIDE DEF s
<1>8. Whole(j) \in Seq(Place) /\ Len(Whole(j)) = E[n]
  BY <1>6, <1>7 DEF Behind
<1>9. E[n] = Total * W(j)
  <2>1. n \in 0 .. n
    BY <1>1
  <2>2. Total = Start[n]
    BY StartFacts
  <2> QED BY <2>1, <2>2
<1>10. ASSUME NEW i \in DOMAIN requests, NEW x \in 1 .. RowsOf(i) * W(j)
       PROVE  Whole(j)[Start[i - 1] * W(j) + x] = <<i, j, x>>
  <2>1. i \in 1 .. n /\ i - 1 \in 0 .. n
    BY <1>1
  <2>2. x \in 1 .. Len(s[i]) /\ s[i][x] = <<i, j, x>>
    BY <1>2, <1>4, <2>1
  <2>3. E[i - 1] = Start[i - 1] * W(j)
    BY <2>1
  <2>4. FlattenSeq(s)[E[i - 1] + x] = s[i][x]
    BY <1>6, <2>1, <2>2 DEF Behind
  <2> QED BY <1>7, <2>2, <2>3, <2>4
<1> QED BY <1>8, <1>9, <1>10

-----------------------------------------------------------------------------
(***************************************************************************)
(* The inductive invariant: how much of a batch is done at each stage.     *)
(***************************************************************************)
Alive == batched /\ stage \in {"check", "copy", "infer", "split", "done"}

\* What has been looked at passed the checks, and there is something.
Checked ==
  /\ requests \in Seq(Seq(Tensor))
  /\ Alive => Sound /\ (stage # "check" => requests # <<>>)

\* The batch sizes noted: Python's with the checks, those of C++ with the copies.
Noted ==
  Alive =>
    /\ rows \in Seq(Nat) /\ Len(rows) <= Len(requests)
    /\ \A i \in DOMAIN rows : rows[i] = RowsOf(i)
    /\ impl = "py" \/ stage \notin {"check", "copy"} => Len(rows) = Len(requests)
    /\ impl # "py" /\ stage = "check" => rows = <<>>

\* The tensor of an input when the first n requests are copied.
Filled(j, n) ==
  [x \in 1 .. Total * W(j) |-> IF x <= Start[n] * W(j) THEN Whole(j)[x] ELSE Unwritten]

OffsetsAt(n) == [j \in Inputs |-> Start[n] * W(j)]
FilledUpTo(n) == [j \in Inputs |-> Filled(j, n)]

\* The requests noted are copied, and the next goes behind them.
Copying ==
  Alive /\ stage = "copy" =>
    /\ impl # "py"
    /\ \E n \in Nat : n = Len(rows) /\ offsets = OffsetsAt(n) /\ batch = FilledUpTo(n)

\* What the model is given.
Given ==
  /\ Alive /\ stage \in {"infer", "split", "done"} => batch = [j \in Inputs |-> Whole(j)]
  /\ ~batched => BatchWhole /\ stage # "copy"

\* An output of the model with n rows, and j elements in each.
Output(j, n) ==
  [k \in 1 .. j * n |->
     LET row == (k - 1) \div j + 1
     IN  [of |-> IF row <= Total THEN Row(row) ELSE Unwritten, column |-> (k - 1) % j]]

Returned ==
  Alive /\ stage \in {"split", "done"} =>
    \E m \in Nat \ {0} :
      output.rows \in Nat /\ output.tensors = [j \in 1 .. m |-> Output(j, output.rows)]

\* The rows of each output that belong to a request: all that are there.
Upto(i) == IF impl = "py" /\ output.rows < Start[i] THEN output.rows ELSE Start[i]

AnswerOf(i) ==
  [j \in DOMAIN output.tensors |-> SubSeq(output.tensors[j], Start[i - 1] * j + 1, Upto(i) * j)]

Reply(i) == IF impl = "py" THEN AnswerOf(i) ELSE Before(i) \o AnswerOf(i)

\* The next answer begins behind those cut out so far, which C++ found there.
CutOut ==
  /\ Alive /\ stage \in {"check", "copy", "infer"} => replies = <<>>
  /\ Alive /\ stage \in {"split", "done"} =>
       \E n \in 0 .. Len(requests) :
         /\ replies = [i \in 1 .. n |-> Reply(i)]
         /\ stage = "split" =>
              offsets = [j \in DOMAIN output.tensors |-> IF impl = "py" THEN Start[n] ELSE Start[n] * j]
         /\ stage = "done" => n = Len(requests)
         /\ impl # "py" => Start[n] <= output.rows

ConvertersInv == Checked /\ Noted /\ Copying /\ Given /\ Returned /\ CutOut /\ RowsMissing

LEMMA ConvertersInitInv == ConverterInit => ConvertersInv
<1> SUFFICES ASSUME ConverterInit PROVE ConvertersInv
  OBVIOUS
<1>1. requests = <<>> /\ rows = <<>> /\ replies = <<>> /\ stage = "check"
  BY DEF ConverterInit
<1>2. Checked
  BY <1>1 DEF Checked, Sound
<1>3. Noted
  BY <1>1 DEF Noted
<1>4. Copying /\ Given /\ Returned /\ CutOut /\ RowsMissing
  BY <1>1 DEF Copying, Given, Returned, CutOut, RowsMissing, BatchWhole
<1> QED BY <1>2, <1>3, <1>4 DEF ConvertersInv

-----------------------------------------------------------------------------
(***************************************************************************)
(* Before the model.                                                       *)
(***************************************************************************)
\* What is said of a batch does not change with what is done to it.
LEMMA Frame ==
  ASSUME UNCHANGED requests
  PROVE  /\ Sound' = Sound /\ Start' = Start /\ Total' = Total /\ Inputs' = Inputs
         /\ \A i : RowsOf(i)' = RowsOf(i)
         /\ \A j : W(j)' = W(j) /\ Whole(j)' = Whole(j)
         /\ \A n : OffsetsAt(n)' = OffsetsAt(n) /\ FilledUpTo(n)' = FilledUpTo(n)
<1>1. Sound' = Sound
  BY DEF Sound
<1>2. Start' = Start
  <2>1. StartsOf(requests') = StartsOf(requests)
    OBVIOUS
  <2> QED BY <2>1 DEF Start
<1>3. Total' = Total
  <2>1. RowsIn(requests') = RowsIn(requests)
    OBVIOUS
  <2> QED BY <2>1 DEF Total
<1>4. Inputs' = Inputs
  BY DEF Inputs
<1>5. \A i : RowsOf(i)' = RowsOf(i)
  BY DEF RowsOf
<1>6. \A j : W(j)' = W(j) /\ Whole(j)' = Whole(j)
  BY DEF W, Whole, Flat, Size
<1>7. \A n : OffsetsAt(n)' = OffsetsAt(n) /\ FilledUpTo(n)' = FilledUpTo(n)
  BY <1>2, <1>3, <1>4, <1>6 DEF OffsetsAt, FilledUpTo, Filled
<1> QED BY <1>1, <1>2, <1>3, <1>4, <1>5, <1>6, <1>7

\* Nothing is said of a batch that is rejected.
LEMMA RejectInv ==
  ASSUME ConvertersInv, batched, UNCHANGED batched, stage' = "rejected", requests' \in Seq(Seq(Tensor))
  PROVE  ConvertersInv'
<1>1. ~Alive'
  BY DEF Alive
<1>2. Checked' /\ Noted' /\ Copying' /\ Given' /\ Returned' /\ CutOut'
  BY <1>1 DEF Checked, Noted, Copying, Given, Returned, CutOut
<1>3. RowsMissing'
  BY DEF RowsMissing
<1> QED BY <1>2, <1>3 DEF ConvertersInv

LEMMA CheckInv ==
  ASSUME ConvertersInv, Check
  PROVE  ConvertersInv'
<1>1. /\ batched /\ stage = "check" /\ UNCHANGED <<impl, place, batched>>
      /\ requests \in Seq(Seq(Tensor)) /\ Sound
  BY DEF Check, ConvertersInv, Checked, Alive
<1>2. PICK m \in Messages :
       /\ requests' = Append(requests, m)
       /\ IF /\ RequestChecked(m)
             /\ requests # <<>> => Matches(m, requests[1])
             /\ impl = "py" => PyConverts(m)
          THEN /\ rows' = IF impl = "py" THEN Append(rows, m[1].rows) ELSE rows
               /\ UNCHANGED <<stage, batch, offsets, output, replies>>
          ELSE Reject
  BY DEF Check
<1>3. m \in Seq(Tensor)
  BY MessagesAssumption
<1> DEFINE n == Len(requests)
<1>4. /\ n \in Nat /\ DOMAIN requests = 1 .. n
      /\ requests' \in Seq(Seq(Tensor)) /\ Len(requests') = n + 1 /\ DOMAIN requests' = 1 .. n + 1
      /\ \A i \in 1 .. n : requests'[i] = requests[i]
      /\ requests'[n + 1] = m
  BY <1>1, <1>2, <1>3, AppendProperties
<1>5. CASE stage' = "rejected"
  BY <1>1, <1>4, <1>5, RejectInv
<1>6. CASE stage' # "rejected"
  <2>1. /\ RequestChecked(m) /\ (requests # <<>> => Matches(m, requests[1]))
        /\ rows' = IF impl = "py" THEN Append(rows, m[1].rows) ELSE rows
        /\ UNCHANGED <<stage, batch, offsets, output, replies>>
    BY <1>2, <1>6 DEF Reject
  <2>2. Alive /\ Alive' /\ stage' = "check"
    BY <1>1, <2>1 DEF Alive
  <2> HIDE DEF n
  <2>3. Sound'
    <3> SUFFICES ASSUME NEW i \in 1 .. n + 1
                 PROVE  RequestChecked(requests'[i]) /\ Matches(requests'[i], requests'[1])
      BY <1>4 DEF Sound
    <3>1. CASE i = n + 1 /\ n = 0
      <4>1. requests'[i] = m /\ requests'[1] = m
        BY <1>4, <3>1
      <4>2. Matches(m, m)
        BY DEF Matches
      <4> QED BY <2>1, <4>1, <4>2
    <3>2. CASE i = n + 1 /\ n # 0
      <4>1. requests'[i] = m /\ requests'[1] = requests[1] /\ requests # <<>>
        BY <1>4, <3>2 DEF n
      <4> QED BY <2>1, <4>1
    <3>3. CASE i # n + 1
      <4>1. i \in 1 .. n /\ 1 \in 1 .. n
        BY <1>4, <3>3
      <4>2. requests'[i] = requests[i] /\ requests'[1] = requests[1]
        BY <1>4, <4>1
      <4> QED BY <1>1, <1>4, <4>1, <4>2 DEF Sound
    <3> QED BY <3>1, <3>2, <3>3
  <2>4. Checked'
    BY <1>4, <2>2, <2>3 DEF Checked
  <2>5. Noted'
    <3>1. /\ rows \in Seq(Nat) /\ Len(rows) <= n
          /\ \A i \in DOMAIN rows : rows[i] = RowsOf(i)
          /\ impl = "py" => Len(rows) = n
          /\ impl # "py" => rows = <<>>
      BY <1>1, <2>2 DEF ConvertersInv, Noted, n
    <3>3. CASE impl # "py"
      <4>1. rows' = <<>> /\ Len(rows') = 0 /\ impl' # "py"
        BY <1>1, <2>1, <3>1, <3>3
      <4> QED BY <1>4, <2>2, <4>1 DEF Noted
    <3>4. CASE impl = "py"
      <4>1. m[1].rows \in Nat /\ requests'[n + 1][1].rows = m[1].rows
        <5>1. m # <<>>
          BY <2>1 DEF RequestChecked, NamesChecked
        <5>2. m[1] \in Tensor
          BY <1>3, <5>1
        <5>3. m[1].rows \in Nat
          BY <5>2 DEF Tensor
        <5> QED BY <1>4, <5>3
      <4>2. /\ rows' \in Seq(Nat) /\ Len(rows') = n + 1 /\ DOMAIN rows' = 1 .. n + 1
            /\ \A i \in 1 .. n : rows'[i] = rows[i]
            /\ rows'[n + 1] = m[1].rows
        BY <1>4, <2>1, <3>1, <3>4, <4>1, AppendProperties
      <4>3. ASSUME NEW i \in 1 .. n + 1 PROVE rows'[i] = requests'[i][1].rows
        <5>1. CASE i = n + 1
          BY <4>1, <4>2, <5>1
        <5>2. CASE i # n + 1
          <6>1. i \in 1 .. n /\ i \in DOMAIN rows
            BY <1>4, <3>1, <3>4, <5>2
          <6> QED BY <1>4, <3>1, <4>2, <6>1 DEF RowsOf
        <5> QED BY <5>1, <5>2
      <4> QED BY <1>1, <1>4, <3>4, <4>2, <4>3 DEF Noted, RowsOf
    <3> QED BY <3>3, <3>4
  <2>6. Copying' /\ Given' /\ Returned' /\ RowsMissing'
    BY <1>1, <2>2 DEF Copying, Given, Returned, RowsMissing
  <2>7. CutOut'
    BY <1>1, <2>1, <2>2 DEF CutOut, ConvertersInv
  <2> QED BY <2>4, <2>5, <2>6, <2>7 DEF ConvertersInv
<1> QED BY <1>5, <1>6

LEMMA AllocateInv ==
  ASSUME ConvertersInv, Allocate
  PROVE  ConvertersInv'
<1>1. /\ batched /\ impl # "py" /\ stage = "check" /\ requests # <<>> /\ stage' = "copy"
      /\ UNCHANGED <<impl, place, batched, requests, rows, output, replies>>
      /\ batch' = [j \in Inputs |-> [k \in 1..Total * Width(requests[1][j]) |-> Unwritten]]
      /\ offsets' = [j \in Inputs |-> 0]
  BY DEF Allocate
<1>2. Alive /\ Alive' /\ Sound /\ requests \in Seq(Seq(Tensor))
  BY <1>1 DEF Alive, ConvertersInv, Checked
<1>3. Checked'
  BY <1>1, <1>2, Frame DEF Checked
<1>4. rows = <<>> /\ rows' = <<>> /\ Len(rows') = 0 /\ Len(rows) = 0
  BY <1>1, <1>2 DEF ConvertersInv, Noted
<1>5. Noted'
  <2>1. Len(requests') \in Nat
    BY <1>1, <1>2
  <2> QED BY <1>1, <1>4, <2>1 DEF Noted
<1>6. Copying'
  <2>1. Start[0] = 0 /\ Start' = Start /\ Inputs' = Inputs /\ Total' = Total
    BY <1>1, <1>2, StartFacts, Frame
  <2>2. \A j \in Inputs : W(j) \in Nat
    <3>1. 1 \in DOMAIN requests
      BY <1>1, <1>2
    <3> QED BY <1>2, <3>1, SizeOfInput
  <2>3. ASSUME NEW j \in Inputs
        PROVE  /\ Start[0] * W(j) = 0
               /\ Filled(j, 0) = [k \in 1..Total * Width(requests[1][j]) |-> Unwritten]
    <3>1. Start[0] * W(j) = 0
      BY <2>1, <2>2
    <3>2. Filled(j, 0) = [k \in 1..Total * W(j) |-> Unwritten]
      BY <3>1 DEF Filled
    <3> QED BY <3>1, <3>2 DEF W
  <2>4. offsets' = OffsetsAt(0)
    BY <1>1, <2>3 DEF OffsetsAt
  <2>5. batch' = FilledUpTo(0)
    BY <1>1, <2>3 DEF FilledUpTo
  <2>6. offsets' = OffsetsAt(0)' /\ batch' = FilledUpTo(0)' /\ 0 \in Nat /\ 0 = Len(rows')
    BY <1>1, <1>4, <2>4, <2>5, Frame
  <2> QED BY <1>1, <2>6 DEF Copying
<1>7. Given' /\ Returned' /\ RowsMissing'
  BY <1>1 DEF Given, Returned, RowsMissing
<1>8. CutOut'
  BY <1>1, <1>2 DEF CutOut, ConvertersInv, Alive
<1> QED BY <1>3, <1>5, <1>6, <1>7, <1>8 DEF ConvertersInv

\* One more element.
LEMMA FillNext ==
  ASSUME Sound, NEW i \in DOMAIN requests, NEW j \in Inputs
  PROVE  /\ Start[i - 1] * W(j) \in Nat
         /\ NextOffset(Start[i - 1] * W(j), requests[i][j]) = Start[i] * W(j)
         /\ [k \in DOMAIN Filled(j, i - 1) |->
               IF k - Start[i - 1] * W(j) \in DOMAIN Flat(i, j)
               THEN Flat(i, j)[k - Start[i - 1] * W(j)]
               ELSE Filled(j, i - 1)[k]] = Filled(j, i)
<1> DEFINE a == Start[i - 1] * W(j)
<1> DEFINE d == RowsOf(i) * W(j)
<1> DEFINE b == Start[i] * W(j)
<1> DEFINE c == Total * W(j)
<1>1. /\ i \in 1 .. Len(requests) /\ Len(requests) \in Nat /\ requests # <<>>
      /\ RowsOf(i) \in Nat /\ Start[i - 1] \in Nat /\ Start[i] \in Nat
      /\ Start[i] = Start[i - 1] + RowsOf(i) /\ Total \in Nat /\ Total = Start[Len(requests)]
  BY StartFacts
<1>2. /\ W(j) \in Nat /\ Size(requests[i][j]) = d
      /\ Flat(i, j) \in Seq(Place) /\ Len(Flat(i, j)) = d
      /\ \A k \in 1 .. d : Flat(i, j)[k] = <<i, j, k>>
  BY SizeOfInput
<1>3. a \in Nat /\ d \in Nat /\ b \in Nat /\ c \in Nat /\ b = a + d /\ b <= c
  <2>1. (Start[i - 1] + RowsOf(i)) * W(j) = Start[i - 1] * W(j) + RowsOf(i) * W(j)
    BY <1>1, <1>2
  <2>2. Start[i] <= Total
    <3>1. i \in Nat /\ i <= Len(requests)
      BY <1>1
    <3>2. Start[i] <= Start[Len(requests)]
      BY <1>1, <3>1, StartGrows
    <3> QED BY <1>1, <3>2
  <2>3. b <= c
    BY <1>1, <1>2, <2>2, Monotone
  <2>4. a \in Nat /\ d \in Nat /\ b \in Nat /\ c \in Nat
    <3>1. a \in Nat
      BY <1>1, <1>2
    <3>2. d \in Nat
      BY <1>1, <1>2
    <3>3. b \in Nat
      BY <1>1, <1>2
    <3>4. c \in Nat
      BY <1>1, <1>2
    <3> QED BY <3>1, <3>2, <3>3, <3>4
  <2> QED BY <1>1, <2>1, <2>3, <2>4
<1>4. NextOffset(a, requests[i][j]) = b
  BY <1>2, <1>3 DEF NextOffset
<1>5. DOMAIN Flat(i, j) = 1 .. d
  BY <1>2, <1>3
<1>6. \A x \in 1 .. d : Whole(j)[a + x] = <<i, j, x>>
  BY <1>1, WholeFacts
<1> DEFINE new(k) == IF k - a \in DOMAIN Flat(i, j) THEN Flat(i, j)[k - a] ELSE Filled(j, i - 1)[k]
<1>7. /\ DOMAIN Filled(j, i - 1) = 1 .. c
      /\ \A k \in 1 .. c : Filled(j, i - 1)[k] = IF k <= a THEN Whole(j)[k] ELSE Unwritten
  BY DEF Filled
<1>8. Filled(j, i) = [k \in 1 .. c |-> IF k <= b THEN Whole(j)[k] ELSE Unwritten]
  BY DEF Filled
<1>9. ASSUME NEW k \in 1 .. c
      PROVE  new(k) = IF k <= b THEN Whole(j)[k] ELSE Unwritten
  <2> HIDE DEF a, b, c, d
  <2>1. CASE k <= a
    <3>1. ~(k - a \in 1 .. d) /\ k <= b
      BY <1>3, <2>1
    <3> QED BY <1>5, <1>7, <2>1, <3>1
  <2>2. CASE k > a /\ k <= b
    <3>1. k - a \in 1 .. d /\ a + (k - a) = k /\ k <= b
      BY <1>3, <2>2
    <3>2. Whole(j)[k] = <<i, j, k - a>> /\ Flat(i, j)[k - a] = <<i, j, k - a>>
      BY <1>2, <1>6, <3>1
    <3> QED BY <1>5, <3>1, <3>2
  <2>3. CASE k > b
    <3>1. ~(k - a \in 1 .. d) /\ ~(k <= b) /\ ~(k <= a)
      BY <1>3, <2>3
    <3> QED BY <1>5, <1>7, <3>1
  <2> QED BY <1>3, <2>1, <2>2, <2>3
<1>10. [k \in DOMAIN Filled(j, i - 1) |-> new(k)] = Filled(j, i)
  <2> HIDE DEF a, b, c, d, new
  <2> QED BY <1>7, <1>8, <1>9
<1> QED BY <1>3, <1>4, <1>10

LEMMA CopyInv ==
  ASSUME ConvertersInv, Copy
  PROVE  ConvertersInv'
<1> DEFINE i == Len(rows) + 1
<1>1. /\ stage = "copy" /\ Len(rows) < Len(requests)
      /\ UNCHANGED <<impl, place, batched, requests>>
      /\ IF \A j \in DOMAIN requests[i] : requests[i][j].exact
         THEN /\ batch' = [j \in Inputs |->
                   [k \in DOMAIN batch[j] |->
                      IF k - offsets[j] \in DOMAIN Flat(i, j) THEN Flat(i, j)[k - offsets[j]]
                                                              ELSE batch[j][k]]]
              /\ offsets' = [j \in Inputs |-> NextOffset(offsets[j], requests[i][j])]
              /\ rows' = Append(rows, requests[i][1].rows)
              /\ UNCHANGED <<stage, output, replies>>
         ELSE Reject
  BY DEF Copy
<1>2. batched /\ Alive /\ Sound /\ requests \in Seq(Seq(Tensor)) /\ requests # <<>>
  BY <1>1 DEF Alive, ConvertersInv, Checked, Given
<1>3. CASE stage' = "rejected"
  BY <1>1, <1>2, <1>3, RejectInv
<1>4. CASE stage' # "rejected"
  <2>1. /\ batch' = [j \in Inputs |->
                   [k \in DOMAIN batch[j] |->
                      IF k - offsets[j] \in DOMAIN Flat(i, j) THEN Flat(i, j)[k - offsets[j]]
                                                              ELSE batch[j][k]]]
        /\ offsets' = [j \in Inputs |-> NextOffset(offsets[j], requests[i][j])]
        /\ rows' = Append(rows, requests[i][1].rows)
        /\ UNCHANGED <<stage, output, replies>>
    BY <1>1, <1>4 DEF Reject
  <2>2. Alive' /\ stage' = "copy"
    BY <1>1, <1>2, <2>1 DEF Alive
  <2>3. /\ impl # "py" /\ offsets = OffsetsAt(Len(rows)) /\ batch = FilledUpTo(Len(rows))
    BY <1>1, <1>2 DEF ConvertersInv, Copying
  <2>4. /\ rows \in Seq(Nat) /\ Len(rows) \in Nat /\ Len(requests) \in Nat
        /\ DOMAIN requests = 1 .. Len(requests)
        /\ \A k \in DOMAIN rows : rows[k] = RowsOf(k)
    BY <1>2 DEF ConvertersInv, Noted
  <2>5. i \in DOMAIN requests /\ i - 1 = Len(rows) /\ i \in Nat
    BY <1>1, <2>4
  <2>6. RowsOf(i) \in Nat /\ RowsOf(i) = requests[i][1].rows
    BY <1>2, <2>4, <2>5, StartFacts DEF RowsOf
  <2> HIDE DEF i
  <2>7. /\ rows' \in Seq(Nat) /\ Len(rows') = i /\ DOMAIN rows' = 1 .. i
        /\ \A k \in 1 .. i - 1 : rows'[k] = rows[k]
        /\ rows'[i] = RowsOf(i)
    <3>1. rows' = Append(rows, RowsOf(i))
      BY <2>1, <2>6
    <3> QED BY <2>4, <2>5, <2>6, <3>1, AppendProperties
  <2>8. Checked'
    BY <1>1, <1>2, Frame DEF Checked
  <2>9. Noted'
    <3>1. \A k \in 1 .. i : rows'[k] = RowsOf(k)
      <4> SUFFICES ASSUME NEW k \in 1 .. i PROVE rows'[k] = RowsOf(k)
        OBVIOUS
      <4>1. CASE k = i
        BY <2>7, <4>1
      <4>2. CASE k # i
        <5>1. k \in 1 .. i - 1 /\ k \in DOMAIN rows
          BY <2>4, <2>5, <4>2
        <5> QED BY <2>4, <2>7, <5>1
      <4> QED BY <4>1, <4>2
    <3>2. \A k : RowsOf(k)' = RowsOf(k)
      BY <1>1, Frame
    <3>3. i <= Len(requests')
      BY <1>1, <2>4, <2>5
    <3>4. \A k \in DOMAIN rows' : rows'[k] = RowsOf(k)'
      BY <2>7, <3>1, <3>2
    <3> QED BY <1>1, <2>2, <2>3, <2>7, <3>3, <3>4 DEF Noted
  <2>10. Copying'
    <3>1. ASSUME NEW j \in Inputs
          PROVE  /\ OffsetsAt(i - 1)[j] = Start[i - 1] * W(j)
                 /\ FilledUpTo(i - 1)[j] = Filled(j, i - 1)
      BY DEF OffsetsAt, FilledUpTo
    <3>2. ASSUME NEW j \in Inputs
          PROVE  /\ NextOffset(offsets[j], requests[i][j]) = Start[i] * W(j)
                 /\ [k \in DOMAIN batch[j] |->
                      IF k - offsets[j] \in DOMAIN Flat(i, j) THEN Flat(i, j)[k - offsets[j]]
                                                              ELSE batch[j][k]] = Filled(j, i)
      <4>1. offsets[j] = Start[i - 1] * W(j) /\ batch[j] = Filled(j, i - 1)
        BY <2>3, <2>5, <3>1
      <4> QED BY <1>2, <2>5, <4>1, FillNext
    <3>3. offsets' = OffsetsAt(i)
      BY <2>1, <3>2 DEF OffsetsAt
    <3>4. batch' = FilledUpTo(i)
      BY <2>1, <3>2 DEF FilledUpTo
    <3>5. PICK n \in Nat : n = i
      BY <2>5
    <3>6. n = Len(rows') /\ offsets' = OffsetsAt(n)' /\ batch' = FilledUpTo(n)'
      <4>1. OffsetsAt(n)' = OffsetsAt(n) /\ FilledUpTo(n)' = FilledUpTo(n)
        BY <1>1, Frame
      <4>2. offsets' = OffsetsAt(n) /\ batch' = FilledUpTo(n) /\ n = Len(rows')
        BY <2>7, <3>3, <3>4, <3>5
      <4> QED BY <4>1, <4>2
    <3> QED BY <1>1, <2>3, <3>6 DEF Copying
  <2>11. Given' /\ Returned' /\ RowsMissing'
    BY <1>1, <1>2, <2>2 DEF Given, Returned, RowsMissing, Alive
  <2>12. CutOut'
    BY <1>1, <1>2, <2>1, <2>2 DEF CutOut, ConvertersInv
  <2> QED BY <2>8, <2>9, <2>10, <2>11, <2>12 DEF ConvertersInv
<1> QED BY <1>3, <1>4

LEMMA CopiedInv ==
  ASSUME ConvertersInv, Copied
  PROVE  ConvertersInv'
<1>1. /\ stage = "copy" /\ Len(rows) = Len(requests) /\ stage' = "infer"
      /\ UNCHANGED <<impl, place, batched, requests, batch, offsets, rows, output, replies>>
  BY DEF Copied
<1>2. batched /\ Alive /\ Alive' /\ Sound /\ requests \in Seq(Seq(Tensor)) /\ requests # <<>>
  BY <1>1 DEF Alive, ConvertersInv, Checked, Given
<1>3. Checked'
  BY <1>1, <1>2, Frame DEF Checked
<1>4. Noted'
  BY <1>1, <1>2, Frame DEF Noted, ConvertersInv
<1>5. \A j \in Inputs : Filled(j, Len(requests)) = Whole(j)
  <2> SUFFICES ASSUME NEW j \in Inputs PROVE Filled(j, Len(requests)) = Whole(j)
    OBVIOUS
  <2> DEFINE c == Total * W(j)
  <2>1. Total = Start[Len(requests)] /\ Total \in Nat
    BY <1>2, StartFacts
  <2>2. 1 \in DOMAIN requests
    BY <1>2
  <2>3. W(j) \in Nat
    BY <1>2, <2>2, SizeOfInput
  <2>4. Whole(j) \in Seq(Place) /\ Len(Whole(j)) = c /\ c \in Nat
    BY <1>2, <2>1, <2>3, WholeFacts
  <2>5. Filled(j, Len(requests)) = [x \in 1 .. c |-> IF x <= c THEN Whole(j)[x] ELSE Unwritten]
    BY <2>1 DEF Filled
  <2> HIDE DEF c
  <2>6. Filled(j, Len(requests)) = [x \in 1 .. c |-> Whole(j)[x]]
    BY <2>4, <2>5
  <2>7. Whole(j) = [x \in 1 .. c |-> Whole(j)[x]]
    BY <2>4
  <2> QED BY <2>6, <2>7
<1>6. batch' = [j \in Inputs |-> Whole(j)]
  <2>1. batch = FilledUpTo(Len(requests))
    BY <1>1, <1>2 DEF ConvertersInv, Copying
  <2> QED BY <1>1, <1>5, <2>1 DEF FilledUpTo
<1>7. Given'
  <2>1. Inputs' = Inputs /\ \A j : Whole(j)' = Whole(j)
    BY <1>1, Frame
  <2>2. batch' = [j \in Inputs' |-> Whole(j)']
    BY <1>6, <2>1
  <2> QED BY <1>1, <1>2, <2>2 DEF Given
<1>8. Copying' /\ Returned' /\ RowsMissing'
  BY <1>1 DEF Copying, Returned, RowsMissing
<1>9. CutOut'
  BY <1>1, <1>2 DEF CutOut, ConvertersInv, Alive
<1> QED BY <1>3, <1>4, <1>7, <1>8, <1>9 DEF ConvertersInv

LEMMA ConcatInv ==
  ASSUME ConvertersInv, Concat
  PROVE  ConvertersInv'
<1>1. /\ batched /\ impl = "py" /\ stage = "check" /\ requests # <<>>
      /\ IF DictChecked(requests[1])
         THEN /\ batch' = [j \in Kept(requests[1]) |-> Whole(j)]
              /\ stage' = "infer" /\ UNCHANGED <<offsets, rows, output, replies>>
         ELSE Reject
      /\ UNCHANGED <<impl, place, batched, requests>>
  BY DEF Concat, Whole
<1>2. Alive /\ Sound /\ requests \in Seq(Seq(Tensor))
  BY <1>1 DEF Alive, ConvertersInv, Checked
<1>3. CASE stage' = "rejected"
  BY <1>1, <1>2, <1>3, RejectInv
<1>4. CASE stage' # "rejected"
  <2>1. /\ DictChecked(requests[1]) /\ batch' = [j \in Kept(requests[1]) |-> Whole(j)]
        /\ stage' = "infer" /\ UNCHANGED <<offsets, rows, output, replies>>
    BY <1>1, <1>4 DEF Reject
  <2>2. Kept(requests[1]) = Inputs
    <3> DEFINE m == requests[1]
    <3>1. m \in Seq(Tensor)
      BY <1>1, <1>2
    <3>2. DOMAIN m = 1 .. Len(m) /\ Len(m) \in Nat
      BY <3>1
    <3>3. IsFiniteSet(1 .. Len(m)) /\ Cardinality(1 .. Len(m)) = Len(m)
      <4> HIDE DEF m
      <4>1. Cardinality(1 .. Len(m)) = IF 1 > Len(m) THEN 0 ELSE Len(m) - 1 + 1
        BY <3>2, FS_Interval
      <4>2. IsFiniteSet(1 .. Len(m))
        BY <3>2, FS_Interval
      <4> QED BY <3>2, <4>1, <4>2
    <3>4. Kept(m) \in SUBSET (1 .. Len(m)) /\ Cardinality(Kept(m)) = Len(m)
      <4>1. Kept(m) \in SUBSET (1 .. Len(m))
        BY <3>2 DEF Kept
      <4>2. Cardinality(Kept(m)) = Len(m)
        BY <2>1 DEF DictChecked
      <4> QED BY <4>1, <4>2
    <3> HIDE DEF m
    <3>5. Kept(m) = 1 .. Len(m)
      BY <3>3, <3>4, FS_Subset
    <3> QED BY <3>2, <3>5 DEF Inputs, m
  <2>3. Alive'
    BY <1>1, <1>2, <2>1 DEF Alive
  <2>4. Checked'
    BY <1>1, <1>2, Frame DEF Checked
  <2>5. Noted'
    BY <1>1, <1>2, <2>1, Frame DEF Noted, ConvertersInv
  <2>6. Given'
    <3>1. Inputs' = Inputs /\ \A j : Whole(j)' = Whole(j)
      BY <1>1, Frame
    <3>2. batch' = [j \in Inputs |-> Whole(j)]
      BY <2>1, <2>2
    <3>3. batch' = [j \in Inputs' |-> Whole(j)']
      BY <3>1, <3>2
    <3> QED BY <1>1, <3>3 DEF Given
  <2>7. Copying' /\ Returned' /\ RowsMissing'
    BY <2>1 DEF Copying, Returned, RowsMissing
  <2>8. CutOut'
    BY <1>1, <1>2, <2>1 DEF CutOut, ConvertersInv, Alive
  <2> QED BY <2>4, <2>5, <2>6, <2>7, <2>8 DEF ConvertersInv
<1> QED BY <1>3, <1>4

-----------------------------------------------------------------------------
(***************************************************************************)
(* Without a batcher.                                                      *)
(***************************************************************************)
\* Without a batcher only the batch and the messages are spoken of.
LEMMA AloneInv ==
  ASSUME ~batched', requests' \in Seq(Seq(Tensor)), BatchWhole', stage' \notin {"copy", "undefined"}
  PROVE  ConvertersInv'
<1>1. ~Alive'
  BY DEF Alive
<1>2. Checked' /\ Noted' /\ Copying' /\ Given' /\ Returned' /\ CutOut'
  BY <1>1 DEF Checked, Noted, Copying, Given, Returned, CutOut
<1>3. RowsMissing'
  BY DEF RowsMissing
<1> QED BY <1>2, <1>3 DEF ConvertersInv

\* A tensor that stays in the dictionary is the one the model is given.
LEMMA PreProcessInv ==
  ASSUME ConvertersInv, PreProcess
  PROVE  ConvertersInv'
<1>1. PICK m \in Messages :
        /\ requests' = <<m>> /\ IF impl = "py" THEN PyPreProcess(m) ELSE CppPreProcess(m)
        /\ ~batched /\ stage = "check"
        /\ UNCHANGED <<impl, place, batched, offsets, rows, output, replies>>
  BY DEF PreProcess
<1>2. requests' \in Seq(Seq(Tensor)) /\ requests'[1] = m
  <2>1. m \in Seq(Tensor)
    BY MessagesAssumption
  <2> QED BY <1>1, <2>1
<1>3. stage' \in {"infer", "rejected"}
  BY <1>1 DEF PyPreProcess, CppPreProcess
<1>4. BatchWhole'
  <2> SUFFICES ASSUME stage' = "infer"
               PROVE  \/ batch' = [j \in DOMAIN m |-> Flat(1, j)']
                      \/ impl' = "py" /\ \A j \in DOMAIN m :
                           Flat(1, j)' \in Range(batch') \/ Size(m[j]) = 1
    BY <1>1, <1>2 DEF BatchWhole, Inputs, Size
  <2> DEFINE F(j) == [k \in 1..Size(m[j]) |-> <<1, j, k>>]
  <2>1. \A j : Flat(1, j)' = F(j)
    BY <1>2 DEF Flat, Size
  <2>2. CASE impl # "py"
    <3>1. batch' = [j \in DOMAIN m |-> F(j)]
      BY <1>1, <2>2 DEF CppPreProcess
    <3> HIDE DEF F
    <3> QED BY <2>1, <3>1
  <2>3. CASE impl = "py"
    <3>1. batch' = [j \in Kept(m) |-> F(j)] /\ \A j \in Replaced(m) : Size(m[j]) = 1
      BY <1>1, <2>3 DEF PyPreProcess
    <3> HIDE DEF F
    <3>2. ASSUME NEW j \in DOMAIN m PROVE F(j) \in Range(batch') \/ Size(m[j]) = 1
      <4>1. CASE j \in Replaced(m)
        BY <3>1, <4>1
      <4>2. CASE j \notin Replaced(m)
        <5>1. j \in Kept(m)
          BY <4>2 DEF Kept
        <5> QED BY <3>1, <5>1 DEF Range
      <4> QED BY <4>1, <4>2
    <3> QED BY <1>1, <2>1, <2>3, <3>2
  <2> QED BY <2>2, <2>3
<1> QED BY <1>1, <1>2, <1>3, <1>4, AloneInv

LEMMA PostProcessInv ==
  ASSUME ConvertersInv, PostProcess
  PROVE  ConvertersInv'
<1>1. ~batched' /\ stage' = "done" /\ requests' = requests
  BY DEF PostProcess
<1>2. requests' \in Seq(Seq(Tensor))
  BY <1>1 DEF ConvertersInv, Checked
<1>3. BatchWhole'
  BY <1>1 DEF BatchWhole
<1> QED BY <1>1, <1>2, <1>3, AloneInv

-----------------------------------------------------------------------------
(***************************************************************************)
(* The model, and what becomes of its output.                              *)
(***************************************************************************)
\* What is said of an output does not change with what is done to it.
LEMMA OutputFrame ==
  ASSUME UNCHANGED <<impl, place, requests, batch>>
  PROVE  /\ \A j, n : Output(j, n)' = Output(j, n)
         /\ \A i : Before(i)' = Before(i)
         /\ UNCHANGED output => \A i : Reply(i)' = Reply(i)
<1>1. Start' = Start /\ Total' = Total
  BY Frame
<1>2. \A r : Row(r)' = Row(r)
  BY DEF Row
<1>3. \A j, n : Output(j, n)' = Output(j, n)
  BY <1>1, <1>2 DEF Output
<1>4. \A i : Before(i)' = Before(i)
  BY DEF Before, Flat, Size
<1>5. ASSUME UNCHANGED output PROVE \A i : Reply(i)' = Reply(i)
  <2>1. \A i : Upto(i)' = Upto(i)
    BY <1>1, <1>5 DEF Upto
  <2>2. \A i : AnswerOf(i)' = AnswerOf(i)
    BY <1>1, <1>5, <2>1 DEF AnswerOf
  <2> QED BY <1>4, <2>2 DEF Reply
<1> QED BY <1>3, <1>4, <1>5

LEMMA InferInv ==
  ASSUME ConvertersInv, ModelInfer
  PROVE  ConvertersInv'
<1>1. /\ stage = "infer" /\ stage' = "split"
      /\ UNCHANGED <<impl, place, batched, requests, batch, rows, replies>>
      /\ offsets' = [j \in DOMAIN output'.tensors |-> 0]
      /\ requests \in Seq(Seq(Tensor))
  BY DEF ModelInfer, ConvertersInv, Checked
<1>2. CASE ~batched
  <2>1. BatchWhole'
    BY <1>1 DEF BatchWhole
  <2> QED BY <1>1, <1>2, <2>1, AloneInv
<1>3. CASE batched
  <2>1. Alive /\ Alive' /\ Sound /\ requests # <<>>
    BY <1>1, <1>3 DEF Alive, ConvertersInv, Checked
  <2>2. PICK n \in 1..MaxOutputs, r \in {0, Total - 1, Total, Total + 1} \intersect Nat :
          output' = [rows |-> r, tensors |->
            [j \in 1..n |-> [k \in 1..j * r |->
               LET row == (k - 1) \div j + 1
               IN  [of |-> IF row <= Total THEN Row(row) ELSE Unwritten, column |-> (k - 1) % j]]]]
    BY <1>3 DEF ModelInfer
  <2>3. n \in Nat \ {0} /\ r \in Nat
    BY <2>2
  <2>4. output'.rows = r /\ output'.tensors = [j \in 1..n |-> Output(j, r)]
    BY <2>2 DEF Output
  <2>5. Checked'
    BY <1>1, <2>1, Frame DEF Checked
  <2>6. Noted'
    BY <1>1, <2>1, Frame DEF Noted, ConvertersInv
  <2>7. Given'
    <3>1. Inputs' = Inputs /\ \A j : Whole(j)' = Whole(j)
      BY <1>1, Frame
    <3>2. batch' = [j \in Inputs |-> Whole(j)]
      BY <1>1, <2>1 DEF ConvertersInv, Given
    <3>3. batch' = [j \in Inputs' |-> Whole(j)']
      BY <3>1, <3>2
    <3> QED BY <1>1, <1>3, <3>3 DEF Given
  <2>8. Returned'
    <3>1. output'.tensors = [j \in 1..n |-> Output(j, r)']
      BY <1>1, <2>4, OutputFrame
    <3>2. output'.rows \in Nat /\ output'.tensors = [j \in 1..n |-> Output(j, output.rows)']
      BY <2>3, <2>4, <3>1
    <3> QED BY <2>3, <3>2 DEF Returned
  <2>9. CutOut'
    <3>1. replies' = <<>>
      BY <1>1, <2>1 DEF ConvertersInv, CutOut
    <3>2. Start' = Start /\ Start[0] = 0 /\ Len(requests') \in Nat
      BY <1>1, <2>1, Frame, StartFacts
    <3>3. DOMAIN output'.tensors = 1 .. n
      BY <2>4
    <3>4. offsets' = [j \in DOMAIN output'.tensors |-> IF impl' = "py" THEN Start'[0] ELSE Start'[0] * j]
      BY <1>1, <3>2, <3>3
    <3>5. replies' = [i \in 1 .. 0 |-> Reply(i)']
      BY <3>1
    <3>6. Start'[0] <= output'.rows
      BY <2>3, <2>4, <3>2
    <3>7. 0 \in 0 .. Len(requests')
      BY <3>2
    <3> QED BY <1>1, <3>4, <3>5, <3>6, <3>7 DEF CutOut
  <2>10. Copying' /\ RowsMissing'
    BY <1>1 DEF Copying, RowsMissing
  <2> QED BY <2>5, <2>6, <2>7, <2>8, <2>9, <2>10 DEF ConvertersInv
<1> QED BY <1>2, <1>3

\* One more answer.
LEMMA OneMore ==
  ASSUME NEW n \in Nat, NEW F, NEW s, s = [i \in 1 .. n |-> F[i]], NEW t, t = Append(s, F[n + 1])
  PROVE  Len(s) = n /\ t = [i \in 1 .. n + 1 |-> F[i]]
OBVIOUS

LEMMA RepliesGrow ==
  ASSUME NEW n \in Nat, replies = [i \in 1 .. n |-> Reply(i)]
  PROVE  /\ Len(replies) = n
         /\ Append(replies, Reply(n + 1)) = [i \in 1 .. n + 1 |-> Reply(i)]
<1> DEFINE F == [i \in 1 .. n + 1 |-> Reply(i)]
<1>1. /\ replies = [i \in 1 .. n |-> F[i]] /\ F[n + 1] = Reply(n + 1)
      /\ [i \in 1 .. n + 1 |-> F[i]] = [i \in 1 .. n + 1 |-> Reply(i)]
  OBVIOUS
<1> HIDE DEF F
<1>2. Append(replies, F[n + 1]) = Append(replies, F[n + 1])
  OBVIOUS
<1>3. Len(replies) = n /\ Append(replies, F[n + 1]) = [i \in 1 .. n + 1 |-> F[i]]
  BY <1>1, <1>2, OneMore
<1> QED BY <1>1, <1>3

\* The outputs of the model.
LEMMA OutputLen ==
  ASSUME NEW j \in Nat, NEW n \in Nat
  PROVE  DOMAIN Output(j, n) = 1 .. j * n /\ Len(Output(j, n)) = j * n
<1>1. j * n \in Nat
  OBVIOUS
<1> DEFINE c == j * n
<1> DEFINE e(k) == LET row == (k - 1) \div j + 1
                   IN  [of |-> IF row <= Total THEN Row(row) ELSE Unwritten, column |-> (k - 1) % j]
<1>2. Output(j, n) = [k \in 1 .. c |-> e(k)]
  BY DEF Output
<1> HIDE DEF c, e
<1>3. DOMAIN Output(j, n) = 1 .. c /\ Len(Output(j, n)) = c
  BY <1>1, <1>2 DEF c
<1> QED BY <1>3 DEF c

\* The state in which answers are cut out.
Cutting(n) ==
  /\ Alive /\ Sound /\ stage = "split" /\ requests # <<>> /\ n \in Nat /\ n < Len(requests)
  /\ Len(rows) = Len(requests) /\ rows[n + 1] = RowsOf(n + 1)
  /\ replies = [i \in 1 .. n |-> Reply(i)] /\ Len(replies) = n
  /\ offsets = [j \in DOMAIN output.tensors |-> IF impl = "py" THEN Start[n] ELSE Start[n] * j]
  /\ impl # "py" => Start[n] <= output.rows
  /\ output.rows \in Nat
  /\ \E m \in Nat \ {0} : output.tensors = [j \in 1 .. m |-> Output(j, output.rows)]

LEMMA CuttingFacts ==
  ASSUME ConvertersInv, batched, stage = "split", Len(replies) < Len(requests)
  PROVE  Cutting(Len(replies))
<1>1. Alive
  BY DEF Alive
<1>2. Sound /\ requests # <<>> /\ requests \in Seq(Seq(Tensor))
  BY <1>1 DEF ConvertersInv, Checked
<1>3. PICK n \in 0 .. Len(requests) :
        /\ replies = [i \in 1 .. n |-> Reply(i)]
        /\ offsets = [j \in DOMAIN output.tensors |-> IF impl = "py" THEN Start[n] ELSE Start[n] * j]
        /\ impl # "py" => Start[n] <= output.rows
  BY <1>1 DEF ConvertersInv, CutOut
<1>4. n \in Nat /\ Len(requests) \in Nat
  BY <1>2
<1>5. Len(replies) = n
  BY <1>3, <1>4, RepliesGrow
<1>6. /\ rows \in Seq(Nat) /\ Len(rows) = Len(requests)
      /\ \A i \in DOMAIN rows : rows[i] = RowsOf(i)
  BY <1>1 DEF ConvertersInv, Noted
<1>7. n + 1 \in DOMAIN rows
  BY <1>4, <1>5, <1>6
<1>8. \E m \in Nat \ {0} :
        output.rows \in Nat /\ output.tensors = [j \in 1 .. m |-> Output(j, output.rows)]
  BY <1>1 DEF ConvertersInv, Returned
<1> QED BY <1>1, <1>2, <1>3, <1>4, <1>5, <1>6, <1>7, <1>8 DEF Cutting

\* An answer cut out is one more that is there.
LEMMA CutOne ==
  ASSUME ConvertersInv, batched, stage = "split", Len(replies) < Len(requests),
         UNCHANGED <<impl, place, batched, requests, stage, batch, rows, output>>,
         NEW n \in Nat, Cutting(n), replies' = Append(replies, Reply(n + 1)),
         offsets' = [j \in DOMAIN output.tensors |-> IF impl = "py" THEN Start[n + 1] ELSE Start[n + 1] * j],
         impl # "py" => Start[n + 1] <= output.rows
  PROVE  ConvertersInv'
<1>1. Alive /\ Alive' /\ Sound /\ requests \in Seq(Seq(Tensor))
  BY DEF Alive, ConvertersInv, Checked
<1>2. Checked'
  BY <1>1, Frame DEF Checked, ConvertersInv
<1>3. Noted'
  BY <1>1, Frame DEF Noted, ConvertersInv
<1>4. Given'
  <2>1. Inputs' = Inputs /\ \A j : Whole(j)' = Whole(j)
    BY Frame
  <2>2. batch = [j \in Inputs |-> Whole(j)]
    BY <1>1 DEF ConvertersInv, Given
  <2>3. batch' = [j \in Inputs' |-> Whole(j)']
    BY <2>1, <2>2
  <2> QED BY <2>3 DEF Given
<1>5. Returned'
  <2>1. PICK m \in Nat \ {0} :
          output.rows \in Nat /\ output.tensors = [j \in 1 .. m |-> Output(j, output.rows)]
    BY <1>1 DEF ConvertersInv, Returned
  <2>2. \A j : Output(j, output.rows)' = Output(j, output.rows)
    <3>1. PICK r \in Nat : r = output.rows
      BY <2>1
    <3>2. \A j : Output(j, r)' = Output(j, r)
      BY OutputFrame
    <3> QED BY <3>1, <3>2
  <2>3. output'.tensors = [j \in 1 .. m |-> Output(j, output.rows)']
    BY <2>1, <2>2
  <2> QED BY <2>1, <2>3 DEF Returned
<1>6. CutOut'
  <2>1. Start' = Start /\ \A i : Reply(i)' = Reply(i)
    BY Frame, OutputFrame
  <2>2. replies' = [i \in 1 .. n + 1 |-> Reply(i)]
    BY RepliesGrow DEF Cutting
  <2>3. replies' = [i \in 1 .. n + 1 |-> Reply(i)']
    BY <2>1, <2>2
  <2>4. n + 1 \in 0 .. Len(requests')
    <3>1. Len(requests) \in Nat /\ n < Len(requests)
      BY <1>1 DEF Cutting
    <3> QED BY <3>1
  <2>5. PICK k \in 0 .. Len(requests') : k = n + 1
    BY <2>4
  <2>6. /\ replies' = [i \in 1 .. k |-> Reply(i)']
        /\ offsets' = [j \in DOMAIN output'.tensors |-> IF impl' = "py" THEN Start'[k] ELSE Start'[k] * j]
        /\ impl' # "py" => Start'[k] <= output'.rows
    BY <2>1, <2>3, <2>5
  <2> QED BY <2>6 DEF CutOut
<1>7. Copying' /\ RowsMissing'
  BY DEF Copying, RowsMissing
<1> QED BY <1>2, <1>3, <1>4, <1>5, <1>6, <1>7 DEF ConvertersInv

\* Whole rows of an output.
LEMMA SliceOf ==
  ASSUME NEW j \in Nat, NEW r \in Nat \ {0}, output.rows = r, NEW k \in Nat
  PROVE  SliceSize(Output(j, r), k) = j * k
<1>1. Len(Output(j, r)) = j * r
  BY OutputLen
<1>2. j * r \in Nat /\ j * r = r * j + 0 /\ 0 \in 0 .. r - 1
  OBVIOUS
<1>3. (j * r) \div r = j
  <2> DEFINE a == j * r
  <2>1. a \in Nat /\ a = r * j + 0 /\ 0 \in 0 .. r - 1
    BY <1>2
  <2> HIDE DEF a
  <2>2. a \div r = j
    BY <2>1, DivModUnique
  <2> QED BY <2>2 DEF a
<1> QED BY <1>1, <1>3 DEF SliceSize

LEMMA SplitInv ==
  ASSUME ConvertersInv, Split
  PROVE  ConvertersInv'
<1> DEFINE i    == Len(replies) + 1
<1> DEFINE ends == [j \in DOMAIN output.tensors |-> offsets[j] + SliceSize(output.tensors[j], rows[i])]
<1>1. /\ batched /\ impl # "py" /\ stage = "split" /\ Len(replies) < Len(requests)
      /\ UNCHANGED <<impl, place, batched, requests, batch, rows, output>>
      /\ IF output.rows = 0
         THEN stage' = "undefined" /\ UNCHANGED <<replies, offsets>>
         ELSE IF \A j \in DOMAIN ends : ends[j] <= Len(output.tensors[j])
              THEN /\ replies' = Append(replies, Before(i) \o
                        [j \in DOMAIN ends |-> SubSeq(output.tensors[j], offsets[j] + 1, ends[j])])
                   /\ offsets' = ends /\ UNCHANGED stage
              ELSE /\ stage' = IF impl = "torch" THEN "rejected" ELSE "undefined"
                   /\ UNCHANGED <<replies, offsets>>
  BY DEF Split
<1>2. requests \in Seq(Seq(Tensor))
  BY DEF ConvertersInv, Checked
<1>3. PICK n \in Nat : n = Len(replies) /\ Cutting(n)
  <2>1. Cutting(Len(replies))
    BY <1>1, CuttingFacts
  <2> QED BY <2>1 DEF Cutting
<1>4. PICK m \in Nat \ {0} : output.tensors = [j \in 1 .. m |-> Output(j, output.rows)]
  BY <1>3 DEF Cutting
<1>5. PICK r \in Nat : r = output.rows
  BY <1>3 DEF Cutting
<1>6. /\ Alive /\ Sound /\ requests # <<>> /\ n < Len(requests) /\ Len(requests) \in Nat
      /\ rows[n + 1] = RowsOf(n + 1) /\ i = n + 1
      /\ offsets = [j \in DOMAIN output.tensors |-> Start[n] * j]
      /\ Start[n] <= r
  BY <1>1, <1>2, <1>3, <1>5 DEF Cutting
<1>7. /\ RowsOf(i) \in Nat /\ Start[n] \in Nat /\ Start[i] \in Nat /\ Start[i] = Start[n] + RowsOf(i)
      /\ Total \in Nat /\ Start[i] <= Total
  <2>1. i \in 1 .. Len(requests) /\ i - 1 = n /\ i \in Nat /\ i <= Len(requests)
    BY <1>6
  <2> HIDE DEF i
  <2>2. /\ RowsOf(i) \in Nat /\ Start[n] \in Nat /\ Start[i] \in Nat /\ Start[i] = Start[n] + RowsOf(i)
        /\ Total \in Nat /\ Total = Start[Len(requests)]
    BY <1>6, <2>1, StartFacts
  <2>3. Start[i] <= Start[Len(requests)]
    BY <1>6, <2>1, StartGrows
  <2> QED BY <2>2, <2>3
<1>8. CASE r = 0
  <2>1. stage' = "undefined"
    BY <1>1, <1>5, <1>8
  <2>2. Checked' /\ Noted' /\ Copying' /\ Given' /\ Returned' /\ CutOut'
    BY <1>1, <1>2, <2>1 DEF Checked, Noted, Copying, Given, Returned, CutOut, Alive
  <2>3. RowsMissing'
    BY <1>1, <1>5, <1>8, <2>1 DEF RowsMissing
  <2> QED BY <2>2, <2>3 DEF ConvertersInv
<1>9. CASE r # 0
  <2>1. DOMAIN output.tensors = 1 .. m /\ DOMAIN ends = 1 .. m
    BY <1>4
  <2>2. ASSUME NEW j \in 1 .. m
        PROVE  /\ offsets[j] = Start[n] * j /\ Len(output.tensors[j]) = j * r
               /\ ends[j] = Start[i] * j
    <3>1. output.tensors[j] = Output(j, r) /\ j \in Nat
      BY <1>4, <1>5
    <3>2. offsets[j] = Start[n] * j
      BY <1>6, <2>1
    <3>3. SliceSize(output.tensors[j], rows[i]) = j * RowsOf(i)
      <4>1. rows[i] = RowsOf(i) /\ RowsOf(i) \in Nat /\ r \in Nat \ {0} /\ output.rows = r
        BY <1>5, <1>6, <1>7, <1>9
      <4> HIDE DEF i
      <4> QED BY <3>1, <4>1, SliceOf
    <3>4. ends[j] = offsets[j] + SliceSize(output.tensors[j], rows[i])
      BY <2>1
    <3>5. Start[n] * j + j * RowsOf(i) = (Start[n] + RowsOf(i)) * j
      BY <1>7, <3>1
    <3>6. Len(output.tensors[j]) = j * r
      BY <3>1, OutputLen
    <3> HIDE DEF i, ends
    <3> QED BY <1>7, <3>2, <3>3, <3>4, <3>5, <3>6
  <2>3. ends = [j \in DOMAIN output.tensors |-> Start[i] * j]
    <3> HIDE DEF i
    <3>1. \A j \in 1 .. m : ends[j] = Start[i] * j
      BY <2>2
    <3> QED BY <2>1, <3>1
  <2> HIDE DEF ends
  <2>4. CASE \A j \in DOMAIN ends : ends[j] <= Len(output.tensors[j])
    <3>1. Start[i] <= r
      <4>1. 1 \in 1 .. m
        OBVIOUS
      <4>2. ends[1] <= Len(output.tensors[1]) /\ ends[1] = Start[i] * 1 /\ Len(output.tensors[1]) = 1 * r
        BY <2>1, <2>2, <2>4, <4>1
      <4> HIDE DEF i
      <4>3. Start[i] * 1 = Start[i] /\ 1 * r = r
        BY <1>7
      <4> QED BY <4>2, <4>3
    <3>2. /\ replies' = Append(replies, Before(i) \o
                 [j \in DOMAIN ends |-> SubSeq(output.tensors[j], offsets[j] + 1, ends[j])])
          /\ offsets' = ends /\ UNCHANGED stage
      BY <1>1, <1>5, <1>9, <2>4
    <3>3. [j \in DOMAIN ends |-> SubSeq(output.tensors[j], offsets[j] + 1, ends[j])] = AnswerOf(i)
      <4>1. Upto(i) = Start[i] /\ i - 1 = n
        BY <1>1, <1>6 DEF Upto
      <4> HIDE DEF i
      <4>2. ASSUME NEW j \in 1 .. m
            PROVE  SubSeq(output.tensors[j], offsets[j] + 1, ends[j])
                     = SubSeq(output.tensors[j], Start[i - 1] * j + 1, Upto(i) * j)
        BY <2>2, <4>1
      <4> QED BY <2>1, <4>2 DEF AnswerOf
    <3>4. replies' = Append(replies, Reply(n + 1))
      <4>1. Reply(i) = Before(i) \o AnswerOf(i)
        BY <1>1 DEF Reply
      <4> QED BY <1>6, <3>2, <3>3, <4>1
    <3>5. offsets' = [j \in DOMAIN output.tensors |-> IF impl = "py" THEN Start[n + 1] ELSE Start[n + 1] * j]
      BY <1>1, <1>6, <2>3, <3>2
    <3>6. Start[n + 1] <= output.rows
      BY <1>5, <1>6, <3>1
    <3> QED BY <1>1, <1>3, <3>2, <3>4, <3>5, <3>6, CutOne
  <2>5. CASE ~(\A j \in DOMAIN ends : ends[j] <= Len(output.tensors[j]))
    <3>1. stage' = IF impl = "torch" THEN "rejected" ELSE "undefined"
      BY <1>1, <1>5, <1>9, <2>5 DEF ends
    <3>2. r < Total
      <4>1. PICK j \in 1 .. m : ~(ends[j] <= Len(output.tensors[j]))
        BY <2>1, <2>5
      <4>2. ~(Start[i] * j <= j * r) /\ j \in Nat
        BY <2>2, <4>1
      <4> HIDE DEF i
      <4>3. ~(Start[i] <= r)
        <5> SUFFICES ASSUME Start[i] <= r PROVE FALSE
          OBVIOUS
        <5>1. Start[i] * j <= r * j
          BY <1>7, <4>2, Monotone
        <5>2. r * j = j * r
          BY <4>2
        <5> QED BY <4>2, <5>1, <5>2
      <4> QED BY <1>7, <4>3
    <3>3. Checked' /\ Noted' /\ Copying' /\ Given' /\ Returned' /\ CutOut'
      BY <1>1, <1>2, <3>1 DEF Checked, Noted, Copying, Given, Returned, CutOut, Alive
    <3>4. RowsMissing'
      <4>1. Total' = Total
        BY <1>1, Frame
      <4>2. impl' = impl /\ output' = output
        BY <1>1
      <4> QED BY <1>5, <3>1, <3>2, <4>1, <4>2 DEF RowsMissing
    <3> QED BY <3>3, <3>4 DEF ConvertersInv
  <2> QED BY <2>4, <2>5
<1> QED BY <1>8, <1>9

LEMMA SplitRowsInv ==
  ASSUME ConvertersInv, SplitRows
  PROVE  ConvertersInv'
<1> DEFINE i == Len(replies) + 1
<1> DEFINE U(j) == IF output.rows < offsets[j] + rows[i] THEN output.rows ELSE offsets[j] + rows[i]
<1>1. /\ batched /\ impl = "py" /\ stage = "split" /\ Len(replies) < Len(requests)
      /\ UNCHANGED <<impl, place, batched, requests, stage, batch, rows, output>>
      /\ replies' = Append(replies, [j \in DOMAIN output.tensors |->
                       SubSeq(output.tensors[j], offsets[j] * j + 1, U(j) * j)])
      /\ offsets' = [j \in DOMAIN offsets |-> offsets[j] + rows[i]]
  BY DEF SplitRows
<1>2. requests \in Seq(Seq(Tensor))
  BY DEF ConvertersInv, Checked
<1>3. PICK n \in Nat : n = Len(replies) /\ Cutting(n)
  <2>1. Cutting(Len(replies))
    BY <1>1, CuttingFacts
  <2> QED BY <2>1 DEF Cutting
<1>4. /\ Alive /\ Sound /\ n < Len(requests) /\ Len(requests) \in Nat
      /\ rows[n + 1] = RowsOf(n + 1) /\ i = n + 1
      /\ offsets = [j \in DOMAIN output.tensors |-> Start[n]]
  BY <1>1, <1>2, <1>3 DEF Cutting
<1>5. Start[i] = Start[n] + RowsOf(i) /\ i - 1 = n
  <2>1. i \in 1 .. Len(requests) /\ i - 1 = n
    BY <1>4
  <2> HIDE DEF i
  <2> QED BY <1>4, <2>1, StartFacts
<1> HIDE DEF i
<1>6. ASSUME NEW j \in DOMAIN output.tensors
      PROVE  offsets[j] = Start[n] /\ offsets[j] + rows[i] = Start[i] /\ U(j) = Upto(i)
  <2>1. offsets[j] = Start[n] /\ offsets[j] + rows[i] = Start[i]
    BY <1>4, <1>5
  <2> QED BY <1>1, <2>1 DEF Upto
<1> HIDE DEF U
<1>7. [j \in DOMAIN output.tensors |-> SubSeq(output.tensors[j], offsets[j] * j + 1, U(j) * j)] = AnswerOf(i)
  BY <1>5, <1>6 DEF AnswerOf
<1>8. replies' = Append(replies, Reply(n + 1))
  BY <1>1, <1>4, <1>7 DEF Reply
<1>9. offsets' = [j \in DOMAIN output.tensors |-> IF impl = "py" THEN Start[n + 1] ELSE Start[n + 1] * j]
  <2>1. DOMAIN offsets = DOMAIN output.tensors
    BY <1>4
  <2>2. offsets' = [j \in DOMAIN output.tensors |-> Start[i]]
    BY <1>1, <1>6, <2>1
  <2> QED BY <1>1, <1>4, <2>2
<1> QED BY <1>1, <1>3, <1>8, <1>9, CutOne

LEMMA AnsweredInv ==
  ASSUME ConvertersInv, Answered
  PROVE  ConvertersInv'
<1>1. /\ batched /\ stage = "split" /\ Len(replies) = Len(requests) /\ stage' = "done"
      /\ UNCHANGED <<impl, place, batched, requests, batch, offsets, rows, output, replies>>
  BY DEF Answered
<1>2. Alive /\ Alive' /\ Sound /\ requests \in Seq(Seq(Tensor)) /\ requests # <<>>
  BY <1>1 DEF Alive, ConvertersInv, Checked
<1>3. Checked'
  BY <1>1, <1>2, Frame DEF Checked
<1>4. Noted'
  BY <1>1, <1>2, Frame DEF Noted, ConvertersInv
<1>5. Given'
  <2>1. Inputs' = Inputs /\ \A j : Whole(j)' = Whole(j)
    BY <1>1, Frame
  <2>2. batch = [j \in Inputs |-> Whole(j)]
    BY <1>1, <1>2 DEF ConvertersInv, Given
  <2>3. batch' = [j \in Inputs' |-> Whole(j)']
    BY <1>1, <2>1, <2>2
  <2> QED BY <1>1, <2>3 DEF Given
<1>6. PICK m \in Nat \ {0} :
        output.rows \in Nat /\ output.tensors = [j \in 1 .. m |-> Output(j, output.rows)]
  BY <1>1, <1>2 DEF ConvertersInv, Returned
<1>7. Returned'
  <2>1. PICK r \in Nat : r = output.rows
    BY <1>6
  <2>2. \A j : Output(j, r)' = Output(j, r)
    BY <1>1, OutputFrame
  <2>3. output'.tensors = [j \in 1 .. m |-> Output(j, output.rows)']
    BY <1>1, <1>6, <2>1, <2>2
  <2> QED BY <1>1, <1>6, <2>3 DEF Returned
<1>8. PICK n \in 0 .. Len(requests) :
        /\ replies = [i \in 1 .. n |-> Reply(i)]
        /\ impl # "py" => Start[n] <= output.rows
  BY <1>1, <1>2 DEF ConvertersInv, CutOut
<1>9. n = Len(requests) /\ n \in 0 .. Len(requests')
  <2>1. n \in Nat
    BY <1>2
  <2>2. Len(replies) = n
    BY <1>8, <2>1, RepliesGrow
  <2> QED BY <1>1, <2>2
<1>10. CutOut'
  <2>1. Start' = Start /\ \A i : Reply(i)' = Reply(i)
    BY <1>1, Frame, OutputFrame
  <2>2. /\ replies' = [i \in 1 .. n |-> Reply(i)']
        /\ n = Len(requests')
        /\ impl' # "py" => Start'[n] <= output'.rows
    BY <1>1, <1>8, <1>9, <2>1
  <2> QED BY <1>1, <1>9, <2>2 DEF CutOut
<1>11. RowsMissing'
  <2>1. Total' = Total /\ Total = Start[Len(requests)] /\ Total \in Nat
    BY <1>1, <1>2, Frame, StartFacts
  <2>2. impl # "py" => ~(output.rows < Total)
    BY <1>6, <1>8, <1>9, <2>1
  <2> QED BY <1>1, <2>1, <2>2 DEF RowsMissing
<1>12. Copying'
  BY <1>1 DEF Copying
<1> QED BY <1>3, <1>4, <1>5, <1>7, <1>10, <1>11, <1>12 DEF ConvertersInv

LEMMA InvUnchanged ==
  ASSUME ConvertersInv, UNCHANGED converterVars
  PROVE  ConvertersInv'
<1>1. UNCHANGED <<impl, place, batched, requests, stage, batch, offsets, rows, output, replies>>
  BY DEF converterVars
<1>2. Alive' = Alive
  BY <1>1 DEF Alive
<1>3. Checked'
  BY <1>1, <1>2, Frame DEF Checked, ConvertersInv
<1>4. Noted'
  BY <1>1, <1>2, Frame DEF Noted, ConvertersInv
<1>5. Copying'
  <2>1. \A n : OffsetsAt(n)' = OffsetsAt(n) /\ FilledUpTo(n)' = FilledUpTo(n)
    BY <1>1, Frame
  <2>2. CASE ~(Alive /\ stage = "copy")
    BY <1>1, <1>2, <2>2 DEF Copying
  <2>3. CASE Alive /\ stage = "copy"
    <3>1. PICK n \in Nat : n = Len(rows) /\ offsets = OffsetsAt(n) /\ batch = FilledUpTo(n)
      BY <2>3 DEF ConvertersInv, Copying
    <3>2. n = Len(rows') /\ offsets' = OffsetsAt(n)' /\ batch' = FilledUpTo(n)'
      BY <1>1, <2>1, <3>1
    <3> QED BY <1>1, <2>3, <3>2 DEF ConvertersInv, Copying
  <2> QED BY <2>2, <2>3
<1>6. Given'
  <2>1. Inputs' = Inputs /\ \A j : Whole(j)' = Whole(j)
    BY <1>1, Frame
  <2>2. [j \in Inputs' |-> Whole(j)'] = [j \in Inputs |-> Whole(j)]
    BY <2>1
  <2>3. ~batched => BatchWhole'
    BY <1>1 DEF ConvertersInv, Given, BatchWhole, Inputs, Flat, Size
  <2> QED BY <1>1, <1>2, <2>2, <2>3 DEF ConvertersInv, Given
<1>7. Returned'
  <2>1. CASE ~(Alive /\ stage \in {"split", "done"})
    BY <1>1, <1>2, <2>1 DEF Returned
  <2>2. CASE Alive /\ stage \in {"split", "done"}
    <3>1. PICK m \in Nat \ {0} :
            output.rows \in Nat /\ output.tensors = [j \in 1 .. m |-> Output(j, output.rows)]
      BY <2>2 DEF ConvertersInv, Returned
    <3>2. PICK r \in Nat : r = output.rows
      BY <3>1
    <3>3. \A j : Output(j, r)' = Output(j, r)
      BY <1>1, OutputFrame
    <3>4. output'.tensors = [j \in 1 .. m |-> Output(j, output.rows)']
      BY <1>1, <3>1, <3>2, <3>3
    <3> QED BY <1>1, <3>1, <3>4 DEF Returned
  <2> QED BY <2>1, <2>2
<1>8. CutOut'
  <2>1. Start' = Start /\ \A i : Reply(i)' = Reply(i)
    BY <1>1, Frame, OutputFrame
  <2>2. CASE ~(Alive /\ stage \in {"split", "done"})
    BY <1>1, <1>2, <2>2 DEF CutOut, ConvertersInv
  <2>3. CASE Alive /\ stage \in {"split", "done"}
    <3>1. PICK n \in 0 .. Len(requests) :
         /\ replies = [i \in 1 .. n |-> Reply(i)]
         /\ stage = "split" =>
              offsets = [j \in DOMAIN output.tensors |-> IF impl = "py" THEN Start[n] ELSE Start[n] * j]
         /\ stage = "done" => n = Len(requests)
         /\ impl # "py" => Start[n] <= output.rows
      BY <2>3 DEF ConvertersInv, CutOut
    <3>2. /\ n \in 0 .. Len(requests')
          /\ replies' = [i \in 1 .. n |-> Reply(i)']
          /\ stage' = "split" =>
              offsets' = [j \in DOMAIN output'.tensors |-> IF impl' = "py" THEN Start'[n] ELSE Start'[n] * j]
          /\ stage' = "done" => n = Len(requests')
          /\ impl' # "py" => Start'[n] <= output'.rows
      BY <1>1, <2>1, <3>1
    <3> QED BY <1>1, <2>3, <3>2 DEF CutOut
  <2> QED BY <2>2, <2>3
<1>9. RowsMissing'
  BY <1>1, Frame DEF ConvertersInv, RowsMissing
<1> QED BY <1>3, <1>4, <1>5, <1>6, <1>7, <1>8, <1>9 DEF ConvertersInv

LEMMA ConvertersInvNext ==
  ASSUME ConvertersInv, [ConverterNext]_converterVars
  PROVE  ConvertersInv'
<1>1. CASE Check
  BY <1>1, CheckInv
<1>2. CASE Allocate
  BY <1>2, AllocateInv
<1>3. CASE Copy
  BY <1>3, CopyInv
<1>4. CASE Copied
  BY <1>4, CopiedInv
<1>5. CASE Concat
  BY <1>5, ConcatInv
<1>6. CASE PreProcess
  BY <1>6, PreProcessInv
<1>7. CASE ModelInfer
  BY <1>7, InferInv
<1>8. CASE Split
  BY <1>8, SplitInv
<1>9. CASE SplitRows
  BY <1>9, SplitRowsInv
<1>10. CASE Answered
  BY <1>10, AnsweredInv
<1>11. CASE PostProcess
  BY <1>11, PostProcessInv
<1>12. CASE UNCHANGED converterVars
  BY <1>12, InvUnchanged
<1> QED BY <1>1, <1>2, <1>3, <1>4, <1>5, <1>6, <1>7, <1>8, <1>9, <1>10, <1>11, <1>12 DEF ConverterNext

-----------------------------------------------------------------------------
(***************************************************************************)
(* The rows of an answer.                                                  *)
(***************************************************************************)
\* A part of a sequence.
LEMMA Sliced ==
  ASSUME NEW c \in Nat, NEW f, f = [x \in 1 .. c |-> f[x]], NEW a \in Nat, NEW b \in Nat, a + b <= c
  PROVE  SubSeq(f, a + 1, a + b) = [k \in 1 .. b |-> f[a + k]]
<1> DEFINE x == a + 1
<1> DEFINE y == a + b
<1> DEFINE V == {f[z] : z \in 1 .. c}
<1>1. x \in Int /\ y \in Int /\ \A z \in x .. y : f[z] \in V
  <2>1. \A z \in x .. y : z \in 1 .. c
    OBVIOUS
  <2> QED BY <2>1
<1>2. y - x + 1 = b /\ (IF x <= y THEN y - x + 1 ELSE 0) = b /\ \A k \in 1 .. b : x + k - 1 = a + k
  OBVIOUS
<1> HIDE DEF x, y, V
<1> DEFINE t == SubSeq(f, x, y)
<1>3. t \in Seq(V) /\ Len(t) = IF x <= y THEN y - x + 1 ELSE 0
  BY <1>1, SubSeqProperties
<1>4. \A k \in 1 .. y - x + 1 : t[k] = f[x + k - 1]
  BY <1>1, SubSeqProperties
<1> HIDE DEF t
<1>5. Len(t) = b /\ \A k \in 1 .. b : t[k] = f[a + k]
  BY <1>2, <1>3, <1>4
<1>6. t = [k \in 1 .. Len(t) |-> t[k]]
  BY <1>3
<1>7. t = [k \in 1 .. b |-> f[a + k]]
  BY <1>5, <1>6
<1> QED BY <1>7 DEF t, x, y

\* A row of the batch that belongs to a request is that row of its message.
LEMMA RowOfRequest ==
  ASSUME ConvertersInv, Alive, stage \in {"split", "done"}, NEW i \in DOMAIN requests, NEW q \in Nat, q < RowsOf(i)
  PROVE  Row(Start[i - 1] + q + 1) =
           [l \in DOMAIN requests[i] |->
              LET w == Width(requests[i][l]) IN [c \in 1 .. w |-> <<i, l, q * w + c>>]]
<1> DEFINE s == Start[i - 1]
<1> DEFINE row == s + q + 1
<1>1. Sound /\ requests # <<>> /\ batch = [j \in Inputs |-> Whole(j)]
  BY DEF ConvertersInv, Checked, Given
<1>2. i \in 1 .. Len(requests) /\ s \in Nat /\ RowsOf(i) \in Nat
  BY <1>1, StartFacts
<1> HIDE DEF s
<1>3. row - 1 = s + q
  BY <1>2
<1> HIDE DEF row
<1>4. DOMAIN batch = Inputs /\ DOMAIN requests[i] = Inputs
  <2>1. Inputs # {} => DOMAIN requests[i] = Inputs
    BY <1>1, SizeOfInput
  <2>2. DOMAIN requests[i] = Inputs
    BY <1>1 DEF Sound, Matches, Inputs
  <2> QED BY <1>1, <2>2
<1>5. ASSUME NEW l \in Inputs
      PROVE  [c \in 1 .. Width(requests[1][l]) |-> batch[l][(row - 1) * Width(requests[1][l]) + c]]
               = [c \in 1 .. Width(requests[i][l]) |-> <<i, l, q * Width(requests[i][l]) + c>>]
  <2> DEFINE w == W(l)
  <2>1. Width(requests[1][l]) = w /\ Width(requests[i][l]) = w /\ w \in Nat
    BY <1>1, SizeOfInput DEF W
  <2>2. \A x \in 1 .. RowsOf(i) * w : Whole(l)[s * w + x] = <<i, l, x>>
    BY <1>1, WholeFacts DEF s
  <2>3. batch[l] = Whole(l)
    BY <1>1
  <2> HIDE DEF w
  <2>4. ASSUME NEW c \in 1 .. w PROVE batch[l][(row - 1) * w + c] = <<i, l, q * w + c>>
    <3>1. q * w + c \in 1 .. RowsOf(i) * w
      <4>1. q + 1 \in Nat /\ q + 1 <= RowsOf(i) /\ (q + 1) * w = q * w + w /\ q * w \in Nat
        BY <1>2, <2>1
      <4>2. (q + 1) * w <= RowsOf(i) * w /\ RowsOf(i) * w \in Nat
        BY <1>2, <2>1, <4>1, Monotone
      <4>3. q * w + c \in Nat /\ q * w + c >= 1 /\ q * w + c <= q * w + w
        BY <2>1, <4>1
      <4> DEFINE x == q * w
      <4> DEFINE y == (q + 1) * w
      <4> DEFINE z == RowsOf(i) * w
      <4>4. x \in Nat /\ y = x + w /\ y <= z /\ z \in Nat /\ x + c >= 1 /\ x + c <= x + w /\ x + c \in Nat
        BY <4>1, <4>2, <4>3
      <4> HIDE DEF x, y, z
      <4>5. x + c \in 1 .. z
        BY <2>1, <4>4
      <4> QED BY <4>5 DEF x, z
    <3>2. (row - 1) * w + c = s * w + (q * w + c)
      <4>1. (s + q) * w = s * w + q * w
        BY <1>2, <2>1
      <4> QED BY <1>2, <1>3, <2>1, <4>1
    <3> QED BY <2>2, <2>3, <3>1, <3>2
  <2> QED BY <2>1, <2>4
<1>6. Row(row) = [l \in Inputs |-> [c \in 1 .. Width(requests[1][l]) |->
                    batch[l][(row - 1) * Width(requests[1][l]) + c]]]
  BY <1>4 DEF Row
<1>7. Row(row) = [l \in Inputs |-> [c \in 1 .. Width(requests[i][l]) |-> <<i, l, q * Width(requests[i][l]) + c>>]]
  BY <1>5, <1>6
<1> QED BY <1>4, <1>7 DEF row, s

\* What a request got from an output.
LEMMA AnswerRows ==
  ASSUME ConvertersInv, Alive, stage \in {"split", "done"}, output.rows >= Total,
         NEW i \in DOMAIN requests, NEW j \in DOMAIN output.tensors
  PROVE  AnswerOf(i)[j] = [k \in 1 .. j * requests[i][1].rows |->
           [of |-> [l \in DOMAIN requests[i] |->
                      LET w == Width(requests[i][l])
                      IN  [c \in 1 .. w |-> <<i, l, ((k - 1) \div j) * w + c>>]],
            column |-> (k - 1) % j]]
<1>1. Sound /\ requests # <<>>
  BY DEF ConvertersInv, Checked
<1>2. PICK m \in Nat \ {0} :
        output.rows \in Nat /\ output.tensors = [x \in 1 .. m |-> Output(x, output.rows)]
  BY DEF ConvertersInv, Returned
<1>3. PICK r \in Nat : r = output.rows
  BY <1>2
<1>4. j \in Nat \ {0} /\ output.tensors[j] = Output(j, r)
  BY <1>2, <1>3
<1> DEFINE s == Start[i - 1]
<1> DEFINE d == RowsOf(i)
<1>5. /\ i \in 1 .. Len(requests) /\ s \in Nat /\ d \in Nat /\ Start[i] = s + d /\ Start[i] \in Nat
      /\ Total \in Nat /\ s + d <= Total /\ s + d <= r
  <2>1. /\ i \in 1 .. Len(requests) /\ Len(requests) \in Nat /\ s \in Nat /\ d \in Nat
        /\ Start[i] = s + d /\ Start[i] \in Nat /\ Total \in Nat /\ Total = Start[Len(requests)]
    BY <1>1, StartFacts
  <2>2. i \in Nat /\ i <= Len(requests)
    BY <2>1
  <2>3. Start[i] <= Start[Len(requests)]
    BY <1>1, <2>1, <2>2, StartGrows
  <2> HIDE DEF s, d
  <2> QED BY <1>3, <2>1, <2>3
<1>6. Upto(i) = Start[i]
  BY <1>3, <1>5 DEF Upto
<1>7. AnswerOf(i)[j] = SubSeq(Output(j, r), s * j + 1, (s + d) * j)
  BY <1>4, <1>5, <1>6 DEF AnswerOf
<1> HIDE DEF s, d
<1> DEFINE a == s * j
<1> DEFINE b == d * j
<1>8. a \in Nat /\ b \in Nat /\ (s + d) * j = a + b /\ a + b <= j * r
  <2>1. a \in Nat /\ b \in Nat /\ (s + d) * j = a + b
    BY <1>4, <1>5
  <2>2. s + d \in Nat /\ (s + d) * j <= r * j /\ r * j = j * r
    BY <1>4, <1>5, Monotone
  <2> QED BY <2>1, <2>2
<1> DEFINE R(k) == [of |-> [l \in DOMAIN requests[i] |->
                      LET w == Width(requests[i][l])
                      IN  [c \in 1 .. w |-> <<i, l, ((k - 1) \div j) * w + c>>]],
                    column |-> (k - 1) % j]
<1>9. ASSUME NEW k \in 1 .. b
      PROVE  a + k \in 1 .. j * r /\ Output(j, r)[a + k] = R(k)
  <2> DEFINE q == (k - 1) \div j
  <2> DEFINE e == (k - 1) % j
  <2>1. q \in Nat /\ e \in 0 .. j - 1 /\ k - 1 = j * q + e /\ k - 1 \in Nat
    <3>1. k - 1 \in Nat
      BY <1>8
    <3> QED BY <1>4, <3>1, DivMod
  <2>2. a + k \in 1 .. j * r
    <3>1. j * r \in Nat
      BY <1>3, <1>4, <1>8
    <3> HIDE DEF a, b
    <3> QED BY <1>8, <3>1
  <2>3. ((a + k) - 1) \div j = s + q /\ ((a + k) - 1) % j = e
    <3> HIDE DEF q, e
    <3>1. (a + k) - 1 = j * (s + q) + e
      <4>1. j * (s + q) = s * j + j * q
        BY <1>4, <1>5, <2>1
      <4> DEFINE x == j * q
      <4> DEFINE y == j * (s + q)
      <4>2. y = a + x /\ a \in Nat /\ x \in Nat /\ k - 1 = x + e /\ e \in Nat /\ k \in Nat
        BY <1>4, <1>8, <2>1, <4>1
      <4> HIDE DEF a, x, y
      <4>3. (a + k) - 1 = y + e
        BY <4>2
      <4> QED BY <4>3 DEF y
    <3>2. (a + k) - 1 \in Nat /\ s + q \in Nat
      <4> HIDE DEF a, b
      <4>1. (a + k) - 1 \in Nat
        BY <1>8
      <4>2. s + q \in Nat
        BY <1>5, <2>1
      <4> QED BY <4>1, <4>2
    <3> HIDE DEF a
    <3> QED BY <1>4, <2>1, <3>1, <3>2, DivModUnique
  <2>4. q < d
    <3> HIDE DEF q, e
    <3> SUFFICES ASSUME d <= q PROVE FALSE
      BY <1>5, <2>1
    <3>1. d * j <= q * j
      <4>1. j \in Nat
        BY <1>4
      <4> QED BY <1>5, <2>1, <4>1, Monotone
    <3>2. q * j = j * q
      BY <1>4, <2>1
    <3>3. k - 1 >= j * q /\ k <= d * j
      <4>1. j * q \in Nat
        BY <1>4, <2>1
      <4> QED BY <1>4, <1>8, <2>1, <4>1
    <3>4. j * q \in Nat /\ d * j \in Nat
      BY <1>4, <1>5, <2>1
    <3> QED BY <3>1, <3>2, <3>3, <3>4
  <2>5. s + q + 1 <= Total
    <3> HIDE DEF q, e
    <3> QED BY <1>5, <2>1, <2>4
  <2>6. Row(s + q + 1) = [l \in DOMAIN requests[i] |->
           LET w == Width(requests[i][l]) IN [c \in 1 .. w |-> <<i, l, q * w + c>>]]
    <3>1. q \in Nat /\ q < RowsOf(i)
      BY <2>1, <2>4 DEF d
    <3> HIDE DEF q, e
    <3> QED BY <3>1, RowOfRequest DEF s
  <2>7. Output(j, r)[a + k] = [of |-> IF s + q + 1 <= Total THEN Row(s + q + 1) ELSE Unwritten, column |-> e]
    <3> DEFINE O(x) == LET row == (x - 1) \div j + 1
                       IN  [of |-> IF row <= Total THEN Row(row) ELSE Unwritten, column |-> (x - 1) % j]
    <3>1. Output(j, r) = [x \in 1 .. j * r |-> O(x)]
      BY DEF Output
    <3>2. Output(j, r)[a + k] = O(a + k)
      <4> HIDE DEF O, a
      <4> QED BY <2>2, <3>1
    <3> HIDE DEF a, q, e
    <3> QED BY <2>3, <3>2
  <2>8. Output(j, r)[a + k] = [of |-> Row(s + q + 1), column |-> e]
    <3> HIDE DEF q, e, a
    <3> QED BY <2>5, <2>7
  <2>9. Output(j, r)[a + k] = R(k)
    BY <2>6, <2>8
  <2> QED BY <2>2, <2>9
<1> HIDE DEF a, b, R
<1>10. DOMAIN Output(j, r) = 1 .. j * r
  BY <1>4, OutputLen
<1>11. SubSeq(Output(j, r), a + 1, a + b) = [k \in 1 .. b |-> R(k)]
  <2> DEFINE f == Output(j, r)
  <2>1. SubSeq(f, a + 1, a + b) = [k \in 1 .. b |-> f[a + k]]
    <3>1. j * r \in Nat
      BY <1>3, <1>4
    <3>2. f = [x \in 1 .. j * r |-> f[x]]
      BY <1>10 DEF Output
    <3> HIDE DEF f
    <3> QED BY <1>8, <3>1, <3>2, Sliced
  <2> QED BY <1>9, <2>1
<1>12. b = j * requests[i][1].rows
  <2>1. d = requests[i][1].rows
    BY DEF d, RowsOf
  <2>2. d * j = j * d
    BY <1>4, <1>5
  <2> QED BY <2>1, <2>2 DEF b
<1>13. AnswerOf(i)[j] = [k \in 1 .. b |-> R(k)]
  BY <1>7, <1>8, <1>11 DEF a
<1> QED BY <1>12, <1>13 DEF R

\* The elements behind the first.
LEMMA LastOnes ==
  ASSUME NEW V, NEW p \in Seq(V), NEW m \in Nat \ {0}, NEW X, NEW t \in [1 .. m -> X], NEW j \in 1 .. m
  PROVE  SubSeq(p \o t, Len(p \o t) - m + 1, Len(p \o t))[j] = t[j]
<1> DEFINE Y == V \cup X
<1>1. p \in Seq(Y) /\ t \in Seq(Y) /\ Len(t) = m /\ Len(p) \in Nat
  OBVIOUS
<1> HIDE DEF Y
<1> DEFINE f == p \o t
<1>2. f \in Seq(Y) /\ Len(f) = Len(p) + m
  BY <1>1, ConcatProperties
<1>3. \A x \in 1 .. m : f[Len(p) + x] = t[x]
  <2> SUFFICES ASSUME NEW x \in 1 .. m PROVE f[Len(p) + x] = t[x]
    OBVIOUS
  <2>1. Len(p) + x \in 1 .. Len(p) + Len(t) /\ ~(Len(p) + x <= Len(p)) /\ Len(p) + x - Len(p) = x
    BY <1>1
  <2> QED BY <1>1, <2>1
<1> HIDE DEF f
<1>4. f = [x \in 1 .. Len(p) + m |-> f[x]]
  BY <1>1, <1>2
<1>5. SubSeq(f, Len(p) + 1, Len(p) + m) = [k \in 1 .. m |-> f[Len(p) + k]]
  BY <1>1, <1>4, Sliced
<1>6. Len(f) - m + 1 = Len(p) + 1
  BY <1>1, <1>2
<1>7. SubSeq(f, Len(f) - m + 1, Len(f))[j] = f[Len(p) + j]
  BY <1>2, <1>5, <1>6
<1> QED BY <1>3, <1>7 DEF f

-----------------------------------------------------------------------------
(***************************************************************************)
(* The theorems.                                                           *)
(***************************************************************************)
\* Whatever messages come together, with whatever number of rows, the converters
\* are where the offsets say.
THEOREM ConvertersInvariant == ConverterSpec => []ConvertersInv
<1>1. ConverterInit => ConvertersInv
  BY ConvertersInitInv
<1>2. ConvertersInv /\ [ConverterNext]_converterVars => ConvertersInv'
  BY ConvertersInvNext
<1> QED BY <1>1, <1>2, PTL DEF ConverterSpec

\* A converter only reads behind the output of a model that returned too few rows.
THEOREM RowsNotRead == ConverterSpec => []RowsMissing
<1>1. ConverterSpec => []ConvertersInv
  BY ConvertersInvariant
<1>2. ConvertersInv => RowsMissing
  BY DEF ConvertersInv
<1> QED BY <1>1, <1>2, PTL

\* The model is given every element of every request once, in their order.
THEOREM BatchesWhole == ConverterSpec => []BatchWhole
<1>1. ConverterSpec => []ConvertersInv
  BY ConvertersInvariant
<1>2. ASSUME ConvertersInv PROVE BatchWhole
  <2>1. CASE ~batched
    BY <1>2, <2>1 DEF ConvertersInv, Given
  <2>2. CASE batched /\ stage = "infer"
    <3>1. Alive /\ Sound /\ requests # <<>> /\ batch = [j \in Inputs |-> Whole(j)]
      BY <1>2, <2>2 DEF ConvertersInv, Alive, Checked, Given
    <3>2. ASSUME NEW j \in Inputs, NEW i \in DOMAIN requests
          PROVE  requests[i][j].dtype = requests[1][j].dtype /\ requests[i][j].inner = requests[1][j].inner
      <4>1. j \in DOMAIN requests[i] /\ Matches(requests[i], requests[1])
        BY <3>1, SizeOfInput DEF Sound
      <4> QED BY <4>1 DEF Matches
    <3> QED BY <2>2, <3>1, <3>2 DEF BatchWhole, Whole
  <2>3. CASE stage # "infer"
    BY <2>3 DEF BatchWhole
  <2> QED BY <2>1, <2>2, <2>3
<1> QED BY <1>1, <1>2, PTL

\* Each request gets its own rows of the output, all of them, in their order.
THEOREM RowsOwn == ConverterSpec => []OwnRows
<1>1. ConverterSpec => []ConvertersInv
  BY ConvertersInvariant
<1>2. ASSUME ConvertersInv PROVE OwnRows
  <2> SUFFICES ASSUME stage = "done", batched, output.rows >= Total,
                      NEW i \in DOMAIN requests, NEW j \in DOMAIN output.tensors
               PROVE  Own(i)[j] = [k \in 1 .. j * requests[i][1].rows |->
                        [of |-> [l \in DOMAIN requests[i] |->
                                   LET w == Width(requests[i][l])
                                   IN  [c \in 1 .. w |-> <<i, l, ((k - 1) \div j) * w + c>>]],
                         column |-> (k - 1) % j]]
    BY DEF OwnRows
  <2>1. Alive /\ Sound /\ requests \in Seq(Seq(Tensor)) /\ requests # <<>>
    BY <1>2 DEF ConvertersInv, Alive, Checked
  <2>2. PICK m \in Nat \ {0} : output.tensors = [x \in 1 .. m |-> Output(x, output.rows)]
    BY <1>2, <2>1 DEF ConvertersInv, Returned
  <2>3. DOMAIN output.tensors = 1 .. m /\ Len(output.tensors) = m /\ j \in 1 .. m
    BY <2>2
  <2>4. replies[i] = Reply(i)
    BY <1>2, <2>1 DEF ConvertersInv, CutOut
  <2>5. DOMAIN AnswerOf(i) = 1 .. m /\ \E V : AnswerOf(i) \in [1 .. m -> V]
    <3>1. AnswerOf(i) = [x \in 1 .. m |-> AnswerOf(i)[x]]
      BY <2>3 DEF AnswerOf
    <3>2. AnswerOf(i) \in [1 .. m -> {AnswerOf(i)[x] : x \in 1 .. m}]
      BY <3>1
    <3> QED BY <3>1, <3>2
  <2>6. \E V : Before(i) \in Seq(V)
    <3>1. requests[i] \in Seq(Tensor)
      BY <2>1
    <3>2. DOMAIN requests[i] = 1 .. Len(requests[i]) /\ Len(requests[i]) \in Nat
      BY <3>1
    <3> DEFINE F == [l \in DOMAIN requests[i] |-> Flat(i, l)]
    <3>3. F \in Seq({Flat(i, l) : l \in DOMAIN requests[i]})
      BY <3>2
    <3>4. <<>> \in Seq({})
      OBVIOUS
    <3>5. Before(i) = F \/ Before(i) = <<>>
      BY DEF Before
    <3> HIDE DEF F
    <3> QED BY <3>3, <3>4, <3>5
  <2>7. Own(i)[j] = AnswerOf(i)[j]
    <3>1. Own(i) = SubSeq(Reply(i), Len(Reply(i)) - m + 1, Len(Reply(i)))
      BY <2>3, <2>4 DEF Own
    <3>2. PICK p : (\E V : p \in Seq(V)) /\ Reply(i) = p \o AnswerOf(i)
      <4>1. CASE impl = "py"
        <5>1. <<>> \in Seq({}) /\ <<>> \o AnswerOf(i) = AnswerOf(i)
          BY <2>5
        <5> QED BY <4>1, <5>1 DEF Reply
      <4>2. CASE impl # "py"
        BY <2>6, <4>2 DEF Reply
      <4> QED BY <4>1, <4>2
    <3>3. SubSeq(p \o AnswerOf(i), Len(p \o AnswerOf(i)) - m + 1, Len(p \o AnswerOf(i)))[j] = AnswerOf(i)[j]
      BY <2>3, <2>5, <3>2, LastOnes
    <3> QED BY <3>1, <3>2, <3>3
  <2> QED BY <1>2, <2>1, <2>7, AnswerRows
<1> QED BY <1>1, <1>2, PTL
=============================================================================
