---------------------- MODULE CppDynamicBatcher_proofs ----------------------
(***************************************************************************)
(* Theorems about CppDynamicBatcher, for every set of requests and of      *)
(* workers and every batch size: its invariants, and that it implements    *)
(* BatchService.                                                           *)
(***************************************************************************)
EXTENDS CppDynamicBatcher, TLAPS, SequenceTheorems

-----------------------------------------------------------------------------
(***************************************************************************)
(* What the queue operations of the batcher do to the elements they move.  *)
(***************************************************************************)
LEMMA ToSetType ==
  ASSUME NEW S, NEW s \in Seq(S) PROVE ToSet(s) \subseteq S
BY DEF ToSet

LEMMA ToSetAppend ==
  ASSUME NEW S, NEW s \in Seq(S), NEW x \in S
  PROVE  ToSet(Append(s, x)) = ToSet(s) \cup {x}
<1>1. /\ DOMAIN Append(s, x) = 1 .. Len(s) + 1
      /\ \A i \in 1 .. Len(s) : Append(s, x)[i] = s[i]
      /\ Append(s, x)[Len(s) + 1] = x
      /\ DOMAIN s = 1 .. Len(s) /\ Len(s) \in Nat
  OBVIOUS
<1>2. ToSet(Append(s, x)) \subseteq ToSet(s) \cup {x}
  BY <1>1 DEF ToSet
<1>3. ToSet(s) \subseteq ToSet(Append(s, x))
  BY <1>1 DEF ToSet
<1>4. x \in ToSet(Append(s, x))
  BY <1>1 DEF ToSet
<1>5. QED BY <1>2, <1>3, <1>4

LEMMA ToSetConcat ==
  ASSUME NEW S, NEW s \in Seq(S), NEW t \in Seq(S)
  PROVE  ToSet(s \o t) = ToSet(s) \cup ToSet(t)
<1>1. /\ DOMAIN (s \o t) = 1 .. Len(s) + Len(t)
      /\ \A i \in 1 .. Len(s) : (s \o t)[i] = s[i]
      /\ \A i \in 1 .. Len(t) : (s \o t)[Len(s) + i] = t[i]
      /\ DOMAIN s = 1 .. Len(s) /\ DOMAIN t = 1 .. Len(t)
      /\ Len(s) \in Nat /\ Len(t) \in Nat
  OBVIOUS
<1>2. ASSUME NEW i \in 1 .. Len(s) + Len(t)
      PROVE  (s \o t)[i] \in ToSet(s) \cup ToSet(t)
  <2>1. CASE i \in 1 .. Len(s)
    BY <1>1, <2>1 DEF ToSet
  <2>2. CASE i \notin 1 .. Len(s)
    <3>1. i - Len(s) \in 1 .. Len(t) /\ i = Len(s) + (i - Len(s))
      BY <1>1, <2>2
    <3>2. QED BY <1>1, <3>1 DEF ToSet
  <2>3. QED BY <2>1, <2>2
<1>3. ToSet(s \o t) \subseteq ToSet(s) \cup ToSet(t)
  BY <1>1, <1>2 DEF ToSet
<1>4. ToSet(s) \subseteq ToSet(s \o t)
  BY <1>1 DEF ToSet
<1>5. ASSUME NEW i \in 1 .. Len(t) PROVE t[i] \in ToSet(s \o t)
  <2>1. Len(s) + i \in DOMAIN (s \o t) /\ (s \o t)[Len(s) + i] = t[i]
    BY <1>1
  <2>2. QED BY <2>1 DEF ToSet
<1>6. ToSet(t) \subseteq ToSet(s \o t)
  BY <1>1, <1>5 DEF ToSet
<1>7. QED BY <1>3, <1>4, <1>6

LEMMA ToSetHeadTail ==
  ASSUME NEW S, NEW s \in Seq(S), s # <<>>
  PROVE  /\ Head(s) \in S /\ Tail(s) \in Seq(S) /\ Len(Tail(s)) = Len(s) - 1
         /\ ToSet(s) = {Head(s)} \cup ToSet(Tail(s))
<1>1. /\ DOMAIN s = 1 .. Len(s) /\ Len(s) \in Nat /\ Len(s) >= 1
      /\ Head(s) = s[1] /\ Tail(s) \in Seq(S) /\ Len(Tail(s)) = Len(s) - 1
      /\ DOMAIN Tail(s) = 1 .. Len(s) - 1
      /\ \A i \in 1 .. Len(s) - 1 : Tail(s)[i] = s[i + 1]
  OBVIOUS
<1>2. ASSUME NEW i \in 1 .. Len(s) PROVE s[i] \in {Head(s)} \cup ToSet(Tail(s))
  <2>1. CASE i = 1 BY <1>1, <2>1
  <2>2. CASE i # 1
    <3>1. i - 1 \in DOMAIN Tail(s) /\ Tail(s)[i - 1] = s[i]
      BY <1>1, <2>2
    <3>2. QED BY <3>1 DEF ToSet
  <2>3. QED BY <2>1, <2>2
<1>3. ToSet(s) \subseteq {Head(s)} \cup ToSet(Tail(s))
  BY <1>1, <1>2 DEF ToSet
<1>4. Head(s) \in ToSet(s)
  BY <1>1 DEF ToSet
<1>5. ASSUME NEW i \in 1 .. Len(s) - 1 PROVE Tail(s)[i] \in ToSet(s)
  BY <1>1 DEF ToSet
<1>6. ToSet(Tail(s)) \subseteq ToSet(s)
  BY <1>1, <1>5 DEF ToSet
<1>7. QED BY <1>1, <1>3, <1>4, <1>6

\* What a drain takes, and what it leaves, is the queue; it fits in the room.
LEMMA DrainParts ==
  ASSUME queue \in Seq(Requests), tasks \in Seq(Requests), Len(tasks) <= MaxBatch
  PROVE  /\ Taken \in Seq(Requests) /\ Remaining \in Seq(Requests)
         /\ Len(tasks \o Taken) <= MaxBatch
         /\ tasks \o Taken \in Seq(Requests)
         /\ ToSet(Taken) \cup ToSet(Remaining) = ToSet(queue)
<1> DEFINE n == IF Len(queue) < Room THEN Len(queue) ELSE Room
<1>1. /\ n \in Nat /\ n <= Len(queue) /\ n <= MaxBatch - Len(tasks)
      /\ Len(queue) \in Nat /\ DOMAIN queue = 1 .. Len(queue)
      /\ Len(tasks) \in Nat /\ MaxBatch \in Nat
  BY MaxBatchAssumption DEF Room
<1>2. Taken = SubSeq(queue, 1, n)
  BY DEF Taken
<1> HIDE DEF n
<1>3. /\ Taken \in Seq(Requests) /\ Len(Taken) = n /\ DOMAIN Taken = 1 .. n
      /\ \A i \in 1 .. n : Taken[i] = queue[i]
  BY <1>1, <1>2
<1>4. Remaining = SubSeq(queue, n + 1, Len(queue))
  BY <1>3 DEF Remaining
<1>5. /\ Remaining \in Seq(Requests) /\ DOMAIN Remaining = 1 .. Len(queue) - n
      /\ \A i \in 1 .. Len(queue) - n : Remaining[i] = queue[n + i]
  BY <1>1, <1>4
<1>6. tasks \o Taken \in Seq(Requests) /\ Len(tasks \o Taken) <= MaxBatch
  BY <1>1, <1>3
<1>7. ToSet(Taken) \subseteq ToSet(queue) /\ ToSet(Remaining) \subseteq ToSet(queue)
  <2>1. ASSUME NEW i \in 1 .. n PROVE Taken[i] \in ToSet(queue)
    <3>1. i \in DOMAIN queue /\ Taken[i] = queue[i]
      BY <1>1, <1>3
    <3>2. QED BY <3>1 DEF ToSet
  <2>2. ASSUME NEW i \in 1 .. Len(queue) - n PROVE Remaining[i] \in ToSet(queue)
    <3>1. n + i \in DOMAIN queue /\ Remaining[i] = queue[n + i]
      BY <1>1, <1>5
    <3>2. QED BY <3>1 DEF ToSet
  <2>3. ToSet(Taken) \subseteq ToSet(queue)
    BY <1>3, <2>1 DEF ToSet
  <2>4. ToSet(Remaining) \subseteq ToSet(queue)
    BY <1>5, <2>2 DEF ToSet
  <2>5. QED BY <2>3, <2>4
<1>8. ASSUME NEW i \in 1 .. Len(queue)
      PROVE  queue[i] \in ToSet(Taken) \cup ToSet(Remaining)
  <2>1. CASE i <= n BY <1>1, <1>3, <2>1 DEF ToSet
  <2>2. CASE ~(i <= n)
    <3>1. i - n \in DOMAIN Remaining /\ Remaining[i - n] = queue[i]
      BY <1>1, <1>5, <2>2
    <3>2. QED BY <3>1 DEF ToSet
  <2>3. QED BY <2>1, <2>2
<1>9. ToSet(queue) \subseteq ToSet(Taken) \cup ToSet(Remaining)
  BY <1>1, <1>8 DEF ToSet
<1>10. QED BY <1>3, <1>5, <1>6, <1>7, <1>9

-----------------------------------------------------------------------------
(***************************************************************************)
(* Types and sizes.  The types need that a worker in the notify loop has   *)
(* somebody left to notify, and that needs that no empty batch is posted.  *)
(***************************************************************************)
BusyHasBatch == \A w \in Workers : wpc[w] # "idle" => wbatch[w] # <<>>

Shape == TypeOK /\ BatchBound /\ BusyHasBatch

LEMMA ShapeInit == Init => Shape
<1> SUFFICES ASSUME Init PROVE Shape
  OBVIOUS
<1>1. TypeOK
  <2>1. /\ queue \in Seq(Requests) /\ tasks \in Seq(Requests)
        /\ posted \in Seq(Seq(Requests))
        /\ wbatch \in [Workers -> Seq(Requests)] /\ wpc \in [Workers -> WorkerPcs]
    BY DEF Init, WorkerPcs
  <2>2. sched \in SchedPcs /\ expired \in BOOLEAN /\ running \in BOOLEAN
    BY DEF Init, SchedPcs
  <2>3. /\ phase \in [Requests -> {"new", "waiting", "returned"}]
        /\ outcome \in [Requests -> {"none", "ok", "error"}]
        /\ promise \in [Requests -> {"none", "live", "set", "dead"}]
    BY DEF Init
  <2>4. /\ notified \in [Requests -> BOOLEAN] /\ err \in [Requests -> BOOLEAN]
        /\ output \in [Requests -> BOOLEAN] /\ streamEnd \in [Requests -> BOOLEAN]
    BY DEF Init
  <2>5. QED BY <2>1, <2>2, <2>3, <2>4 DEF Init, TypeOK
<1>2. BatchBound
  BY MaxBatchAssumption DEF Init, BatchBound
<1>3. BusyHasBatch
  BY DEF Init, BusyHasBatch
<1>4. QED BY <1>1, <1>2, <1>3 DEF Shape

LEMMA NotifiedType ==
  ASSUME sched \in SchedPcs PROVE Notified(sched) \in SchedPcs
BY DEF SchedPcs, Notified

LEMMA InferShape ==
  ASSUME Shape, NEW r \in Requests, Infer(r) PROVE Shape'
<1> USE DEF Shape, Infer, Enqueue
<1>1. queue' \in Seq(Requests) /\ sched' \in SchedPcs
  BY NotifiedType DEF TypeOK
<1>2. TypeOK'
  BY <1>1 DEF TypeOK, stopVars, workVars
<1>3. BatchBound' /\ BusyHasBatch'
  BY DEF BatchBound, BusyHasBatch, workVars
<1>4. QED BY <1>2, <1>3

LEMMA ReturnShape ==
  ASSUME Shape, NEW r \in Requests, Return(r) PROVE Shape'
<1> USE DEF Shape, Return, schedVars, workVars, stopVars
<1>1. TypeOK'
  BY DEF TypeOK, Verdict
<1>2. BatchBound' /\ BusyHasBatch'
  BY DEF BatchBound, BusyHasBatch
<1>3. QED BY <1>1, <1>2

LEMMA RenewShape ==
  ASSUME Shape, NEW r \in Requests, Renew(r) PROVE Shape'
<1> USE DEF Shape, Renew, schedVars, workVars, stopVars
<1>1. TypeOK'
  BY DEF TypeOK
<1>2. BatchBound' /\ BusyHasBatch'
  BY DEF BatchBound, BusyHasBatch
<1>3. QED BY <1>1, <1>2

LEMMA SchedulerShape ==
  ASSUME Shape, Scheduler PROVE Shape'
<1>1. UNCHANGED <<workVars, callVars, ctxVars, stopVars>>
  BY DEF Scheduler
<1> DEFINE Sizes == /\ queue \in Seq(Requests) /\ tasks \in Seq(Requests)
                   /\ sched \in SchedPcs /\ expired \in BOOLEAN
                   /\ Len(tasks) <= MaxBatch
                   /\ posted \in Seq(Seq(Requests))
                   /\ \A i \in DOMAIN posted : Len(posted[i]) \in 1 .. MaxBatch
<1>2. Sizes'
  <2> USE DEF Shape, Goto
  <2>1. CASE Top /\ UNCHANGED posted
    BY <2>1 DEF Top, TypeOK, BatchBound, SchedPcs
  <2>2. CASE Test1 /\ UNCHANGED posted
    BY <2>2 DEF Test1, TypeOK, BatchBound, SchedPcs
  <2>3. CASE Block /\ UNCHANGED posted
    BY <2>3 DEF Block, TypeOK, BatchBound, SchedPcs
  <2>4. CASE Collect /\ UNCHANGED posted
    BY <2>4 DEF Collect, TypeOK, BatchBound, SchedPcs
  <2>5. CASE Wake2 /\ UNCHANGED posted
    BY <2>5 DEF Wake2, TypeOK, BatchBound, SchedPcs
  <2>6. CASE Timeout2 /\ UNCHANGED posted
    BY <2>6 DEF Timeout2, TypeOK, BatchBound, SchedPcs
  <2>7. CASE (Check1 \/ Check2) /\ UNCHANGED posted
    <3>1. Drain(FALSE) \/ Drain(expired)
      BY <2>7 DEF Check1, Check2
    <3>2. queue \in Seq(Requests) /\ tasks \in Seq(Requests) /\ Len(tasks) <= MaxBatch
      BY DEF TypeOK, BatchBound
    <3>3. CASE ~running
      <4>1. tasks' = <<>> /\ sched' = "exited" /\ UNCHANGED <<queue, expired>>
        BY <3>1, <3>3 DEF Drain
      <4>2. QED BY <2>7, <4>1, MaxBatchAssumption DEF TypeOK, BatchBound, SchedPcs
    <3>4. CASE running
      <4>1. tasks' = tasks \o Taken /\ queue' = Remaining /\ sched' = "collect"
            /\ expired' \in BOOLEAN
        BY <3>1, <3>4 DEF Drain, TypeOK
      <4>2. /\ queue' \in Seq(Requests) /\ tasks' \in Seq(Requests)
            /\ Len(tasks') <= MaxBatch
        BY <4>1, <3>2, DrainParts
      <4>3. QED BY <2>7, <4>1, <4>2 DEF TypeOK, BatchBound, SchedPcs
    <3>5. QED BY <3>3, <3>4
  <2>10. CASE Post
    <3>1. /\ tasks' = <<>> /\ sched' = "top" /\ expired' = FALSE /\ UNCHANGED queue
          /\ posted' = IF tasks = <<>> THEN posted ELSE Append(posted, tasks)
      BY <2>10 DEF Post
    <3>2. CASE tasks = <<>>
      BY <3>1, <3>2, MaxBatchAssumption DEF TypeOK, BatchBound, SchedPcs
    <3>3. CASE tasks # <<>>
      <4>1. Len(tasks) \in 1 .. MaxBatch
        BY <3>3, MaxBatchAssumption DEF TypeOK, BatchBound
      <4>2. posted' \in Seq(Seq(Requests)) /\ \A i \in DOMAIN posted' : Len(posted'[i]) \in 1 .. MaxBatch
        BY <3>1, <3>3, <4>1 DEF TypeOK, BatchBound
      <4>3. tasks' \in Seq(Requests) /\ Len(tasks') <= MaxBatch
        BY <3>1, MaxBatchAssumption
      <4>4. QED BY <3>1, <4>2, <4>3 DEF TypeOK, BatchBound, SchedPcs
    <3>4. QED BY <3>2, <3>3
  <2>11. QED
    BY <2>1, <2>2, <2>3, <2>4, <2>5, <2>6, <2>7, <2>10 DEF Scheduler
<1>3. TypeOK'
  BY <1>1, <1>2 DEF Shape, TypeOK, workVars, callVars, ctxVars, stopVars
<1>4. BatchBound' /\ BusyHasBatch'
  BY <1>1, <1>2 DEF Shape, BatchBound, BusyHasBatch, workVars
<1>5. QED BY <1>3, <1>4 DEF Shape

LEMMA TakeShape ==
  ASSUME Shape, NEW w \in Workers, Take(w) PROVE Shape'
<1> USE DEF Shape, Take, schedVars, callVars, ctxVars, stopVars
<1>1. /\ Head(posted) \in Seq(Requests) /\ Tail(posted) \in Seq(Seq(Requests))
      /\ Len(Head(posted)) \in 1 .. MaxBatch
      /\ \A i \in DOMAIN Tail(posted) : Len(Tail(posted)[i]) \in 1 .. MaxBatch
  <2>1. /\ DOMAIN posted = 1 .. Len(posted) /\ Len(posted) \in Nat /\ Len(posted) >= 1
        /\ Head(posted) = posted[1] /\ Tail(posted) \in Seq(Seq(Requests))
        /\ Len(Tail(posted)) = Len(posted) - 1
        /\ DOMAIN Tail(posted) = 1 .. Len(posted) - 1
        /\ \A i \in 1 .. Len(posted) - 1 : Tail(posted)[i] = posted[i + 1]
    BY DEF TypeOK
  <2>2. posted[1] \in Seq(Requests) /\ Len(posted[1]) \in 1 .. MaxBatch
    <3>1. 1 \in DOMAIN posted
      BY <2>1
    <3>2. posted \in Seq(Seq(Requests))
      BY DEF TypeOK
    <3>3. posted[1] \in Seq(Requests)
      BY <3>1, <3>2
    <3>4. QED BY <3>1, <3>3 DEF BatchBound
  <2>3. ASSUME NEW i \in 1 .. Len(posted) - 1
        PROVE  Len(Tail(posted)[i]) \in 1 .. MaxBatch
    <3>1. i + 1 \in DOMAIN posted
      BY <2>1
    <3>2. QED BY <2>1, <3>1 DEF BatchBound
  <2>4. QED BY <2>1, <2>2, <2>3
<1>2. TypeOK'
  BY <1>1 DEF TypeOK, WorkerPcs, Stages
<1>3. BatchBound'
  BY <1>1 DEF BatchBound, TypeOK
<1>4. BusyHasBatch'
  <2>1. Head(posted) # <<>>
    BY <1>1
  <2>2. QED BY <2>1 DEF BusyHasBatch, TypeOK
<1>5. QED BY <1>2, <1>3, <1>4

LEMMA StageShape ==
  ASSUME Shape, NEW w \in Workers, Stage(w) PROVE Shape'
<1> USE DEF Shape, Stage, schedVars, callVars, stopVars
<1>1. err' \in [Requests -> BOOLEAN] /\ output' \in [Requests -> BOOLEAN]
  OBVIOUS
<1>2. /\ wpc' \in [Workers -> WorkerPcs]
      /\ \A v \in Workers : wpc'[v] # "idle" => wpc[v] # "idle"
  BY DEF TypeOK, NextPc, LastStage, WorkerPcs, Stages
<1>3. TypeOK'
  BY <1>1, <1>2 DEF TypeOK
<1>4. BatchBound'
  BY DEF BatchBound
<1>5. BusyHasBatch'
  BY <1>2 DEF BusyHasBatch
<1>6. QED BY <1>3, <1>4, <1>5

LEMMA ThrowShape ==
  ASSUME Shape, NEW w \in Workers, Throw(w) PROVE Shape'
<1> USE DEF Shape, Throw, schedVars, callVars, ctxVars, stopVars
<1>1. TypeOK'
  BY DEF TypeOK, WorkerPcs
<1>2. BatchBound' /\ BusyHasBatch'
  BY DEF BatchBound, BusyHasBatch, TypeOK, Stages
<1>3. QED BY <1>1, <1>2

LEMMA StreamFinalShape ==
  ASSUME Shape, NEW w \in Workers, NEW r \in Requests, StreamFinal(w, r) PROVE Shape'
<1> USE DEF Shape, StreamFinal, BatcherPromiseNotify, schedVars, callVars,
            workVars, stopVars
<1>1. TypeOK'
  BY DEF TypeOK
<1>2. BatchBound' /\ BusyHasBatch'
  BY DEF BatchBound, BusyHasBatch
<1>3. QED BY <1>1, <1>2

LEMMA NotifyShape ==
  ASSUME Shape, NEW w \in Workers, Notify(w) PROVE Shape'
<1> USE DEF Shape, Notify, BatcherPromiseNotify, schedVars, callVars, stopVars
<1>1. /\ wbatch[w] \in Seq(Requests) /\ wbatch[w] # <<>>
      /\ Len(wbatch[w]) <= MaxBatch
  BY DEF TypeOK, BusyHasBatch, BatchBound
<1>2. /\ Head(wbatch[w]) \in Requests /\ Tail(wbatch[w]) \in Seq(Requests)
      /\ Len(Tail(wbatch[w])) = Len(wbatch[w]) - 1
  BY <1>1
<1>3. err' \in [Requests -> BOOLEAN] /\ notified' \in [Requests -> BOOLEAN]
  BY <1>2 DEF TypeOK
<1>4. promise' \in [Requests -> {"none", "live", "set", "dead"}]
  BY <1>2 DEF TypeOK
<1>5. wbatch' \in [Workers -> Seq(Requests)] /\ wpc' \in [Workers -> WorkerPcs]
  BY <1>2 DEF TypeOK, WorkerPcs
<1>6. TypeOK'
  BY <1>3, <1>4, <1>5 DEF TypeOK
<1>7. BatchBound'
  BY <1>1, <1>2, MaxBatchAssumption DEF BatchBound, TypeOK
<1>8. BusyHasBatch'
  <2>1. ASSUME NEW v \in Workers, wpc'[v] # "idle" PROVE wbatch'[v] # <<>>
    <3>1. CASE v = w
      <4>1. Len(wbatch[w]) # 1
        BY <2>1, <3>1 DEF TypeOK
      <4>2. Tail(wbatch[w]) # <<>>
        <5>1. Len(wbatch[w]) \in Nat /\ Len(wbatch[w]) # 0
          BY <1>1
        <5>2. Len(Tail(wbatch[w])) # 0
          BY <1>2, <4>1, <5>1
        <5>3. QED BY <1>2, <5>2, EmptySeq
      <4>3. QED BY <1>2, <3>1, <4>2 DEF TypeOK
    <3>2. CASE v # w
      BY <2>1, <3>2 DEF TypeOK, BusyHasBatch
    <3>3. QED BY <3>1, <3>2
  <2>2. QED BY <2>1 DEF BusyHasBatch
<1>9. QED BY <1>6, <1>7, <1>8

LEMMA StopShape ==
  ASSUME Shape, StopFlag \/ StopNotify \/ StopJoin PROVE Shape'
<1> USE DEF Shape, StopFlag, StopNotify, StopJoin, schedVars, callVars,
            ctxVars, workVars
<1>1. sched' \in SchedPcs
  BY NotifiedType DEF TypeOK
<1>2. TypeOK'
  BY <1>1 DEF TypeOK
<1>3. BatchBound' /\ BusyHasBatch'
  BY DEF BatchBound, BusyHasBatch
<1>4. QED BY <1>2, <1>3

LEMMA ClockShape ==
  ASSUME Shape, Expire \/ SpuriousWakeup PROVE Shape'
<1> USE DEF Shape, Expire, SpuriousWakeup, callVars, ctxVars, workVars, stopVars
<1>1. sched' \in SchedPcs
  BY NotifiedType DEF TypeOK
<1>2. TypeOK'
  BY <1>1 DEF TypeOK
<1>3. BatchBound' /\ BusyHasBatch'
  BY DEF BatchBound, BusyHasBatch
<1>4. QED BY <1>2, <1>3

LEMMA ShapeNext == Shape /\ [Next]_vars => Shape'
<1> SUFFICES ASSUME Shape, [Next]_vars PROVE Shape'
  OBVIOUS
<1>1. CASE UNCHANGED vars
  BY <1>1 DEF vars, schedVars, workVars, callVars, ctxVars, stopVars,
              Shape, TypeOK, BatchBound, BusyHasBatch
<1>2. ASSUME NEW r \in Requests, Infer(r) \/ Return(r) \/ Renew(r) PROVE Shape'
  BY <1>2, InferShape, ReturnShape, RenewShape
<1>3. ASSUME NEW w \in Workers, WorkerStep(w) PROVE Shape'
  BY <1>3, TakeShape, StageShape, ThrowShape, NotifyShape DEF WorkerStep
<1>4. ASSUME NEW w \in Workers, NEW r \in Requests, StreamFinal(w, r) PROVE Shape'
  BY <1>4, StreamFinalShape
<1>5. QED
  BY <1>1, <1>2, <1>3, <1>4, SchedulerShape, StopShape, ClockShape DEF Next

LEMMA ShapeInvariant == Spec => []Shape
BY ShapeInit, ShapeNext, PTL DEF Spec

(***************************************************************************)
(* Every function of batcher.cc keeps the shape of the state, for any      *)
(* number of requests, workers and any batch size.                         *)
(***************************************************************************)
THEOREM TypeCorrect == Spec => []TypeOK
<1>1. Shape => TypeOK
  BY DEF Shape
<1>2. QED BY <1>1, ShapeInvariant, PTL

(***************************************************************************)
(* No batch under construction, posted or running exceeds max_batch_size.  *)
(***************************************************************************)
THEOREM BatchesBounded == Spec => []BatchBound
<1>1. Shape => BatchBound
  BY DEF Shape
<1>2. QED BY <1>1, ShapeInvariant, PTL

-----------------------------------------------------------------------------
(***************************************************************************)
(* How each step changes the set of contexts that some Task still holds.   *)
(***************************************************************************)
TasksOf(p) == UNION {ToSet(p[i]) : i \in DOMAIN p}
BatchesOf(b) == UNION {ToSet(b[w]) : w \in Workers}

IdleHoldsNothing == \A w \in Workers : wpc[w] = "idle" => wbatch[w] = <<>>

LEMMA HeldParts ==
  Held = ToSet(queue) \cup ToSet(tasks) \cup TasksOf(posted) \cup BatchesOf(wbatch)
BY DEF Held, PostedTasks, WorkerTasks, TasksOf, BatchesOf

LEMMA PostedBySet ==
  ASSUME NEW p PROVE TasksOf(p) = UNION {ToSet(b) : b \in ToSet(p)}
BY DEF TasksOf, ToSet

LEMMA PostedAppend ==
  ASSUME NEW p \in Seq(Seq(Requests)), NEW b \in Seq(Requests)
  PROVE  TasksOf(Append(p, b)) = TasksOf(p) \cup ToSet(b)
<1>1. ToSet(Append(p, b)) = ToSet(p) \cup {b}
  BY ToSetAppend
<1>2. QED BY <1>1, PostedBySet

LEMMA PostedHeadTail ==
  ASSUME NEW p \in Seq(Seq(Requests)), p # <<>>
  PROVE  TasksOf(p) = ToSet(Head(p)) \cup TasksOf(Tail(p))
<1>1. ToSet(p) = {Head(p)} \cup ToSet(Tail(p))
  BY ToSetHeadTail
<1>2. QED BY <1>1, PostedBySet

\* A worker's batch is replaced by b.
LEMMA WorkerReplace ==
  ASSUME NEW f \in [Workers -> Seq(Requests)], NEW w \in Workers, NEW b
  PROVE  BatchesOf([f EXCEPT ![w] = b])
           = ToSet(b) \cup UNION {ToSet(f[v]) : v \in Workers \ {w}}
BY DEF BatchesOf

LEMMA WorkerSplit ==
  ASSUME NEW f \in [Workers -> Seq(Requests)], NEW w \in Workers
  PROVE  BatchesOf(f) = ToSet(f[w]) \cup UNION {ToSet(f[v]) : v \in Workers \ {w}}
BY DEF BatchesOf

LEMMA HeldInRequests == ASSUME Shape PROVE Held \subseteq Requests
<1>1. \A i \in DOMAIN posted : posted[i] \in Seq(Requests)
  BY DEF Shape, TypeOK
<1>2. PostedTasks \subseteq Requests
  BY <1>1, ToSetType DEF PostedTasks
<1>3. WorkerTasks \subseteq Requests
  BY ToSetType DEF WorkerTasks, Shape, TypeOK
<1>4. QED BY <1>2, <1>3, ToSetType DEF Held, Shape, TypeOK

LEMMA HeldUnchanged ==
  ASSUME UNCHANGED <<queue, tasks, posted, wbatch>> PROVE Held' = Held
BY DEF Held, PostedTasks, WorkerTasks

LEMMA InferHeld ==
  ASSUME Shape, NEW r \in Requests, Infer(r) PROVE Held' = Held \cup {r}
<1>1. queue' = Append(queue, r) /\ UNCHANGED <<tasks, posted, wbatch>>
  BY DEF Infer, Enqueue, workVars
<1>2. ToSet(queue') = ToSet(queue) \cup {r}
  BY <1>1, ToSetAppend DEF Shape, TypeOK
<1>3. QED BY <1>1, <1>2 DEF Held, PostedTasks, WorkerTasks

\* The schedule thread forgets a task only when the batcher is stopped.
LEMMA SchedulerHeld ==
  ASSUME Shape, Scheduler
  PROVE  Held' \subseteq Held /\ (running => Held' = Held)
<1>1. UNCHANGED wbatch
  BY DEF Scheduler, workVars
<1>2. /\ queue \in Seq(Requests) /\ tasks \in Seq(Requests)
      /\ Len(tasks) <= MaxBatch /\ posted \in Seq(Seq(Requests))
  BY DEF Shape, TypeOK, BatchBound
<1>3. CASE Post
  <2>1. /\ UNCHANGED queue /\ tasks' = <<>>
        /\ posted' = IF tasks = <<>> THEN posted ELSE Append(posted, tasks)
    BY <1>3 DEF Post
  <2>2. ToSet(<<>>) = {}
    BY DEF ToSet
  <2>3. TasksOf(posted') = TasksOf(posted) \cup ToSet(tasks)
    <3>1. CASE tasks = <<>> BY <2>1, <2>2, <3>1
    <3>2. CASE tasks # <<>> BY <2>1, <1>2, <3>2, PostedAppend
    <3>3. QED BY <3>1, <3>2
  <2>4. Held' = ToSet(queue) \cup ToSet(tasks') \cup TasksOf(posted') \cup BatchesOf(wbatch)
    BY <1>1, <2>1 DEF Held, PostedTasks, WorkerTasks, TasksOf, BatchesOf
  <2>5. QED BY <2>1, <2>2, <2>3, <2>4, HeldParts
<1>4. CASE (Check1 \/ Check2) /\ UNCHANGED posted
  <2>1. Drain(FALSE) \/ Drain(expired)
    BY <1>4 DEF Check1, Check2
  <2>2. CASE ~running
    <3>1. UNCHANGED queue /\ ToSet(tasks') = {}
      BY <2>1, <2>2 DEF Drain, ToSet
    <3>2. QED BY <1>1, <1>4, <2>2, <3>1 DEF Held, PostedTasks, WorkerTasks
  <2>3. CASE running
    <3>1. tasks' = tasks \o Taken /\ queue' = Remaining
      BY <2>1, <2>3 DEF Drain
    <3>2. /\ Taken \in Seq(Requests)
          /\ ToSet(Taken) \cup ToSet(Remaining) = ToSet(queue)
      BY <1>2, DrainParts
    <3>3. ToSet(tasks') = ToSet(tasks) \cup ToSet(Taken)
      BY <1>2, <3>1, <3>2, ToSetConcat
    <3>4. QED BY <1>1, <1>4, <3>1, <3>2, <3>3 DEF Held, PostedTasks, WorkerTasks
  <2>4. QED BY <2>2, <2>3
<1>5. CASE UNCHANGED <<queue, tasks, posted>>
  BY <1>1, <1>5, HeldUnchanged
<1>6. QED
  BY <1>3, <1>4, <1>5 DEF Scheduler, Top, Test1, Block, Collect, Wake2, Timeout2

LEMMA TakeHeld ==
  ASSUME Shape, IdleHoldsNothing, NEW w \in Workers, Take(w)
  PROVE  Held' = Held
<1>1. /\ UNCHANGED <<queue, tasks>> /\ posted # <<>> /\ posted' = Tail(posted)
      /\ wbatch' = [wbatch EXCEPT ![w] = Head(posted)]
  BY DEF Take, schedVars
<1>2. posted \in Seq(Seq(Requests)) /\ wbatch \in [Workers -> Seq(Requests)]
  BY DEF Shape, TypeOK
<1>3. ToSet(wbatch[w]) = {}
  BY DEF Take, IdleHoldsNothing, ToSet
<1>4. BatchesOf(wbatch') = ToSet(Head(posted)) \cup BatchesOf(wbatch)
  <2>1. BatchesOf(wbatch') = ToSet(Head(posted))
                               \cup UNION {ToSet(wbatch[v]) : v \in Workers \ {w}}
    BY <1>1, <1>2, WorkerReplace
  <2>2. BatchesOf(wbatch) = ToSet(wbatch[w])
                              \cup UNION {ToSet(wbatch[v]) : v \in Workers \ {w}}
    BY <1>2, WorkerSplit
  <2>3. QED BY <1>3, <2>1, <2>2
<1>5. TasksOf(posted) = ToSet(Head(posted)) \cup TasksOf(posted')
  BY <1>1, <1>2, PostedHeadTail
<1>6. Held' = ToSet(queue) \cup ToSet(tasks) \cup TasksOf(posted') \cup BatchesOf(wbatch')
  BY <1>1 DEF Held, PostedTasks, WorkerTasks, TasksOf, BatchesOf
<1>7. QED BY <1>4, <1>5, <1>6, HeldParts

\* One turn of a notify loop drops at most the request it notifies.
LEMMA NotifyHeld ==
  ASSUME Shape, NEW w \in Workers, Notify(w)
  PROVE  /\ Head(wbatch[w]) \in Held \cap Requests
         /\ Held' \subseteq Held /\ Held \subseteq Held' \cup {Head(wbatch[w])}
<1>1. /\ UNCHANGED <<queue, tasks, posted>>
      /\ wbatch' = [wbatch EXCEPT ![w] = Tail(wbatch[w])]
  BY DEF Notify, schedVars, Shape, TypeOK
<1>2. /\ wbatch \in [Workers -> Seq(Requests)]
      /\ wbatch[w] \in Seq(Requests) /\ wbatch[w] # <<>>
  BY DEF Shape, TypeOK, BusyHasBatch, Notify
<1>3. /\ ToSet(wbatch[w]) = {Head(wbatch[w])} \cup ToSet(Tail(wbatch[w]))
      /\ Head(wbatch[w]) \in Requests
  BY <1>2, ToSetHeadTail
<1>4. /\ BatchesOf(wbatch') = ToSet(Tail(wbatch[w]))
                        \cup UNION {ToSet(wbatch[v]) : v \in Workers \ {w}}
      /\ BatchesOf(wbatch) = ToSet(wbatch[w])
                        \cup UNION {ToSet(wbatch[v]) : v \in Workers \ {w}}
  BY <1>1, <1>2, WorkerReplace, WorkerSplit
<1>5. Held' = ToSet(queue) \cup ToSet(tasks) \cup TasksOf(posted) \cup BatchesOf(wbatch')
  BY <1>1 DEF Held, PostedTasks, WorkerTasks, TasksOf, BatchesOf
<1>6. QED BY <1>3, <1>4, <1>5, HeldParts

LEMMA WorkerBatchHeld ==
  ASSUME NEW w \in Workers PROVE ToSet(wbatch[w]) \subseteq Held
BY DEF Held, WorkerTasks

-----------------------------------------------------------------------------
(***************************************************************************)
(* The ledger: what ties the containers to the callers.  PromiseOnStack    *)
(* needs that a context held by a Task has a caller that entered Infer;    *)
(* AnswerJustified needs that whoever is left in a notify loop is in error *)
(* or has its output; NoTaskLost needs that an idle worker holds nothing.  *)
(***************************************************************************)
HeldCalled == \A r \in Held : phase[r] # "new"

PromiseFromInfer == \A r \in Requests : phase[r] = "new" <=> promise[r] = "none"

NotifyingDone ==
  \A w \in Workers : wpc[w] = "notify" =>
    \A r \in ToSet(wbatch[w]) : err[r] \/ output[r]

NotifiedDone ==
  \A r \in Requests : notified[r] => err[r] \/ output[r] \/ streamEnd[r]

Ledger ==
  /\ Shape
  /\ IdleHoldsNothing /\ HeldCalled /\ PromiseFromInfer
  /\ NotifyingDone /\ NotifiedDone
  /\ PromiseOnStack /\ AnswerJustified /\ NoTaskLost

\* The conjuncts about contexts survive a step that changes no context and no
\* caller and holds no more than before.
LEMMA LedgerKept ==
  ASSUME Ledger, Shape', UNCHANGED <<callVars, ctxVars>>, Held' \subseteq Held
  PROVE  /\ HeldCalled' /\ PromiseFromInfer' /\ NotifiedDone'
         /\ PromiseOnStack' /\ AnswerJustified'
<1> USE DEF Ledger, callVars, ctxVars
<1>1. HeldCalled'
  BY DEF HeldCalled
<1>2. PromiseFromInfer' /\ NotifiedDone'
  BY DEF PromiseFromInfer, NotifiedDone
<1>3. PromiseOnStack' /\ AnswerJustified'
  BY DEF PromiseOnStack, AnswerJustified
<1>4. QED BY <1>1, <1>2, <1>3

LEMMA LedgerInit == Init => Ledger
<1> SUFFICES ASSUME Init PROVE Ledger
  OBVIOUS
<1>1. Shape
  BY ShapeInit
<1>2. IdleHoldsNothing /\ PromiseFromInfer /\ NotifyingDone /\ NotifiedDone
  BY DEF Init, IdleHoldsNothing, PromiseFromInfer, NotifyingDone, NotifiedDone
<1>3. Held = {}
  BY DEF Init, Held, PostedTasks, WorkerTasks, ToSet
<1>4. HeldCalled
  BY <1>3 DEF HeldCalled
<1>5. PromiseOnStack /\ AnswerJustified /\ NoTaskLost
  BY DEF Init, PromiseOnStack, AnswerJustified, NoTaskLost
<1>6. QED BY <1>1, <1>2, <1>4, <1>5 DEF Ledger

LEMMA InferLedger ==
  ASSUME Ledger, NEW r \in Requests, Infer(r) PROVE Ledger'
<1> USE DEF Ledger
<1>1. Shape' /\ Held' = Held \cup {r}
  BY InferShape, InferHeld
<1>2. /\ phase[r] = "new" /\ phase' = [phase EXCEPT ![r] = "waiting"]
      /\ promise' = [promise EXCEPT ![r] = "live"]
      /\ UNCHANGED <<wpc, wbatch, outcome, notified, err, output, streamEnd, running>>
      /\ phase \in [Requests -> {"new", "waiting", "returned"}]
      /\ promise \in [Requests -> {"none", "live", "set", "dead"}]
  BY DEF Infer, workVars, stopVars, Shape, TypeOK
<1>3. IdleHoldsNothing' /\ NotifyingDone' /\ NotifiedDone' /\ AnswerJustified'
  BY <1>2 DEF IdleHoldsNothing, NotifyingDone, NotifiedDone, AnswerJustified
<1>4. HeldCalled'
  <2>1. Held \subseteq Requests
    BY HeldInRequests
  <2>2. QED BY <1>1, <1>2, <2>1 DEF HeldCalled
<1>5. PromiseFromInfer'
  BY <1>2 DEF PromiseFromInfer
<1>6. PromiseOnStack'
  BY <1>2 DEF PromiseOnStack, PromiseFromInfer
<1>7. NoTaskLost'
  BY <1>1, <1>2 DEF NoTaskLost
<1>8. QED BY <1>1, <1>3, <1>4, <1>5, <1>6, <1>7

LEMMA ReturnLedger ==
  ASSUME Ledger, NEW r \in Requests, Return(r) PROVE Ledger'
<1> USE DEF Ledger
<1>1. Shape' /\ Held' = Held
  BY ReturnShape, HeldUnchanged DEF Return, schedVars, workVars
<1>2. /\ phase[r] = "waiting" /\ phase' = [phase EXCEPT ![r] = "returned"]
      /\ promise[r] = "set" /\ promise' = [promise EXCEPT ![r] = "dead"]
      /\ outcome' = [outcome EXCEPT ![r] = IF err[r] THEN "error" ELSE "ok"]
      /\ UNCHANGED <<wpc, wbatch, notified, err, output, streamEnd, running>>
      /\ phase \in [Requests -> {"new", "waiting", "returned"}]
      /\ promise \in [Requests -> {"none", "live", "set", "dead"}]
      /\ outcome \in [Requests -> {"none", "ok", "error"}]
  BY DEF Return, Verdict, workVars, stopVars, Shape, TypeOK
<1>3. IdleHoldsNothing' /\ NotifyingDone' /\ NotifiedDone'
  BY <1>2 DEF IdleHoldsNothing, NotifyingDone, NotifiedDone
<1>4. HeldCalled' /\ PromiseFromInfer'
  <2>1. Held \subseteq Requests
    BY HeldInRequests
  <2>2. QED BY <1>1, <1>2, <2>1 DEF HeldCalled, PromiseFromInfer
<1>5. PromiseOnStack'
  BY <1>2 DEF PromiseOnStack
<1>6. AnswerJustified'
  BY <1>2 DEF AnswerJustified, NotifiedDone, PromiseOnStack
<1>7. NoTaskLost'
  BY <1>1, <1>2 DEF NoTaskLost
<1>8. QED BY <1>1, <1>3, <1>4, <1>5, <1>6, <1>7

LEMMA RenewLedger ==
  ASSUME Ledger, NEW r \in Requests, Renew(r) PROVE Ledger'
<1> USE DEF Ledger
<1>1. Shape' /\ Held' = Held
  BY RenewShape, HeldUnchanged DEF Renew, schedVars, workVars
<1>2. /\ r \notin Held /\ phase' = [phase EXCEPT ![r] = "new"]
      /\ promise' = [promise EXCEPT ![r] = "none"]
      /\ outcome' = [outcome EXCEPT ![r] = "none"]
      /\ notified' = [notified EXCEPT ![r] = FALSE]
      /\ err' = [err EXCEPT ![r] = FALSE] /\ output' = [output EXCEPT ![r] = FALSE]
      /\ streamEnd' = [streamEnd EXCEPT ![r] = FALSE]
      /\ UNCHANGED <<wpc, wbatch, running>>
  BY DEF Renew, workVars, stopVars
<1>3. /\ phase \in [Requests -> {"new", "waiting", "returned"}]
      /\ promise \in [Requests -> {"none", "live", "set", "dead"}]
      /\ outcome \in [Requests -> {"none", "ok", "error"}]
      /\ notified \in [Requests -> BOOLEAN] /\ err \in [Requests -> BOOLEAN]
      /\ output \in [Requests -> BOOLEAN] /\ streamEnd \in [Requests -> BOOLEAN]
      /\ Held \subseteq Requests
  BY HeldInRequests DEF Shape, TypeOK
<1>4. IdleHoldsNothing'
  BY <1>2 DEF IdleHoldsNothing
<1>5. NotifyingDone'
  <2>1. ASSUME NEW w \in Workers, wpc[w] = "notify", NEW q \in ToSet(wbatch[w])
        PROVE  err'[q] \/ output'[q]
    <3>1. q \in Held
      BY <2>1, WorkerBatchHeld
    <3>2. QED BY <1>2, <1>3, <2>1, <3>1 DEF NotifyingDone
  <2>2. QED BY <1>2, <2>1 DEF NotifyingDone
<1>6. NotifiedDone'
  BY <1>2, <1>3 DEF NotifiedDone
<1>7. HeldCalled' /\ PromiseFromInfer'
  BY <1>1, <1>2, <1>3 DEF HeldCalled, PromiseFromInfer
<1>8. PromiseOnStack'
  BY <1>2, <1>3 DEF PromiseOnStack
<1>9. AnswerJustified'
  BY <1>2, <1>3 DEF AnswerJustified
<1>10. NoTaskLost'
  BY <1>1, <1>2, <1>3 DEF NoTaskLost
<1>11. QED BY <1>1, <1>4, <1>5, <1>6, <1>7, <1>8, <1>9, <1>10

LEMMA SchedulerLedger ==
  ASSUME Ledger, Scheduler PROVE Ledger'
<1> USE DEF Ledger
<1>1. Shape' /\ Held' \subseteq Held /\ (running => Held' = Held)
  BY SchedulerShape, SchedulerHeld
<1>2. UNCHANGED <<wpc, wbatch, callVars, ctxVars, running>>
  BY DEF Scheduler, workVars, stopVars
<1>3. IdleHoldsNothing' /\ NotifyingDone'
  BY <1>2 DEF IdleHoldsNothing, NotifyingDone, ctxVars
<1>4. NoTaskLost'
  BY <1>1, <1>2 DEF NoTaskLost, callVars, ctxVars
<1>5. QED BY <1>1, <1>2, <1>3, <1>4, LedgerKept

LEMMA TakeLedger ==
  ASSUME Ledger, NEW w \in Workers, Take(w) PROVE Ledger'
<1> USE DEF Ledger
<1>1. Shape' /\ Held' = Held
  BY TakeShape, TakeHeld
<1>2. UNCHANGED <<callVars, ctxVars, running>>
  BY DEF Take, stopVars
<1>3. /\ wpc' = [wpc EXCEPT ![w] = IF HasConverter THEN "pre" ELSE "infer"]
      /\ wbatch' = [wbatch EXCEPT ![w] = Head(posted)]
      /\ wpc \in [Workers -> WorkerPcs] /\ wbatch \in [Workers -> Seq(Requests)]
  BY DEF Take, Shape, TypeOK
<1>4. IdleHoldsNothing' /\ NotifyingDone'
  BY <1>2, <1>3 DEF IdleHoldsNothing, NotifyingDone, ctxVars
<1>5. NoTaskLost'
  BY <1>1, <1>2 DEF NoTaskLost, callVars, ctxVars
<1>6. QED BY <1>1, <1>2, <1>4, <1>5, LedgerKept

\* A batch goes to its notify loop when all are in error, or after the last
\* stage, which has filled the outputs of the others.
LEMMA StageLedger ==
  ASSUME Ledger, NEW w \in Workers, Stage(w) PROVE Ledger'
<1> USE DEF Ledger
<1>1. Shape' /\ Held' = Held
  BY StageShape, HeldUnchanged DEF Stage, schedVars
<1>2. /\ wpc[w] \in Stages
      /\ UNCHANGED <<wbatch, phase, outcome, promise, notified, streamEnd, running>>
      /\ wpc \in [Workers -> WorkerPcs]
      /\ wbatch[w] \in Seq(Requests)
  BY DEF Stage, callVars, stopVars, Shape, TypeOK
<1>3. PICK bad \in SUBSET ToSet(wbatch[w]) :
        /\ err' = [r \in Requests |-> err[r] \/ r \in bad]
        /\ output' = [r \in Requests |->
                        \/ output[r]
                        \/ /\ wpc[w] = LastStage
                           /\ r \in ToSet(wbatch[w])
                           /\ ~err'[r]]
        /\ wpc' = [wpc EXCEPT ![w] = IF AllErr(wbatch[w], err')
                                     THEN "notify" ELSE NextPc(wpc[w])]
  BY DEF Stage
<1>4. \A r \in Requests : (err[r] => err'[r]) /\ (output[r] => output'[r])
  BY <1>3
<1>5. IdleHoldsNothing'
  BY <1>2, <1>3 DEF IdleHoldsNothing, NextPc, Stages
<1>6. NotifyingDone'
  <2>1. ASSUME NEW v \in Workers, wpc'[v] = "notify", NEW q \in ToSet(wbatch[v])
        PROVE  err'[q] \/ output'[q]
    <3>1. q \in Requests
      BY WorkerBatchHeld, HeldInRequests
    <3>2. CASE v # w
      BY <1>2, <1>3, <1>4, <2>1, <3>1, <3>2 DEF NotifyingDone
    <3>3. CASE v = w /\ AllErr(wbatch[w], err')
      BY <2>1, <3>3 DEF AllErr
    <3>4. CASE v = w /\ ~AllErr(wbatch[w], err')
      <4>1. wpc[w] = LastStage
        BY <1>2, <1>3, <2>1, <3>4 DEF NextPc, Stages
      <4>2. QED BY <1>3, <2>1, <3>1, <3>4, <4>1
    <3>5. QED BY <3>2, <3>3, <3>4
  <2>2. QED BY <1>2, <2>1 DEF NotifyingDone
<1>7. NotifiedDone' /\ AnswerJustified'
  BY <1>2, <1>4 DEF NotifiedDone, AnswerJustified
<1>8. HeldCalled' /\ PromiseFromInfer' /\ PromiseOnStack'
  BY <1>1, <1>2 DEF HeldCalled, PromiseFromInfer, PromiseOnStack
<1>9. NoTaskLost'
  BY <1>1, <1>2 DEF NoTaskLost
<1>10. QED BY <1>1, <1>5, <1>6, <1>7, <1>8, <1>9

LEMMA ThrowLedger ==
  ASSUME Ledger, NEW w \in Workers, Throw(w) PROVE Ledger'
<1> USE DEF Ledger
<1>1. Shape' /\ Held' = Held
  BY ThrowShape, HeldUnchanged DEF Throw, schedVars
<1>2. /\ wpc' = [wpc EXCEPT ![w] = "fail"]
      /\ UNCHANGED <<wbatch, callVars, ctxVars, running>>
      /\ wpc \in [Workers -> WorkerPcs]
  BY DEF Throw, stopVars, Shape, TypeOK
<1>3. IdleHoldsNothing' /\ NotifyingDone'
  BY <1>2 DEF IdleHoldsNothing, NotifyingDone, ctxVars
<1>4. NoTaskLost'
  BY <1>1, <1>2 DEF NoTaskLost, callVars, ctxVars
<1>5. QED BY <1>1, <1>2, <1>3, <1>4, LedgerKept

\* What the once flag gives: a promise is set only while its caller waits.
LEMMA NotifyKeepsPromise ==
  ASSUME Ledger, Shape', NEW r \in Requests, r \in Held, BatcherPromiseNotify(r),
         UNCHANGED phase
  PROVE  PromiseOnStack' /\ PromiseFromInfer'
<1>1. /\ phase \in [Requests -> {"new", "waiting", "returned"}]
      /\ promise \in [Requests -> {"none", "live", "set", "dead"}]
      /\ notified \in [Requests -> BOOLEAN]
      /\ phase[r] # "new"
  BY DEF Ledger, Shape, TypeOK, HeldCalled
<1>2. /\ notified' = [notified EXCEPT ![r] = TRUE]
      /\ promise' = [promise EXCEPT ![r] = IF notified[r] THEN promise[r] ELSE "set"]
  BY <1>1 DEF BatcherPromiseNotify
<1>3. CASE notified[r]
  BY <1>1, <1>2, <1>3 DEF Ledger, PromiseOnStack, PromiseFromInfer
<1>4. CASE ~notified[r]
  <2>1. promise[r] \notin {"none", "set", "dead"}
    BY <1>1, <1>4 DEF Ledger, PromiseOnStack, PromiseFromInfer
  <2>2. phase[r] = "waiting"
    BY <1>1, <2>1 DEF Ledger, PromiseOnStack
  <2>3. QED BY <1>1, <1>2, <1>4, <2>2 DEF Ledger, PromiseOnStack, PromiseFromInfer
<1>5. QED BY <1>1, <1>3, <1>4

LEMMA StreamFinalLedger ==
  ASSUME Ledger, NEW w \in Workers, NEW r \in Requests, StreamFinal(w, r)
  PROVE  Ledger'
<1> USE DEF Ledger
<1>1. Shape' /\ Held' = Held
  BY StreamFinalShape, HeldUnchanged DEF StreamFinal, schedVars, workVars
<1>2. /\ BatcherPromiseNotify(r) /\ r \in Held
      /\ streamEnd' = [streamEnd EXCEPT ![r] = TRUE]
      /\ notified' = [notified EXCEPT ![r] = TRUE]
      /\ UNCHANGED <<wpc, wbatch, phase, outcome, err, output, running>>
      /\ streamEnd \in [Requests -> BOOLEAN] /\ notified \in [Requests -> BOOLEAN]
  BY WorkerBatchHeld
     DEF StreamFinal, BatcherPromiseNotify, workVars, callVars, stopVars, Shape, TypeOK
<1>3. PromiseOnStack' /\ PromiseFromInfer'
  BY <1>1, <1>2, NotifyKeepsPromise
<1>4. IdleHoldsNothing' /\ NotifyingDone' /\ HeldCalled'
  BY <1>1, <1>2 DEF IdleHoldsNothing, NotifyingDone, HeldCalled
<1>5. NotifiedDone' /\ AnswerJustified'
  BY <1>2 DEF NotifiedDone, AnswerJustified
<1>6. NoTaskLost'
  BY <1>1, <1>2 DEF NoTaskLost
<1>7. QED BY <1>1, <1>3, <1>4, <1>5, <1>6

LEMMA NotifyLedger ==
  ASSUME Ledger, NEW w \in Workers, Notify(w) PROVE Ledger'
<1> USE DEF Ledger
<1> DEFINE r == Head(wbatch[w])
<1>1. /\ Shape' /\ r \in Held /\ r \in Requests
      /\ Held' \subseteq Held /\ Held \subseteq Held' \cup {r}
  BY NotifyShape, NotifyHeld
<1>2. /\ wpc[w] \in {"notify", "fail"}
      /\ BatcherPromiseNotify(r)
      /\ err' = [err EXCEPT ![r] = err[r] \/ wpc[w] = "fail"]
      /\ wbatch' = [wbatch EXCEPT ![w] = Tail(wbatch[w])]
      /\ wpc' = [wpc EXCEPT ![w] = IF Len(wbatch[w]) = 1 THEN "idle" ELSE wpc[w]]
      /\ UNCHANGED <<phase, outcome, output, streamEnd, running>>
  BY DEF Notify, callVars, stopVars, Shape, TypeOK
<1>3. /\ wbatch \in [Workers -> Seq(Requests)] /\ wpc \in [Workers -> WorkerPcs]
      /\ wbatch[w] \in Seq(Requests) /\ wbatch[w] # <<>>
      /\ notified \in [Requests -> BOOLEAN] /\ err \in [Requests -> BOOLEAN]
  BY <1>2 DEF Shape, TypeOK, BusyHasBatch
<1>4. /\ ToSet(wbatch[w]) = {r} \cup ToSet(Tail(wbatch[w]))
      /\ Tail(wbatch[w]) \in Seq(Requests)
      /\ Len(Tail(wbatch[w])) = Len(wbatch[w]) - 1
  BY <1>3, ToSetHeadTail
<1>5. notified' = [notified EXCEPT ![r] = TRUE]
  BY <1>2 DEF BatcherPromiseNotify
<1> HIDE DEF r
<1>6. PromiseOnStack' /\ PromiseFromInfer'
  BY <1>1, <1>2, NotifyKeepsPromise
<1>7. IdleHoldsNothing'
  <2>1. ASSUME NEW v \in Workers, wpc'[v] = "idle" PROVE wbatch'[v] = <<>>
    <3>1. CASE v = w
      <4>1. Len(wbatch[w]) = 1
        BY <1>2, <1>3, <2>1, <3>1
      <4>2. Tail(wbatch[w]) = <<>>
        <5>1. Tail(wbatch[w]) \in Seq(Requests) /\ Len(Tail(wbatch[w])) = 0
          BY <1>4, <4>1
        <5>2. QED BY <5>1, EmptySeq
      <4>3. QED BY <1>2, <1>3, <3>1, <4>2
    <3>2. CASE v # w
      BY <1>2, <1>3, <2>1, <3>2 DEF IdleHoldsNothing
    <3>3. QED BY <3>1, <3>2
  <2>2. QED BY <2>1 DEF IdleHoldsNothing
<1>8. \A q \in Requests : err[q] => err'[q]
  BY <1>1, <1>2, <1>3
<1>9. NotifyingDone'
  <2>1. ASSUME NEW v \in Workers, wpc'[v] = "notify", NEW q \in ToSet(wbatch'[v])
        PROVE  err'[q] \/ output'[q]
    <3>1. wpc[v] = "notify" /\ q \in ToSet(wbatch[v])
      BY <1>2, <1>3, <1>4, <2>1
    <3>2. q \in Requests /\ (err[q] \/ output[q])
      BY <3>1, WorkerBatchHeld, HeldInRequests DEF NotifyingDone
    <3>3. QED BY <1>2, <1>8, <3>2
  <2>2. QED BY <2>1 DEF NotifyingDone
<1>10. NotifiedDone'
  <2>1. err'[r] \/ output[r]
    <3>1. CASE wpc[w] = "fail"
      BY <1>1, <1>2, <1>3, <3>1
    <3>2. CASE wpc[w] = "notify"
      BY <1>1, <1>4, <1>8, <3>2 DEF NotifyingDone
    <3>3. QED BY <1>2, <3>1, <3>2
  <2>2. ASSUME NEW q \in Requests, notified'[q]
        PROVE  err'[q] \/ output'[q] \/ streamEnd'[q]
    <3>1. CASE q = r BY <1>2, <2>1, <3>1
    <3>2. CASE q # r
      BY <1>2, <1>3, <1>5, <1>8, <2>2, <3>2 DEF NotifiedDone
    <3>3. QED BY <3>1, <3>2
  <2>3. QED BY <2>2 DEF NotifiedDone
<1>11. HeldCalled'
  BY <1>1, <1>2 DEF HeldCalled
<1>12. AnswerJustified'
  BY <1>2 DEF AnswerJustified
<1>13. NoTaskLost'
  <2>1. ASSUME running, NEW q \in Requests, phase[q] = "waiting", ~notified'[q]
        PROVE  q \in Held'
    <3>1. q # r /\ ~notified[q]
      BY <1>1, <1>3, <1>5, <2>1
    <3>2. QED BY <1>1, <2>1, <3>1 DEF NoTaskLost
  <2>2. QED BY <1>2, <2>1 DEF NoTaskLost
<1>14. QED BY <1>1, <1>6, <1>7, <1>9, <1>10, <1>11, <1>12, <1>13

LEMMA StopLedger ==
  ASSUME Ledger, StopFlag \/ StopNotify \/ StopJoin PROVE Ledger'
<1> USE DEF Ledger
<1>1. /\ UNCHANGED <<queue, tasks, posted, wpc, wbatch, callVars, ctxVars>>
      /\ running' => running
  BY DEF StopFlag, StopNotify, StopJoin, schedVars, workVars, Shape, TypeOK
<1>2. Shape' /\ Held' = Held
  BY <1>1, StopShape, HeldUnchanged
<1>3. IdleHoldsNothing' /\ NotifyingDone'
  BY <1>1 DEF IdleHoldsNothing, NotifyingDone, ctxVars
<1>4. NoTaskLost'
  BY <1>1, <1>2 DEF NoTaskLost, callVars, ctxVars
<1>5. QED BY <1>1, <1>2, <1>3, <1>4, LedgerKept

LEMMA ClockLedger ==
  ASSUME Ledger, Expire \/ SpuriousWakeup PROVE Ledger'
<1> USE DEF Ledger
<1>1. UNCHANGED <<queue, tasks, posted, wpc, wbatch, callVars, ctxVars, running>>
  BY DEF Expire, SpuriousWakeup, workVars, stopVars
<1>2. Shape' /\ Held' = Held
  BY <1>1, ClockShape, HeldUnchanged
<1>3. IdleHoldsNothing' /\ NotifyingDone'
  BY <1>1 DEF IdleHoldsNothing, NotifyingDone, ctxVars
<1>4. NoTaskLost'
  BY <1>1, <1>2 DEF NoTaskLost, callVars, ctxVars
<1>5. QED BY <1>1, <1>2, <1>3, <1>4, LedgerKept

LEMMA LedgerNext == Ledger /\ [Next]_vars => Ledger'
<1> SUFFICES ASSUME Ledger, [Next]_vars PROVE Ledger'
  OBVIOUS
<1>1. CASE UNCHANGED vars
  <2>1. UNCHANGED <<queue, tasks, posted, wpc, wbatch, callVars, ctxVars, running>>
    BY <1>1 DEF vars, schedVars, workVars, stopVars
  <2>2. Shape' /\ Held' = Held
    BY <1>1, <2>1, ShapeNext, HeldUnchanged DEF Ledger
  <2>3. IdleHoldsNothing' /\ NotifyingDone'
    BY <2>1 DEF Ledger, IdleHoldsNothing, NotifyingDone, ctxVars
  <2>4. NoTaskLost'
    BY <2>1, <2>2 DEF Ledger, NoTaskLost, callVars, ctxVars
  <2>5. QED BY <2>1, <2>2, <2>3, <2>4, LedgerKept DEF Ledger
<1>2. ASSUME NEW r \in Requests, Infer(r) \/ Return(r) \/ Renew(r) PROVE Ledger'
  BY <1>2, InferLedger, ReturnLedger, RenewLedger
<1>3. ASSUME NEW w \in Workers, WorkerStep(w) PROVE Ledger'
  BY <1>3, TakeLedger, StageLedger, ThrowLedger, NotifyLedger DEF WorkerStep
<1>4. ASSUME NEW w \in Workers, NEW r \in Requests, StreamFinal(w, r) PROVE Ledger'
  BY <1>4, StreamFinalLedger
<1>5. QED
  BY <1>1, <1>2, <1>3, <1>4, SchedulerLedger, StopLedger, ClockLedger DEF Next

LEMMA LedgerInvariant == Spec => []Ledger
BY LedgerInit, LedgerNext, PTL DEF Spec

(***************************************************************************)
(* A promise is set only while its caller is inside Infer, and at most     *)
(* once, whoever notifies: StreamingRespond, the notify loop or the catch  *)
(* block.                                                                  *)
(***************************************************************************)
THEOREM PromiseSafe == Spec => []PromiseOnStack
<1>1. Ledger => PromiseOnStack
  BY DEF Ledger
<1>2. QED BY <1>1, LedgerInvariant, PTL

(***************************************************************************)
(* An answer without error has its output, or its stream was ended.        *)
(***************************************************************************)
THEOREM AnswersJustified == Spec => []AnswerJustified
<1>1. Ledger => AnswerJustified
  BY DEF Ledger
<1>2. QED BY <1>1, LedgerInvariant, PTL

(***************************************************************************)
(* While the batcher runs, every caller still waiting has its task in the  *)
(* queue, in the batch under construction, or in a batch of some worker.   *)
(***************************************************************************)
THEOREM TasksKept == Spec => []NoTaskLost
<1>1. Ledger => NoTaskLost
  BY DEF Ledger
<1>2. QED BY <1>1, LedgerInvariant, PTL
-----------------------------------------------------------------------------
(***************************************************************************)
(* No task is in two places.  Otherwise a batch that is cut, or dropped by *)
(* Stop, could hold a request that was answered, or that is answered in    *)
(* another batch.                                                          *)
(***************************************************************************)
\* The tasks of the batches that have been posted or are run.
Away == TasksOf(posted) \cup BatchesOf(wbatch)

Apart ==
  /\ \A i, j \in DOMAIN queue : queue[i] = queue[j] => i = j
  /\ ToSet(queue) \cap ToSet(tasks) = {}
  /\ ToSet(queue) \cap Away = {}
  /\ ToSet(tasks) \cap Away = {}
  /\ \A r \in ToSet(queue) \cup ToSet(tasks) : ~notified[r]

Invariant == Ledger /\ Apart
-----------------------------------------------------------------------------
(***************************************************************************)
(* How each step moves the tasks that are away.                            *)
(***************************************************************************)
LEMMA HeldIsAll == Held = ToSet(queue) \cup ToSet(tasks) \cup Away
BY HeldParts DEF Away

LEMMA AwayUnchanged == ASSUME UNCHANGED <<posted, wbatch>> PROVE Away' = Away
BY DEF Away, TasksOf, BatchesOf

LEMMA PostAway ==
  ASSUME Shape, Post, UNCHANGED wbatch PROVE Away' = Away \cup ToSet(tasks)
<1>1. /\ tasks \in Seq(Requests) /\ posted \in Seq(Seq(Requests))
      /\ posted' = IF tasks = <<>> THEN posted ELSE Append(posted, tasks)
  BY DEF Post, Shape, TypeOK
<1>2. TasksOf(posted') = TasksOf(posted) \cup ToSet(tasks)
  <2>1. CASE tasks = <<>>
    BY <1>1, <2>1 DEF ToSet
  <2>2. CASE tasks # <<>>
    BY <1>1, <2>2, PostedAppend
  <2>3. QED BY <2>1, <2>2
<1>3. Away' = TasksOf(posted') \cup BatchesOf(wbatch')
  BY DEF Away, TasksOf, BatchesOf
<1>4. QED BY <1>2, <1>3 DEF Away

LEMMA TakeAway ==
  ASSUME Ledger, NEW w \in Workers, Take(w) PROVE Away' = Away
<1>1. /\ posted # <<>> /\ posted' = Tail(posted)
      /\ wbatch' = [wbatch EXCEPT ![w] = Head(posted)]
      /\ posted \in Seq(Seq(Requests)) /\ wbatch \in [Workers -> Seq(Requests)]
  BY DEF Take, Ledger, Shape, TypeOK
<1>2. ToSet(wbatch[w]) = {}
  BY DEF Take, Ledger, IdleHoldsNothing, ToSet
<1>3. BatchesOf(wbatch') = ToSet(Head(posted))
                             \cup UNION {ToSet(wbatch[v]) : v \in Workers \ {w}}
  BY <1>1, WorkerReplace
<1>4. BatchesOf(wbatch) = ToSet(wbatch[w])
                            \cup UNION {ToSet(wbatch[v]) : v \in Workers \ {w}}
  BY <1>1, WorkerSplit
<1>5. TasksOf(posted) = ToSet(Head(posted)) \cup TasksOf(posted')
  BY <1>1, PostedHeadTail
<1>6. Away' = TasksOf(posted') \cup BatchesOf(wbatch')
  BY DEF Away, TasksOf, BatchesOf
<1>7. QED BY <1>2, <1>3, <1>4, <1>5, <1>6 DEF Away

LEMMA NotifyAway ==
  ASSUME Shape, NEW w \in Workers, Notify(w)
  PROVE  /\ Head(wbatch[w]) \in Away \cap Requests
         /\ Away' \subseteq Away /\ Away \subseteq Away' \cup {Head(wbatch[w])}
<1>1. /\ UNCHANGED posted /\ wbatch' = [wbatch EXCEPT ![w] = Tail(wbatch[w])]
  BY DEF Notify, Shape, TypeOK
<1>2. /\ wbatch \in [Workers -> Seq(Requests)]
      /\ wbatch[w] \in Seq(Requests) /\ wbatch[w] # <<>>
  BY DEF Shape, TypeOK, BusyHasBatch, Notify
<1>3. /\ ToSet(wbatch[w]) = {Head(wbatch[w])} \cup ToSet(Tail(wbatch[w]))
      /\ Head(wbatch[w]) \in Requests
  BY <1>2, ToSetHeadTail
<1>4. /\ BatchesOf(wbatch') = ToSet(Tail(wbatch[w]))
                        \cup UNION {ToSet(wbatch[v]) : v \in Workers \ {w}}
      /\ BatchesOf(wbatch) = ToSet(wbatch[w])
                        \cup UNION {ToSet(wbatch[v]) : v \in Workers \ {w}}
  BY <1>1, <1>2, WorkerReplace, WorkerSplit
<1>5. Away' = TasksOf(posted) \cup BatchesOf(wbatch')
  BY <1>1 DEF Away, TasksOf, BatchesOf
<1>6. QED BY <1>3, <1>4, <1>5 DEF Away

LEMMA WorkerBatchAway ==
  ASSUME NEW w \in Workers PROVE ToSet(wbatch[w]) \subseteq Away
BY DEF Away, BatchesOf

-----------------------------------------------------------------------------
(***************************************************************************)
(* The tasks stay apart.                                                   *)
(***************************************************************************)
\* A queue that holds no task twice is cut into parts that have none in common.
LEMMA DrainApart ==
  ASSUME queue \in Seq(Requests), tasks \in Seq(Requests), Len(tasks) <= MaxBatch,
         \A i, j \in DOMAIN queue : queue[i] = queue[j] => i = j
  PROVE  /\ Taken \o Remaining = queue
         /\ ToSet(Taken) \cap ToSet(Remaining) = {}
         /\ \A i, j \in DOMAIN Remaining : Remaining[i] = Remaining[j] => i = j
<1> DEFINE n == IF Len(queue) < Room THEN Len(queue) ELSE Room
<1>1. /\ n \in Nat /\ n <= Len(queue) /\ Len(queue) \in Nat /\ DOMAIN queue = 1 .. Len(queue)
  BY MaxBatchAssumption DEF Room
<1>2. Taken = SubSeq(queue, 1, n)
  BY DEF Taken
<1> HIDE DEF n
<1>3. /\ Len(Taken) = n /\ DOMAIN Taken = 1 .. n
      /\ \A i \in 1 .. n : Taken[i] = queue[i]
  BY <1>1, <1>2
<1>4. Remaining = SubSeq(queue, n + 1, Len(queue))
  BY <1>3 DEF Remaining
<1>5. /\ DOMAIN Remaining = 1 .. Len(queue) - n
      /\ \A i \in 1 .. Len(queue) - n : Remaining[i] = queue[n + i]
  BY <1>1, <1>4
<1>6. Taken \o Remaining = queue
  <2>1. SubSeq(queue, 1, n) \o SubSeq(queue, n + 1, Len(queue)) = SubSeq(queue, 1, Len(queue))
    <3>1. 1 \in 1 .. Len(queue) + 1 /\ n \in 1 - 1 .. Len(queue) /\ Len(queue) \in n .. Len(queue)
      BY <1>1
    <3>2. QED BY <3>1, ConcatAdjacentSubSeq
  <2>2. QED BY <1>2, <1>4, <2>1, SubSeqFull
<1>7. ASSUME NEW i \in 1 .. n, NEW j \in 1 .. Len(queue) - n PROVE Taken[i] # Remaining[j]
  <2>1. i \in 1 .. Len(queue) /\ n + j \in 1 .. Len(queue) /\ i # n + j
    BY <1>1
  <2>2. QED BY SMTT(30), <1>1, <1>3, <1>5, <2>1
<1>8. ToSet(Taken) \cap ToSet(Remaining) = {}
  BY <1>3, <1>5, <1>7 DEF ToSet
<1>9. ASSUME NEW i \in 1 .. Len(queue) - n, NEW j \in 1 .. Len(queue) - n,
             Remaining[i] = Remaining[j]
      PROVE  i = j
  <2>1. n + i \in 1 .. Len(queue) /\ n + j \in 1 .. Len(queue)
    BY <1>1
  <2>2. n + i = n + j
    BY <1>1, <1>5, <1>9, <2>1
  <2>3. QED BY <1>1, <2>2
<1>10. QED BY <1>5, <1>6, <1>8, <1>9

LEMMA ApartUnchanged ==
  ASSUME Apart, UNCHANGED <<queue, tasks, notified>>, Away' \subseteq Away PROVE Apart'
BY DEF Apart

LEMMA ApartInit == Init => Apart
<1> SUFFICES ASSUME Init PROVE Apart
  OBVIOUS
<1>1. queue = <<>> /\ tasks = <<>> /\ ToSet(queue) = {} /\ ToSet(tasks) = {} /\ DOMAIN queue = {}
  BY DEF Init, ToSet
<1>2. QED BY <1>1 DEF Apart

LEMMA InferApart ==
  ASSUME Invariant, NEW r \in Requests, Infer(r)
  PROVE  Apart' /\ r \notin Held /\ ~notified[r] /\ Away' = Away
<1>1. /\ queue' = Append(queue, r) /\ UNCHANGED <<tasks, posted, wbatch, notified>>
      /\ queue \in Seq(Requests) /\ phase[r] = "new"
  BY DEF Infer, Enqueue, workVars, Invariant, Ledger, Shape, TypeOK
<1>2. r \notin Held /\ ~notified[r]
  BY <1>1 DEF Invariant, Ledger, HeldCalled, PromiseFromInfer, PromiseOnStack
<1>3. Away' = Away /\ ToSet(queue') = ToSet(queue) \cup {r}
  BY <1>1, AwayUnchanged, ToSetAppend
<1>4. ASSUME NEW i \in DOMAIN queue', NEW j \in DOMAIN queue', queue'[i] = queue'[j] PROVE i = j
  <2>1. /\ DOMAIN queue = 1 .. Len(queue) /\ Len(queue) \in Nat
        /\ DOMAIN queue' = 1 .. Len(queue) + 1 /\ queue'[Len(queue) + 1] = r
        /\ \A k \in 1 .. Len(queue) : queue'[k] = queue[k]
    BY <1>1
  <2>2. \A k \in DOMAIN queue : queue[k] # r
    BY <1>2, HeldIsAll DEF ToSet
  <2>3. \A k, l \in DOMAIN queue : queue[k] = queue[l] => k = l
    BY DEF Invariant, Apart
  <2>4. QED BY <1>4, <2>1, <2>2, <2>3
<1>5. ToSet(queue') \cap ToSet(tasks') = {} /\ ToSet(queue') \cap Away' = {} /\ ToSet(tasks') \cap Away' = {}
  BY <1>1, <1>2, <1>3, HeldIsAll DEF Invariant, Apart
<1>6. \A x \in ToSet(queue') \cup ToSet(tasks') : ~notified'[x]
  BY <1>1, <1>2, <1>3 DEF Invariant, Apart
<1>7. QED BY <1>2, <1>3, <1>4, <1>5, <1>6 DEF Apart

\* What the schedule thread does to the tasks: nothing, it drains the queue,
\* hands the batch over, or drops it because the batcher is stopped.
Drained == running /\ tasks' = tasks \o Taken /\ queue' = Remaining /\ UNCHANGED <<posted, wbatch>>
Dropped == ~running /\ tasks' = <<>> /\ UNCHANGED <<queue, posted, wbatch>>

LEMMA SchedulerCases ==
  ASSUME Scheduler
  PROVE  /\ UNCHANGED <<wbatch, callVars, ctxVars, running>>
         /\ UNCHANGED <<queue, tasks, posted>> \/ Drained \/ Dropped \/ (Post /\ UNCHANGED queue)
BY DEF Scheduler, Top, Test1, Block, Check1, Collect, Wake2, Timeout2, Check2, Post, Drain,
       Drained, Dropped, workVars, stopVars

LEMMA SchedulerApart == ASSUME Invariant, Scheduler PROVE Apart'
<1>1. /\ UNCHANGED <<wbatch, notified>>
      /\ queue \in Seq(Requests) /\ tasks \in Seq(Requests) /\ Len(tasks) <= MaxBatch
  BY SchedulerCases DEF ctxVars, Invariant, Ledger, Shape, TypeOK, BatchBound
<1>2. CASE UNCHANGED <<queue, tasks, posted>>
  BY <1>1, <1>2, AwayUnchanged, ApartUnchanged DEF Invariant
<1>3. CASE Drained
  <2>1. Away' = Away
    BY <1>3, AwayUnchanged DEF Drained
  <2>2. /\ Taken \in Seq(Requests) /\ ToSet(Taken) \cup ToSet(Remaining) = ToSet(queue)
    BY <1>1, DrainParts
  <2>3. ToSet(tasks') = ToSet(tasks) \cup ToSet(Taken)
    BY <1>1, <1>3, <2>2, ToSetConcat DEF Drained
  <2>4. /\ ToSet(Taken) \cap ToSet(Remaining) = {}
        /\ \A i, j \in DOMAIN Remaining : Remaining[i] = Remaining[j] => i = j
    BY <1>1, DrainApart DEF Invariant, Apart
  <2>5. QED BY <1>1, <1>3, <2>1, <2>2, <2>3, <2>4 DEF Drained, Invariant, Apart
<1>4. CASE Dropped
  <2>1. Away' = Away /\ ToSet(tasks') = {}
    BY <1>4, AwayUnchanged DEF Dropped, ToSet
  <2>2. QED BY <1>1, <1>4, <2>1 DEF Dropped, Invariant, Apart
<1>5. CASE Post /\ UNCHANGED queue
  <2>1. Away' = Away \cup ToSet(tasks)
    BY <1>1, <1>5, PostAway DEF Post, Invariant, Ledger
  <2>2. ToSet(tasks') = {}
    BY <1>5 DEF Post, ToSet
  <2>3. QED BY <1>1, <1>5, <2>1, <2>2 DEF Invariant, Apart
<1>6. QED BY <1>2, <1>3, <1>4, <1>5, SchedulerCases

\* A notification reaches a request that is away.
LEMMA NotifiedApart ==
  ASSUME Invariant, NEW r \in Away, UNCHANGED <<queue, tasks>>, Away' \subseteq Away,
         notified' = [notified EXCEPT ![r] = TRUE]
  PROVE  Apart'
<1>1. notified \in [Requests -> BOOLEAN]
  BY DEF Invariant, Ledger, Shape, TypeOK
<1>2. QED BY <1>1 DEF Invariant, Apart

LEMMA ApartNext == ASSUME Invariant, [Next]_vars PROVE Apart'
<1>1. ASSUME NEW r \in Requests, Infer(r) PROVE Apart'
  BY <1>1, InferApart
<1>2. ASSUME NEW r \in Requests, Renew(r) PROVE Apart'
  <2>1. UNCHANGED <<queue, tasks, posted, wbatch>> /\ notified' = [notified EXCEPT ![r] = FALSE]
    BY <1>2 DEF Renew, schedVars, workVars
  <2>2. Away' = Away /\ notified \in [Requests -> BOOLEAN]
    BY <2>1, AwayUnchanged DEF Invariant, Ledger, Shape, TypeOK
  <2>3. QED BY <2>1, <2>2 DEF Invariant, Apart
<1>3. ASSUME NEW w \in Workers, Take(w) PROVE Apart'
  <2>1. Away' = Away /\ UNCHANGED <<queue, tasks, notified>>
    BY <1>3, TakeAway DEF Take, schedVars, ctxVars, Invariant
  <2>2. QED BY <2>1, ApartUnchanged DEF Invariant
<1>4. ASSUME NEW w \in Workers, NEW r \in Requests, StreamFinal(w, r) PROVE Apart'
  <2>1. /\ UNCHANGED <<queue, tasks, posted, wbatch>> /\ r \in Away
        /\ notified' = [notified EXCEPT ![r] = TRUE]
    BY <1>4, WorkerBatchAway DEF StreamFinal, BatcherPromiseNotify, schedVars, workVars
  <2>2. QED BY <2>1, AwayUnchanged, NotifiedApart
<1>5. ASSUME NEW w \in Workers, Notify(w) PROVE Apart'
  <2>1. UNCHANGED <<queue, tasks>> /\ notified' = [notified EXCEPT ![Head(wbatch[w])] = TRUE]
    BY <1>5 DEF Notify, BatcherPromiseNotify, schedVars
  <2>2. Head(wbatch[w]) \in Away /\ Away' \subseteq Away
    BY <1>5, NotifyAway DEF Invariant, Ledger
  <2>3. QED BY <2>1, <2>2, NotifiedApart
<1>6. CASE UNCHANGED <<queue, tasks, posted, wbatch, notified>>
  BY <1>6, AwayUnchanged, ApartUnchanged DEF Invariant
<1>7. ASSUME NEW r \in Requests, Return(r) PROVE Apart'
  BY <1>6, <1>7 DEF Return, schedVars, workVars
<1>8. ASSUME NEW w \in Workers, Stage(w) \/ Throw(w) PROVE Apart'
  BY <1>6, <1>8 DEF Stage, Throw, schedVars, workVars, ctxVars
<1>9. CASE Expire \/ SpuriousWakeup \/ StopFlag \/ StopNotify \/ StopJoin \/ UNCHANGED vars
  BY <1>6, <1>9 DEF Expire, SpuriousWakeup, StopFlag, StopNotify, StopJoin, vars, schedVars, workVars, ctxVars
<1>10. QED
  BY <1>1, <1>2, <1>3, <1>4, <1>5, <1>7, <1>8, <1>9, SchedulerApart DEF Next, WorkerStep

LEMMA InvariantAlways == Spec => []Invariant
<1>1. Init => Invariant
  BY LedgerInit, ApartInit DEF Invariant
<1>2. Invariant /\ [Next]_vars => Invariant'
  BY LedgerNext, ApartNext DEF Invariant
<1>3. QED BY <1>1, <1>2, PTL DEF Spec
-----------------------------------------------------------------------------
(***************************************************************************)
(* The abstract state, and the steps of the service as changes of it.      *)
(***************************************************************************)
Call    == [r \in Requests |-> IF phase[r] # "waiting" THEN "idle"
                               ELSE IF notified[r] THEN "answered" ELSE "pending"]
Pending == tasks \o queue
Open    == {r \in Held \ ToSet(tasks \o queue) : ~notified[r]}

ServiceStep == [Service!Next]_(Service!vars)

LEMMA StutterStep ==
  ASSUME Call' = Call, Pending' = Pending, Open' = Open, running' = running
  PROVE  ServiceStep
BY DEF ServiceStep, Service!vars, Call, Pending, Open

LEMMA AcceptStep ==
  ASSUME NEW r \in Requests, Call[r] = "idle",
         Call' = [Call EXCEPT ![r] = "pending"], Pending' = Append(Pending, r),
         Open' = Open, running' = running
  PROVE  ServiceStep
BY DEF ServiceStep, Service!Next, Service!Accept, Call, Pending, Open

LEMMA AnswerStep ==
  ASSUME NEW r \in Requests, r \in Open, Open' = Open \ {r},
         Call' = [Call EXCEPT ![r] = "answered"], Pending' = Pending, running' = running
  PROVE  ServiceStep
BY DEF ServiceStep, Service!Next, Service!Answer, Call, Pending, Open

LEMMA LeaveStep ==
  ASSUME NEW r \in Requests, Call[r] = "answered",
         Call' = [Call EXCEPT ![r] = "idle"],
         Open' = Open, Pending' = Pending, running' = running
  PROVE  ServiceStep
BY DEF ServiceStep, Service!Next, Service!Leave, Call, Pending, Open

LEMMA FormStep ==
  ASSUME NEW n \in 1 .. MaxBatch, n \in 1 .. Len(Pending), n <= Len(Pending),
         Open' = Open \cup ToSet(SubSeq(Pending, 1, n)),
         Pending' = SubSeq(Pending, n + 1, Len(Pending)),
         Call' = Call, running' = running
  PROVE  ServiceStep
BY DEF ServiceStep, Service!Next, Service!Form, Service!First, Service!Rest, Service!ToSet, ToSet,
       Call, Pending, Open

LEMMA AbandonStep ==
  ASSUME NEW n \in 1 .. Len(Pending), ~running,
         Pending' = SubSeq(Pending, n + 1, Len(Pending)),
         Call' = Call, Open' = Open, running' = running
  PROVE  ServiceStep
BY DEF ServiceStep, Service!Next, Service!Abandon, Service!Rest, Call, Pending, Open

LEMMA StopStep ==
  ASSUME Call' = Call, Pending' = Pending, Open' = Open, running' = FALSE
  PROVE  ServiceStep
BY DEF ServiceStep, Service!Next, Service!Stop, Call, Pending, Open
-----------------------------------------------------------------------------
(***************************************************************************)
(* Each step of the batcher is a step of the service or changes nothing    *)
(* the service shows.                                                      *)
(***************************************************************************)
\* The calls under way are those whose task is away and not notified.
LEMMA OpenIsAway == Invariant => Open = {r \in Away : ~notified[r]}
<1> SUFFICES ASSUME Invariant PROVE Open = {r \in Away : ~notified[r]}
  OBVIOUS
<1>1. ToSet(tasks \o queue) = ToSet(tasks) \cup ToSet(queue)
  BY ToSetConcat DEF Invariant, Ledger, Shape, TypeOK
<1>2. QED BY <1>1, HeldIsAll DEF Open, Invariant, Apart

LEMMA OpenIsAwayNext == Invariant' => Open' = {r \in Away' : ~notified'[r]}
<1> SUFFICES ASSUME Invariant' PROVE Open' = {r \in Away' : ~notified'[r]}
  OBVIOUS
<1>1. ToSet(tasks' \o queue') = ToSet(tasks') \cup ToSet(queue')
  BY ToSetConcat DEF Invariant, Ledger, Shape, TypeOK
<1>2. Held' = ToSet(queue') \cup ToSet(tasks') \cup Away'
  BY DEF Held, PostedTasks, WorkerTasks, Away, TasksOf, BatchesOf
<1>3. Open' = {r \in Held' \ ToSet(tasks' \o queue') : ~notified'[r]}
  BY DEF Open, ToSet
<1>4. QED BY <1>1, <1>2, <1>3 DEF Invariant, Apart, ToSet

LEMMA CallUnchanged == ASSUME UNCHANGED <<phase, notified>> PROVE Call' = Call
BY DEF Call

LEMMA OpenUnchanged ==
  ASSUME Invariant, Invariant', UNCHANGED notified, Away' = Away PROVE Open' = Open
BY OpenIsAway, OpenIsAwayNext

LEMMA InferStep ==
  ASSUME Invariant, Invariant', NEW r \in Requests, Infer(r) PROVE ServiceStep
<1>1. /\ queue' = Append(queue, r) /\ UNCHANGED <<tasks, notified, running>>
      /\ phase[r] = "new" /\ phase' = [phase EXCEPT ![r] = "waiting"]
      /\ queue \in Seq(Requests) /\ tasks \in Seq(Requests)
      /\ phase \in [Requests -> {"new", "waiting", "returned"}]
  BY DEF Infer, Enqueue, stopVars, Invariant, Ledger, Shape, TypeOK
<1>2. ~notified[r] /\ Away' = Away
  BY InferApart
<1>3. Pending' = Append(Pending, r)
  <2>1. /\ <<r>> \in Seq(Requests) /\ Append(queue, r) = queue \o <<r>>
        /\ tasks \o queue \in Seq(Requests)
        /\ Append(tasks \o queue, r) = (tasks \o queue) \o <<r>>
    BY <1>1, AppendIsConcat, ConcatProperties
  <2>2. QED BY <1>1, <2>1, ConcatAssociative DEF Pending
<1>4. Call[r] = "idle" /\ Call' = [Call EXCEPT ![r] = "pending"]
  BY <1>1, <1>2 DEF Call
<1>5. QED BY <1>1, <1>2, <1>3, <1>4, OpenUnchanged, AcceptStep

LEMMA ReturnStep ==
  ASSUME Invariant, Invariant', NEW r \in Requests, Return(r) PROVE ServiceStep
<1>1. /\ UNCHANGED <<queue, tasks, posted, wbatch, notified, running>>
      /\ phase[r] = "waiting" /\ promise[r] = "set"
      /\ phase' = [phase EXCEPT ![r] = "returned"]
  BY DEF Return, schedVars, workVars, stopVars
<1>2. notified[r]
  BY <1>1 DEF Invariant, Ledger, PromiseOnStack
<1>3. Call[r] = "answered" /\ Call' = [Call EXCEPT ![r] = "idle"]
  <2>1. phase \in [Requests -> {"new", "waiting", "returned"}]
    BY DEF Invariant, Ledger, Shape, TypeOK
  <2>2. \A q \in Requests : phase'[q] = IF q = r THEN "returned" ELSE phase[q]
    BY <1>1, <2>1
  <2>3. Call[r] = "answered"
    BY <1>1, <1>2 DEF Call
  <2>4. \A q \in Requests : Call'[q] = IF q = r THEN "idle" ELSE Call[q]
    BY <1>1, <2>2 DEF Call
  <2>5. Call' = [q \in Requests |-> IF q = r THEN "idle" ELSE Call[q]]
    BY <2>4 DEF Call
  <2> QED BY <2>3, <2>5 DEF Call
<1>4. Pending' = Pending /\ Away' = Away
  BY <1>1, AwayUnchanged DEF Pending
<1>5. QED BY <1>1, <1>3, <1>4, OpenUnchanged, LeaveStep

LEMMA RenewStep ==
  ASSUME Invariant, Invariant', NEW r \in Requests, Renew(r) PROVE ServiceStep
<1>1. /\ UNCHANGED <<queue, tasks, posted, wbatch, running>>
      /\ phase[r] = "returned" /\ phase' = [phase EXCEPT ![r] = "new"]
      /\ notified' = [notified EXCEPT ![r] = FALSE] /\ r \notin Held
      /\ phase \in [Requests -> {"new", "waiting", "returned"}]
      /\ notified \in [Requests -> BOOLEAN]
  BY DEF Renew, schedVars, workVars, stopVars, Invariant, Ledger, Shape, TypeOK
<1>2. Call' = Call
  BY <1>1 DEF Call
<1>3. Pending' = Pending /\ Away' = Away
  BY <1>1, AwayUnchanged DEF Pending
<1>4. \A x \in Away : notified'[x] = notified[x]
  BY <1>1, HeldIsAll, HeldInRequests DEF Invariant, Ledger
<1>5. Open' = Open
  BY <1>3, <1>4, OpenIsAway, OpenIsAwayNext
<1>6. QED BY <1>1, <1>2, <1>3, <1>5, StutterStep

\* The drains move requests from the queue to the batch, which keeps their order.
LEMMA DrainedStep ==
  ASSUME Invariant, Invariant', Drained, UNCHANGED <<phase, notified, running>>
  PROVE  ServiceStep
<1>1. /\ queue \in Seq(Requests) /\ tasks \in Seq(Requests) /\ Len(tasks) <= MaxBatch
      /\ tasks' = tasks \o Taken /\ queue' = Remaining /\ UNCHANGED <<posted, wbatch>>
  BY DEF Drained, Invariant, Ledger, Shape, TypeOK, BatchBound
<1>2. /\ Taken \in Seq(Requests) /\ Remaining \in Seq(Requests)
  BY <1>1, DrainParts
<1>3. Taken \o Remaining = queue
  BY <1>1, DrainApart DEF Invariant, Apart
<1>4. (tasks \o Taken) \o Remaining = tasks \o (Taken \o Remaining)
  BY SMTT(30), <1>1, <1>2, ConcatAssociative
<1>5. Pending' = Pending
  BY <1>1, <1>3, <1>4 DEF Pending
<1>6. QED BY <1>1, <1>5, AwayUnchanged, CallUnchanged, OpenUnchanged, StutterStep

\* What is left of a sequence after its first part.
LEMMA ConcatParts ==
  ASSUME NEW S, NEW s \in Seq(S), NEW t \in Seq(S), s # <<>>
  PROVE  /\ Len(s) \in 1 .. Len(s \o t)
         /\ SubSeq(s \o t, 1, Len(s)) = s
         /\ SubSeq(s \o t, Len(s) + 1, Len(s \o t)) = t
<1>1. /\ Len(s) \in Nat /\ Len(s) >= 1 /\ Len(t) \in Nat
      /\ Len(s \o t) = Len(s) + Len(t)
  BY ConcatProperties, EmptySeq
<1>2. SubSeq(s \o t, 1, Len(s)) = SubSeq(s, 1, Len(s))
  <2>1. 1 \in 1 .. Len(s) /\ Len(s) \in 1 .. Len(s)
    BY <1>1
  <2>2. QED BY <2>1, SubSeqOfConcat1
<1>3. SubSeq(s \o t, Len(s) + 1, Len(s \o t)) = t
  <2>1. CASE t = <<>>
    <3>1. /\ Len(t) = 0 /\ Len(s) + 1 \in Int /\ Len(s \o t) \in Int
          /\ Len(s \o t) < Len(s) + 1
      BY <1>1, <2>1
    <3>2. QED BY <2>1, <3>1, SubSeqEmpty
  <2>2. CASE t # <<>>
    <3>1. Len(t) >= 1
      BY <1>1, <2>2, EmptySeq
    <3>2. /\ Len(s) + 1 \in Len(s) + 1 .. Len(s) + Len(t)
          /\ Len(s) + Len(t) \in Len(s) + 1 .. Len(s) + Len(t)
          /\ Len(s) + 1 - Len(s) = 1 /\ Len(s) + Len(t) - Len(s) = Len(t)
      BY <1>1, <3>1
    <3>3. SubSeq(s \o t, Len(s) + 1, Len(s) + Len(t))
            = SubSeq(t, Len(s) + 1 - Len(s), Len(s) + Len(t) - Len(s))
      BY <3>2, SubSeqOfConcat2
    <3>4. QED BY <1>1, <3>2, <3>3, SubSeqFull
  <2>3. QED BY <2>1, <2>2
<1>4. QED BY <1>1, <1>2, <1>3, SubSeqFull

LEMMA DroppedStep ==
  ASSUME Invariant, Invariant', Dropped, UNCHANGED <<phase, notified, running>>
  PROVE  ServiceStep
<1>1. /\ queue \in Seq(Requests) /\ tasks \in Seq(Requests) /\ ~running
      /\ tasks' = <<>> /\ UNCHANGED <<queue, posted, wbatch>>
  BY DEF Dropped, Invariant, Ledger, Shape, TypeOK
<1>2. Pending' = queue
  BY <1>1, ConcatEmptySeq DEF Pending
<1>3. Call' = Call /\ Open' = Open
  BY <1>1, AwayUnchanged, CallUnchanged, OpenUnchanged
<1>4. CASE tasks = <<>>
  BY <1>1, <1>2, <1>3, <1>4, ConcatEmptySeq, StutterStep DEF Pending
<1>5. CASE tasks # <<>>
  <2>1. /\ Len(tasks) \in 1 .. Len(Pending)
        /\ SubSeq(Pending, Len(tasks) + 1, Len(Pending)) = queue
    BY <1>1, <1>5, ConcatParts DEF Pending
  <2>2. QED BY <1>1, <1>2, <1>3, <2>1, AbandonStep
<1>6. QED BY <1>4, <1>5

LEMMA PostStep ==
  ASSUME Invariant, Invariant', Post, UNCHANGED <<queue, wbatch, phase, notified, running>>
  PROVE  ServiceStep
<1>1. /\ queue \in Seq(Requests) /\ tasks \in Seq(Requests) /\ Len(tasks) <= MaxBatch
      /\ tasks' = <<>>
  BY DEF Post, Invariant, Ledger, Shape, TypeOK, BatchBound
<1>2. Pending' = queue
  BY <1>1, ConcatEmptySeq DEF Pending
<1>3. Away' = Away \cup ToSet(tasks) /\ Call' = Call
  BY PostAway, CallUnchanged DEF Invariant, Ledger
<1>4. Open' = Open \cup ToSet(tasks)
  BY <1>3, OpenIsAway, OpenIsAwayNext DEF Invariant, Apart
<1>5. CASE tasks = <<>>
  <2>1. ToSet(tasks) = {} /\ Pending = queue
    BY <1>1, <1>5, ConcatEmptySeq DEF ToSet, Pending
  <2>2. QED BY <1>2, <1>3, <1>4, <2>1, StutterStep
<1>6. CASE tasks # <<>>
  <2>1. /\ Len(tasks) \in 1 .. Len(Pending)
        /\ SubSeq(Pending, 1, Len(tasks)) = tasks
        /\ SubSeq(Pending, Len(tasks) + 1, Len(Pending)) = queue
    BY <1>1, <1>6, ConcatParts DEF Pending
  <2>2. Len(Pending) \in Nat
    BY <1>1 DEF Pending
  <2>3. Len(tasks) \in 1 .. MaxBatch /\ Len(tasks) <= Len(Pending)
    BY <1>1, <2>1, <2>2, MaxBatchAssumption
  <2>4. QED BY <1>2, <1>3, <1>4, <2>1, <2>3, FormStep
<1>7. QED BY <1>5, <1>6

LEMMA SchedulerStep == ASSUME Invariant, Invariant', Scheduler PROVE ServiceStep
<1>1. UNCHANGED <<wbatch, phase, notified, running>>
  BY SchedulerCases DEF callVars, ctxVars
<1>2. CASE UNCHANGED <<queue, tasks, posted>>
  <2>1. Pending' = Pending /\ Away' = Away
    BY <1>1, <1>2, AwayUnchanged DEF Pending
  <2>2. QED BY <1>1, <2>1, CallUnchanged, OpenUnchanged, StutterStep
<1>3. QED BY <1>1, <1>2, SchedulerCases, DrainedStep, DroppedStep, PostStep

\* A notification answers the call, unless it has been answered.
LEMMA NotificationStep ==
  ASSUME Invariant, Invariant', NEW r \in Away \cap Requests,
         notified' = [notified EXCEPT ![r] = TRUE],
         Away' \subseteq Away, Away \subseteq Away' \cup {r},
         UNCHANGED <<queue, tasks, phase, running>>
  PROVE  ServiceStep
<1>1. notified \in [Requests -> BOOLEAN] /\ Pending' = Pending /\ Away \subseteq Requests
  BY HeldIsAll, HeldInRequests DEF Pending, Invariant, Ledger, Shape, TypeOK
<1>2. /\ notified'[r]
      /\ \A x \in Requests \ {r} : notified'[x] = notified[x]
  BY <1>1
<1>3. Open' = Open \ {r}
  BY <1>1, <1>2, OpenIsAway, OpenIsAwayNext
<1>4. CASE notified[r]
  <2>1. Call' = Call
    BY <1>1, <1>2, <1>4 DEF Call
  <2>2. r \notin Open
    BY <1>4, OpenIsAway
  <2>3. QED BY <1>1, <1>3, <2>1, <2>2, StutterStep
<1>5. CASE ~notified[r]
  <2>1. r \in Open
    BY <1>5, OpenIsAway
  <2>2. phase[r] = "waiting"
    <3>1. promise[r] # "none" /\ promise[r] \notin {"set", "dead"}
      BY <1>1, <1>5, HeldIsAll
      DEF Invariant, Ledger, HeldCalled, PromiseFromInfer, PromiseOnStack
    <3>2. promise[r] = "live"
      BY <3>1 DEF Invariant, Ledger, Shape, TypeOK
    <3>3. QED BY <3>2 DEF Invariant, Ledger, PromiseOnStack
  <2>3. Call' = [Call EXCEPT ![r] = "answered"]
    BY <1>1, <1>2, <2>2 DEF Call
  <2>4. QED BY <1>1, <1>3, <2>1, <2>3, AnswerStep
<1>6. QED BY <1>4, <1>5

LEMMA RefinementStep == ASSUME Invariant, Invariant', [Next]_vars PROVE ServiceStep
<1>1. ASSUME NEW w \in Workers, Take(w) PROVE ServiceStep
  <2>1. Away' = Away /\ UNCHANGED <<queue, tasks, phase, notified, running>>
    BY <1>1, TakeAway DEF Take, schedVars, callVars, ctxVars, stopVars, Invariant
  <2>2. Pending' = Pending
    BY <2>1 DEF Pending
  <2>3. QED BY <2>1, <2>2, CallUnchanged, OpenUnchanged, StutterStep
<1>2. ASSUME NEW w \in Workers, NEW r \in Requests, StreamFinal(w, r) PROVE ServiceStep
  <2>1. /\ UNCHANGED <<queue, tasks, posted, wbatch, phase, running>> /\ r \in Away
        /\ notified' = [notified EXCEPT ![r] = TRUE]
    BY <1>2, WorkerBatchAway
    DEF StreamFinal, BatcherPromiseNotify, schedVars, workVars, callVars, stopVars
  <2>2. QED BY <2>1, AwayUnchanged, NotificationStep
<1>3. ASSUME NEW w \in Workers, Notify(w) PROVE ServiceStep
  <2>1. /\ UNCHANGED <<queue, tasks, phase, running>>
        /\ notified' = [notified EXCEPT ![Head(wbatch[w])] = TRUE]
    BY <1>3 DEF Notify, BatcherPromiseNotify, schedVars, callVars, stopVars
  <2>2. /\ Head(wbatch[w]) \in Away \cap Requests
        /\ Away' \subseteq Away /\ Away \subseteq Away' \cup {Head(wbatch[w])}
    BY <1>3, NotifyAway DEF Invariant, Ledger
  <2>3. QED BY <2>1, <2>2, NotificationStep
<1>4. CASE UNCHANGED <<queue, tasks, posted, wbatch, phase, notified>> /\ running' \in {running, FALSE}
  <2>1. Pending' = Pending /\ Away' = Away /\ Call' = Call
    BY <1>4, AwayUnchanged, CallUnchanged DEF Pending
  <2>2. Open' = Open
    BY <1>4, <2>1, OpenUnchanged
  <2>3. QED BY <1>4, <2>1, <2>2, StutterStep, StopStep
<1>5. ASSUME NEW w \in Workers, Stage(w) \/ Throw(w) PROVE ServiceStep
  BY <1>4, <1>5 DEF Stage, Throw, schedVars, workVars, callVars, ctxVars, stopVars
<1>6. CASE Expire \/ SpuriousWakeup \/ StopFlag \/ StopNotify \/ StopJoin \/ UNCHANGED vars
  BY <1>4, <1>6 DEF Expire, SpuriousWakeup, StopFlag, StopNotify, StopJoin, vars,
                    schedVars, workVars, callVars, ctxVars, stopVars
<1>7. QED
  BY <1>1, <1>2, <1>3, <1>5, <1>6, InferStep, ReturnStep, RenewStep, SchedulerStep
  DEF Next, WorkerStep

LEMMA RefinementInit == Init => Service!Init
<1> SUFFICES ASSUME Init PROVE Service!Init
  OBVIOUS
<1>1. Call = [r \in Requests |-> "idle"] /\ running = TRUE
  BY DEF Init, Call
<1>2. Pending = <<>>
  <2>1. tasks = <<>> /\ queue = <<>> /\ <<>> \in Seq(Requests)
    BY DEF Init
  <2>2. QED BY <2>1, ConcatEmptySeq DEF Pending
<1>3. Open = {}
  <2>1. Away = {}
    BY DEF Init, Away, TasksOf, BatchesOf, ToSet
  <2>2. Invariant
    BY LedgerInit, ApartInit DEF Invariant
  <2>3. QED BY <2>1, <2>2, OpenIsAway
<1>4. QED BY <1>1, <1>2, <1>3 DEF Service!Init, Call, Pending, Open

(***************************************************************************)
(* The batcher implements the service: batches are cut from the front of   *)
(* the order of arrival and hold at most max_batch_size requests, each     *)
(* call is answered once through the batch it is in, whoever notifies it,  *)
(* and only a stopped batcher drops calls.                                 *)
(***************************************************************************)
THEOREM Implements == Spec => ServiceSpec
<1>1. Init => Service!Init
  BY RefinementInit
<1>2. Invariant /\ Invariant' /\ [Next]_vars => [Service!Next]_(Service!vars)
  BY RefinementStep DEF ServiceStep
<1>3. QED BY <1>1, <1>2, InvariantAlways, PTL DEF Spec, ServiceSpec, Service!Spec
=============================================================================
