-------------------------- MODULE PyStreaming_proofs --------------------------
(***************************************************************************)
(* Proofs of the safety of a stream of the Python server, for any number   *)
(* of messages and each interface.                                         *)
(***************************************************************************)
EXTENDS PyStreaming, SequenceTheorems, TLAPS

InferPcs   == {"infer", "stop", "none", "wrap", "done"}
HandlerPcs == {"check", "get", "join", "done", "abandoned"}

TypeOK ==
  /\ iface \in {"grpc", "http", "custom"} /\ run \in BOOLEAN
  /\ queue \in Seq(Messages \cup {None})
  /\ posted \in Seq(Messages)
  /\ ipc \in InferPcs /\ after \in {"infer", "done"}
  /\ err \in BOOLEAN /\ raised \in BOOLEAN
  /\ hpc \in HandlerPcs /\ gone \in BOOLEAN
  /\ sent \in Seq(Messages)

\* The flag, and where the threads stand.
Flag ==
  /\ ipc \in {"none", "done"} => ~run
  /\ hpc \in {"join", "done"} => ~run
  /\ hpc = "join" => iface = "grpc"
  /\ hpc = "done" /\ iface = "grpc" => ipc = "done"
  /\ ipc \in {"infer", "wrap"} => after = "infer"
  /\ ipc = "done" => after = "done"

\* The queue holds the last k messages that were posted, then None only.
Waits(k) ==
  /\ k <= Len(posted)
  /\ \A i \in 1 .. k : queue[i] = posted[Len(posted) - k + i]
  /\ \A i \in k + 1 .. Len(queue) : queue[i] = None
  /\ run => k = Len(queue)
  /\ ~gone /\ hpc \in {"check", "get"} => Len(sent) = Len(posted) - k

Queue == \E k \in 0 .. Len(queue) : Waits(k)

\* The first n messages that were sent are the first n that were posted.
SentUpTo(n) == n <= Len(posted) /\ \A i \in 1 .. n : sent[i] = posted[i]

Sent ==
  \/ SentUpTo(Len(sent))
  \/ /\ hpc = "done" /\ iface = "grpc"
     /\ Len(sent) > 0 /\ SentUpTo(Len(sent) - 1)
     /\ sent[Len(sent)][1] = "error"

Finals ==
  /\ \A i \in 1 .. Len(posted) - 1 : posted[i][1] # "final"
  /\ run /\ ipc \in {"infer", "wrap"} => \A i \in 1 .. Len(posted) : posted[i][1] # "final"

EndsWith(kinds) == Len(posted) > 0 /\ posted[Len(posted)][1] \in kinds

Errors ==
  /\ after = "infer" /\ (~run \/ ipc \in {"stop", "none"}) => EndsWith({"final"})
  /\ after = "done" /\ Reports => EndsWith({"error", "final"})
  /\ hpc = "done" /\ iface = "grpc" /\ (err \/ raised)
       => Len(sent) > 0 /\ sent[Len(sent)][1] = "error"

Inv == TypeOK /\ Flag /\ Queue /\ Sent /\ Finals /\ Errors
-----------------------------------------------------------------------------
\* A message that is put or appended is one, and what it says is its kind.
LEMMA MessageType ==
  ASSUME NEW kind \in Kinds, posted \in Seq(Messages)
  PROVE  Message(kind) \in Messages /\ Message(kind)[1] = kind
BY DEF Message, Messages

\* What Put leaves in the queue and in the stream, by place.
LEMMA PutEffect ==
  ASSUME TypeOK, NEW kind \in Kinds, Put(kind)
  PROVE  /\ queue' \in Seq(Messages \cup {None}) /\ posted' \in Seq(Messages)
         /\ ~run => posted' = posted /\ queue' = queue
         /\ run => /\ Len(posted') = Len(posted) + 1 /\ Len(queue') = Len(queue) + 1
                   /\ posted'[Len(posted')] = queue'[Len(queue')]
                   /\ posted'[Len(posted')][1] = kind
                   /\ \A i \in 1 .. Len(posted) : posted'[i] = posted[i]
                   /\ \A i \in 1 .. Len(queue) : queue'[i] = queue[i]
<1>1. Message(kind) \in Messages /\ Message(kind)[1] = kind
  BY MessageType DEF TypeOK
<1>2. queue \in Seq(Messages \cup {None}) /\ posted \in Seq(Messages) /\ run \in BOOLEAN
  BY DEF TypeOK
<1>3. CASE run
  <2>1. queue' = Append(queue, Message(kind)) /\ posted' = Append(posted, Message(kind))
    BY <1>3 DEF Put
  <2> QED BY <1>1, <1>2, <1>3, <2>1
<1>4. CASE ~run
  BY <1>2, <1>4 DEF Put
<1> QED BY <1>2, <1>3, <1>4

\* Put keeps the order of the stream, if its length is the only change.
LEMMA PutKeeps ==
  ASSUME TypeOK, Queue, Sent, NEW kind \in Kinds, Put(kind),
         UNCHANGED <<run, hpc, gone, sent, iface>>, hpc = "done" => ~run
  PROVE  Queue' /\ Sent'
<1>1. /\ queue \in Seq(Messages \cup {None}) /\ posted \in Seq(Messages)
      /\ sent \in Seq(Messages) /\ run \in BOOLEAN
  BY DEF TypeOK
<1>2. CASE ~run
  <2>1. posted' = posted /\ queue' = queue
    BY <1>2, PutEffect
  <2> QED BY <2>1 DEF Queue, Waits, Sent, SentUpTo
<1>3. CASE run
  <2>1. /\ queue' \in Seq(Messages \cup {None}) /\ posted' \in Seq(Messages)
        /\ Len(posted') = Len(posted) + 1 /\ Len(queue') = Len(queue) + 1
        /\ posted'[Len(posted')] = queue'[Len(queue')]
        /\ \A i \in 1 .. Len(posted) : posted'[i] = posted[i]
        /\ \A i \in 1 .. Len(queue) : queue'[i] = queue[i]
    BY <1>3, PutEffect
  <2>2. PICK k \in 0 .. Len(queue) : Waits(k)
    BY DEF Queue
  <2>3. k = Len(queue)
    BY <1>3, <2>2 DEF Waits
  <2>4. Waits(k + 1)'
    <3>1. k + 1 <= Len(posted')
      BY <1>1, <2>1, <2>2 DEF Waits
    <3>2. ASSUME NEW i \in 1 .. k + 1
          PROVE  queue'[i] = posted'[Len(posted') - (k + 1) + i]
      <4>1. CASE i = k + 1
        BY <1>1, <2>1, <2>3, <4>1
      <4>2. CASE i # k + 1
        <5>1. i \in 1 .. k /\ i \in 1 .. Len(queue)
          BY <1>1, <2>3, <4>2
        <5>2. Len(posted) - k + i \in 1 .. Len(posted)
          BY <1>1, <2>2, <5>1 DEF Waits
        <5>3. queue'[i] = posted[Len(posted) - k + i]
          BY <2>1, <2>2, <5>1 DEF Waits
        <5>4. Len(posted') - (k + 1) + i = Len(posted) - k + i
          BY <1>1, <2>1
        <5> QED BY <2>1, <5>2, <5>3, <5>4
      <4> QED BY <4>1, <4>2
    <3>3. k + 1 = Len(queue')
      BY <2>1, <2>3
    <3>4. ASSUME ~gone, hpc \in {"check", "get"}
          PROVE  Len(sent) = Len(posted') - (k + 1)
      <4>1. Len(sent) = Len(posted) - k
        BY <2>2, <3>4 DEF Waits
      <4>2. Len(posted) \in Nat /\ k \in Nat
        BY <1>1
      <4> QED BY <2>1, <4>1, <4>2
    <3>5. \A i \in (k + 1) + 1 .. Len(queue') : queue'[i] = None
      BY <1>1, <2>1, <3>3
    <3> QED BY <3>1, <3>2, <3>3, <3>4, <3>5 DEF Waits
  <2>5. Queue'
    <3>1. k + 1 \in 0 .. Len(queue')
      BY <1>1, <2>1, <2>3
    <3> QED BY <2>4, <3>1 DEF Queue
  <2>6. Sent'
    <3>1. SentUpTo(Len(sent))
      BY <1>3 DEF Sent
    <3> QED BY <1>1, <2>1, <3>1 DEF Sent, SentUpTo
  <2> QED BY <2>5, <2>6
<1> QED BY <1>1, <1>2, <1>3

\* No message is None.
LEMMA HeadMessage ==
  ASSUME TypeOK, queue # <<>>, Head(queue) # None
  PROVE  Head(queue) \in Messages /\ Tail(queue) \in Seq(Messages \cup {None})
BY DEF TypeOK

\* Taking the head of the queue leaves the rest in place.
LEMMA TakeEffect ==
  ASSUME TypeOK, Take
  PROVE  /\ Len(queue) > 0 /\ Len(queue') = Len(queue) - 1
         /\ queue' \in Seq(Messages \cup {None})
         /\ Head(queue) = queue[1]
         /\ \A i \in 1 .. Len(queue') : queue'[i] = queue[i + 1]
BY DEF TypeOK, Take
-----------------------------------------------------------------------------
LEMMA InitInv == Init => Inv
<1> SUFFICES ASSUME Init PROVE Inv
  OBVIOUS
<1>1. TypeOK
  <2>1. /\ <<>> \in Seq(Messages \cup {None}) /\ <<>> \in Seq(Messages)
    OBVIOUS
  <2>2. iface \in {"grpc", "http", "custom"}
    BY InterfacesAssumption DEF Init
  <2> QED BY <2>1, <2>2 DEF Init, TypeOK, InferPcs, HandlerPcs
<1>2. Flag /\ Sent /\ Finals /\ Errors
  BY DEF Init, Flag, Sent, SentUpTo, Finals, Errors
<1>3. Queue
  <2>1. Waits(0) /\ 0 \in 0 .. Len(queue)
    BY DEF Init, Waits
  <2> QED BY <2>1 DEF Queue
<1> QED BY <1>1, <1>2, <1>3 DEF Inv

LEMMA RespondPartInv == Inv /\ RespondPart => Inv'
<1> SUFFICES ASSUME Inv, RespondPart PROVE Inv'
  OBVIOUS
<1> USE DEF Inv
<1>1. Put("part") /\ "part" \in Kinds
  BY DEF RespondPart, Kinds
<1>2. TypeOK'
  BY <1>1, PutEffect DEF RespondPart, TypeOK, clientVars
<1>3. Flag'
  BY DEF RespondPart, Flag, clientVars
<1>4. Queue' /\ Sent'
  BY <1>1, PutKeeps DEF RespondPart, Flag, clientVars
<1>5. Finals' /\ Errors'
  <2>1. CASE ~run
    BY <2>1, <1>1, PutEffect DEF RespondPart, Finals, Errors, EndsWith, Reports, clientVars
  <2>2. CASE run
    <3>1. /\ Len(posted') = Len(posted) + 1 /\ posted'[Len(posted')][1] = "part"
          /\ \A i \in 1 .. Len(posted) : posted'[i] = posted[i]
      BY <1>1, <2>2, PutEffect
    <3>2. Len(posted) \in Nat
      BY DEF TypeOK
    <3>3. Finals'
      BY <2>2, <3>1, <3>2 DEF RespondPart, Finals
    <3>4. after = "infer" /\ run' /\ ipc' = "infer"
      BY <2>2 DEF RespondPart, Flag
    <3>5. Errors'
      BY <3>4 DEF RespondPart, Errors, clientVars
    <3> QED BY <3>3, <3>5
  <2> QED BY <2>1, <2>2
<1> QED BY <1>2, <1>3, <1>4, <1>5

LEMMA RespondFinalInv == Inv /\ RespondFinal => Inv'
<1> SUFFICES ASSUME Inv, RespondFinal PROVE Inv'
  OBVIOUS
<1> USE DEF Inv
<1>1. Put("final") /\ "final" \in Kinds /\ run
  BY DEF RespondFinal, Kinds
<1>2. TypeOK'
  BY <1>1, PutEffect DEF RespondFinal, TypeOK, InferPcs, clientVars
<1>3. Flag'
  BY DEF RespondFinal, Flag, clientVars
<1>4. Queue' /\ Sent'
  BY <1>1, PutKeeps DEF RespondFinal, Flag, clientVars
<1>5. /\ Len(posted') = Len(posted) + 1 /\ posted'[Len(posted')][1] = "final"
      /\ \A i \in 1 .. Len(posted) : posted'[i] = posted[i]
  BY <1>1, PutEffect
<1>6. Len(posted) \in Nat
  BY DEF TypeOK
<1>7. Finals'
  BY <1>1, <1>5, <1>6 DEF RespondFinal, Finals
<1>8. EndsWith({"final"})'
  BY <1>5, <1>6 DEF EndsWith
<1>9. Errors'
  BY <1>8 DEF RespondFinal, Errors, Flag, clientVars
<1> QED BY <1>2, <1>3, <1>4, <1>7, <1>9

LEMMA StopFlagInv == Inv /\ StopFlag => Inv'
<1> SUFFICES ASSUME Inv, StopFlag PROVE Inv'
  OBVIOUS
<1> USE DEF Inv
<1>1. TypeOK' /\ Flag'
  BY DEF StopFlag, TypeOK, InferPcs, Flag, clientVars
<1>2. Queue' /\ Sent'
  BY DEF StopFlag, Queue, Waits, Sent, SentUpTo, clientVars
<1>3. Finals' /\ Errors'
  BY DEF StopFlag, Finals, Errors, EndsWith, Reports, clientVars
<1> QED BY <1>1, <1>2, <1>3

LEMMA StopNoneInv == Inv /\ StopNone => Inv'
<1> SUFFICES ASSUME Inv, StopNone PROVE Inv'
  OBVIOUS
<1> USE DEF Inv
<1>1. ~run /\ ~run'
  BY DEF StopNone, Flag
<1>2. TypeOK' /\ Flag'
  BY <1>1 DEF StopNone, TypeOK, InferPcs, Flag, clientVars
<1>3. Queue'
  <2>1. PICK k \in 0 .. Len(queue) : Waits(k)
    BY DEF Queue
  <2>2. /\ Len(queue) \in Nat /\ Len(queue') = Len(queue) + 1 /\ queue'[Len(queue')] = None
        /\ \A i \in 1 .. Len(queue) : queue'[i] = queue[i]
    BY DEF StopNone, TypeOK
  <2>3. UNCHANGED <<posted, gone, hpc, sent>>
    BY DEF StopNone, clientVars
  <2>4. Waits(k)'
    BY <1>1, <2>1, <2>2, <2>3 DEF Waits
  <2>5. k \in 0 .. Len(queue')
    BY <2>2
  <2> QED BY <2>4, <2>5 DEF Queue
<1>4. Sent' /\ Finals' /\ Errors'
  BY <1>1 DEF StopNone, Sent, SentUpTo, Finals, Errors, EndsWith, Reports, clientVars
<1> QED BY <1>2, <1>3, <1>4

LEMMA InferredInv == Inv /\ Inferred => Inv'
<1> SUFFICES ASSUME Inv, Inferred PROVE Inv'
  OBVIOUS
<1> USE DEF Inv
<1>1. TypeOK' /\ Flag'
  BY DEF Inferred, TypeOK, InferPcs, Flag, clientVars
<1>2. Queue' /\ Sent'
  BY DEF Inferred, Queue, Waits, Sent, SentUpTo, clientVars
<1>3. after = "infer" /\ ~(hpc = "done" /\ iface = "grpc")
  BY DEF Inferred, Flag
<1>4. Finals' /\ Errors'
  BY <1>3 DEF Inferred, Finals, Errors, EndsWith, clientVars
<1> QED BY <1>1, <1>2, <1>4

LEMMA WrapInv == Inv /\ Wrap => Inv'
<1> SUFFICES ASSUME Inv, Wrap PROVE Inv'
  OBVIOUS
<1> USE DEF Inv
<1>1. UNCHANGED <<iface, run, err, raised, hpc, gone, sent>>
  BY DEF Wrap, clientVars
<1>2. /\ after' = "done" /\ ipc = "wrap" /\ ipc' \in {"done", "stop"}
      /\ ipc' = "done" => ~run
      /\ ~(hpc = "done" /\ iface = "grpc")
  BY DEF Wrap, Flag
<1>3. Flag'
  BY <1>1, <1>2 DEF Flag
<1>4. Len(posted) \in Nat /\ "error" \in Kinds
  BY DEF TypeOK, Kinds
<1>5. CASE Reports
  <2>1. Put("error")
    BY <1>5 DEF Wrap
  <2>2. TypeOK'
    BY <1>1, <1>2, <1>4, <2>1, PutEffect DEF TypeOK, InferPcs
  <2>3. Queue' /\ Sent'
    BY <1>1, <1>4, <2>1, PutKeeps DEF Flag
  <2>4. CASE run
    <3>1. /\ Len(posted') = Len(posted) + 1 /\ posted'[Len(posted')][1] = "error"
          /\ \A i \in 1 .. Len(posted) : posted'[i] = posted[i]
      BY <1>4, <2>1, <2>4, PutEffect
    <3>2. Finals' /\ EndsWith({"error", "final"})'
      BY <1>1, <1>2, <1>4, <2>4, <3>1 DEF Finals, EndsWith
    <3> QED BY <1>1, <1>2, <1>3, <2>2, <2>3, <3>2 DEF Errors
  <2>5. CASE ~run
    <3>1. posted' = posted
      BY <1>4, <2>1, <2>5, PutEffect
    <3>2. EndsWith({"error", "final"})'
      BY <1>2, <2>5, <3>1 DEF Errors, Flag, EndsWith
    <3>3. Finals' /\ Errors'
      BY <1>1, <1>2, <2>5, <3>1, <3>2 DEF Finals, Errors
    <3> QED BY <1>3, <2>2, <2>3, <3>3
  <2> QED BY <2>4, <2>5
<1>6. CASE ~Reports
  <2>1. UNCHANGED <<queue, posted>>
    BY <1>6 DEF Wrap
  <2>2. TypeOK'
    BY <1>1, <1>2, <2>1 DEF TypeOK, InferPcs
  <2>3. Queue' /\ Sent'
    BY <1>1, <2>1 DEF Queue, Waits, Sent, SentUpTo
  <2>4. ~Reports'
    BY <1>1, <1>6 DEF Reports
  <2>5. Finals' /\ Errors'
    BY <1>1, <1>2, <2>1, <2>4 DEF Finals, Errors
  <2> QED BY <1>3, <2>2, <2>3, <2>5
<1> QED BY <1>5, <1>6
LEMMA CheckInv == Inv /\ Check => Inv'
<1> SUFFICES ASSUME Inv, Check PROVE Inv'
  OBVIOUS
<1> USE DEF Inv
<1>1. UNCHANGED <<iface, run, queue, posted, ipc, after, err, raised, gone, sent>>
  BY DEF Check, predictVars
<1>2. /\ hpc = "check" /\ hpc' \in {"get", "join", "done"}
      /\ hpc' = "get" <=> run
      /\ hpc' = "done" => iface # "grpc"
      /\ hpc' = "join" => iface = "grpc"
  BY DEF Check
<1>3. TypeOK' /\ Flag'
  BY <1>1, <1>2 DEF TypeOK, HandlerPcs, Flag
<1>4. Queue'
  BY <1>1, <1>2 DEF Queue, Waits
<1>5. Sent'
  BY <1>1, <1>2 DEF Sent, SentUpTo
<1>6. Finals' /\ Errors'
  BY <1>1, <1>2 DEF Finals, Errors, EndsWith, Reports
<1> QED BY <1>3, <1>4, <1>5, <1>6

\* What is left of the queue when its head, a message or a None, is taken.
LEMMA TakeKeeps ==
  ASSUME TypeOK, Take, NEW k \in 0 .. Len(queue), Waits(k), UNCHANGED posted
  PROVE  /\ k = 0 => Head(queue) = None
         /\ k > 0 => Head(queue) = posted[Len(posted) - k + 1]
         /\ LET n == IF k = 0 THEN 0 ELSE k - 1
            IN  /\ n \in 0 .. Len(queue') /\ n <= Len(posted)
                /\ \A i \in 1 .. n : queue'[i] = posted[Len(posted) - n + i]
                /\ \A i \in n + 1 .. Len(queue') : queue'[i] = None
                /\ k = Len(queue) => n = Len(queue')
<1>1. /\ Len(queue) \in Nat /\ Len(queue) > 0 /\ Len(queue') = Len(queue) - 1
      /\ Head(queue) = queue[1] /\ \A i \in 1 .. Len(queue') : queue'[i] = queue[i + 1]
  BY TakeEffect DEF TypeOK
<1>2. Len(posted) \in Nat
  BY DEF TypeOK
<1>3. /\ k <= Len(posted)
      /\ \A i \in 1 .. k : queue[i] = posted[Len(posted) - k + i]
      /\ \A i \in k + 1 .. Len(queue) : queue[i] = None
  BY DEF Waits
<1>4. CASE k = 0
  <2>1. \A i \in 1 .. Len(queue') : queue'[i] = None
    BY <1>1, <1>3, <1>4
  <2>2. Head(queue) = None
    BY <1>1, <1>3, <1>4
  <2> QED BY <1>1, <1>2, <1>4, <2>1, <2>2
<1>5. CASE k > 0
  <2>1. Head(queue) = posted[Len(posted) - k + 1]
    BY <1>1, <1>3, <1>5
  <2>2. ASSUME NEW i \in 1 .. k - 1
        PROVE  queue'[i] = posted[Len(posted) - (k - 1) + i]
    <3>1. i \in 1 .. Len(queue') /\ i + 1 \in 1 .. k
      BY <1>1, <1>5
    <3>2. queue'[i] = posted[Len(posted) - k + (i + 1)]
      BY <1>1, <1>3, <3>1
    <3>3. Len(posted) - k + (i + 1) = Len(posted) - (k - 1) + i
      BY <1>2
    <3> QED BY <3>2, <3>3
  <2>3. ASSUME NEW i \in (k - 1) + 1 .. Len(queue')
        PROVE  queue'[i] = None
    <3>1. i \in 1 .. Len(queue') /\ i + 1 \in k + 1 .. Len(queue)
      BY <1>1, <1>5
    <3> QED BY <1>1, <1>3, <3>1
  <2>4. k - 1 \in 0 .. Len(queue') /\ k - 1 <= Len(posted)
    BY <1>1, <1>2, <1>3, <1>5
  <2>5. k = Len(queue) => k - 1 = Len(queue')
    BY <1>1
  <2>6. (IF k = 0 THEN 0 ELSE k - 1) = k - 1 /\ k # 0
    BY <1>5
  <2> QED BY <2>1, <2>2, <2>3, <2>4, <2>5, <2>6
<1> QED BY <1>4, <1>5

LEMMA GetNoneInv == Inv /\ GetNone => Inv'
<1> SUFFICES ASSUME Inv, GetNone PROVE Inv'
  OBVIOUS
<1> USE DEF Inv
<1>1. /\ UNCHANGED <<iface, run, posted, ipc, after, err, raised, gone, sent>>
      /\ hpc = "get" /\ hpc' = "check" /\ Take /\ Head(queue) = None
  BY DEF GetNone, predictVars
<1>2. TypeOK'
  BY <1>1, TakeEffect DEF TypeOK, HandlerPcs
<1>3. Queue'
  <2>1. PICK k \in 0 .. Len(queue) : Waits(k)
    BY DEF Queue
  <2>2. k = 0
    <3>1. CASE k > 0
      <4>1. Head(queue) = posted[Len(posted) - k + 1]
        BY <1>1, <2>1, <3>1, TakeKeeps
      <4>2. Len(posted) - k + 1 \in 1 .. Len(posted)
        BY <2>1, <3>1 DEF Waits, TypeOK
      <4>3. Head(queue) \in Messages
        BY <4>1, <4>2 DEF TypeOK
      <4> QED BY <1>1, <4>3, NoneAssumption
    <3> QED BY <3>1
  <2>3. /\ 0 \in 0 .. Len(queue') /\ \A i \in 1 .. Len(queue') : queue'[i] = None
        /\ 0 <= Len(posted)
    BY <1>1, <2>1, <2>2, TakeKeeps
  <2>4. run => Len(queue') = 0
    BY <1>1, <2>1, <2>2, TakeKeeps DEF Waits
  <2>5. ~gone => Len(sent) = Len(posted) - 0
    BY <1>1, <2>1, <2>2 DEF Waits
  <2>6. Waits(0)'
    BY <1>1, <2>3, <2>4, <2>5 DEF Waits
  <2> QED BY <2>3, <2>6 DEF Queue
<1>4. Flag' /\ Sent' /\ Finals' /\ Errors'
  BY <1>1 DEF Flag, Sent, SentUpTo, Finals, Errors, EndsWith, Reports
<1> QED BY <1>2, <1>3, <1>4

\* The generator takes a message: it is the oldest one that waits.
LEMMA TakeMessage ==
  ASSUME Inv, Take, Head(queue) # None, hpc = "get", UNCHANGED <<posted, run>>
  PROVE  \E k \in 0 .. Len(queue') :
           /\ k < Len(posted)
           /\ Head(queue) = posted[Len(posted) - k]
           /\ \A i \in 1 .. k : queue'[i] = posted[Len(posted) - k + i]
           /\ \A i \in k + 1 .. Len(queue') : queue'[i] = None
           /\ run => k = Len(queue')
           /\ ~gone => Len(sent) = Len(posted) - k - 1
<1> USE DEF Inv
<1>1. PICK k \in 0 .. Len(queue) : Waits(k)
  BY DEF Queue
<1>2. k > 0 /\ Head(queue) = posted[Len(posted) - k + 1]
  BY <1>1, TakeKeeps
<1>3. /\ k - 1 \in 0 .. Len(queue')
      /\ \A i \in 1 .. k - 1 : queue'[i] = posted[Len(posted) - (k - 1) + i]
      /\ \A i \in (k - 1) + 1 .. Len(queue') : queue'[i] = None
      /\ k = Len(queue) => k - 1 = Len(queue')
  BY <1>1, <1>2, TakeKeeps
<1>4. /\ k <= Len(posted)
      /\ run => k = Len(queue)
      /\ ~gone => Len(sent) = Len(posted) - k
      /\ Len(posted) \in Nat
  BY <1>1 DEF Waits, TypeOK
<1>5. k \in Nat /\ k <= Len(posted) /\ Len(posted) \in Nat
  BY <1>4
<1>6. /\ Len(posted) - (k - 1) = Len(posted) - k + 1 /\ k - 1 < Len(posted)
      /\ Len(posted) - k = Len(posted) - (k - 1) - 1
  BY <1>5
<1>7. Head(queue) = posted[Len(posted) - (k - 1)]
  BY <1>2, <1>6
<1>8. run => k - 1 = Len(queue')
  BY <1>3, <1>4
<1>9. ~gone => Len(sent) = Len(posted) - (k - 1) - 1
  BY <1>4, <1>6
<1> QED BY <1>3, <1>6, <1>7, <1>8, <1>9

LEMMA YieldInv == Inv /\ Yield => Inv'
<1> SUFFICES ASSUME Inv, Yield PROVE Inv'
  OBVIOUS
<1> USE DEF Inv
<1>1. /\ UNCHANGED <<iface, run, posted, ipc, after, err, raised, gone>>
      /\ hpc = "get" /\ hpc' = "check" /\ Take /\ Head(queue) # None /\ ~gone
      /\ sent' = Append(sent, Head(queue))
  BY DEF Yield, predictVars
<1>2. PICK k \in 0 .. Len(queue') :
        /\ k < Len(posted)
        /\ Head(queue) = posted[Len(posted) - k]
        /\ \A i \in 1 .. k : queue'[i] = posted[Len(posted) - k + i]
        /\ \A i \in k + 1 .. Len(queue') : queue'[i] = None
        /\ run => k = Len(queue')
        /\ Len(sent) = Len(posted) - k - 1
  BY <1>1, TakeMessage
<1>3. /\ Len(posted) \in Nat /\ sent \in Seq(Messages) /\ k \in Nat
      /\ queue' \in Seq(Messages \cup {None})
  BY <1>1, TakeEffect DEF TypeOK
<1>4. Head(queue) \in Messages
  BY <1>1, HeadMessage, TakeEffect DEF Take
<1>5. /\ sent' \in Seq(Messages) /\ Len(sent') = Len(sent) + 1
      /\ sent'[Len(sent')] = Head(queue)
      /\ \A i \in 1 .. Len(sent) : sent'[i] = sent[i]
  BY <1>1, <1>3, <1>4
<1>6. TypeOK'
  BY <1>1, <1>3, <1>5 DEF TypeOK, HandlerPcs
<1>7. Waits(k)'
  BY <1>1, <1>2, <1>3, <1>5 DEF Waits
<1>8. Queue'
  BY <1>7 DEF Queue
<1>9. SentUpTo(Len(sent))'
  <2>1. SentUpTo(Len(sent))
    BY <1>1 DEF Sent
  <2>2. Len(sent') = Len(posted) - k
    BY <1>2, <1>3, <1>5
  <2>3. ASSUME NEW i \in 1 .. Len(sent') PROVE sent'[i] = posted[i]
    <3>1. CASE i = Len(sent')
      BY <1>2, <1>5, <2>2, <3>1
    <3>2. CASE i # Len(sent')
      <4>1. i \in 1 .. Len(sent)
        BY <1>3, <1>5, <3>2
      <4> QED BY <1>5, <2>1, <4>1 DEF SentUpTo
    <3> QED BY <3>1, <3>2
  <2>4. Len(sent') <= Len(posted)
    BY <1>3, <2>2
  <2> QED BY <1>1, <2>3, <2>4 DEF SentUpTo
<1>10. Flag' /\ Finals' /\ Errors'
  BY <1>1 DEF Flag, Finals, Errors, EndsWith, Reports
<1> QED BY <1>6, <1>8, <1>9, <1>10 DEF Sent

\* The client is gone, and what is taken goes nowhere.
LEMMA LostInv == Inv /\ (HangUp \/ YieldToNobody) => Inv'
<1> SUFFICES ASSUME Inv, HangUp \/ YieldToNobody PROVE Inv'
  OBVIOUS
<1> USE DEF Inv
<1>1. /\ UNCHANGED <<iface, run, posted, ipc, after, err, raised, sent>>
      /\ hpc = "get" /\ hpc' \in {"check", "abandoned"} /\ Take /\ Head(queue) # None
      /\ gone' = TRUE
  BY DEF HangUp, YieldToNobody, predictVars, TypeOK
<1>2. TypeOK'
  BY <1>1, TakeEffect DEF TypeOK, HandlerPcs
<1>3. Queue'
  <2>1. PICK k \in 0 .. Len(queue') :
          /\ k < Len(posted)
          /\ \A i \in 1 .. k : queue'[i] = posted[Len(posted) - k + i]
          /\ \A i \in k + 1 .. Len(queue') : queue'[i] = None
          /\ run => k = Len(queue')
    BY <1>1, TakeMessage
  <2>2. k <= Len(posted)
    BY <2>1 DEF TypeOK
  <2>3. Waits(k)'
    BY <1>1, <2>1, <2>2 DEF Waits
  <2> QED BY <2>3 DEF Queue
<1>4. Flag' /\ Sent' /\ Finals' /\ Errors'
  BY <1>1 DEF Flag, Sent, SentUpTo, Finals, Errors, EndsWith, Reports
<1> QED BY <1>2, <1>3, <1>4

LEMMA JoinInv == Inv /\ Join => Inv'
<1> SUFFICES ASSUME Inv, Join PROVE Inv'
  OBVIOUS
<1> USE DEF Inv
<1>1. /\ UNCHANGED <<iface, run, queue, posted, ipc, after, err, raised, gone>>
      /\ hpc = "join" /\ hpc' = "done" /\ ipc = "done" /\ iface = "grpc"
  BY DEF Join, predictVars, Flag
<1>2. "error" \in Kinds /\ sent \in Seq(Messages) /\ posted \in Seq(Messages)
  BY DEF Kinds, TypeOK
<1>3. Message("error") \in Messages /\ Message("error")[1] = "error"
  BY <1>2, MessageType
<1>4. Flag' /\ Queue' /\ Finals'
  BY <1>1 DEF Flag, Queue, Waits, Finals
<1>5. SentUpTo(Len(sent))
  BY <1>1 DEF Sent
<1>6. CASE err \/ raised
  <2>1. sent' = Append(sent, Message("error"))
    BY <1>6 DEF Join
  <2>2. /\ sent' \in Seq(Messages) /\ Len(sent') = Len(sent) + 1 /\ Len(sent) \in Nat
        /\ sent'[Len(sent')] = Message("error")
        /\ \A i \in 1 .. Len(sent) : sent'[i] = sent[i]
    BY <1>2, <1>3, <2>1
  <2>3. TypeOK'
    BY <1>1, <2>2 DEF TypeOK, HandlerPcs
  <2>4. Len(sent') > 0 /\ Len(sent') - 1 = Len(sent) /\ sent'[Len(sent')][1] = "error"
    BY <1>3, <2>2
  <2>5. Sent'
    BY <1>1, <1>5, <2>2, <2>4 DEF Sent, SentUpTo
  <2>6. Errors'
    BY <1>1, <2>4 DEF Errors, EndsWith, Reports
  <2> QED BY <1>4, <2>3, <2>5, <2>6
<1>7. CASE ~(err \/ raised)
  <2>1. sent' = sent
    BY <1>7 DEF Join
  <2>2. TypeOK' /\ Sent' /\ Errors'
    BY <1>1, <1>5, <1>7, <2>1 DEF TypeOK, HandlerPcs, Sent, SentUpTo, Errors, EndsWith, Reports
  <2> QED BY <1>4, <2>2
<1> QED BY <1>6, <1>7

LEMMA StutterInv == Inv /\ UNCHANGED vars => Inv'
<1> SUFFICES ASSUME Inv, UNCHANGED vars PROVE Inv'
  OBVIOUS
<1>1. /\ UNCHANGED <<iface, run, queue, posted, ipc, after>>
      /\ UNCHANGED <<err, raised, hpc, gone, sent>>
  BY DEF vars, predictVars, clientVars
<1>2. TypeOK' /\ Flag'
  BY <1>1 DEF Inv, TypeOK, Flag
<1>3. Queue' /\ Sent'
  BY <1>1 DEF Inv, Queue, Waits, Sent, SentUpTo
<1>4. Finals' /\ Errors'
  BY <1>1 DEF Inv, Finals, Errors, EndsWith, Reports
<1> QED BY <1>2, <1>3, <1>4 DEF Inv

LEMMA NextInv == Inv /\ [Next]_vars => Inv'
<1> SUFFICES ASSUME Inv, [Next]_vars PROVE Inv'
  OBVIOUS
<1>1. CASE PredictThread
  BY <1>1, RespondPartInv, RespondFinalInv, StopFlagInv, StopNoneInv, InferredInv, WrapInv
     DEF PredictThread
<1>2. CASE Generator
  BY <1>2, CheckInv, GetNoneInv, YieldInv, LostInv, JoinInv DEF Generator
<1>3. CASE Done \/ UNCHANGED vars
  BY <1>3, StutterInv DEF Done
<1> QED BY <1>1, <1>2, <1>3 DEF Next

(***************************************************************************)
(* Every reachable state of a stream satisfies the inductive invariant.    *)
(***************************************************************************)
THEOREM Invariant == Spec => []Inv
<1>1. Init => Inv
  BY InitInv
<1>2. Inv /\ [Next]_vars => Inv'
  BY NextInv
<1> QED BY <1>1, <1>2, PTL DEF Spec
-----------------------------------------------------------------------------
\* The prefix of a sequence that agrees with another up to n.
LEMMA PrefixByPlace ==
  ASSUME NEW S, NEW s \in Seq(S), NEW t \in Seq(S), NEW n \in 0 .. Len(s),
         n <= Len(t), \A i \in 1 .. n : s[i] = t[i]
  PROVE  IsPrefix(SubSeq(s, 1, n), t)
<1>1. /\ SubSeq(s, 1, n) \in Seq(S) /\ Len(SubSeq(s, 1, n)) = n
      /\ \A i \in 1 .. n : SubSeq(s, 1, n)[i] = s[i]
  OBVIOUS
<1>2. /\ SubSeq(t, 1, n) \in Seq(S) /\ Len(SubSeq(t, 1, n)) = n
      /\ \A i \in 1 .. n : SubSeq(t, 1, n)[i] = t[i]
  OBVIOUS
<1>3. SubSeq(s, 1, n) = SubSeq(t, 1, n)
  BY <1>1, <1>2, SeqEqual
<1>4. SubSeq(SubSeq(s, 1, n), 1, n) = SubSeq(s, 1, n)
  BY <1>1, SubSeqFull
<1> QED BY <1>1, <1>2, <1>3, <1>4 DEF IsPrefix

(***************************************************************************)
(* The invariant gives the property, its three parts one by one.           *)
(***************************************************************************)
LEMMA InvNothingLost == Inv => NothingLostInLoop
<1> SUFFICES ASSUME Inv, ~gone PROVE
      /\ hpc \in {"check", "get"} => NothingLost
      /\ \E n \in 0 .. Len(sent) :
           /\ IsPrefix(SubSeq(sent, 1, n), posted)
           /\ n < Len(sent) => hpc = "done" /\ n + 1 = Len(sent) /\ Last(sent)[1] = "error"
  BY DEF NothingLostInLoop
<1> USE DEF Inv
<1>1. /\ sent \in Seq(Messages) /\ posted \in Seq(Messages)
      /\ queue \in Seq(Messages \cup {None})
      /\ Len(sent) \in Nat /\ Len(posted) \in Nat /\ Len(queue) \in Nat
  BY DEF TypeOK
<1>2. ASSUME hpc \in {"check", "get"} PROVE NothingLost
  <2>1. PICK k \in 0 .. Len(queue) : Waits(k)
    BY DEF Queue
  <2>2. /\ k \in Nat /\ k <= Len(posted)
        /\ \A i \in 1 .. k : queue[i] = posted[Len(posted) - k + i]
        /\ \A i \in k + 1 .. Len(queue) : queue[i] = None
        /\ Len(sent) = Len(posted) - k
    BY <1>1, <1>2, <2>1 DEF Waits
  <2>3. SentUpTo(Len(sent))
    BY <1>2 DEF Sent
  <2> DEFINE w == SubSeq(queue, 1, k)
  <2>4. /\ Len(w) = k /\ \A i \in 1 .. k : w[i] = queue[i]
        /\ w \in Seq(Messages \cup {None})
    BY <1>1, <2>1
  <2> HIDE DEF w
  <2>5. /\ sent \o w \in Seq(Messages \cup {None}) /\ Len(sent \o w) = Len(posted)
        /\ \A i \in 1 .. Len(posted) :
             (sent \o w)[i] = IF i <= Len(sent) THEN sent[i] ELSE w[i - Len(sent)]
    <3>1. sent \in Seq(Messages \cup {None})
      BY <1>1
    <3>2. Len(sent) + Len(w) = Len(posted)
      BY <1>1, <2>2, <2>4
    <3> QED BY <2>4, <3>1, <3>2, ConcatProperties
  <2>6. ASSUME NEW i \in 1 .. Len(posted) PROVE (sent \o w)[i] = posted[i]
    <3>1. CASE i <= Len(sent)
      BY <1>1, <2>3, <2>5, <3>1 DEF SentUpTo
    <3>2. CASE ~(i <= Len(sent))
      <4>1. i - Len(sent) \in 1 .. k /\ Len(posted) - k + (i - Len(sent)) = i
        BY <1>1, <2>2, <3>2
      <4>2. w[i - Len(sent)] = posted[i]
        BY <2>2, <2>4, <4>1
      <4> QED BY <2>5, <3>2, <4>2
    <3> QED BY <3>1, <3>2
  <2>7. posted \in Seq(Messages \cup {None})
    BY <1>1
  <2>8. sent \o w = posted
    BY <2>5, <2>6, <2>7, SeqEqual
  <2> QED BY <2>1, <2>2, <2>8 DEF NothingLost, w
<1>3. CASE SentUpTo(Len(sent))
  <2>1. Len(sent) \in 0 .. Len(sent) /\ ~(Len(sent) < Len(sent))
    BY <1>1
  <2>2. IsPrefix(SubSeq(sent, 1, Len(sent)), posted)
    BY <1>1, <1>3, <2>1, PrefixByPlace DEF SentUpTo
  <2> QED BY <1>2, <2>1, <2>2
<1>4. CASE /\ hpc = "done" /\ iface = "grpc"
           /\ Len(sent) > 0 /\ SentUpTo(Len(sent) - 1)
           /\ sent[Len(sent)][1] = "error"
  <2>1. Len(sent) - 1 \in 0 .. Len(sent) /\ Len(sent) - 1 + 1 = Len(sent)
    BY <1>1, <1>4
  <2>2. IsPrefix(SubSeq(sent, 1, Len(sent) - 1), posted)
    BY <1>1, <1>4, <2>1, PrefixByPlace DEF SentUpTo
  <2>3. Last(sent)[1] = "error"
    BY <1>4 DEF Last
  <2> QED BY <1>2, <1>4, <2>1, <2>2, <2>3
<1> QED BY <1>3, <1>4 DEF Sent

(***************************************************************************)
(* Until the generator leaves its loop nothing that was streamed is lost,  *)
(* reordered or doubled: clearing the flag before None is put, in whatever *)
(* order the two threads take their steps, is safe.                        *)
(***************************************************************************)
THEOREM StreamKept == Spec => []NothingLostInLoop
BY Invariant, InvNothingLost, PTL

LEMMA InvFinalEnds == Inv => FinalEndsStream
<1> SUFFICES ASSUME Inv PROVE FinalEndsStream
  OBVIOUS
<1> USE DEF Inv
<1>1. /\ Len(sent) \in Nat /\ Len(posted) \in Nat
      /\ \A i \in 1 .. Len(posted) - 1 : posted[i][1] # "final"
  BY DEF TypeOK, Finals
<1>2. ASSUME NEW i \in 1 .. Len(sent) - 1, sent[i][1] = "final"
      PROVE  iface = "grpc" /\ sent[i + 1][1] = "error"
  <2>1. i \in 1 .. Len(sent) /\ i < Len(sent)
    BY <1>1
  <2>2. CASE SentUpTo(Len(sent))
    <3>1. sent[i] = posted[i] /\ i \in 1 .. Len(posted) - 1
      BY <1>1, <2>1, <2>2 DEF SentUpTo
    <3> QED BY <1>1, <1>2, <3>1
  <2>3. CASE /\ hpc = "done" /\ iface = "grpc"
             /\ Len(sent) > 0 /\ SentUpTo(Len(sent) - 1)
             /\ sent[Len(sent)][1] = "error"
    <3>1. sent[i] = posted[i] /\ i \in 1 .. Len(posted) /\ Len(sent) - 1 <= Len(posted)
      BY <1>1, <2>1, <2>3 DEF SentUpTo
    <3>2. i = Len(posted)
      BY <1>1, <1>2, <3>1
    <3>3. i + 1 = Len(sent)
      BY <1>1, <2>1, <3>1, <3>2
    <3> QED BY <2>3, <3>3
  <2> QED BY <2>2, <2>3 DEF Sent
<1> QED BY <1>1, <1>2 DEF FinalEndsStream

(***************************************************************************)
(* The final message ends what is streamed, and what is received but for   *)
(* the error that PredictStreaming may append.                             *)
(***************************************************************************)
THEOREM FinalIsTheEnd == Spec => []FinalEndsStream
BY Invariant, InvFinalEnds, PTL

LEMMA InvErrorEnds == Inv => ErrorEndsStream
<1> SUFFICES ASSUME Inv PROVE ErrorEndsStream
  OBVIOUS
<1> USE DEF Inv
<1>1. iface = "grpc" /\ hpc = "done" /\ (err \/ raised) => sent # <<>> /\ Last(sent)[1] = "error"
  BY DEF Errors, Last
<1>2. EndsWith({"error", "final"}) => posted # <<>> /\ Last(posted)[1] \in {"error", "final"}
  BY DEF EndsWith, Last
<1>3. ipc = "done" /\ Reports => EndsWith({"error", "final"})
  BY DEF Flag, Errors
<1>4. iface = "http" /\ ipc = "done" /\ (err \/ raised)
        => posted # <<>> /\ Last(posted)[1] \in {"error", "final"}
  BY <1>2, <1>3 DEF Reports
<1>5. iface = "custom" /\ ipc = "done" /\ raised
        => posted # <<>> /\ Last(posted)[1] \in {"error", "final"}
  BY <1>2, <1>3 DEF Reports
<1> QED BY <1>1, <1>4, <1>5 DEF ErrorEndsStream

(***************************************************************************)
(* Whatever is raised ends the stream with an error, or the stream was     *)
(* over; so does has_err for gRPC and plain HTTP.  Of customized HTTP the  *)
(* theorem says nothing when has_err is set: its handler only logs it.     *)
(***************************************************************************)
THEOREM ErrorIsTheEnd == Spec => []ErrorEndsStream
BY Invariant, InvErrorEnds, PTL

=============================================================================
