------------------------- MODULE CppInference_proofs -------------------------
(***************************************************************************)
(* Theorems about CppInference, for every set of pipelines and interfaces  *)
(* and any number of stream messages.                                      *)
(***************************************************************************)
EXTENDS CppInference, TLAPS

-----------------------------------------------------------------------------
(***************************************************************************)
(* The inductive invariant.  Once the inferer has ended the stream, the    *)
(* DAG may run ahead of the worker of a batch; before that, predict thread *)
(* and worker take turns, which is what Turns and Progress say.            *)
(***************************************************************************)
\* The predict thread is at a node, and workers have requests of batched nodes.
Located ==
  /\ pc \in {"enter", "infer", "wait", "next"} => at \in DOMAIN nodes
  /\ \A i \in DOMAIN nodes : job[i] # "none" => nodes[i] = "batched"

\* The promise that the context points to is alive until it is notified.
Pointed ==
  /\ ptr # 0 /\ ~once => promise[ptr] = "live"
  /\ \A i \in DOMAIN nodes : promise[i] = "set" => once
  /\ pc = "wait" => ptr = at

\* A worker is busy with the request only while the predict thread waits for
\* it, unless the stream was ended.
Turns ==
  \A i \in DOMAIN nodes :
    job[i] \in {"queued", "running", "notify", "fail"} /\ ~streamEnd
      => pc = "wait" /\ at = i /\ promise[i] = "live"

WasGiven(i) == \E s \in seen : s[1] = i

\* The node at which the predict thread stands has been given its input.
Began ==
  \/ pc \in {"infer", "next"}
  \/ pc = "wait" /\ (job[at] \in {"running", "notify", "fail"} \/ promise[at] = "set")

\* What is in the output, and which nodes have run.
Progress ==
  ~streamEnd =>
    /\ pc \in {"enter", "infer", "wait", "next"} =>
         \A i \in DOMAIN nodes : i < at \/ (i = at /\ Began) => WasGiven(i)
    /\ pc = "enter" /\ at > 1 => output = at - 1
    /\ pc = "wait" =>
         /\ job[at] = "queued" /\ at > 1 => output = at - 1
         /\ job[at] = "notify" /\ ~err => output = at
         /\ promise[at] = "set" /\ ~err => output = at
    /\ pc = "next" /\ ~err => output = at
    /\ pc = "answer" /\ ~err => output = Len(nodes) /\ \A i \in DOMAIN nodes : WasGiven(i)

\* The flow of the request through the nodes.
Flow ==
  /\ Turns /\ Progress /\ NodeInputIntact /\ OkMeansComplete
  /\ verdict # "none" => pc = "done"

\* What the client has been sent.
Told ==
  /\ verdict = "error" /\ iface \notin Customized /\ ~streamEnd
       => \E i \in DOMAIN sent : sent[i] = "error"
  /\ \A i \in DOMAIN sent : sent[i] = "final" => streamEnd /\ iface \in Streams
  /\ FinalIsLast

Shape == TypeOK /\ Located

Invariant == Shape /\ Pointed /\ Flow /\ Told

-----------------------------------------------------------------------------
(***************************************************************************)
(* Types, and where the predict thread stands.                             *)
(***************************************************************************)
LEMMA NodesType ==
  ASSUME nodes \in Pipelines
  PROVE  /\ nodes \in Seq(Kinds) /\ Len(nodes) \in Nat /\ Len(nodes) >= 1
         /\ DOMAIN nodes = 1 .. Len(nodes)
<1>1. nodes \in Seq(Kinds) /\ nodes # <<>>
  BY PipelinesAssumption
<1>2. QED BY <1>1

LEMMA ShapeInit == Init => Shape
<1> SUFFICES ASSUME Init PROVE Shape
  OBVIOUS
<1>1. Len(nodes) \in Nat /\ Len(nodes) >= 1
  BY NodesType DEF Init
<1>2. /\ job \in [DOMAIN nodes -> {"none", "queued", "running", "notify", "fail", "done"}]
      /\ promise \in [DOMAIN nodes -> {"none", "live", "set", "dead"}]
  BY DEF Init
<1>3. sent \in Seq({"part", "final", "reply", "error"})
  BY DEF Init
<1>4. TypeOK
  <2>1. seen \subseteq (DOMAIN nodes) \X (-1 .. Len(nodes))
    BY DEF Init
  <2>2. output \in {Cleared} \cup 1 .. Len(nodes)
    BY DEF Init
  <2>3. at \in 0 .. Len(nodes) /\ ptr \in 0 .. Len(nodes)
    BY <1>1 DEF Init
  <2>4. QED BY <1>2, <1>3, <2>1, <2>2, <2>3 DEF Init, TypeOK
<1>5. QED BY <1>4 DEF Init, Shape, Located

Messages == {"part", "final", "reply", "error"}

LEMMA WriteType ==
  ASSUME sent \in Seq(Messages), NEW msg \in Messages, Write(msg)
  PROVE  sent' \in Seq(Messages)
BY DEF Write

LEMMA AnswerSends ==
  ASSUME Answer \/ Catch
  PROVE  \/ sent' = sent
         \/ sent' = Append(sent, "error")
         \/ sent' = Append(sent, "reply") /\ iface \notin Streams
<1>1. ASSUME NEW thrown \in BOOLEAN, TellError(thrown)
      PROVE  \/ sent' = sent
             \/ sent' = Append(sent, "error")
             \/ sent' = Append(sent, "reply") /\ iface \notin Streams
  <2>1. CASE iface = "http_stream"
    BY <1>1, <2>1 DEF TellError, Write
  <2>2. CASE iface = "custom" /\ ~thrown
    BY <1>1, <2>2 DEF TellError, Streams
  <2>3. CASE iface = "custom_stream" /\ ~thrown
    BY <1>1, <2>3 DEF TellError
  <2>4. CASE /\ iface # "http_stream"
             /\ ~(iface = "custom" /\ ~thrown) /\ ~(iface = "custom_stream" /\ ~thrown)
    BY <1>1, <2>4 DEF TellError
  <2>5. QED BY <2>1, <2>2, <2>3, <2>4
<1>2. CASE Answer
  BY <1>1, <1>2 DEF Answer
<1>3. CASE Catch
  BY <1>1, <1>3 DEF Catch
<1>4. QED BY <1>2, <1>3

LEMMA NotifyType ==
  ASSUME TypeOK, nodes' = nodes, BatcherPromiseNotify \/ UNCHANGED <<promise, once>>
  PROVE  promise' \in [DOMAIN nodes -> {"none", "live", "set", "dead"}] /\ once' \in BOOLEAN
BY DEF TypeOK, BatcherPromiseNotify

LEMMA RespondShape ==
  ASSUME Shape, Respond, UNCHANGED pc PROVE Shape'
<1>1. sent' \in Seq(Messages)
  BY WriteType DEF Respond, Shape, TypeOK, Messages
<1>2. promise' \in [DOMAIN nodes -> {"none", "live", "set", "dead"}] /\ once' \in BOOLEAN
  BY NotifyType DEF Respond, Shape, dagVars
<1>3. streamEnd' \in BOOLEAN
  BY DEF Respond, Shape, TypeOK
<1>4. QED BY <1>1, <1>2, <1>3 DEF Respond, Shape, TypeOK, Located, dagVars, Messages

LEMMA PredictShape ==
  ASSUME Shape, Predict PROVE Shape'
<1>0. /\ Len(nodes) \in Nat /\ Len(nodes) >= 1 /\ DOMAIN nodes = 1 .. Len(nodes)
      /\ at \in 0 .. Len(nodes)
  BY NodesType DEF Shape, TypeOK
<1>1. CASE Lookup
  BY <1>0, <1>1 DEF Lookup, Shape, TypeOK, Located, dagVars, batchVars, streamVars
<1>2. CASE EnterPlain
  BY <1>0, <1>2 DEF EnterPlain, Shape, TypeOK, Located, Cleared, dagVars, batchVars, streamVars
<1>3. CASE EnterConverter
  BY <1>0, <1>3 DEF EnterConverter, Input, Shape, TypeOK, Located, Cleared, dagVars, batchVars, streamVars
<1>4. CASE EnterBatched
  BY <1>0, <1>4 DEF EnterBatched, Shape, TypeOK, Located, dagVars, streamVars
<1>5. CASE pc = "infer" /\ Respond /\ UNCHANGED pc
  BY <1>5, RespondShape DEF Respond, Shape, TypeOK
<1>6. CASE Finish
  BY <1>0, <1>6 DEF Finish, Shape, TypeOK, Located, Cleared, dagVars, batchVars, streamVars
<1>7. CASE ThrowUp
  BY <1>0, <1>7 DEF ThrowUp, Shape, TypeOK, Located, Cleared, dagVars, batchVars, streamVars
<1>8. CASE Wake
  BY <1>0, <1>8 DEF Wake, Shape, TypeOK, Located, dagVars, streamVars
<1>9. CASE NextNode
  <2>1. at' \in 0 .. Len(nodes) /\ (pc' = "enter" => at' \in 1 .. Len(nodes))
    <3>1. (pc' = "answer" /\ at' = at) \/ (pc' = "enter" /\ at' = at + 1 /\ at # Len(nodes))
      BY <1>9 DEF NextNode
    <3>2. at \in 1 .. Len(nodes)
      BY <1>0, <1>9 DEF NextNode, Shape, Located
    <3>3. Len(nodes) \in Nat
      BY <1>0
    <3>4. QED BY <3>1, <3>2, <3>3
  <2>2. pc' \in {"answer", "enter"}
    BY <1>9 DEF NextNode
  <2>3. QED BY <1>0, <1>9, <2>1, <2>2 DEF NextNode, Shape, TypeOK, Located, batchVars, streamVars
<1>10. CASE Answer
  <2>1. sent' \in Seq(Messages)
    <3>1. sent \in Seq(Messages)
      BY DEF Shape, TypeOK, Messages
    <3>2. sent' = sent \/ sent' = Append(sent, "error") \/ sent' = Append(sent, "reply")
      BY <1>10, AnswerSends
    <3>3. QED BY <3>1, <3>2 DEF Messages
  <2>2. QED BY <1>0, <1>10, <2>1 DEF Answer, Shape, TypeOK, Located, Messages, dagVars, batchVars
<1>11. CASE Catch
  <2>1. sent' \in Seq(Messages)
    <3>1. sent \in Seq(Messages)
      BY DEF Shape, TypeOK, Messages
    <3>2. sent' = sent \/ sent' = Append(sent, "error") \/ sent' = Append(sent, "reply")
      BY <1>11, AnswerSends
    <3>3. QED BY <3>1, <3>2 DEF Messages
  <2>2. QED BY <1>0, <1>11, <2>1 DEF Catch, Shape, TypeOK, Located, Messages, dagVars, batchVars
<1>12. QED
  BY <1>1, <1>2, <1>3, <1>4, <1>5, <1>6, <1>7, <1>8, <1>9, <1>10, <1>11 DEF Predict

LEMMA WorkerShape ==
  ASSUME Shape, NEW i \in DOMAIN nodes, Worker(i) PROVE Shape'
<1>0. /\ Len(nodes) \in Nat /\ Len(nodes) >= 1 /\ DOMAIN nodes = 1 .. Len(nodes)
  BY NodesType DEF Shape, TypeOK
<1>1. CASE Run(i)
  BY <1>0, <1>1 DEF Run, Shape, TypeOK, Located, Cleared, dagVars, streamVars
<1>2. CASE job[i] = "running" /\ Respond /\ UNCHANGED pc
  BY <1>2, RespondShape DEF Respond, Shape, TypeOK
<1>3. CASE Ran(i)
  <2>1. /\ job \in [DOMAIN nodes -> {"none", "queued", "running", "notify", "fail", "done"}]
        /\ job[i] = "running" /\ nodes' = nodes
        /\ job' = [job EXCEPT ![i] = "notify"] \/ job' = [job EXCEPT ![i] = "fail"]
    BY <1>3 DEF Ran, Shape, TypeOK, dagVars
  <2>2. /\ job' \in [DOMAIN nodes' -> {"none", "queued", "running", "notify", "fail", "done"}]
        /\ \A k \in DOMAIN nodes' : job'[k] # "none" => job[k] # "none"
    BY <2>1
  <2>3. output' \in {Cleared} \cup 1 .. Len(nodes) /\ err' \in BOOLEAN
    BY <1>0, <1>3 DEF Ran, Shape, TypeOK
  <2>4. UNCHANGED <<nodes, iface, pc, at, ptr, seen, promise, once, streamEnd, sent, verdict>>
    BY <1>3 DEF Ran, dagVars, streamVars
  <2>5. TypeOK'
    BY <2>2, <2>3, <2>4 DEF Shape, TypeOK
  <2>6. Located'
    BY <2>2, <2>4 DEF Shape, Located
  <2> QED BY <2>5, <2>6 DEF Shape
<1>4. CASE Notify(i)
  <2>1. promise' \in [DOMAIN nodes -> {"none", "live", "set", "dead"}] /\ once' \in BOOLEAN
    BY <1>4, NotifyType DEF Notify, Shape, dagVars
  <2>2. QED BY <1>0, <1>4, <2>1 DEF Notify, Shape, TypeOK, Located, dagVars, streamVars
<1>5. QED BY <1>1, <1>2, <1>3, <1>4 DEF Worker

LEMMA StutterShape == ASSUME Shape, UNCHANGED vars PROVE Shape'
BY DEF vars, dagVars, batchVars, streamVars, Shape, TypeOK, Located

LEMMA ShapeNext == Shape /\ [Next]_vars => Shape'
BY PredictShape, WorkerShape, StutterShape DEF Next, Done
-----------------------------------------------------------------------------
(***************************************************************************)
(* The promise of the batched node.                                        *)
(***************************************************************************)
PromiseStep ==
  \A i \in DOMAIN nodes : promise'[i] = "set" /\ promise[i] # "set" => promise[i] = "live"

LEMMA PointedInit == Init => Pointed
BY DEF Init, Pointed

LEMMA PtrInNodes ==
  ASSUME Shape, ptr # 0 PROVE ptr \in DOMAIN nodes
BY NodesType DEF Shape, TypeOK

LEMMA NotifyPointed ==
  ASSUME Shape, Pointed, BatcherPromiseNotify, UNCHANGED <<nodes, pc, at, ptr>>
  PROVE  Pointed' /\ PromiseStep
<1>1. promise \in [DOMAIN nodes -> {"none", "live", "set", "dead"}] /\ once \in BOOLEAN
  BY DEF Shape, TypeOK
<1>2. CASE once \/ ptr = 0
  <2>1. promise' = promise /\ once' = TRUE
    BY <1>2 DEF BatcherPromiseNotify
  <2>2. QED BY <2>1 DEF Pointed, PromiseStep
<1>3. CASE ~once /\ ptr # 0
  <2>1. promise' = [promise EXCEPT ![ptr] = "set"] /\ once' = TRUE
    BY <1>3 DEF BatcherPromiseNotify
  <2>2. ptr \in DOMAIN nodes /\ promise[ptr] = "live"
    BY <1>3, PtrInNodes DEF Pointed
  <2>3. QED BY <1>1, <2>1, <2>2 DEF Pointed, PromiseStep
<1>4. QED BY <1>2, <1>3

LEMMA RespondPointed ==
  ASSUME Shape, Pointed, Respond, UNCHANGED pc PROVE Pointed' /\ PromiseStep
<1>1. UNCHANGED <<nodes, at, ptr>>
  BY DEF Respond, dagVars
<1>2. CASE UNCHANGED <<promise, once>>
  BY <1>1, <1>2 DEF Pointed, PromiseStep
<1>3. CASE BatcherPromiseNotify
  BY <1>1, <1>3, NotifyPointed
<1>4. QED BY <1>2, <1>3 DEF Respond

LEMMA PointedNext ==
  ASSUME Shape, Pointed, [Next]_vars PROVE Pointed' /\ PromiseStep
<1> USE DEF Pointed, PromiseStep
<1>0. /\ promise \in [DOMAIN nodes -> {"none", "live", "set", "dead"}] /\ once \in BOOLEAN
      /\ DOMAIN nodes = 1 .. Len(nodes) /\ Len(nodes) \in Nat
  BY NodesType DEF Shape, TypeOK
<1>1. CASE UNCHANGED vars
  BY <1>1 DEF vars, dagVars, batchVars
<1>2. CASE Lookup \/ EnterPlain \/ EnterConverter \/ Finish \/ ThrowUp \/ NextNode \/ Answer \/ Catch
  <2>1. UNCHANGED <<nodes, batchVars>> /\ pc' # "wait"
    BY <1>2 DEF Lookup, EnterPlain, EnterConverter, Finish, ThrowUp, NextNode, Answer, Catch, dagVars
  <2>2. QED BY <2>1 DEF batchVars
<1>3. CASE EnterBatched
  <2>1. at \in DOMAIN nodes
    BY <1>3 DEF EnterBatched, Shape, Located
  <2>2. QED BY <1>0, <1>3, <2>1 DEF EnterBatched, dagVars
<1>4. CASE Wake
  <2>1. at \in DOMAIN nodes /\ once
    BY <1>4 DEF Wake, Shape, Located
  <2>2. QED BY <1>0, <1>4, <2>1 DEF Wake, dagVars
<1>5. CASE pc = "infer" /\ Respond /\ UNCHANGED pc
  BY <1>5, RespondPointed
<1>6. ASSUME NEW i \in DOMAIN nodes, Worker(i) PROVE Pointed' /\ PromiseStep
  <2>1. CASE Run(i) \/ Ran(i)
    BY <2>1 DEF Run, Ran, dagVars
  <2>2. CASE job[i] = "running" /\ Respond /\ UNCHANGED pc
    BY <2>2, RespondPointed
  <2>3. CASE Notify(i)
    BY <2>3, NotifyPointed DEF Notify, dagVars
  <2>4. QED BY <1>6, <2>1, <2>2, <2>3 DEF Worker
<1>7. QED
  BY <1>1, <1>2, <1>3, <1>4, <1>5, <1>6 DEF Next, Predict, Done

-----------------------------------------------------------------------------
(***************************************************************************)
(* The turns of predict thread and worker, and what they leave in output.  *)
(***************************************************************************)
\* A property of the flow holds of nothing once the stream is over.
LEMMA StreamEndStays ==
  ASSUME Shape, [Next]_vars PROVE streamEnd => streamEnd'
<1>1. Respond => (streamEnd => streamEnd')
  BY DEF Respond
<1>2. ASSUME NEW i \in DOMAIN nodes, Worker(i) PROVE streamEnd => streamEnd'
  BY <1>1, <1>2 DEF Worker, Run, Ran, Notify, streamVars
<1>3. CASE Predict
  BY <1>1, <1>3 DEF Predict, Lookup, EnterPlain, EnterConverter, EnterBatched, Finish, ThrowUp,
                    Wake, NextNode, Answer, Catch, streamVars
<1>4. CASE UNCHANGED vars
  BY <1>4 DEF vars, streamVars
<1>5. QED BY <1>2, <1>3, <1>4 DEF Next, Done

LEMMA FlowInit == Init => Flow
<1> SUFFICES ASSUME Init PROVE Flow
  OBVIOUS
<1>1. Turns
  BY DEF Init, Turns
<1>2. Progress
  BY DEF Init, Progress
<1>3. NodeInputIntact /\ OkMeansComplete
  BY DEF Init, NodeInputIntact, OkMeansComplete
<1>4. QED BY <1>1, <1>2, <1>3 DEF Init, Flow
LEMMA FlowUnchanged ==
  ASSUME Flow, UNCHANGED <<dagVars, pc, output, seen, job, promise, err, streamEnd, verdict>>
  PROVE  Flow'
<1> USE DEF Flow, dagVars
<1>1. Turns' /\ NodeInputIntact' /\ OkMeansComplete'
  BY DEF Turns, NodeInputIntact, OkMeansComplete
<1>2. Progress'
  BY DEF Progress, Began, WasGiven
<1>3. QED BY <1>1, <1>2

LEMMA RespondFlow ==
  ASSUME Flow, Respond, UNCHANGED pc, ~streamEnd' PROVE Flow'
<1>1. UNCHANGED <<promise, streamEnd>>
  BY DEF Respond
<1>2. QED BY <1>1, FlowUnchanged DEF Respond

\* While the stream is open, no worker has the request unless it is waited for.
NoneActive == \A i \in DOMAIN nodes : job[i] \notin {"queued", "running", "notify", "fail"}

\* The node at which the predict thread stands is given its input.
LEMMA GivenProgress ==
  ASSUME Shape, Progress, ~streamEnd, NEW content,
         UNCHANGED <<nodes, at, streamEnd>>, pc = "enter", pc' = "infer",
         seen' = seen \cup {<<at, content>>}
  PROVE  Progress'
<1>1. \A i \in DOMAIN nodes : i < at => WasGiven(i)
  BY DEF Progress
<1>2. \A i \in DOMAIN nodes : i < at => WasGiven(i)'
  BY <1>1 DEF WasGiven
<1>3. <<at, content>> \in seen' /\ <<at, content>>[1] = at
  OBVIOUS
<1>4. WasGiven(at)'
  BY <1>3 DEF WasGiven
<1>5. \A i \in DOMAIN nodes' : i < at' \/ i = at' => WasGiven(i)'
  BY <1>2, <1>4
<1>6. QED BY <1>5 DEF Progress

LEMMA PredictFlow ==
  ASSUME Shape, Pointed, Flow, Predict, ~streamEnd, ~streamEnd' PROVE Flow'
<1> USE DEF Flow
<1>0. /\ DOMAIN nodes = 1 .. Len(nodes) /\ Len(nodes) \in Nat /\ at \in 0 .. Len(nodes)
      /\ job \in [DOMAIN nodes -> {"none", "queued", "running", "notify", "fail", "done"}]
      /\ promise \in [DOMAIN nodes -> {"none", "live", "set", "dead"}] /\ err \in BOOLEAN
      /\ nodes' = nodes
  <2>1. nodes' = nodes
    BY DEF Predict, Lookup, EnterPlain, EnterConverter, EnterBatched, Respond, Finish, ThrowUp,
           Wake, NextNode, Answer, Catch, dagVars
  <2>2. QED BY <2>1, NodesType DEF Shape, TypeOK
<1>1. pc # "wait" => NoneActive
  BY DEF Turns, NoneActive
<1>2. pc # "done" => verdict = "none"
  OBVIOUS
<1>3. CASE Lookup
  <2>1. Turns'
    BY <1>0, <1>1, <1>3 DEF Lookup, Turns, NoneActive, batchVars, streamVars
  <2>2. Progress'
    BY <1>0, <1>3 DEF Lookup, Progress, Began, WasGiven, batchVars, streamVars
  <2>3. NodeInputIntact' /\ OkMeansComplete' /\ verdict' = "none"
    BY <1>2, <1>3 DEF Lookup, NodeInputIntact, OkMeansComplete, streamVars
  <2>4. QED BY <2>1, <2>2, <2>3
<1>4. CASE EnterPlain
  <2>1. Turns'
    BY <1>0, <1>1, <1>4 DEF EnterPlain, Turns, NoneActive, dagVars, batchVars, streamVars
  <2>2. Progress'
    <3>1. /\ UNCHANGED <<nodes, at, streamEnd>> /\ pc' = "infer" /\ pc = "enter"
          /\ seen' = seen \cup {<<at, IF at = 1 THEN 0 ELSE Cleared>>}
      BY <1>4 DEF EnterPlain, dagVars, streamVars
    <3>2. QED BY <3>1, GivenProgress
  <2>3. NodeInputIntact' /\ OkMeansComplete' /\ verdict' = "none"
    BY <1>0, <1>2, <1>4 DEF EnterPlain, NodeInputIntact, OkMeansComplete, Shape, Located, dagVars, streamVars
  <2>4. QED BY <2>1, <2>2, <2>3
<1>5. CASE EnterConverter
  <2>1. Turns'
    BY <1>0, <1>1, <1>5 DEF EnterConverter, Turns, NoneActive, dagVars, batchVars, streamVars
  <2>2. Progress'
    <3>1. /\ UNCHANGED <<nodes, at, streamEnd>> /\ pc' = "infer" /\ pc = "enter"
          /\ seen' = seen \cup {<<at, Input>>}
      BY <1>5 DEF EnterConverter, dagVars, streamVars
    <3>2. QED BY <3>1, GivenProgress
  <2>3. NodeInputIntact' /\ OkMeansComplete' /\ verdict' = "none"
    <3>1. at \in DOMAIN nodes /\ Input = at - 1 /\ nodes[at] # "plain"
      <4>1. at \in 1 .. Len(nodes) /\ pc = "enter" /\ nodes[at] = "converter"
        BY <1>0, <1>5 DEF EnterConverter, Shape, Located
      <4>2. at # 1 => output = at - 1
        BY <1>0, <4>1 DEF Progress
      <4>3. Input = at - 1
        <5>1. CASE at = 1
          BY <5>1 DEF Input
        <5>2. CASE at # 1
          BY <4>2, <5>2 DEF Input
        <5>3. QED BY <5>1, <5>2
      <4>4. QED BY <1>0, <4>1, <4>3
    <3>2. QED
      BY <1>0, <1>2, <1>5, <3>1 DEF EnterConverter, NodeInputIntact, OkMeansComplete, dagVars, streamVars
  <2>4. QED BY <2>1, <2>2, <2>3
<1>6. CASE EnterBatched
  <2>0. at \in DOMAIN nodes
    BY <1>6 DEF EnterBatched, Shape, Located
  <2>1. Turns'
    BY <1>0, <1>1, <1>6, <2>0 DEF EnterBatched, Turns, NoneActive, dagVars, streamVars
  <2>2. Progress'
    BY <1>0, <1>6, <2>0 DEF EnterBatched, Progress, Began, WasGiven, dagVars, streamVars
  <2>3. NodeInputIntact' /\ OkMeansComplete' /\ verdict' = "none"
    BY <1>2, <1>6 DEF EnterBatched, NodeInputIntact, OkMeansComplete, dagVars, streamVars
  <2>4. QED BY <2>1, <2>2, <2>3
<1>7. CASE pc = "infer" /\ Respond /\ UNCHANGED pc
  BY <1>7, RespondFlow
<1>8. CASE Finish
  <2>1. Turns'
    BY <1>0, <1>1, <1>8 DEF Finish, Turns, NoneActive, dagVars, batchVars, streamVars
  <2>2. Progress'
    BY <1>0, <1>8 DEF Finish, Progress, Began, WasGiven, dagVars, batchVars, streamVars
  <2>3. NodeInputIntact' /\ OkMeansComplete' /\ verdict' = "none"
    BY <1>2, <1>8 DEF Finish, NodeInputIntact, OkMeansComplete, dagVars, streamVars
  <2>4. QED BY <2>1, <2>2, <2>3
<1>9. CASE ThrowUp
  <2>1. Turns'
    BY <1>0, <1>1, <1>9 DEF ThrowUp, Turns, NoneActive, dagVars, batchVars, streamVars
  <2>2. Progress'
    BY <1>0, <1>9 DEF ThrowUp, Progress, Began, WasGiven, dagVars, batchVars, streamVars
  <2>3. NodeInputIntact' /\ OkMeansComplete' /\ verdict' = "none"
    BY <1>2, <1>9 DEF ThrowUp, NodeInputIntact, OkMeansComplete, dagVars, streamVars
  <2>4. QED BY <2>1, <2>2, <2>3
<1>10. CASE Wake
  <2>0. at \in DOMAIN nodes /\ promise[at] = "set"
    BY <1>10 DEF Wake, Shape, Located
  <2>1. Turns'
    BY <1>0, <1>10, <2>0 DEF Wake, Turns, dagVars, streamVars
  <2>2. Progress'
    BY <1>0, <1>10, <2>0 DEF Wake, Progress, Began, WasGiven, dagVars, streamVars
  <2>3. NodeInputIntact' /\ OkMeansComplete' /\ verdict' = "none"
    BY <1>2, <1>10 DEF Wake, NodeInputIntact, OkMeansComplete, dagVars, streamVars
  <2>4. QED BY <2>1, <2>2, <2>3
<1>11. CASE NextNode
  <2>0. /\ UNCHANGED <<nodes, iface, output, seen, job, ptr, promise, once, err, streamEnd, verdict>>
        /\ pc = "next" /\ at \in DOMAIN nodes
        /\ \/ pc' = "answer" /\ at' = at /\ (err \/ at = Len(nodes))
           \/ pc' = "enter" /\ at' = at + 1 /\ ~err
    BY <1>11 DEF NextNode, batchVars, streamVars, Shape, Located
  <2>1. Turns'
    BY <1>0, <1>1, <2>0 DEF Turns, NoneActive
  <2>2. Progress'
    BY <1>0, <2>0 DEF Progress, Began, WasGiven
  <2>3. NodeInputIntact' /\ OkMeansComplete' /\ verdict' = "none"
    BY <1>2, <2>0 DEF NodeInputIntact, OkMeansComplete
  <2>4. QED BY <2>1, <2>2, <2>3
<1>12. CASE Answer
  <2>0. /\ UNCHANGED <<nodes, at, output, seen, job, ptr, promise, once, err, streamEnd>>
        /\ pc = "answer" /\ pc' = "done" /\ verdict' = IF err THEN "error" ELSE "ok"
    BY <1>12 DEF Answer, dagVars, batchVars
  <2>1. Turns'
    BY <1>0, <1>1, <2>0 DEF Turns, NoneActive
  <2>2. Progress'
    BY <1>0, <2>0 DEF Progress
  <2>3. NodeInputIntact' /\ OkMeansComplete'
    BY <2>0 DEF NodeInputIntact, OkMeansComplete, Progress, WasGiven
  <2>4. QED BY <2>0, <2>1, <2>2, <2>3
<1>13. CASE Catch
  <2>0. /\ UNCHANGED <<nodes, at, output, seen, job, ptr, promise, once, err, streamEnd>>
        /\ pc = "caught" /\ pc' = "done" /\ verdict' = "error"
    BY <1>13 DEF Catch, dagVars, batchVars
  <2>1. Turns'
    BY <1>0, <1>1, <2>0 DEF Turns, NoneActive
  <2>2. Progress'
    BY <1>0, <2>0 DEF Progress
  <2>3. NodeInputIntact' /\ OkMeansComplete'
    BY <2>0 DEF NodeInputIntact, OkMeansComplete
  <2>4. QED BY <2>0, <2>1, <2>2, <2>3
<1>14. QED
  BY <1>3, <1>4, <1>5, <1>6, <1>7, <1>8, <1>9, <1>10, <1>11, <1>12, <1>13 DEF Predict
LEMMA WorkerFlow ==
  ASSUME Shape, Pointed, Flow, NEW i \in DOMAIN nodes, Worker(i), ~streamEnd, ~streamEnd'
  PROVE  Flow'
<1> USE DEF Flow
<1>0. /\ DOMAIN nodes = 1 .. Len(nodes) /\ Len(nodes) \in Nat
      /\ job \in [DOMAIN nodes -> {"none", "queued", "running", "notify", "fail", "done"}]
      /\ promise \in [DOMAIN nodes -> {"none", "live", "set", "dead"}] /\ err \in BOOLEAN
  BY NodesType DEF Shape, TypeOK
<1>1. /\ pc = "wait" /\ at = i /\ ptr = i /\ promise[i] = "live" /\ verdict = "none"
      /\ \A j \in DOMAIN nodes : j # i => job[j] \notin {"queued", "running", "notify", "fail"}
  <2>1. job[i] \in {"queued", "running", "notify", "fail"}
    BY DEF Worker, Run, Ran, Notify
  <2>2. QED BY <2>1 DEF Turns, Pointed
<1>2. CASE Run(i)
  <2>0. /\ UNCHANGED <<nodes, pc, at, output, promise, err, streamEnd, verdict>>
        /\ job[i] = "queued" /\ job' = [job EXCEPT ![i] = "running"]
        /\ seen' = seen \cup {<<i, IF i = 1 THEN 0 ELSE output>>}
    BY <1>2 DEF Run, dagVars, streamVars
  <2>1. Turns'
    BY <1>0, <1>1, <2>0 DEF Turns
  <2>2. Progress'
    <3>1. \A j \in DOMAIN nodes : j < i => WasGiven(j)'
      BY <1>0, <1>1, <2>0 DEF Progress, WasGiven
    <3>2. <<i, IF i = 1 THEN 0 ELSE output>> \in seen' /\ <<i, IF i = 1 THEN 0 ELSE output>>[1] = i
      BY <2>0
    <3>3. WasGiven(i)'
      BY <3>2 DEF WasGiven
    <3>4. QED BY <1>0, <1>1, <2>0, <3>1, <3>3 DEF Progress
  <2>3. NodeInputIntact'
    <3>1. (IF i = 1 THEN 0 ELSE output) = i - 1 /\ nodes[i] # "plain"
      <4>1. i # 1 => output = i - 1
        BY <1>0, <1>1, <2>0 DEF Progress
      <4>2. nodes[i] # "plain"
        BY <2>0 DEF Shape, Located
      <4>3. QED BY <1>0, <4>1, <4>2
    <3>2. QED BY <2>0, <3>1 DEF NodeInputIntact
  <2>4. QED BY <1>1, <2>0, <2>1, <2>2, <2>3 DEF OkMeansComplete
<1>3. CASE job[i] = "running" /\ Respond /\ UNCHANGED pc
  BY <1>3, RespondFlow
<1>4. CASE Ran(i)
  <2>0. /\ UNCHANGED <<nodes, pc, at, seen, promise, streamEnd, verdict>> /\ job[i] = "running"
        /\ \/ job' = [job EXCEPT ![i] = "notify"] /\ output' = i /\ err' = err
           \/ job' = [job EXCEPT ![i] = "notify"] /\ output' = output /\ err' = TRUE
           \/ job' = [job EXCEPT ![i] = "fail"] /\ output' = output /\ err' = err
    BY <1>4 DEF Ran, dagVars, streamVars
  <2>1. Turns'
    BY <1>0, <1>1, <2>0 DEF Turns
  <2>2. Progress'
    BY <1>0, <1>1, <2>0 DEF Progress, Began, WasGiven
  <2>3. NodeInputIntact' /\ OkMeansComplete'
    BY <1>1, <2>0 DEF NodeInputIntact, OkMeansComplete
  <2>4. QED BY <1>1, <2>0, <2>1, <2>2, <2>3
<1>5. CASE Notify(i)
  <2>0. /\ UNCHANGED <<nodes, pc, at, output, seen, streamEnd, verdict>>
        /\ job[i] \in {"notify", "fail"} /\ job' = [job EXCEPT ![i] = "done"]
        /\ err' = (err \/ job[i] = "fail")
        /\ promise' = promise \/ promise' = [promise EXCEPT ![i] = "set"]
    BY <1>1, <1>5 DEF Notify, BatcherPromiseNotify, dagVars, streamVars
  <2>1. Turns'
    BY <1>0, <1>1, <2>0 DEF Turns
  <2>2. Progress'
    BY <1>0, <1>1, <2>0 DEF Progress, Began, WasGiven
  <2>3. NodeInputIntact' /\ OkMeansComplete'
    BY <1>1, <2>0 DEF NodeInputIntact, OkMeansComplete
  <2>4. QED BY <1>1, <2>0, <2>1, <2>2, <2>3
<1>6. QED BY <1>2, <1>3, <1>4, <1>5 DEF Worker

LEMMA FlowNext ==
  ASSUME Shape, Pointed, Flow, [Next]_vars PROVE Flow'
<1>1. CASE UNCHANGED vars
  BY <1>1, FlowUnchanged DEF vars, batchVars, streamVars
<1>2. CASE streamEnd'
  <2>1. Turns' /\ Progress' /\ NodeInputIntact' /\ OkMeansComplete'
    BY <1>2 DEF Turns, Progress, NodeInputIntact, OkMeansComplete
  <2>2. (verdict # "none" => pc = "done")'
    <3>1. ASSUME NEW i \in DOMAIN nodes, Worker(i) PROVE UNCHANGED <<pc, verdict>>
      BY <3>1 DEF Worker, Run, Respond, Ran, Notify
    <3>2. CASE Predict
      <4>1. pc # "done" /\ (verdict' # verdict => pc' = "done")
        BY <3>2 DEF Predict, Lookup, EnterPlain, EnterConverter, EnterBatched, Respond, Finish,
                    ThrowUp, Wake, NextNode, Answer, Catch
      <4>2. QED BY <4>1 DEF Flow
    <3>3. CASE UNCHANGED vars
      BY <3>3 DEF Flow, vars
    <3>4. QED BY <3>1, <3>2, <3>3 DEF Flow, Next, Done
  <2>3. QED BY <2>1, <2>2 DEF Flow
<1>3. CASE ~streamEnd'
  <2>1. ~streamEnd
    BY <1>3, StreamEndStays
  <2>2. QED BY <1>1, <1>3, <2>1, PredictFlow, WorkerFlow DEF Next, Done
<1>4. QED BY <1>2, <1>3

-----------------------------------------------------------------------------
(***************************************************************************)
(* What the client is sent.                                                *)
(***************************************************************************)
LEMMA ToldInit == Init => Told
BY DEF Init, Told, FinalIsLast

\* A message that is not final, after a final one only an error, may be sent.
LEMMA SendTold ==
  ASSUME Shape, Told, UNCHANGED <<iface, streamEnd>>, NEW msg \in {"part", "reply", "error"},
         sent' = Append(sent, msg),
         streamEnd /\ iface \in Streams => msg = "error" /\ iface # "http_stream",
         verdict' = "error" => verdict = "error" \/ msg = "error" \/ iface \in Customized
  PROVE  Told'
<1>1. /\ sent \in Seq(Messages) /\ Len(sent) \in Nat /\ DOMAIN sent = 1 .. Len(sent)
      /\ DOMAIN sent' = 1 .. Len(sent) + 1 /\ Len(sent') = Len(sent) + 1
      /\ \A i \in 1 .. Len(sent) : sent'[i] = sent[i]
      /\ sent'[Len(sent) + 1] = msg
  <2>1. sent \in Seq(Messages)
    BY DEF Shape, TypeOK, Messages
  <2>2. QED BY <2>1
<1>2. \A i \in DOMAIN sent' : sent'[i] = "final" => streamEnd /\ iface \in Streams
  BY <1>1 DEF Told
<1>3. FinalIsLast'
  <2>1. ASSUME NEW i \in 1 .. Len(sent), sent[i] = "final"
        PROVE  sent'[i + 1] = "error" /\ iface # "http_stream"
    <3>1. CASE i = Len(sent)
      BY <1>1, <2>1, <3>1 DEF Told
    <3>2. CASE i # Len(sent)
      <4>0. Len(sent) \in Nat
        BY <1>1
      <4>1. i \in 1 .. Len(sent) - 1 /\ i + 1 \in 1 .. Len(sent)
        BY <3>2, <4>0
      <4>2. \A k \in 1 .. Len(sent) - 1 :
              sent[k] = "final" => sent[k + 1] = "error" /\ iface # "http_stream"
        BY DEF Told, FinalIsLast
      <4>3. sent[i + 1] = "error" /\ iface # "http_stream"
        BY <2>1, <4>1, <4>2
      <4>4. QED BY <1>1, <4>1, <4>3
    <3>3. QED BY <3>1, <3>2
  <2>2. QED BY <1>1, <2>1 DEF FinalIsLast
<1>4. verdict' = "error" /\ iface \notin Customized /\ ~streamEnd
        => \E i \in DOMAIN sent' : sent'[i] = "error"
  BY <1>1 DEF Told
<1>5. QED BY <1>2, <1>4, <1>3 DEF Told

LEMMA StillTold ==
  ASSUME Told, UNCHANGED <<iface, sent>>, streamEnd => streamEnd',
         verdict' = "error" => verdict = "error" \/ iface \in Customized \/ streamEnd'
  PROVE  Told'
BY DEF Told, FinalIsLast

LEMMA RespondTold ==
  ASSUME Shape, Told, Respond PROVE Told'
<1> USE DEF Respond, Write, dagVars
<1>1. CASE sent' = sent
  BY <1>1, StillTold
<1>2. CASE sent' = Append(sent, "part") /\ UNCHANGED streamEnd /\ ~streamEnd
  BY <1>2, SendTold
<1>3. CASE sent' = Append(sent, "final") /\ iface \in Streams /\ ~streamEnd /\ streamEnd' = TRUE
  <2>1. /\ sent \in Seq(Messages) /\ Len(sent) \in Nat /\ DOMAIN sent = 1 .. Len(sent)
        /\ Len(sent') = Len(sent) + 1
        /\ \A i \in 1 .. Len(sent) : sent'[i] = sent[i]
    <3>1. sent \in Seq(Messages)
      BY DEF Shape, TypeOK, Messages
    <3>2. QED BY <1>3, <3>1
  <2>2. \A i \in 1 .. Len(sent) : sent[i] # "final"
    BY <1>3, <2>1 DEF Told
  <2>3. FinalIsLast'
    BY <2>1, <2>2 DEF FinalIsLast
  <2>4. QED BY <1>3, <2>3 DEF Told
<1>4. QED BY <1>1, <1>2, <1>3

LEMMA AnswerTold ==
  ASSUME Shape, Told, verdict = "none", Answer \/ Catch PROVE Told'
<1>1. UNCHANGED <<iface, streamEnd>>
  BY DEF Answer, Catch, dagVars
<1>2. ASSUME NEW thrown \in BOOLEAN, TellError(thrown) PROVE Told'
  <2>1. CASE iface = "http_stream"
    <3>1. CASE streamEnd
      BY <1>1, <1>2, <2>1, <3>1, StillTold DEF TellError, Write
    <3>2. CASE ~streamEnd
      <4>1. sent' = Append(sent, "error")
        BY <1>2, <2>1, <3>2 DEF TellError, Write, Streams
      <4>2. QED BY <1>1, <3>2, <4>1, SendTold
    <3>3. QED BY <3>1, <3>2
  <2>2. CASE iface = "custom" /\ ~thrown
    <3>1. sent' = Append(sent, "reply") /\ iface \notin Streams /\ iface \in Customized
      BY <1>2, <2>2 DEF TellError, Streams, Customized
    <3>2. QED BY <1>1, <3>1, SendTold
  <2>3. CASE iface = "custom_stream" /\ ~thrown
    <3>1. sent' = sent /\ iface \in Customized
      BY <1>2, <2>3 DEF TellError, Customized
    <3>2. QED BY <1>1, <3>1, StillTold
  <2>4. CASE /\ iface # "http_stream"
             /\ ~(iface = "custom" /\ ~thrown) /\ ~(iface = "custom_stream" /\ ~thrown)
    <3>1. sent' = Append(sent, "error")
      BY <1>2, <2>4 DEF TellError
    <3>2. QED BY <1>1, <2>4, <3>1, SendTold
  <2>5. QED BY <2>1, <2>2, <2>3, <2>4
<1>3. CASE Catch
  BY <1>2, <1>3 DEF Catch
<1>4. CASE Answer /\ err
  BY <1>2, <1>4 DEF Answer
<1>5. CASE Answer /\ ~err
  <2>1. /\ verdict' = "ok"
        /\ IF iface \in Streams THEN sent' = sent ELSE sent' = Append(sent, "reply")
    BY <1>5 DEF Answer
  <2>2. QED BY <1>1, <2>1, StillTold, SendTold
<1>6. QED BY <1>3, <1>4, <1>5

LEMMA ToldNext ==
  ASSUME Shape, Flow, Told, [Next]_vars PROVE Told'
<1>1. CASE Answer \/ Catch
  <2>1. verdict = "none"
    BY <1>1 DEF Flow, Answer, Catch
  <2>2. QED BY <1>1, <2>1, AnswerTold
<1>2. CASE Respond
  BY <1>2, RespondTold
<1>3. CASE \/ Lookup \/ EnterPlain \/ EnterConverter \/ EnterBatched \/ Finish \/ ThrowUp
           \/ Wake \/ NextNode \/ UNCHANGED vars \/ \E i \in DOMAIN nodes : Run(i) \/ Ran(i) \/ Notify(i)
  <2>1. UNCHANGED <<iface, sent, streamEnd, verdict>>
    BY <1>3 DEF Lookup, EnterPlain, EnterConverter, EnterBatched, Finish, ThrowUp, Wake, NextNode,
                Run, Ran, Notify, vars, dagVars, streamVars
  <2>2. QED BY <2>1, StillTold
<1>4. QED BY <1>1, <1>2, <1>3 DEF Next, Predict, Worker, Done

-----------------------------------------------------------------------------
(***************************************************************************)
(* The theorems.                                                           *)
(***************************************************************************)
LEMMA InvariantInit == Init => Invariant
BY ShapeInit, PointedInit, FlowInit, ToldInit DEF Invariant

LEMMA InvariantNext == Invariant /\ [Next]_vars => Invariant' /\ PromiseStep
BY ShapeNext, PointedNext, FlowNext, ToldNext DEF Invariant

LEMMA InvariantAlways == Spec => []Invariant
BY InvariantInit, InvariantNext, PTL DEF Spec

(***************************************************************************)
(* The state has its types whatever the pipeline.                          *)
(***************************************************************************)
THEOREM TypesHold == Spec => []TypeOK
<1>1. Invariant => TypeOK
  BY DEF Invariant, Shape
<1>2. QED BY <1>1, InvariantAlways, PTL

(***************************************************************************)
(* The first model, every batched one and every one with a converter finds *)
(* its predecessor's result: before the stream ends the worker of a batch  *)
(* and the predict thread take turns at the output message.                *)
(***************************************************************************)
THEOREM InputsIntact == Spec => []NodeInputIntact
<1>1. Invariant => NodeInputIntact
  BY DEF Invariant, Flow
<1>2. QED BY <1>1, InvariantAlways, PTL

(***************************************************************************)
(* A success is the result of the last node, and every node has run.       *)
(***************************************************************************)
THEOREM SuccessComplete == Spec => []OkMeansComplete
<1>1. Invariant => OkMeansComplete
  BY DEF Invariant, Flow
<1>2. QED BY <1>1, InvariantAlways, PTL

(***************************************************************************)
(* The client of a failed request is told, in whichever thread it failed.  *)
(***************************************************************************)
THEOREM ErrorsReported == Spec => []ErrorReported
<1>1. Invariant => ErrorReported
  BY DEF Invariant, Told, ErrorReported
<1>2. QED BY <1>1, InvariantAlways, PTL

(***************************************************************************)
(* After the final message of a stream at most errors of the handler.      *)
(***************************************************************************)
THEOREM NothingAfterFinal == Spec => []FinalIsLast
<1>1. Invariant => FinalIsLast
  BY DEF Invariant, Told
<1>2. QED BY <1>1, InvariantAlways, PTL

(***************************************************************************)
(* No promise is set that is not alive, for any number of batched nodes,   *)
(* though the context keeps pointing to the last of them.                  *)
(***************************************************************************)
THEOREM PromisesAlive == Spec => PromiseAlive
<1>1. Invariant /\ [Next]_vars
        => [\A i \in DOMAIN nodes :
              promise'[i] = "set" /\ promise[i] # "set" => promise[i] = "live"]_vars
  BY InvariantNext DEF PromiseStep
<1>2. QED BY <1>1, InvariantAlways, PTL DEF Spec, PromiseAlive
=============================================================================
