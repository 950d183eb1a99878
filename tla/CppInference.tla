---------------------------- MODULE CppInference ----------------------------
(***************************************************************************)
(* One request of the C++ server from its handler (handler/grps_handler.cc)*)
(* through Executor::Infer and SequentialDag::Infer to the model nodes, and*)
(* back.  The predict thread owns the request; each batched node also has  *)
(* the worker thread of the batch the request fell in, which shares the    *)
(* GrpsContext and the output message with the predict thread.  What the   *)
(* other requests of a batch can do to this one is that the whole batch    *)
(* throws; how batches are made is CppDynamicBatcher.                      *)
(*                                                                         *)
(* The DAG runs node 1 from the request to `output` and every later node   *)
(* from `output` to `output`.  Contents are numbers: 0 is the request, i   *)
(* the result of node i, Cleared an empty message.                         *)
(***************************************************************************)
EXTENDS Integers, Sequences

CONSTANTS
  Pipelines,   \* the node kinds, in order, of the DAGs that may be configured
  Interfaces,  \* how the request may have arrived
  MaxParts     \* bound on the stream messages of a request

Kinds         == {"plain", "converter", "batched"}
AllInterfaces == {"unary", "grpc_stream", "http_stream", "custom", "custom_stream"}
Streams       == {"grpc_stream", "http_stream", "custom_stream"}

ASSUME PipelinesAssumption  == Pipelines \subseteq Seq(Kinds) \ {<<>>}
ASSUME InterfacesAssumption == Interfaces \subseteq AllInterfaces
ASSUME MaxPartsAssumption   == MaxParts \in Nat

VARIABLES
  nodes,      \* sequence_ of the DAG
  iface,      \* which handler serves the request
  pc,         \* where the predict thread stands
  at,         \* index of the node it is at
  output,     \* contents of the output message
  seen,       \* pairs <<node, contents its model was given as input>>
  job,        \* for each batched node, what the worker does with the request
  ptr,        \* batcher_promise_: index of the node it points into, 0 for null
  promise,    \* state of the promise on the stack of each node's Infer
  once,       \* promise_notified_flag_
  err,        \* has_err_
  streamEnd,  \* streaming_end_
  sent,       \* what the client has been sent
  verdict     \* what the handler counts in the failure rate

dagVars    == <<nodes, iface, at>>
batchVars  == <<job, ptr, promise, once>>
streamVars == <<streamEnd, sent>>
vars       == <<dagVars, pc, output, seen, batchVars, err, streamVars, verdict>>

Cleared == -1

Init ==
  /\ nodes \in Pipelines /\ iface \in Interfaces
  /\ pc = "start" /\ at = 0 /\ output = Cleared /\ seen = {}
  /\ job = [i \in DOMAIN nodes |-> "none"]
  /\ ptr = 0 /\ promise = [i \in DOMAIN nodes |-> "none"] /\ once = FALSE
  /\ err = FALSE /\ streamEnd = FALSE /\ sent = <<>> /\ verdict = "none"
-----------------------------------------------------------------------------
(***************************************************************************)
(* GrpsContext.                                                            *)
(***************************************************************************)
\* Mutant: no once flag.
NotifyEveryTime ==
  /\ once' = TRUE
  /\ promise' = IF ptr = 0 THEN promise ELSE [promise EXCEPT ![ptr] = "set"]

BatcherPromiseNotify ==
  /\ once' = TRUE
  /\ promise' = IF once \/ ptr = 0 THEN promise ELSE [promise EXCEPT ![ptr] = "set"]

\* Mutant: streaming_end_ is not looked at.
WriteUnlessNoWriter(msg) == sent' = IF iface \in Streams THEN Append(sent, msg) ELSE sent

\* StreamingRespond and CustomizedHttpStreamingRespond: nothing is written
\* without a writer or after the final message.
Write(msg) == sent' = IF iface \in Streams /\ ~streamEnd THEN Append(sent, msg) ELSE sent

\* The inferer streams a message, or the final one.
Respond ==
  /\ Len(sent) < MaxParts
  /\ \/ /\ Write("part")
        /\ UNCHANGED <<streamEnd, promise, once>>
     \/ /\ Write("final")
        /\ iface \in Streams
        /\ streamEnd' = TRUE
        /\ IF ~streamEnd /\ ptr # 0 THEN BatcherPromiseNotify
                                    ELSE UNCHANGED <<promise, once>>
  /\ UNCHANGED <<dagVars, output, seen, job, ptr, err, verdict>>
-----------------------------------------------------------------------------
(***************************************************************************)
(* The predict thread in the executor, the DAG and the nodes.              *)
(***************************************************************************)
\* The named model is unknown, or it (as one node) or the DAG is entered.
Lookup ==
  /\ pc = "start"
  /\ \/ pc' = "caught" /\ at' = at
     \/ pc' = "enter" /\ at' = 1
  /\ UNCHANGED <<nodes, iface, output, seen, batchVars, err, streamVars, verdict>>

Input == IF at = 1 THEN 0 ELSE output

\* A model without converter: output.Clear() comes before the inferer reads.
EnterPlain ==
  /\ pc = "enter" /\ nodes[at] = "plain"
  /\ pc' = "infer"
  /\ output' = Cleared
  /\ seen' = seen \cup {<<at, IF at = 1 THEN 0 ELSE Cleared>>}
  /\ UNCHANGED <<dagVars, batchVars, err, streamVars, verdict>>

\* Mutant: the output is cleared before the converter has read the input.
EnterConverterCleared ==
  /\ pc = "enter" /\ nodes[at] = "converter"
  /\ pc' = "infer"
  /\ output' = Cleared
  /\ seen' = seen \cup {<<at, IF at = 1 THEN 0 ELSE Cleared>>}
  /\ UNCHANGED <<dagVars, batchVars, err, streamVars, verdict>>

\* A model with a converter: PreProcess reads, the clearing comes later.
EnterConverter ==
  /\ pc = "enter" /\ nodes[at] = "converter"
  /\ pc' = "infer"
  /\ seen' = seen \cup {<<at, Input>>}
  /\ UNCHANGED <<dagVars, output, batchVars, err, streamVars, verdict>>

\* The calls of the node return: with its result, with an error it reported
\* before or after the output was cleared, or early because of an older error.
Finish ==
  /\ pc = "infer"
  /\ pc' = "next"
  /\ \/ output' = at /\ err' = err
     \/ output' \in {output, Cleared} /\ err' = TRUE
  /\ UNCHANGED <<dagVars, seen, batchVars, streamVars, verdict>>

\* A call of the node throws a std::exception, up to the handler.
ThrowUp ==
  /\ pc = "infer"
  /\ pc' = "caught"
  /\ output' \in {output, Cleared}
  /\ UNCHANGED <<dagVars, seen, batchVars, err, streamVars, verdict>>

\* DynamicBatcher::Infer: a promise on the stack, the context pointed to it.
EnterBatched ==
  /\ pc = "enter" /\ nodes[at] = "batched"
  /\ pc' = "wait"
  /\ ptr' = at
  /\ promise' = [promise EXCEPT ![at] = "live"]
  /\ job' = [job EXCEPT ![at] = "queued"]
  /\ UNCHANGED <<dagVars, output, seen, once, err, streamVars, verdict>>

Wake ==
  /\ pc = "wait" /\ promise[at] = "set"
  /\ pc' = "next"
  /\ promise' = [promise EXCEPT ![at] = "dead"]
  /\ UNCHANGED <<dagVars, output, seen, job, ptr, once, err, streamVars, verdict>>

\* Mutant: the loop stops one node early.
NextNodeShort ==
  /\ pc = "next"
  /\ IF err \/ at >= Len(nodes) - 1
     THEN pc' = "answer" /\ at' = at
     ELSE pc' = "enter" /\ at' = at + 1
  /\ UNCHANGED <<nodes, iface, output, seen, batchVars, err, streamVars, verdict>>

\* The loop of SequentialDag::Infer.
NextNode ==
  /\ pc = "next"
  /\ IF err \/ at = Len(nodes)
     THEN pc' = "answer" /\ at' = at
     ELSE pc' = "enter" /\ at' = at + 1
  /\ UNCHANGED <<nodes, iface, output, seen, batchVars, err, streamVars, verdict>>
-----------------------------------------------------------------------------
(***************************************************************************)
(* The handlers.                                                           *)
(***************************************************************************)
\* Mutant: PredictStreaming returns before writer->Write.
TellUnaryOnly(thrown) ==
  sent' = IF iface = "unary" \/ thrown THEN Append(sent, "error") ELSE sent

\* How the client is told of an error.  PredictStreaming writes to its writer,
\* PredictByHttp goes through StreamingRespond, and the customized handler
\* reports exceptions only.
TellError(thrown) ==
  CASE iface = "http_stream" -> Write("error")
    [] iface = "custom" /\ ~thrown -> sent' = Append(sent, "reply")
    [] iface = "custom_stream" /\ ~thrown -> UNCHANGED sent
    [] OTHER -> sent' = Append(sent, "error")

Answer ==
  /\ pc = "answer"
  /\ pc' = "done"
  /\ verdict' = IF err THEN "error" ELSE "ok"
  /\ IF err THEN TellError(FALSE)
            ELSE sent' = IF iface \in Streams THEN sent ELSE Append(sent, "reply")
  /\ UNCHANGED <<dagVars, output, seen, batchVars, err, streamEnd>>

\* What was thrown is caught as a std::exception.
Catch ==
  /\ pc = "caught"
  /\ pc' = "done"
  /\ verdict' = "error"
  /\ TellError(TRUE)
  /\ UNCHANGED <<dagVars, output, seen, batchVars, err, streamEnd>>

Predict ==
  \/ Lookup \/ EnterPlain \/ EnterConverter \/ EnterBatched
  \/ pc = "infer" /\ Respond /\ UNCHANGED pc
  \/ Finish \/ ThrowUp \/ Wake \/ NextNode \/ Answer \/ Catch
-----------------------------------------------------------------------------
(***************************************************************************)
(* The worker thread of the batch of node i.                               *)
(***************************************************************************)
Run(i) ==
  /\ job[i] = "queued"
  /\ job' = [job EXCEPT ![i] = "running"]
  /\ seen' = seen \cup {<<i, IF i = 1 THEN 0 ELSE output>>}
  /\ UNCHANGED <<dagVars, pc, output, ptr, promise, once, err, streamVars, verdict>>

\* The calls of BatchInferProcess return, with the request's output filled or
\* the request in error, or one of them throws for the whole batch.
Ran(i) ==
  /\ job[i] = "running"
  /\ \/ /\ job' = [job EXCEPT ![i] = "notify"]
        /\ \/ output' = i /\ err' = err
           \/ output' = output /\ err' = TRUE
     \/ /\ job' = [job EXCEPT ![i] = "fail"]
        /\ UNCHANGED <<output, err>>
  /\ UNCHANGED <<dagVars, pc, seen, ptr, promise, once, streamVars, verdict>>

\* Mutant: the catch block only records the error.
NotifyUnlessFailed(i) ==
  /\ job[i] \in {"notify", "fail"}
  /\ err' = (err \/ job[i] = "fail")
  /\ IF job[i] = "fail" THEN UNCHANGED <<promise, once>> ELSE BatcherPromiseNotify
  /\ job' = [job EXCEPT ![i] = "done"]
  /\ UNCHANGED <<dagVars, pc, output, seen, ptr, streamVars, verdict>>

\* The notify loop or the catch block reaches the request.
Notify(i) ==
  /\ job[i] \in {"notify", "fail"}
  /\ err' = (err \/ job[i] = "fail")
  /\ BatcherPromiseNotify
  /\ job' = [job EXCEPT ![i] = "done"]
  /\ UNCHANGED <<dagVars, pc, output, seen, ptr, streamVars, verdict>>

Worker(i) ==
  \/ Run(i)
  \/ job[i] = "running" /\ Respond /\ UNCHANGED pc
  \/ Ran(i) \/ Notify(i)

\* The request is over; its workers may still run.
Done == pc = "done" /\ UNCHANGED vars

Next == Predict \/ (\E i \in DOMAIN nodes : Worker(i)) \/ Done

\* The predict thread and the workers run, and the user's calls return.
Spec     == Init /\ [][Next]_vars
FairSpec == Spec /\ WF_vars(Predict) /\ WF_vars(\E i \in DOMAIN nodes : Worker(i))
-----------------------------------------------------------------------------
(***************************************************************************)
(* Properties.                                                             *)
(***************************************************************************)
\* The shape of the state, whatever the pipeline.
TypeOK ==
  /\ nodes \in Pipelines /\ iface \in Interfaces
  /\ pc \in {"start", "enter", "infer", "wait", "next", "answer", "caught", "done"}
  /\ at \in 0 .. Len(nodes) /\ ptr \in 0 .. Len(nodes)
  /\ output \in {Cleared} \cup 1 .. Len(nodes)
  /\ seen \subseteq (DOMAIN nodes) \X (-1 .. Len(nodes))
  /\ job \in [DOMAIN nodes -> {"none", "queued", "running", "notify", "fail", "done"}]
  /\ promise \in [DOMAIN nodes -> {"none", "live", "set", "dead"}]
  /\ once \in BOOLEAN /\ err \in BOOLEAN /\ streamEnd \in BOOLEAN
  /\ sent \in Seq({"part", "final", "reply", "error"})
  /\ verdict \in {"none", "ok", "error"}

(***************************************************************************)
(* The first model is given the request, and every batched model and every *)
(* one with a converter what the model before it produced (converter.h:65),*)
(* although nodes after the first read and write the same message, unless  *)
(* the stream was ended early and the DAG ran ahead of the worker.         *)
(***************************************************************************)
NodeInputIntact ==
  streamEnd \/ \A s \in seen : s[1] = 1 \/ nodes[s[1]] # "plain" => s[2] = s[1] - 1

(***************************************************************************)
(* The input of every model is the request or the output of the model      *)
(* before it, as docs/5_Customized.md:448 says of models without converter.*)
(* Not so: node.cc:103 clears the message that such a model, when it is    *)
(* not the first of its DAG, is about to read.                             *)
(***************************************************************************)
InputIsPredecessors == streamEnd \/ \A s \in seen : s[2] = s[1] - 1

(***************************************************************************)
(* batcher_promise_ keeps pointing into the frame of Infer after it has    *)
(* returned, and later nodes, streamed finals and late workers still go    *)
(* through it: no promise is set that is not alive.                        *)
(***************************************************************************)
PromiseAlive ==
  [][\A i \in DOMAIN nodes :
       promise'[i] = "set" /\ promise[i] # "set" => promise[i] = "live"]_vars

(***************************************************************************)
(* A success is counted only when the result of the last node is in the    *)
(* output, computed from the request through every node, or the inferer    *)
(* ended the stream itself.                                                *)
(***************************************************************************)
OkMeansComplete ==
  verdict = "ok" /\ ~streamEnd =>
    /\ output = Len(nodes)
    /\ \A i \in DOMAIN nodes : \E s \in seen : s[1] = i

\* The customized handlers leave errors of the context to the user's code.
Customized == {"custom", "custom_stream"}

(***************************************************************************)
(* A request counted as failed has told its client so, in whichever of the *)
(* threads the error arose, unless the stream was over already.            *)
(***************************************************************************)
ErrorReported ==
  verdict = "error" /\ iface \notin Customized /\ ~streamEnd
    => \E i \in DOMAIN sent : sent[i] = "error"

(***************************************************************************)
(* After the final message of a stream only the handler of gRPC or of      *)
(* customized HTTP can still write, and only an error.                     *)
(***************************************************************************)
FinalIsLast ==
  \A i \in 1 .. Len(sent) - 1 :
    sent[i] = "final" => sent[i + 1] = "error" /\ iface # "http_stream"

(***************************************************************************)
(* The handler answers every request, unless its pipeline has a second     *)
(* batched node: the request waits there for a promise that the once flag  *)
(* of its context keeps from being set.                                    *)
(***************************************************************************)
PredictReturns ==
  pc = "start" ~>
    \/ pc = "done"
    \/ pc = "wait" /\ once /\ \E i \in 1 .. at - 1 : nodes[i] = "batched"
=============================================================================
