----------------------------- MODULE PyStreaming -----------------------------
(***************************************************************************)
(* One streaming request of the Python server.  The predict thread of the  *)
(* pool runs Executor.infer and puts what the inferer streams into a queue *)
(* of the GrpsContext; the handler's generator, in a thread of the gRPC or *)
(* HTTP server, takes it out and yields it to the client.  The generator   *)
(* is stopped by clearing a flag and then putting None, which wakes it up. *)
(*                                                                         *)
(* PredictStreaming (handler/grps_handler.py) is "grpc", predict with      *)
(* streaming=true is "http", predict_custom_http is "custom".              *)
(***************************************************************************)
EXTENDS Naturals, Sequences, SequencesExt

CONSTANTS
  Interfaces,   \* how the request may have arrived
  MaxMessages,  \* bound on what the inferer streams
  None          \* what stop puts into the queue

ASSUME InterfacesAssumption  == Interfaces \subseteq {"grpc", "http", "custom"}
ASSUME MaxMessagesAssumption == MaxMessages \in Nat \ {0}

VARIABLES
  iface,   \* the handler that serves the request
  run,     \* _grpc_streaming_run or _http_streaming_run
  queue,   \* _grpc_streaming_queue or _http_streaming_queue
  posted,  \* all messages that were put into it, in order
  ipc,     \* where the predict thread stands
  after,   \* where it goes once the generator is stopped
  err,     \* has_err of the context
  raised,  \* whether an exception leaves the executor
  hpc,     \* where the generator stands
  gone,    \* whether the client has hung up
  sent     \* what the client has been sent

predictVars == <<posted, ipc, after, err, raised>>
clientVars  == <<hpc, gone, sent>>
vars        == <<iface, run, queue, predictVars, clientVars>>

Kinds    == {"part", "final", "error"}
Messages == Kinds \X Nat

ASSUME NoneAssumption == None \notin Messages

Init ==
  /\ iface \in Interfaces
  /\ run = TRUE /\ queue = <<>> /\ posted = <<>>
  /\ ipc = "infer" /\ after = "infer" /\ err = FALSE /\ raised = FALSE
  /\ hpc = "check" /\ gone = FALSE /\ sent = <<>>
-----------------------------------------------------------------------------
(***************************************************************************)
(* The predict thread.                                                     *)
(***************************************************************************)
\* A message that is streamed, numbered by its place in the stream.
Message(kind) == <<kind, Len(posted)>>

\* Mutant: the flag is not looked at.
PutAnyway(kind) ==
  /\ queue' = Append(queue, Message(kind))
  /\ posted' = Append(posted, Message(kind))

\* Put of both respond functions; dropped once the generator is stopped.
Put(kind) ==
  IF run THEN /\ queue' = Append(queue, Message(kind))
              /\ posted' = Append(posted, Message(kind))
         ELSE UNCHANGED <<queue, posted>>

\* The inferer streams a message that is not the last.
RespondPart ==
  /\ ipc = "infer"
  /\ Len(posted) < MaxMessages
  /\ Put("part")
  /\ UNCHANGED <<iface, run, ipc, after, err, raised, clientVars>>

\* It streams its last message, which it may do once; both respond functions
\* then stop the generator.
RespondFinal ==
  /\ ipc = "infer" /\ run
  /\ Len(posted) < MaxMessages
  /\ Put("final")
  /\ ipc' = "stop"
  /\ UNCHANGED <<iface, run, after, err, raised, clientVars>>

\* Mutant: None is not put.
StopWithoutNone ==
  /\ ipc = "none"
  /\ ipc' = after
  /\ UNCHANGED <<iface, run, queue, posted, after, err, raised, clientVars>>

\* stop_grpc_streaming_generator, stop_http_streaming_generator: the flag,
StopFlag ==
  /\ ipc = "stop"
  /\ ipc' = "none"
  /\ run' = FALSE
  /\ UNCHANGED <<iface, queue, posted, after, err, raised, clientVars>>

\* then None.
StopNone ==
  /\ ipc = "none"
  /\ ipc' = after
  /\ queue' = Append(queue, None)
  /\ UNCHANGED <<iface, run, posted, after, err, raised, clientVars>>

\* The models of the DAG are done, or one has reported an error, or raised.
Inferred ==
  /\ ipc = "infer"
  /\ ipc' = "wrap"
  /\ \/ UNCHANGED <<err, raised>>
     \/ err' = TRUE /\ raised' = FALSE
     \/ err' = FALSE /\ raised' = TRUE
  /\ UNCHANGED <<iface, run, queue, posted, after, clientVars>>

\* The handlers of HTTP stream an error themselves.
Reports == \/ iface = "http" /\ (err \/ raised)
           \/ iface = "custom" /\ raised

\* The finally clauses: Executor.infer stops a gRPC generator that runs, the
\* task of an HTTP handler stops its generator in any case.
Wrap ==
  /\ ipc = "wrap"
  /\ IF Reports THEN Put("error") ELSE UNCHANGED <<queue, posted>>
  /\ ipc' = IF iface = "grpc" /\ ~run THEN "done" ELSE "stop"
  /\ after' = "done"
  /\ UNCHANGED <<iface, run, err, raised, clientVars>>

PredictThread ==
  RespondPart \/ RespondFinal \/ StopFlag \/ StopNone \/ Inferred \/ Wrap
-----------------------------------------------------------------------------
(***************************************************************************)
(* The generator.                                                          *)
(***************************************************************************)
\* Head of the loop.
Check ==
  /\ hpc = "check"
  /\ hpc' = IF run THEN "get" ELSE IF iface = "grpc" THEN "join" ELSE "done"
  /\ UNCHANGED <<iface, run, queue, predictVars, gone, sent>>

Take == queue # <<>> /\ queue' = Tail(queue)

\* The queue wakes the generator up with None.
GetNone ==
  /\ hpc = "get" /\ Take /\ Head(queue) = None
  /\ hpc' = "check"
  /\ UNCHANGED <<iface, run, predictVars, gone, sent>>

\* Mutant: the flag is tested again between get and yield.
YieldWhileRunning ==
  /\ hpc = "get" /\ Take /\ Head(queue) # None /\ ~gone
  /\ hpc' = "check"
  /\ sent' = IF run THEN Append(sent, Head(queue)) ELSE sent
  /\ UNCHANGED <<iface, run, predictVars, gone>>

\* It takes a message and the client receives it,
Yield ==
  /\ hpc = "get" /\ Take /\ Head(queue) # None /\ ~gone
  /\ hpc' = "check"
  /\ sent' = Append(sent, Head(queue))
  /\ UNCHANGED <<iface, run, predictVars, gone>>

\* or the client has hung up: gRPC never resumes the generator, that of HTTP
\* catches GeneratorExit, notes it and goes on with its loop.
HangUp ==
  /\ hpc = "get" /\ Take /\ Head(queue) # None /\ ~gone
  /\ gone' = TRUE
  /\ hpc' = IF iface = "grpc" THEN "abandoned" ELSE "check"
  /\ UNCHANGED <<iface, run, predictVars, sent>>

\* A generator that yields after GeneratorExit is aborted.
YieldToNobody ==
  /\ hpc = "get" /\ Take /\ Head(queue) # None /\ gone
  /\ hpc' = "abandoned"
  /\ UNCHANGED <<iface, run, predictVars, gone, sent>>

\* Mutant: has_err is not looked at.
JoinRaisedOnly ==
  /\ hpc = "join" /\ ipc = "done"
  /\ hpc' = "done"
  /\ sent' = IF raised THEN Append(sent, Message("error")) ELSE sent
  /\ UNCHANGED <<iface, run, queue, predictVars, gone>>

\* work.result(), has_err and the except clause of PredictStreaming.
Join ==
  /\ hpc = "join" /\ ipc = "done"
  /\ hpc' = "done"
  /\ sent' = IF err \/ raised THEN Append(sent, Message("error")) ELSE sent
  /\ UNCHANGED <<iface, run, queue, predictVars, gone>>

Generator == Check \/ GetNone \/ Yield \/ HangUp \/ YieldToNobody \/ Join

Ended == hpc \in {"done", "abandoned"}

\* Both threads are over.
Done == Ended /\ ipc = "done" /\ UNCHANGED vars

Next == PredictThread \/ Generator \/ Done

\* Both threads run, and the user's calls return.
Spec     == Init /\ [][Next]_vars
FairSpec == Spec /\ WF_vars(PredictThread) /\ WF_vars(Generator)
-----------------------------------------------------------------------------
(***************************************************************************)
(* Properties.                                                             *)
(***************************************************************************)
\* The client has received, or will find in the queue, all that was streamed,
\* and in the queue nothing but None is behind it.
NothingLost ==
  \E k \in 0 .. Len(queue) :
    /\ sent \o SubSeq(queue, 1, k) = posted
    /\ \A i \in k + 1 .. Len(queue) : queue[i] = None

(***************************************************************************)
(* Until the generator leaves its loop, a connected client has received    *)
(* everything that was streamed, in order and once, but for what is still  *)
(* queued, and no message is queued behind a None: clearing the flag while *)
(* get returns loses nothing.  After the loop what is lost is the end of   *)
(* the stream, never a message within.                                     *)
(***************************************************************************)
NothingLostInLoop ==
  ~gone =>
    /\ hpc \in {"check", "get"} => NothingLost
    /\ \E n \in 0 .. Len(sent) :
         /\ IsPrefix(SubSeq(sent, 1, n), posted)
         /\ n < Len(sent) => hpc = "done" /\ n + 1 = Len(sent) /\ Last(sent)[1] = "error"

(***************************************************************************)
(* Nothing is streamed after the final message, by the inferer or by a     *)
(* handler of HTTP that reports an error; PredictStreaming alone still     *)
(* appends an error when it has joined the predict thread.                 *)
(***************************************************************************)
FinalEndsStream ==
  /\ \A i \in 1 .. Len(posted) - 1 : posted[i][1] # "final"
  /\ \A i \in 1 .. Len(sent) - 1 :
       sent[i][1] = "final" => iface = "grpc" /\ sent[i + 1][1] = "error"

(***************************************************************************)
(* The client of gRPC that stays connected is sent an error at the end of  *)
(* its stream when the inferer set has_err or raised.  For plain HTTP the  *)
(* error, of either kind, is queued last unless the stream was over        *)
(* already; for customized HTTP only what is raised is.  A has_err of a    *)
(* customized streaming request is logged and nothing else: its stream     *)
(* ends as that of a success does.                                         *)
(***************************************************************************)
ErrorEndsStream ==
  /\ iface = "grpc" /\ hpc = "done" /\ (err \/ raised)
       => sent # <<>> /\ Last(sent)[1] = "error"
  /\ iface = "http" /\ ipc = "done" /\ (err \/ raised)
       => posted # <<>> /\ Last(posted)[1] \in {"error", "final"}
  /\ iface = "custom" /\ ipc = "done" /\ raised
       => posted # <<>> /\ Last(posted)[1] \in {"error", "final"}

(***************************************************************************)
(* The generator comes to an end whatever the client does and whenever the *)
(* flag is cleared: it is never left waiting on an empty queue.            *)
(***************************************************************************)
StreamEnds == <>Ended
=============================================================================
