------------------------- MODULE CppDynamicBatcher -------------------------
(***************************************************************************)
(* DynamicBatcher of the C++ server (batching/batcher.cc): predict threads *)
(* call Infer and wait on a promise, one schedule thread assembles batches *)
(* under queue_mutex_ / queue_cv_, a pool of worker threads runs each      *)
(* batch and notifies its contexts, and the main thread calls Stop.        *)
(*                                                                         *)
(* A request stands for its GrpsContext (context/context.h) together with  *)
(* the Task that points to it; the handler creates one for each request    *)
(* and every Task holds it by shared_ptr, so a context outlives its caller *)
(* until the last batch that holds it is gone.                             *)
(***************************************************************************)
EXTENDS Naturals, Sequences, FiniteSets, SequencesExt

CONSTANTS
  Requests,      \* contexts that may be in flight
  Workers,       \* threads of worker_tp_; the predict pool has as many
  MaxBatch,      \* max_batch_size_
  HasConverter,  \* whether the model has a converter_
  Streaming      \* the requests that carry a stream writer

ASSUME RequestsAssumption == IsFiniteSet(Requests) /\ Streaming \subseteq Requests
ASSUME WorkersAssumption  == IsFiniteSet(Workers)
ASSUME MaxBatchAssumption == MaxBatch \in Nat \ {0}
ASSUME ConverterAssumption == HasConverter \in BOOLEAN

VARIABLES
  queue,      \* task_queue_
  running,    \* running_ (atomic, not guarded by queue_mutex_)
  sched,      \* where schedule_thread_ stands
  tasks,      \* its local `tasks`
  expired,    \* whether timeout_point_us of the current round has passed
  posted,     \* batches handed to worker_tp_ and not yet started
  wpc,        \* what each worker does
  wbatch,     \* the batch it holds; in the notify loops, what is left of it
  phase,      \* what the predict thread of each request does
  outcome,    \* what its handler answers: the has_err it reads
  promise,    \* boost::promise on the stack of Infer
  notified,   \* promise_notified_flag_
  err,        \* has_err_
  output,     \* whether the output message has been filled
  streamEnd,  \* streaming_end_
  stop        \* where the thread in Stop stands

schedVars  == <<queue, sched, tasks, expired>>
workVars   == <<wpc, wbatch>>
callVars   == <<phase, outcome>>
ctxVars    == <<promise, notified, err, output, streamEnd>>
stopVars   == <<running, stop>>
vars       == <<schedVars, posted, workVars, callVars, ctxVars, stopVars>>

SchedPcs  == {"top", "test1", "block1", "asleep1", "check1", "collect",
              "block2", "asleep2", "wake2", "check2", "post", "exited"}
Stages    == {"pre", "infer", "post"}
WorkerPcs == {"idle", "notify", "fail"} \cup Stages

(***************************************************************************)
(* schedule_thread_ owns queue_mutex_ from line 30 to the end of the round *)
(* except while it sleeps on queue_cv_ or is about to lock again.  A       *)
(* caller locks and unlocks within one step.                               *)
(***************************************************************************)
LockHeld == sched \in {"block1", "check1", "collect", "block2", "check2", "post"}

\* Wait predicate of both waits.
Ready == queue # <<>> \/ ~running

\* notify_one and notify_all: schedule_thread_ is the only waiter.
Notified(pc) == CASE pc = "asleep1" -> "test1"
                  [] pc = "asleep2" -> "wake2"
                  [] OTHER          -> pc

Init ==
  /\ queue = <<>> /\ running = TRUE /\ sched = "top"
  /\ tasks = <<>> /\ expired = FALSE /\ posted = <<>>
  /\ wpc = [w \in Workers |-> "idle"]
  /\ wbatch = [w \in Workers |-> <<>>]
  /\ phase = [r \in Requests |-> "new"]
  /\ outcome = [r \in Requests |-> "none"]
  /\ promise = [r \in Requests |-> "none"]
  /\ notified = [r \in Requests |-> FALSE]
  /\ err = [r \in Requests |-> FALSE]
  /\ output = [r \in Requests |-> FALSE]
  /\ streamEnd = [r \in Requests |-> FALSE]
  /\ stop = "idle"
-----------------------------------------------------------------------------
(***************************************************************************)
(* Callers.                                                                *)
(***************************************************************************)
Waiting == {r \in Requests : phase[r] = "waiting"}

\* Mutants: no notification; the task enters at the front.
EnqueueSilently(r) == queue' = Append(queue, r) /\ sched' = sched
EnqueueFront(r)    == queue' = <<r>> \o queue /\ sched' = Notified(sched)

\* The critical section of Infer: emplace_back and notify_one.
Enqueue(r) ==
  /\ ~LockHeld
  /\ queue' = Append(queue, r)
  /\ sched' = Notified(sched)

\* Infer up to future.wait(), on a free thread of the predict pool.
Infer(r) ==
  /\ phase[r] = "new"
  /\ Cardinality(Waiting) < Cardinality(Workers)
  /\ phase' = [phase EXCEPT ![r] = "waiting"]
  /\ promise' = [promise EXCEPT ![r] = "live"]
  /\ Enqueue(r)
  /\ UNCHANGED <<tasks, expired, posted, workVars, outcome, notified, err,
                 output, streamEnd, stopVars>>

\* What the handler answers: it looks at has_err.
Verdict(r) == IF err[r] THEN "error" ELSE "ok"

\* future.wait() returns, the promise dies with the frame of Infer and the
\* handler answers.
Return(r) ==
  /\ phase[r] = "waiting"
  /\ promise[r] = "set"
  /\ phase' = [phase EXCEPT ![r] = "returned"]
  /\ promise' = [promise EXCEPT ![r] = "dead"]
  /\ outcome' = [outcome EXCEPT ![r] = Verdict(r)]
  /\ UNCHANGED <<schedVars, posted, workVars, notified, err, output,
                 streamEnd, stopVars>>

\* Requests whose context is still reachable from a Task.
PostedTasks == UNION {ToSet(posted[i]) : i \in DOMAIN posted}
WorkerTasks == UNION {ToSet(wbatch[w]) : w \in Workers}
Held        == ToSet(queue) \cup ToSet(tasks) \cup PostedTasks \cup WorkerTasks

\* The last reference to the context is gone; a later request gets a new one.
Renew(r) ==
  /\ phase[r] = "returned"
  /\ r \notin Held
  /\ phase' = [phase EXCEPT ![r] = "new"]
  /\ outcome' = [outcome EXCEPT ![r] = "none"]
  /\ promise' = [promise EXCEPT ![r] = "none"]
  /\ notified' = [notified EXCEPT ![r] = FALSE]
  /\ err' = [err EXCEPT ![r] = FALSE]
  /\ output' = [output EXCEPT ![r] = FALSE]
  /\ streamEnd' = [streamEnd EXCEPT ![r] = FALSE]
  /\ UNCHANGED <<schedVars, posted, workVars, stopVars>>
-----------------------------------------------------------------------------
(***************************************************************************)
(* The schedule thread.                                                    *)
(***************************************************************************)
Goto(from, to) == sched = from /\ sched' = to

\* while (running_).
Top ==
  /\ sched = "top"
  /\ sched' = IF running THEN "test1" ELSE "exited"
  /\ UNCHANGED <<queue, tasks, expired>>

\* Locks queue_mutex_ and evaluates the predicate of the first wait.
Test1 ==
  /\ Goto("test1", IF Ready THEN "check1" ELSE "block1")
  /\ UNCHANGED <<queue, tasks, expired>>

\* The predicate was false: releases the mutex and sleeps.
Block ==
  /\ \/ Goto("block1", "asleep1")
     \/ Goto("block2", "asleep2")
  /\ UNCHANGED <<queue, tasks, expired>>

\* What the drain loops take: up to the room left in the batch.
Room == MaxBatch - Len(tasks)

\* Mutant: `<=` for `<` in the loop.
TakenOneMore == SubSeq(queue, 1, IF Len(queue) <= Room THEN Len(queue) ELSE Room + 1)

Taken     == SubSeq(queue, 1, IF Len(queue) < Room THEN Len(queue) ELSE Room)
Remaining == SubSeq(queue, Len(Taken) + 1, Len(queue))

\* Mutant: a drain forgets what the batch already holds.
DrainOverwrites(expiredAfter) ==
  IF ~running
  THEN sched' = "exited" /\ tasks' = <<>> /\ UNCHANGED <<queue, expired>>
  ELSE sched' = "collect" /\ tasks' = Taken /\ queue' = Remaining /\ expired' = expiredAfter

\* Return, and with it drop what has been popped, or drain the queue.
Drain(expiredAfter) ==
  IF ~running
  THEN /\ sched' = "exited"
       /\ tasks' = <<>>
       /\ UNCHANGED <<queue, expired>>
  ELSE /\ sched' = "collect"
       /\ tasks' = tasks \o Taken
       /\ queue' = Remaining
       /\ expired' = expiredAfter

\* First drain; the deadline of the round starts here.
Check1 == sched = "check1" /\ Drain(FALSE)

\* Head of the collect loop and, when it goes on, the predicate of wait_until.
Collect ==
  /\ sched = "collect"
  /\ sched' = IF Len(tasks) >= MaxBatch \/ expired THEN "post"
              ELSE IF Ready THEN "check2" ELSE "block2"
  /\ UNCHANGED <<queue, tasks, expired>>

\* Woken before the deadline, wait_until evaluates its predicate again; past
\* the deadline it returns whatever the predicate says.
Wake2 ==
  /\ Goto("wake2", IF Ready \/ expired THEN "check2" ELSE "block2")
  /\ UNCHANGED <<queue, tasks, expired>>

\* Woken by the clock.
Timeout2 ==
  /\ expired
  /\ Goto("asleep2", "check2")
  /\ UNCHANGED <<queue, tasks, expired>>

\* The same after each wait of the collect loop.
Check2 == sched = "check2" /\ Drain(expired)

\* Hands the batch over and releases the mutex; the round is over, and with it
\* its deadline.
Post ==
  /\ Goto("post", "top")
  /\ posted' = IF tasks = <<>> THEN posted ELSE Append(posted, tasks)
  /\ tasks' = <<>> /\ expired' = FALSE
  /\ UNCHANGED queue

Scheduler ==
  /\ \/ /\ \/ Top \/ Test1 \/ Block \/ Check1 \/ Collect \/ Wake2
           \/ Timeout2 \/ Check2
        /\ UNCHANGED posted
     \/ Post
  /\ UNCHANGED <<workVars, callVars, ctxVars, stopVars>>

\* The clock passes timeout_point_us.
Expire ==
  /\ sched \in {"collect", "block2", "asleep2", "wake2", "check2"}
  /\ ~expired
  /\ expired' = TRUE
  /\ UNCHANGED <<queue, sched, tasks, posted, workVars, callVars, ctxVars, stopVars>>

\* A condition variable may wake its waiter without any notification.
SpuriousWakeup ==
  /\ sched \in {"asleep1", "asleep2"}
  /\ sched' = Notified(sched)
  /\ UNCHANGED <<queue, tasks, expired, posted, workVars, callVars, ctxVars, stopVars>>
-----------------------------------------------------------------------------
(***************************************************************************)
(* The workers.                                                            *)
(***************************************************************************)
\* A worker thread starts the oldest posted batch.
Take(w) ==
  /\ wpc[w] = "idle"
  /\ posted # <<>>
  /\ wbatch' = [wbatch EXCEPT ![w] = Head(posted)]
  /\ wpc' = [wpc EXCEPT ![w] = IF HasConverter THEN "pre" ELSE "infer"]
  /\ posted' = Tail(posted)
  /\ UNCHANGED <<schedVars, callVars, ctxVars, stopVars>>

LastStage == IF HasConverter THEN "post" ELSE "infer"

\* Mutant: no stage is the last one.
NextPcFallsThrough(pc) == IF pc = "pre" THEN "infer" ELSE IF pc = "infer" THEN "post" ELSE "done"

\* What follows a stage that has left somebody without error.
NextPc(pc) == IF pc = LastStage THEN "notify"
              ELSE IF pc = "pre" THEN "infer" ELSE "post"

\* Mutant: one error is taken for all.
AnyErr(batch, e) == \E r \in ToSet(batch) : e[r]

AllErr(batch, e) == \A r \in ToSet(batch) : e[r]

\* One call of the converter or of the inferer returns, having put some of the
\* requests of the batch in error; the last call fills the outputs of the rest.
Stage(w) ==
  /\ wpc[w] \in Stages
  /\ \E bad \in SUBSET ToSet(wbatch[w]) :
       /\ err' = [r \in Requests |-> err[r] \/ r \in bad]
       /\ output' = [r \in Requests |->
                       \/ output[r]
                       \/ /\ wpc[w] = LastStage
                          /\ r \in ToSet(wbatch[w])
                          /\ ~err'[r]]
       /\ wpc' = [wpc EXCEPT ![w] = IF AllErr(wbatch[w], err')
                                    THEN "notify" ELSE NextPc(wpc[w])]
  /\ UNCHANGED <<schedVars, posted, wbatch, callVars, promise, notified,
                 streamEnd, stopVars>>

\* The call throws: control moves to the catch block.
Throw(w) ==
  /\ wpc[w] \in Stages
  /\ wpc' = [wpc EXCEPT ![w] = "fail"]
  /\ UNCHANGED <<schedVars, posted, wbatch, callVars, ctxVars, stopVars>>

\* Mutant: no once flag.
NotifyEveryTime(r) ==
  /\ notified' = [notified EXCEPT ![r] = TRUE]
  /\ promise' = [promise EXCEPT ![r] = "set"]

\* call_once on the flag of the context.
BatcherPromiseNotify(r) ==
  /\ notified' = [notified EXCEPT ![r] = TRUE]
  /\ promise' = [promise EXCEPT ![r] = IF notified[r] THEN @ ELSE "set"]

\* User code streams the final message of a request of its batch.
StreamFinal(w, r) ==
  /\ wpc[w] \in Stages
  /\ r \in ToSet(wbatch[w]) \cap Streaming
  /\ ~streamEnd[r]
  /\ streamEnd' = [streamEnd EXCEPT ![r] = TRUE]
  /\ BatcherPromiseNotify(r)
  /\ UNCHANGED <<schedVars, posted, workVars, callVars, err, output, stopVars>>

\* One turn of the notify loop, or of the loop of the catch block.
Notify(w) ==
  LET r == Head(wbatch[w]) IN
  /\ wpc[w] \in {"notify", "fail"}
  /\ err' = [err EXCEPT ![r] = @ \/ wpc[w] = "fail"]
  /\ BatcherPromiseNotify(r)
  /\ wbatch' = [wbatch EXCEPT ![w] = Tail(@)]
  /\ wpc' = [wpc EXCEPT ![w] = IF Len(wbatch[w]) = 1 THEN "idle" ELSE @]
  /\ UNCHANGED <<schedVars, posted, callVars, output, streamEnd, stopVars>>

WorkerStep(w) == Take(w) \/ Stage(w) \/ Throw(w) \/ Notify(w)
-----------------------------------------------------------------------------
(***************************************************************************)
(* Stop, which does not take queue_mutex_.                                 *)
(***************************************************************************)
StopFlag ==
  /\ stop = "idle"
  /\ stop' = "notify"
  /\ running' = FALSE
  /\ UNCHANGED <<schedVars, posted, workVars, callVars, ctxVars>>

\* Mutant: notify_all forgotten.
StopSilently ==
  /\ stop = "notify"
  /\ stop' = "join"
  /\ UNCHANGED <<schedVars, posted, workVars, callVars, ctxVars, running>>

StopNotify ==
  /\ stop = "notify"
  /\ stop' = "join"
  /\ sched' = Notified(sched)
  /\ UNCHANGED <<queue, tasks, expired, posted, workVars, callVars, ctxVars, running>>

StopJoin ==
  /\ stop = "join"
  /\ sched = "exited"
  /\ stop' = "stopped"
  /\ UNCHANGED <<schedVars, posted, workVars, callVars, ctxVars, running>>

Next ==
  \/ \E r \in Requests : Infer(r) \/ Return(r) \/ Renew(r)
  \/ Scheduler \/ Expire \/ SpuriousWakeup
  \/ \E w \in Workers : WorkerStep(w) \/ \E r \in Requests : StreamFinal(w, r)
  \/ StopFlag \/ StopNotify \/ StopJoin

(***************************************************************************)
(* Every thread that can run does, and the clock advances.  Nothing says   *)
(* that a request arrives, that the server is stopped, that a context is   *)
(* reused, or that a sleeper wakes up for no reason.                       *)
(***************************************************************************)
Fairness ==
  /\ WF_vars(Scheduler)
  /\ WF_vars(Expire)
  /\ \A w \in Workers : WF_vars(WorkerStep(w))
  /\ \A r \in Requests : WF_vars(Return(r))
  /\ WF_vars(StopNotify \/ StopJoin)

Spec     == Init /\ [][Next]_vars
FairSpec == Spec /\ Fairness
-----------------------------------------------------------------------------
(***************************************************************************)
(* Properties.                                                             *)
(***************************************************************************)
\* The shape of the state every function of batcher.cc keeps.
TypeOK ==
  /\ queue \in Seq(Requests) /\ tasks \in Seq(Requests)
  /\ posted \in Seq(Seq(Requests))
  /\ wbatch \in [Workers -> Seq(Requests)] /\ wpc \in [Workers -> WorkerPcs]
  /\ sched \in SchedPcs /\ expired \in BOOLEAN /\ running \in BOOLEAN
  /\ phase \in [Requests -> {"new", "waiting", "returned"}]
  /\ outcome \in [Requests -> {"none", "ok", "error"}]
  /\ promise \in [Requests -> {"none", "live", "set", "dead"}]
  /\ notified \in [Requests -> BOOLEAN] /\ err \in [Requests -> BOOLEAN]
  /\ output \in [Requests -> BOOLEAN] /\ streamEnd \in [Requests -> BOOLEAN]
  /\ stop \in {"idle", "notify", "join", "stopped"}

(***************************************************************************)
(* A batch never holds more than max_batch_size requests, neither while    *)
(* the two drain loops of the schedule thread (36-40, 49-52) assemble it   *)
(* nor once it has been posted, and no empty batch is posted.              *)
(***************************************************************************)
BatchBound ==
  /\ Len(tasks) <= MaxBatch
  /\ \A i \in DOMAIN posted : Len(posted[i]) \in 1 .. MaxBatch
  /\ \A w \in Workers : Len(wbatch[w]) <= MaxBatch

(***************************************************************************)
(* As long as the batcher runs, a caller whose promise is not set yet is   *)
(* in the queue, in the batch being assembled, or in a batch some worker   *)
(* has or will have: nobody waits for an answer that no thread will give.  *)
(***************************************************************************)
NoTaskLost ==
  running => \A r \in Requests : phase[r] = "waiting" /\ ~notified[r] => r \in Held

(***************************************************************************)
(* The promise lives on the stack of Infer.  It is set at most once, and   *)
(* only while Infer has not returned, although the final message of a      *)
(* stream, the notify loop and the catch block may all try to set it.      *)
(***************************************************************************)
PromiseOnStack ==
  \A r \in Requests :
    /\ promise[r] \in {"live", "set"} <=> phase[r] = "waiting"
    /\ promise[r] \in {"set", "dead"} <=> notified[r]

(***************************************************************************)
(* A handler that answers without error does so because the output of its  *)
(* request was produced or its stream was ended by the inferer; an error   *)
(* of another request of the same batch does not cut its processing short. *)
(***************************************************************************)
AnswerJustified ==
  \A r \in Requests : outcome[r] = "ok" => output[r] \/ streamEnd[r]

(***************************************************************************)
(* The batcher implements BatchService: batches are cut from the front of  *)
(* the arrival order, bounded, answered once, and dropped only by Stop.    *)
(***************************************************************************)
Service == INSTANCE BatchService WITH
  call    <- [r \in Requests |-> IF phase[r] # "waiting" THEN "idle"
                                 ELSE IF notified[r] THEN "answered" ELSE "pending"],
  pending <- tasks \o queue,
  open    <- {r \in Held \ ToSet(tasks \o queue) : ~notified[r]},
  stopped <- ~running

ServiceSpec == Service!Spec

(***************************************************************************)
(* Unless the batcher is stopped, every call of Infer returns: the wakeups *)
(* of queue_cv_, the deadline and the notify loops leave nobody waiting    *)
(* for ever.                                                               *)
(***************************************************************************)
EveryCallReturns ==
  \A r \in Requests : []<>(phase[r] # "waiting" \/ ~running)

(***************************************************************************)
(* Stop returns, provided schedule_thread_ is not between a false wait     *)
(* predicate and its sleep in the wait of line 31 when running_ is         *)
(* cleared and until the notification.                                     *)
(***************************************************************************)
StopReturnsOutsideWindow ==
  stop = "notify" /\ sched # "block1" ~> stop = "stopped"
=============================================================================
