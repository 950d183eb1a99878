-------------------------- MODULE PyDynamicBatcher --------------------------
(***************************************************************************)
(* DynamicBatcher of the Python server (batching/batcher.py).  It follows  *)
(* CppDynamicBatcher with these differences: the first drain of a round    *)
(* takes the whole queue, the batch is submitted after the lock is         *)
(* released, the result travels in the task instead of the context, and a  *)
(* future on the heap, which the context may set more than once, takes the *)
(* place of the promise.                                                   *)
(*                                                                         *)
(* _running stays TRUE: stop is only called by __del__, and the schedule   *)
(* thread, a daemon, keeps the batcher alive until the process ends.       *)
(***************************************************************************)
EXTENDS Naturals, Sequences, FiniteSets, SequencesExt

CONSTANTS
  Requests,        \* contexts that may be in flight
  Workers,         \* threads of __worker_tp; the predict pool has as many
  MaxBatch,        \* _max_batch_size
  HasConverter,    \* whether the model has a _converter
  Streaming,       \* the requests that are streaming
  LateNotifyErrs   \* whether setting a future again puts the context in error

ASSUME RequestsAssumption == IsFiniteSet(Requests) /\ Streaming \subseteq Requests
ASSUME WorkersAssumption  == IsFiniteSet(Workers)
ASSUME MaxBatchAssumption == MaxBatch \in Nat \ {0}
ASSUME FlagsAssumption    == HasConverter \in BOOLEAN /\ LateNotifyErrs \in BOOLEAN

VARIABLES
  queue,      \* __task_queue
  sched,      \* where __schedule_thread stands
  tasks,      \* its local `tasks`
  expired,    \* whether end_time of the current round has passed
  posted,     \* batches submitted to __worker_tp and not yet started
  wpc,        \* what each worker does
  wbatch,     \* the batch it holds; in the notify loops, what is left of it
  phase,      \* what the predict thread of each request does
  outcome,    \* what its handler answers
  future,     \* whether _batcher_future is set
  err,        \* has_err of the context
  blamed,     \* whether a model or its converter is the reason for err
  out,        \* whether task.out has been filled
  streamEnd   \* whether the final message of the stream was sent

schedVars == <<queue, sched, tasks, expired>>
workVars  == <<wpc, wbatch>>
callVars  == <<phase, outcome>>
ctxVars   == <<future, err, blamed, out, streamEnd>>
vars      == <<schedVars, posted, workVars, callVars, ctxVars>>

SchedPcs  == {"wait", "asleep1", "collect", "asleep2", "wake2", "submit"}
Stages    == {"pre", "infer", "post"}
WorkerPcs == {"idle", "notify", "fail"} \cup Stages

Init ==
  /\ queue = <<>> /\ sched = "wait" /\ tasks = <<>> /\ expired = FALSE
  /\ posted = <<>>
  /\ wpc = [w \in Workers |-> "idle"]
  /\ wbatch = [w \in Workers |-> <<>>]
  /\ phase = [r \in Requests |-> "new"]
  /\ outcome = [r \in Requests |-> "none"]
  /\ future = [r \in Requests |-> "none"]
  /\ err = [r \in Requests |-> FALSE]
  /\ blamed = [r \in Requests |-> FALSE]
  /\ out = [r \in Requests |-> FALSE]
  /\ streamEnd = [r \in Requests |-> FALSE]
-----------------------------------------------------------------------------
(***************************************************************************)
(* Callers.                                                                *)
(***************************************************************************)
\* The schedule thread owns __queue_lock while it collects.
LockHeld == sched = "collect"

\* A thread that waits on __queue_cv is registered before the lock is freed.
Notified(pc) == CASE pc = "asleep1" -> "wait"
                  [] pc = "asleep2" -> "wake2"
                  [] OTHER          -> pc

Waiting == {r \in Requests : phase[r] = "waiting"}

\* Mutants: no notification; the queue is a stack.
EnqueueSilently(r) == ~LockHeld /\ queue' = Append(queue, r) /\ sched' = sched
EnqueueFront(r)    == ~LockHeld /\ queue' = <<r>> \o queue /\ sched' = Notified(sched)

\* The critical section of infer: put and notify.
Enqueue(r) == ~LockHeld /\ queue' = Append(queue, r) /\ sched' = Notified(sched)

\* infer up to future.result(), on a free thread of the predict pool.
Infer(r) ==
  /\ phase[r] = "new"
  /\ Cardinality(Waiting) < Cardinality(Workers)
  /\ phase' = [phase EXCEPT ![r] = "waiting"]
  /\ future' = [future EXCEPT ![r] = "pending"]
  /\ Enqueue(r)
  /\ UNCHANGED <<tasks, expired, posted, workVars, outcome, err, blamed, out, streamEnd>>

\* Mutant: the type of the output is not checked.
VerdictOfErr(r) == IF err[r] THEN "error" ELSE "ok"

\* The handlers of gRPC and of plain HTTP answer with has_err; where the output
\* is the answer, None in its place is an error too.  The handler of customized
\* HTTP looks at neither and answers what user code put in the context.
Verdict(r) ==
  IF err[r] \/ (r \notin Streaming /\ ~out[r]) THEN "error" ELSE "ok"

Return(r) ==
  /\ phase[r] = "waiting"
  /\ future[r] = "set"
  /\ phase' = [phase EXCEPT ![r] = "returned"]
  /\ outcome' = [outcome EXCEPT ![r] = Verdict(r)]
  /\ UNCHANGED <<schedVars, posted, workVars, ctxVars>>

\* Requests whose context is still reachable from a Task.
PostedTasks == UNION {ToSet(posted[i]) : i \in DOMAIN posted}
WorkerTasks == UNION {ToSet(wbatch[w]) : w \in Workers}
Held        == ToSet(queue) \cup ToSet(tasks) \cup PostedTasks \cup WorkerTasks

\* The context is garbage; a later request gets a new one.
Renew(r) ==
  /\ phase[r] = "returned"
  /\ r \notin Held
  /\ phase' = [phase EXCEPT ![r] = "new"]
  /\ outcome' = [outcome EXCEPT ![r] = "none"]
  /\ future' = [future EXCEPT ![r] = "none"]
  /\ err' = [err EXCEPT ![r] = FALSE]
  /\ blamed' = [blamed EXCEPT ![r] = FALSE]
  /\ out' = [out EXCEPT ![r] = FALSE]
  /\ streamEnd' = [streamEnd EXCEPT ![r] = FALSE]
  /\ UNCHANGED <<schedVars, posted, workVars>>
-----------------------------------------------------------------------------
(***************************************************************************)
(* The schedule thread.                                                    *)
(***************************************************************************)
\* The first wait of a round, and the first drain, which nothing limits.
FirstDrain ==
  /\ sched = "wait"
  /\ IF queue = <<>>
     THEN sched' = "asleep1" /\ UNCHANGED <<queue, tasks, expired>>
     ELSE /\ sched' = "collect"
          /\ tasks' = queue
          /\ queue' = <<>>
          /\ expired' = FALSE

\* What the later drains take: up to the room left in the batch.
Room  == IF Len(tasks) < MaxBatch THEN MaxBatch - Len(tasks) ELSE 0
Taken == SubSeq(queue, 1, IF Len(queue) < Room THEN Len(queue) ELSE Room)

\* Mutant: the drain forgets what the batch already holds.
DrainOverwrites ==
  /\ sched' = "collect"
  /\ tasks' = Taken
  /\ queue' = SubSeq(queue, Len(Taken) + 1, Len(queue))
  /\ UNCHANGED expired

Drain ==
  /\ sched' = "collect"
  /\ tasks' = tasks \o Taken
  /\ queue' = SubSeq(queue, Len(Taken) + 1, Len(queue))
  /\ UNCHANGED expired

Full == Len(tasks) >= MaxBatch \/ expired

\* The collect loop: the batch is complete, or the wait succeeds at once, or
\* it goes to sleep.
Collect ==
  /\ sched = "collect"
  /\ \/ Full /\ sched' = "submit" /\ UNCHANGED <<queue, tasks, expired>>
     \/ ~Full /\ queue # <<>> /\ Drain
     \/ ~Full /\ queue = <<>> /\ sched' = "asleep2" /\ UNCHANGED <<queue, tasks, expired>>

\* Woken by the clock.
Timeout2 ==
  /\ sched = "asleep2" /\ expired
  /\ sched' = "wake2"
  /\ UNCHANGED <<queue, tasks, expired>>

\* The lock is taken again and the queue, empty if only the clock woke the
\* thread, is drained.
Wake2 == sched = "wake2" /\ Drain

\* The batch is handed over, outside the lock.
Submit ==
  /\ sched = "submit"
  /\ sched' = "wait"
  /\ posted' = Append(posted, tasks)
  /\ tasks' = <<>>
  /\ UNCHANGED <<queue, expired>>

Scheduler ==
  /\ \/ (FirstDrain \/ Collect \/ Timeout2 \/ Wake2) /\ UNCHANGED posted
     \/ Submit
  /\ UNCHANGED <<workVars, callVars, ctxVars>>

\* The clock passes end_time.
Expire ==
  /\ sched \in {"collect", "asleep2", "wake2"}
  /\ ~expired
  /\ expired' = TRUE
  /\ UNCHANGED <<queue, sched, tasks, posted, workVars, callVars, ctxVars>>
-----------------------------------------------------------------------------
(***************************************************************************)
(* The workers.                                                            *)
(***************************************************************************)
\* Of the idle threads, which differ in nothing, the one that takes a batch.
FreeWorker == CHOOSE w \in Workers : wpc[w] = "idle"

\* A worker thread starts the oldest posted batch.
Take(w) ==
  /\ wpc[w] = "idle" /\ w = FreeWorker
  /\ posted # <<>>
  /\ wbatch' = [wbatch EXCEPT ![w] = Head(posted)]
  /\ wpc' = [wpc EXCEPT ![w] = IF HasConverter THEN "pre" ELSE "infer"]
  /\ posted' = Tail(posted)
  /\ UNCHANGED <<schedVars, callVars, ctxVars>>

LastStage  == IF HasConverter THEN "post" ELSE "infer"
NextPc(pc) == IF pc = "pre" THEN "infer" ELSE "post"

AllErr(batch, e) == \A r \in ToSet(batch) : e[r]

\* A call of the converter or of the inferer returns, having put some requests
\* of the batch in error.  The last one also returns the outputs, of which
\* user code may leave some out, or one too many, which raises IndexError.
Stage(w) ==
  /\ wpc[w] \in Stages
  /\ \E bad \in SUBSET ToSet(wbatch[w]) :
       /\ err' = [r \in Requests |-> err[r] \/ r \in bad]
       /\ blamed' = [r \in Requests |-> blamed[r] \/ r \in bad]
  /\ IF AllErr(wbatch[w], err')
     THEN wpc' = [wpc EXCEPT ![w] = "notify"] /\ out' = out
     ELSE IF wpc[w] # LastStage
     THEN wpc' = [wpc EXCEPT ![w] = NextPc(@)] /\ out' = out
     ELSE \E n \in 0 .. Len(wbatch[w]) :
            /\ out' = [r \in Requests |-> out[r] \/ r \in ToSet(SubSeq(wbatch[w], 1, n))]
            /\ \/ wpc' = [wpc EXCEPT ![w] = "notify"]
               \/ n = Len(wbatch[w]) /\ wpc' = [wpc EXCEPT ![w] = "fail"]
  /\ UNCHANGED <<schedVars, posted, wbatch, callVars, future, streamEnd>>

\* The call raises: control moves to the except clause.
Raise(w) ==
  /\ wpc[w] \in Stages
  /\ wpc' = [wpc EXCEPT ![w] = "fail"]
  /\ UNCHANGED <<schedVars, posted, wbatch, callVars, ctxVars>>

\* batcher_future_notify of a request that is, or is not, in error already.
\* A second set_result raises.  InvalidStateError is swallowed where the
\* version of Python, compared as strings, is not below 3.8; else the context
\* gets an error.  `failed` tells whether the caller set an error before.
BatcherFutureNotify(r, failed) ==
  /\ future' = [future EXCEPT ![r] = "set"]
  /\ err' = [err EXCEPT ![r] = \/ @ \/ failed
                               \/ future[r] = "set" /\ LateNotifyErrs]
  /\ blamed' = [blamed EXCEPT ![r] = @ \/ failed]

\* User code streams the final message of a request of its batch.
StreamFinal(w, r) ==
  /\ wpc[w] \in Stages
  /\ r \in ToSet(wbatch[w]) \cap Streaming
  /\ ~streamEnd[r]
  /\ streamEnd' = [streamEnd EXCEPT ![r] = TRUE]
  /\ BatcherFutureNotify(r, FALSE)
  /\ UNCHANGED <<schedVars, posted, workVars, callVars, out>>

\* One turn of a notify loop, or of the loop of the except clause.
Notify(w) ==
  /\ wpc[w] \in {"notify", "fail"}
  /\ BatcherFutureNotify(Head(wbatch[w]), wpc[w] = "fail")
  /\ wbatch' = [wbatch EXCEPT ![w] = Tail(@)]
  /\ wpc' = [wpc EXCEPT ![w] = IF Len(wbatch[w]) = 1 THEN "idle" ELSE @]
  /\ UNCHANGED <<schedVars, posted, callVars, out, streamEnd>>

WorkerStep(w) == Take(w) \/ Stage(w) \/ Raise(w) \/ Notify(w)

Next ==
  \/ \E r \in Requests : Infer(r) \/ Return(r) \/ Renew(r)
  \/ Scheduler \/ Expire
  \/ \E w \in Workers : WorkerStep(w) \/ \E r \in Requests : StreamFinal(w, r)

(***************************************************************************)
(* Every thread that can run does, and the clock advances.                 *)
(***************************************************************************)
Fairness ==
  /\ WF_vars(Scheduler)
  /\ WF_vars(Expire)
  /\ \A w \in Workers : WF_vars(WorkerStep(w))
  /\ \A r \in Requests : WF_vars(Return(r))

Spec     == Init /\ [][Next]_vars
FairSpec == Spec /\ Fairness
-----------------------------------------------------------------------------
(***************************************************************************)
(* Properties.                                                             *)
(***************************************************************************)

(***************************************************************************)
(* A request of gRPC or of plain HTTP that does not stream is answered     *)
(* without error only with its output in hand, whatever batch_infer and    *)
(* batch_postprocess return for the batch; and one that streams is         *)
(* answered with an error only if a model or its converter is to blame, or *)
(* the second notification after the final message was.                    *)
(***************************************************************************)
AnswerJustified ==
  /\ \A r \in Requests \ Streaming : outcome[r] = "ok" => out[r]
  /\ \A r \in Streaming : outcome[r] = "error" => blamed[r] \/ (LateNotifyErrs /\ streamEnd[r])

(***************************************************************************)
(* The batcher implements BatchService, though with no other bound on the  *)
(* size of a batch than the number of callers: _max_batch_size is none.    *)
(***************************************************************************)
Service == INSTANCE BatchService WITH
  call     <- [r \in Requests |-> IF phase[r] # "waiting" THEN "idle"
                                  ELSE IF future[r] = "set" THEN "answered" ELSE "pending"],
  pending  <- tasks \o queue,
  open     <- {r \in Held \ ToSet(tasks \o queue) : future[r] # "set"},
  stopped  <- FALSE,
  MaxBatch <- Cardinality(Requests)

ServiceSpec == Service!Spec

(***************************************************************************)
(* Every call of infer returns: the notification, the deadline and the     *)
(* notify loops leave nobody waiting.                                      *)
(***************************************************************************)
EveryCallReturns ==
  \A r \in Requests : []<>(phase[r] # "waiting")
=============================================================================
