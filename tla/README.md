# TLA+ models of grps

grps serves deep-learning models behind gRPC and HTTP. It has two servers with the
same design, one in C++ (`src/server/cpp_server`) and one in Python
(`src/server/py_server/grps_framework`), and a command-line tool, `grpst`, that
archives, deploys and stops them. This directory holds TLA+ models of the parts of
the system where threads, processes and independently written checks meet, the TLC
configurations that check them, and proofs about both batchers, the tensor converters, the
C++ request path, streaming, the monitors, the checks of the confs and the life of a server.

Contents: [inventory](#inventory), [modules](#modules),
[what each run shows](#runs), [disagreements](#disagreements),
[fairness](#fairness), [proofs](#proofs), [not modelled](#not-modelled),
[plan](#plan).

## Inventory

### How a request travels

An RPC or HTTP thread posts the call to the *predict pool* and waits. The handler
(`handler/grps_handler.*`) makes a `GrpsContext` for the request and calls
`Executor.infer`, which finds a model or the DAG. The DAG (`dag/`) runs its nodes
in sequence. A node calls its converter and its inferer in the predict thread, or,
when its model has a *batcher*, hands the request to it and sleeps. The batcher's
schedule thread collects requests of several predict threads into a batch and gives
it to the *worker pool*; the worker calls the user's code for the whole batch and
then notifies each context, which wakes up its predict thread. User code may stream
messages through the context from either thread; the last of them, `final`, ends the
stream and, for a batched request, already wakes up the predict thread. The handler
reads `has_err` of the context and answers. All of this feeds counters to the
monitor.

### C++ server

| Component | State | Operations | Hard behaviour | What makes it correct |
|---|---|---|---|---|
| Dynamic batcher, `batching/batcher.cc` | `task_queue_`, `running_`, the schedule thread and its local batch, the batches posted to `worker_tp_`, a promise on the stack of each `Infer` | `Infer`, the schedule thread's round, `BatchInferProcess`, `Stop` | wake-ups against `queue_cv_`, the deadline, two drains into one batch, one request's error in a batch, a promise whose frame may be gone, `Stop` without the mutex | bounded batches; no task lost or duplicated; promise set once while alive; an answer only for work done; every call returns; `Stop` returns |
| Context, `context/context.cc` | `has_err_`, `streaming_end_`, `batcher_promise_`, the once flag, stream writers | `StreamingRespond*`, `BatcherPromiseNotify`, `set_has_err` | shared by predict thread, worker and user code | nothing after `final`; a live promise |
| DAG and nodes, `dag/` | node sequence; one output message shared by all nodes | `SequentialDag::Infer`, `ModelNode::Process` | input and output of later nodes are the same message; error between nodes | each model sees its predecessor's result; success means the last node ran |
| Executor, `executor/executor.cc` | models, DAG | `Init`, `Infer`, `Terminate` | exceptions from user code | every request is answered |
| Handlers, `handler/grps_handler.cc` | `online_status` | five predict interfaces, `Online`, `Offline`, health and metadata | five error paths | a failed request tells its client |
| Services, `service/` | none | post the handler to the pool, wait | early returns | each call is completed |
| Monitor, `monitor/monitor.cc` | map of metrics, per-metric buffer, second, minute, hour and day arrays, timers | `PutMetricPiece`, `AggThreadFunc`, `DumpMetricsAgg`, `Stop` | map used outside its lock, timers re-armed during `Stop`, second boundaries | no sample counted twice; windows shift once a period |
| Tensor converters, `converter/` | tensors of a batch, offsets into them, the batch size of each request | `PreProcess`, `PostProcess`, `BatchPreProcess`, `BatchPostProcess` | offsets in elements for requests that differ in rows, outputs divided by rows, an output message that still holds the input | each request gets its own rows; behaviour is defined |
| Configuration and start, `config/`, `main.cc`, `Init` of everything | the confs | load, check, make models | four sets of checks that must agree; an instance registered once | what a command accepts the server accepts; no shared instance |
| System monitor, inferers, GPU memory managers, logger | handles of libraries | periodic or sequential | calls into libraries | - |

### Python server

| Component | State | Operations | Hard behaviour | What makes it correct |
|---|---|---|---|---|
| Dynamic batcher, `batching/batcher.py` | `__task_queue`, schedule thread and batch, pool, a future per call | `infer`, `__schedule`, `__batch_infer_process` | unbounded first drain, submission outside the lock, outputs matched by position, second notification | no task lost; answers match; every call returns |
| Context, `context/context.py` | run flag and queue for gRPC and for HTTP, `has_err`, future | `stream_respond*`, generators, `stop_*_generator`, `batcher_future_notify` | flag and queue change in two steps while the generator tests and gets in two steps; `GeneratorExit` | order; nothing lost; generator ends |
| Executor and handlers, `executor/`, `handler/` | models; online flag | predict interfaces, streaming tasks | errors surface at the join; double stop | errors end the stream |
| DAG, `dag/` | node sequence | `infer`, `process` | one future per context for several batched nodes | each node waits for its own batch |
| Monitor, `monitor/monitor.py` | bounded queue, dictionary of metrics, window lists, a scheduler with one worker | `put`, update every second, dump, read, `stop` | dictionary iterated while it grows, a metric's job runs before its lock exists, a put against a roll, joins in `stop` | a piece is in one second; windows shift once a period; `stop` returns |
| Converters and start, `converter/`, `conf`, `main.py` | as in C++ | as in C++ | names taken by a falsy tensor; slices that may be short; a log that does not exist yet | as in C++ |
| System monitor, inferers, memory managers, `logger`, `service` | as in C++ | sequential | - | - |

### Command line and scripts

| Component | State | Operations | Hard behaviour | What makes it correct |
|---|---|---|---|---|
| `grpst deploy`, quick serve, `stop`, `ps` (`src/grpst`), `start_server.sh`, `stop_server.sh` | a lock file, a working directory and a `PID` file per server, the log, the port | check, clear, extract, merge, start, poll, kill, remove | commands interleave, `stop` takes no lock, the lock file is removed while others hold it open, servers die or come up late between two steps, another server takes the port | who runs is in the PID file; stop stops it; success is the server's own; commands end |
| `grpst archive` and the checks of the commands | the confs | check, generate | the same keys are checked again by `deploy`, by quick serve and by both servers | they agree |
| `grpst create`, `logs` | - | copy, print | - | - |

`PROJECT.json` lists every component with its files, and every hazard found at its
line with the properties that cover it, or the reason why none does.

## Modules

| Module | Models | Source |
|---|---|---|
| `BatchService` | the abstract promise of a batcher: an arrival order, batches cut from its front, one answer per call, calls abandoned only once stopped | specification |
| `CppDynamicBatcher` | the C++ batcher with its callers, schedule thread, workers and `Stop` | `batching/batcher.cc`, notification part of `context/context.cc` |
| `CppDynamicBatcher_proofs` | proofs of its invariants, and that it implements `BatchService` | - |
| `CppInference` | one request through handler, executor, DAG, nodes and the workers of its batches | `handler/grps_handler.cc`, `executor/executor.cc`, `dag/*.cc`, `context/context.cc` |
| `CppInference_proofs` | proofs of its invariants | - |
| `CppMonitor`, `CppMonitor_proofs` | one metric of the monitor: creation, samples, timer, windows, `Stop`; proofs of its invariants | `monitor/monitor.cc` |
| `PyDynamicBatcher`, `PyDynamicBatcher_proofs` | the Python batcher; proofs of its invariants, that it implements `BatchService`, and about the converters its workers call | `batching/batcher.py`, `batcher_future_notify` |
| `PyStreaming`, `PyStreaming_proofs` | one streaming request: predict thread and generator; proofs of its invariants | `context/context.py`, `handler/grps_handler.py`, `executor/executor.py` |
| `PyMonitor`, `PyMonitor_proofs` | the Python monitor: queue, aggregation thread, jobs, dump thread, `stop`; proofs of its invariants | `monitor/monitor.py` |
| `TensorBatch` | the tensor converters of both servers on a batch and on one request; its proofs are in `PyDynamicBatcher_proofs` | `converter/*.cc`, `converter/*.py` |
| `Config`, `Config_proofs` | the confs through archive, deploy, quick serve and the start of either server; proofs of its invariants | `grpst/archive`, `deploy`, `quick_deploy`, `config/global_config.cc`, `main.cc`, `main.py`, `Init` of executors, DAGs, inferers and system monitors |
| `Lifecycle`, `Lifecycle_proofs` | the commands, scripts and server processes of one server name; proofs about commands that do not overlap | `grpst/deploy`, `stop`, `quick_deploy`, `ps`, `common/utils.py`, `start_server.sh`, `stop_server.sh`, `main.cc`, `main.py` |
| `MCCppInference`, `MCTensorBatch` | the pipelines and the messages TLC enumerates | - |

The modules do not compose into one specification: what crosses a border is small and is
a nondeterministic choice on the other side. `CppInference` knows of a batch only
that it queues, runs, throws and notifies, which `CppDynamicBatcher` shows it to do;
`Lifecycle` knows of the confs only that a server starts or dies with or without a line in
its log, which is what `Config` distinguishes (`started`, `critical`, `silent`); both
batchers let user code do to a batch what `TensorBatch` shows of the converters: succeed,
or fail all of it.

### CppDynamicBatcher

A request stands for its `GrpsContext` and the `Task` that points to it. `phase`
follows its predict thread (`new`, `waiting` in `future.wait()`, `returned`), `promise`
the object on the stack of `Infer`, `notified` the once flag. `Infer` is one step,
because the caller enqueues and notifies inside one critical section of `queue_mutex_`
and nothing before it is shared. A context returns to `new` by `Renew` when nothing refers to it any
more, so runs of any length are covered with few requests.

`sched` has one value for each point between two of the schedule thread's
synchronisation steps. `block1` and `block2` are the points between an evaluated false
predicate and the sleep: the thread holds the mutex there, so no caller can come
between, but `Stop`, which takes no mutex, can. The deadline is the flag `expired`, set
by `Expire` at any time in a round: only whether it has passed matters, and
`SpuriousWakeup` is what a condition variable allows.

A worker step is one call of user code for a batch (`pre`, `infer`, `post`), which may
set `has_err` of any subset of the batch, or throw; between two calls the code tests
`AllErr`. The notify loop is one step per request, since callers return, and the user
may end a stream, between two turns. The predict pool has as many threads as the
worker pool (`main.cc:177` and `batcher.cc:20` build both from `max_concurrency`; in
Python `main.py:138` and `batcher.py:83`), hence the guard of `Infer`. User code of any
stage may stream the final message (`StreamFinal`).

`Service` maps it to `BatchService`: `pending` is the batch being assembled followed by
the queue, so popping a task is a stutter and posting a batch is `Form`.

### CppInference

`at` is the index of the node, `output` and `seen` record contents as numbers: the
request is 0, the result of node *i* is *i*. That is enough to tell whether a model
was given what the one before it produced. The predict thread waits at a batched node
while the worker of that node's batch runs, and runs alongside it once the user has ended
the stream. What the other requests of a batch can do to this one is that the batch throws,
so one request suffices here. Every pipeline of plain, converter and batched nodes is
allowed, those the code does not serve included: what happens to them instead is part of
`NodeInputIntact`, `InputIsPredecessors` and `PredictReturns`.

### CppMonitor

One metric of kind `kInc` whose samples count as one. `Find` and `Insert` are the two
lookups of `PutMetricPiece`, between which another thread may create the metric; creating
it arms its timer. The handler of the timer is `Fire`, which reads the clock, and
`Aggregate`, the rest, with which samples of `Put` interleave in between. The clock
counts parts of a second and a timer may be late by up to `MaxLag`, so a tick can slip
over a second boundary and share its second with the next one. The four parts of
`trend_agg_datas_` are `seconds`, `minutes`, `hours` and `days`; averages are kept as
sums. `samples` and `ticks` are histories: when each sample was stamped and how many ticks
had begun when it was put, and what each tick counted.

### PyDynamicBatcher

The same structure as the C++ model. What differs follows the code: the first drain
takes the whole queue, `Submit` is a step after the lock is released, a condition
variable registers its waiter before it frees the lock (so there is no window before
the sleep), the output travels in the task, and outputs are matched by position.
`FreeWorker` is the thread that takes the next submission: idle threads of a pool differ in
nothing. `blamed` is a history variable: an error for which a model or a converter
is responsible. `LateNotifyErrs` is the version of Python: TRUE on 3.10 and later,
where the comparison of version strings in `context.py:265` takes the other branch.

### PyStreaming

The predict thread puts numbered messages in the queue and, on `final` and at the end,
clears the run flag and then puts `None`; these are two steps. The generator tests the
flag, then gets. `posted` is the history of what was put. The three
interfaces differ in who reports errors and who joins; a client may hang up at any
yield, after which gRPC never resumes the generator and the HTTP generator swallows
`GeneratorExit`.

### PyMonitor

A cell of a window is the set of pieces in it, so that a piece lost, or counted in two
places, shows. The constructor of `MetricsCompose` takes three steps: `Schedule` adds the
job and starts the scheduler, `MakeLock` makes the lock, `Insert` puts the metric in the
dictionary; a job that fires before the lock exists fails (`NoLock`). `MetricsHistory.put`
reads a cell and writes it in two steps (`Acquire`, `Write`) under the lock that
`RollSecond` takes too. `counted`, `sealed` and `ticks` are histories. A job that the scheduler
misses does not fire, and a window holds what was put between two rolls, not what was put
in a second of the clock. `read_all` fails like the dump thread when the dictionary grows,
but fails its client only.

### TensorBatch

An element of a tensor is the place it came from, `<<request, tensor, index>>`. A message
is a sequence of tensors, each with a name, an element type, rows, an inner shape and a flat list
that may be too short or too long; `Messages` is what requests may send. `MCTensorBatch` gives it
plain messages of up to two tensors, with up to `MaxOdd` fields changed. `Check` looks at one message, `Allocate` and
`Copy` are the loops of the C++ converters, `Concat` the one of Python, `ModelInfer` any model
that works row by row, with up to `MaxOutputs` outputs, and may return fewer or more rows than it was given, `Split` and `SplitRows` cut the
answers out. What an output contains is opaque without a batcher. Shapes without
dimensions and negative dimensions are left out.

### Config

A conf is a record of categories: for each key the values that some check tells apart, and
nothing else. The confs explored are the template's with up to `MaxOdd` keys changed (`Variants`). A
check is a sequence of tests, each with what happens when it fails: `refused` with a message,
`raised` with an exception, `silent` or `critical` for a server that ends without or with a
line in its log. One stage follows another as the program does: archive, deploy or quick
serve (with `GenConf`, the conf it writes), then the load and start of the C++ or the Python server.
`Instance` is what `Executor::Init` makes of a customized inferer or converter: the
registered instance for the first model that names it and a clone for the next. TensorFlow
is treated like torch. `InitModel` is one turn of the loop over the models.

`CppGap` and `PyGap` are the written list of what the commands accept and the servers
refuse. `StartsUnlessListed` says that the list is exact. Worth knowing from
it: the C++ server wants seven keys that the commands take for optional (`inferer_name`, `inferer_path`,
`inferer_args`, `converter_name`, `converter_path`, `converter_args` and the name of the dag), whatever type the inferer
and the converter have, and in a `streaming_ctrl` section all three of `ctrl_mode`, `ctrl_key` and `res_content_type`; quick serve
accepts `cpu` for TensorRT; the commands accept negative limits, and `http+brpc` for a Python
server; with equal HTTP and gRPC ports both are bound in a race. A version that is a number and a
dag without nodes make archive and deploy raise instead of refuse. `server.yml:10-12` gives defaults for the three
keys of `streaming_ctrl` when they are not set: `global_config.cc:59-98` takes them for a key without a value, and
refuses the section without the key. The section is in a comment of `server.yml`; `Uncommented` is the template with it,
and the confs explored lie around both.

### Lifecycle

`parent` is the command's process, which waits for one byte from the forked child that does the work
(`pc`); stop runs in the parent. The lock file is an inode that `path` leads to and that
`fd` of each command holds open, because `flock` is on the inode while the commands name the
path. `home` is the set of processes whose working directory has not been removed: a process
that lost it can write neither its PID file nor its log. `crit` is a critical line in the log newer
than the start. `abandoned` is a history: processes whose
`start_server.sh` ended successfully or gave up before they wrote their PID file. A server on the port may answer the script's
health check or not, as long as `curl` waits: `Poll` then tries again, up to the timeout. One server name on one port
is modelled; a server of another name may take that port at any time (`OtherServer`). After
Ctrl-C (`Interrupt`) the child goes on. Processes of MPI ranks above zero are left out.

## Runs

| Run | Instance | States | What it shows |
|---|---|---|---|
| `cpp_batcher` | 3 requests (one streams), 3 workers, batches of 2, converter, `Stop` | 983,956 | `TypeOK`, `BatchBound`, `NoTaskLost`, `PromiseOnStack`, `AnswerJustified`, refinement of `BatchService`, `EveryCallReturns`, `StopReturnsOutsideWindow` |
| `cpp_inference` | all 5 interfaces; all 39 pipelines of up to 3 nodes; 2 stream messages | 29,671 | `NodeInputIntact`, `OkMeansComplete`, `ErrorReported`, `FinalIsLast`, `PromiseAlive`, `PredictReturns` |
| `node_input` | unary interface, the same pipelines | violation | `InputIsPredecessors` |
| `cpp_monitor` | 2 threads, 2 samples, up to 7 ticks in half-second steps, timers late by up to half a second, `Stop` | 2,435,174 | `OneTimer`, `SamplesCounted`, `WindowsAligned`, `StopReturnsUnlessCreating` |
| `py_batcher` | 3 requests (one streams), 3 workers, batches of 2, no converter, Python 3.10 | 268,178 | `AnswerJustified`, refinement of `BatchService`, `EveryCallReturns` |
| `py_streaming` | 3 interfaces, 3 messages | 3,963 | `NothingLostInLoop`, `FinalEndsStream`, `ErrorEndsStream`, `StreamEnds`; no deadlock |
| `py_monitor` | 2 metrics of 2 kinds, a queue of 1, 2 pieces, 4 jobs | 481,132 | `CountedOnce`, `WindowsAligned`, `StopReturns` |
| `tensor_batch` | 4 implementations, both places in a DAG, up to 3 requests of up to 2 rows, one field out of line per message | 2,024,396 | `OwnRows`, `BatchWhole`, `RowsMissing` |
| `tensor_later` | C++, behind the first model, 1 request | violation | `OnlyOwnTensors` |
| `config` | both servers, two keys off the template, or off the template with its commented-out section | 164,206 | `CommandsAgree`, `StartsUnlessListed`, `OwnInstance` |
| `lifecycle` | 1 user, 3 processes, timeouts of 1 and 2 polls | 194,395 | `Tracked`, `StopStops`, `SuccessIsOwn`, `KillsOwn`, `CommandEnds` |
| `lock_removed` | 2 users, 3 processes | violation | `DeploymentsExclude` |

**Bounds.** Three callers with batches of two are the least for a full batch and a caller that comes while it
is collected, posted or run; the deadline then cuts a batch short. Three workers let two batches run while
a thread is idle, and as many threads as callers never keep a caller out. A converter gives all three stages; without one
the code is the middle stage alone. `Renew` removes any bound on the number of requests over time, and the theorems
hold for any number at once. The Python run has three workers, so that the first drain can
find three tasks in the queue, one more than a batch should hold; in exchange it has no converter, with which
the theorems hold as well. In `CppInference`, three
nodes give a node with both a predecessor and a successor, and two batched nodes with one
between them. In `PyStreaming`, three messages
give two parts and the final one, with an error on top. In `CppMonitor` a minute is two
seconds, an hour two minutes, and a day one hour, so that every window moves, the hour
holds two different minutes, and `iter_` starts again after a day within the seven ticks; two
samples suffice for one to be put out of order behind a younger one. `Horizon` bounds the
clock; after it time goes on for two seconds, for `Stop` alone, and what `Stop` waits for, a timer that fires once more,
comes early. `PyMonitor` scales its windows the same
way, and `MaxTicks` lets an hour and a day pass for one metric while the other may take jobs away. In
`TensorBatch` three requests give one that follows and one that is followed, widths of one and
two tell elements from rows, and one odd field per message reaches every check. In
`Config` two keys off the template, or off the template with the section `customized_predict_http` that it has in a
comment, make every test of every check fail and hold, those over two keys included
(a customized type with an unknown name, a framework with a number of ports). In
`Lifecycle` three processes are one that is abandoned, the one that replaces it, and the one after
that; the two timeouts differ, as in the script. `lock_removed` needs three inodes, for the
lock is removed and made anew while another command holds the old one.

The `lifecycle` run has one user because `Tracked` and the three action properties are
about commands that do not overlap, which is the hypothesis `Alone` of their theorems. `stop` takes no lock, so a stop of a second user may
fall between the check and the start of a deployment; the interleavings of two deployments
are explored by `lock_removed`. With one user the commands and their scripts still interleave with
Ctrl-C, with several server processes that start late, die and crash, and with the other server.

`CHECK_DEADLOCK FALSE` stands where the modelled system really stops: in the batcher runs every request may
be answered and no new one need come, and after `Stop` callers may be abandoned; in
`cpp_inference` and `node_input` the request is answered, or waits for ever at its second batched node; in
`tensor_batch`, `tensor_later` and `config` a batch or a deployment is over;
`cpp_monitor` and `py_monitor` end at their bounds and with the monitor's stop; in
`lifecycle` and `lock_removed` no process is left to launch, or a child raised an exception and its
parent waits.

Every property is tied to the code by a mutant: a definition next to the modelled one,
marked `Mutant`, with a plausible mistake (a notification left out, `<=` for `<`, a
missing once flag, a loop one node short, an offset in rows for one in elements), under
which the run finds the property violated.

## Disagreements

Three runs show the code doing something else than its documents or comments say.

* **The lock file is removed while others hold it open** (`lock_removed`). `file_unlock` (`common/utils.py:44`)
  unlocks, closes and then removes the path. A deployment that opened the file before the removal
  locks an inode that no path leads to; the next one makes the file anew and locks that. Both work in
  the directory that `deploy.py:409` says is locked. The late one's removal of the other's lock also makes the
  other's `os.remove` raise, and its parent waits for a byte that no child writes.
* **A batched answer holds its input** (`tensor_later`). Behind the first model of a DAG the output message is the
  input message. `ModelNode::Process` clears it (`node.cc:92`) only without a batcher; the C++ converters then
  *add* the output tensors to it, and the next model and the client get both, though `converter.h:106` calls the
  result the output tensors.
* **A later model may be given nothing** (`node_input`). `docs/5_Customized.md:448` says that the input of a model
  is the request or the output of the model before it. For the same reason as above, `ModelNode::Process` clears this input
  when it clears the output (`node.cc:103`), before it calls an inferer without converter and batcher: behind the
  first node such a model is given an empty message. `NodeInputIntact` says that all others get what they should.

Two more have no run of their own, but change what the properties of the passing runs say:

* The Python batcher's first drain (`batcher.py:156`) takes the whole queue, though `docs/13_Batching.md:28` calls
  `max_batch_size` the maximum batch size; the later drains keep to it. Therefore `ServiceSpec` of `PyDynamicBatcher` has the number
  of callers as its only bound on a batch, where that of the C++ batcher has `MaxBatch`.
* `context.py:169` says that `set_has_err` returns an error message to the client, and `context.py:177` that `set_err_msg`'s message
  is returned to it. The handler of customized HTTP logs the error and goes on as after a success (`grps_handler.py:687-699`): what the client gets is
  what user code has put in the context, and a stream simply ends. Hence the third part of `ErrorEndsStream` speaks of what is
  raised only, and `Verdict` of `PyDynamicBatcher` is that of gRPC and plain HTTP.

The passing runs also pin down behaviour a reader might not expect. Each of these is the
exception that a property names, so that the run would fail if the code did anything else:

* `DynamicBatcher::Stop` (`batcher.cc:75`) changes `running_` and notifies without
  `queue_mutex_`. If both fall between a false predicate and the sleep of the idle
  schedule thread, that thread never wakes up and `join` never returns. Outside this
  window `Stop` does return (`StopReturnsOutsideWindow`).
* A context's once flag (`context.cc:120`) is spent by its first batched node. With two
  batched models in the DAG the promise of the second is never set and the request
  hangs there, and only there (`PredictReturns`).
* `context.py:265` compares version tuples of strings: `('3','10',..) < ('3','8')`. On
  Python 3.10 and later the second notification of a batched request that has ended
  its stream puts the context in error (`AnswerJustified`).
* The Python generators test the run flag before they take from the queue
  (`context.py:120`, `grps_handler.py:103`), so messages still queued when the flag is
  cleared, the final one among them, may never be sent. While the generator is in its
  loop nothing is lost or reordered (`NothingLostInLoop`).
* When a late tick of the C++ monitor shares its second with the next one, both count the samples of
  the second before; no other ticks count a sample twice (`SamplesCounted`). A thread that has found the
  monitor running and creates a metric after `Stop` has gone through the map leaves a timer
  that nobody stops, so `pool.join` does not return (`StopReturnsUnlessCreating`).
* The dump thread of the Python monitor dies for good when a metric is inserted while it
  iterates; `stop` still returns, and raises when no metric was ever made (`StopReturns`).
* `start_server.sh` takes an answer on the port for its own server's; a server it did not wait for, because it gave up or because
  another server answered, runs on without anything pointing to it (`abandoned` in `Tracked`, `StopStops`).

## Fairness

Weak fairness of each thread's steps: an operating system thread that can run does,
a mutex that is free is eventually obtained, and a pool starts what was posted when a
worker is free. Weak fairness of `Expire`: time passes. The steps of user code are part
of the worker or predict thread, so fairness also says that user code returns; a model that
never returns blocks its batch by design. There is no fairness for arrivals, `Stop`, `Renew`,
spurious wake-ups, streamed messages or clients that hang up: nothing in the code makes them
happen. In `CppMonitor` time passes and the pool runs timers that are due. `WF_vars(Scheduler)` is for the thread as a whole, which has one enabled step at a time.

In `PyMonitor` the aggregation thread, the scheduler's worker, the dump thread and the thread
inside `stop` run; nothing says that pieces are put, that jobs fire or that `stop` is called.
In `Lifecycle` the process of each command runs (`Work`), because the script's loop is bounded by its own count of polls.
No server is assumed to make progress, and none to fail: commands end whatever theirs does.
`TensorBatch` and `Config` state safety only.

## Proofs

Eight modules hold proofs, for every value of the constants that the named assumptions of
the modules allow.

| Theorem | Statement | Module |
|---|---|---|
| `TypeCorrect` | `Spec => []TypeOK` | `CppDynamicBatcher_proofs` |
| `BatchesBounded` | `Spec => []BatchBound` | |
| `PromiseSafe` | `Spec => []PromiseOnStack` | |
| `AnswersJustified` | `Spec => []AnswerJustified` | |
| `TasksKept` | `Spec => []NoTaskLost` | |
| `Implements` | `Spec => ServiceSpec` | |
| `TypesHold` | `Spec => []TypeOK` | `CppInference_proofs` |
| `InputsIntact` | `Spec => []NodeInputIntact` | |
| `SuccessComplete` | `Spec => []OkMeansComplete` | |
| `ErrorsReported` | `Spec => []ErrorReported` | |
| `NothingAfterFinal` | `Spec => []FinalIsLast` | |
| `PromisesAlive` | `Spec => PromiseAlive` | |
| `AnswersJustified` | `Spec => []AnswerJustified` | `PyDynamicBatcher_proofs` |
| `TasksKept` | `Spec => []NoTaskLost` | |
| `Implements` | `Spec => ServiceSpec` | |
| `RowsNotRead` | `ConverterSpec => []RowsMissing` | |
| `BatchesWhole` | `ConverterSpec => []BatchWhole` | |
| `RowsOwn` | `ConverterSpec => []OwnRows` | |
| `StreamKept` | `Spec => []NothingLostInLoop` | `PyStreaming_proofs` |
| `FinalIsTheEnd` | `Spec => []FinalEndsStream` | |
| `ErrorIsTheEnd` | `Spec => []ErrorEndsStream` | |
| `OneTimerAlways` | `Spec => []OneTimer` | `CppMonitor_proofs` |
| `SamplesAlwaysCounted` | `Spec => []SamplesCounted` | |
| `WindowsAlwaysAligned` | `Spec => []WindowsAligned` | |
| `PiecesCountedOnce` | `Spec => []CountedOnce` | `PyMonitor_proofs` |
| `WindowsAlwaysAligned` | `Spec => []WindowsAligned` | |
| `ServersTracked` | `Spec /\ []Alone => []Tracked` | `Lifecycle_proofs` |
| `StopSucceeds` | `Spec /\ []Alone => StopStops` | |
| `SuccessIsItsOwn` | `Spec /\ []Alone => SuccessIsOwn` | |
| `OnlyOwnKilled` | `Spec /\ []Alone => KillsOwn` | |
| `CommandsAlwaysAgree` | `Spec => []CommandsAgree` | `Config_proofs` |
| `ListIsComplete` | `Spec => []StartsUnlessListed` | |
| `InstancesAreOwn` | `Spec => []OwnInstance` | |

Each argument is an inductive invariant, which TLC checked on an instance before it was
proved, with one lemma per action or group of actions and one step per conjunct it can disturb.

### The C++ batcher

For every finite set of requests and of workers, every positive `max_batch_size`, with and
without a converter (`RequestsAssumption`, `WorkersAssumption`, `MaxBatchAssumption`,
`ConverterAssumption`).

The first two theorems follow from the inductive invariant
`Shape == TypeOK /\ BatchBound /\ BusyHasBatch`. `BusyHasBatch` (a worker that is not
idle holds a non-empty batch) is needed for `Notify`, which takes the head of the batch.
`BatchBound` is inductive with the type: `DrainParts` shows that what a drain takes fits
in the room of the batch.

The next three follow from
`Ledger == Shape /\ IdleHoldsNothing /\ HeldCalled /\ PromiseFromInfer /\ NotifyingDone
/\ NotifiedDone /\ PromiseOnStack /\ AnswerJustified /\ NoTaskLost`. None of the last three is
inductive alone:

* `PromiseOnStack` needs that whoever is held by a queue or a worker has called `Infer`
  (`HeldCalled`), that a promise exists from then on (`PromiseFromInfer`), and that
  starting a new batch forgets no old one (`IdleHoldsNothing`);
* `AnswerJustified` needs that a request in a notify loop is in error or has its output
  (`NotifyingDone`), and that this stays so until the caller reads it (`NotifiedDone`);
* `NoTaskLost` needs that each step moves tasks between the places of `Held`. The
  lemmas `...Held` say what each action does to that set; that proves the most
  delicate part once, without duplicates having to be excluded.

The refinement needs that duplicates are excluded, for a batch that is cut could otherwise
hold a request answered in another one. `Apart` says so: the queue has no task twice, and the
queue, the batch under construction and the batches that are away have none in common, nor
do the first two hold a request that was notified. With `Ledger /\ Apart` the set `open` of the
service is that of the tasks that are away and not notified, and each step is shown to be one of the service:
`Infer` is `Accept`, `Return` is `Leave`, `Post` is `Form(Len(tasks))`, the first notification
of a request, whoever makes it, is `Answer`, a schedule thread that ends with a batch in hand is
`Abandon(Len(tasks))`, and the rest, the drains among it, stutters. The facts about
sequences are those of `SequenceTheorems` and `ConcatParts`.

### The request path

For every set of pipelines of the three kinds of nodes, of any length, every set of
interfaces and every number of stream messages (`PipelinesAssumption`, `InterfacesAssumption`,
`MaxPartsAssumption`). The inductive invariant is

    Invariant == Shape /\ Pointed /\ Flow /\ Told

* `Shape` is the type and where a thread can stand (`Located`): at a node while it is in the
  DAG, and with a worker only at batched nodes.
* `Pointed` ties `batcher_promise_` to the promises: until the once flag is spent, the one it points to is alive.
  `PromiseAlive` follows for each step, however many batched nodes there are.
* `Flow` is what the request carries. `Turns` says that until the stream is ended a
  worker has the request only while the predict thread waits for it at that node: this is
  what makes the shared output message safe. `Progress` says what is in the output at each
  point of either thread, and which nodes have been given their input. `NodeInputIntact` and
  `OkMeansComplete` are not inductive without them.
* `Told` is what the client has been sent: a final message is only there when the stream has ended.

### The Python batcher

For every finite set of requests and of workers, every `max_batch_size`, with and without a
converter, on every version of Python. The inductive invariant is

    Inv == TypeOK /\ Rounds /\ Busy /\ Apart /\ Calls /\ NoTaskLost /\ Cause /\ AnswerJustified

`Apart` (no task is in two places) comes first: a future is set more than once when its stream ends early,
and only because no second batch holds the request does the second notification find
the call it belongs to. `Calls` says how far the call and its future are by where the task is; it needs
`Apart` for the notify loop, and with it gives `NoTaskLost`. `Cause` is what makes the part of
`AnswerJustified` about errors inductive. That a drain takes tasks from the head of the queue, all of them in the
first drain and what fits in later ones, is in `DrainMoves`. The promise `ServiceSpec` is instantiated with the number
of requests as the bound on a batch, since the first drain has no other: a batch fits because it has no task
twice (`InjectiveLength`). The steps map as in C++, and nothing is ever abandoned.

### The tensor converters

For any messages (`MessagesAssumption`), so any number of tensors, rows and dimensions, any number of requests in a batch and of outputs
of the model, and each converter. The batchers' workers make these calls, and the proofs stand behind those about the Python
batcher, in the second half of its module, which extends both components: the specification of `TensorBatch` is
therefore called `ConverterSpec`. The inductive invariant is

    ConvertersInv == Checked /\ Noted /\ Copying /\ Given /\ Returned /\ CutOut /\ RowsMissing

* `Checked` says that the requests looked at have passed the checks and match the first: only then is the width of a
  row (`W`) the same in all of them, and one offset good for every request behind it.
* `Noted` says that the user data of a context is the number of rows of its request, which Python writes with the
  checks and C++ with the copies.
* `Copying` says that with `n` requests copied, each offset is the row at which the next begins (`Start[n]`) times the
  width, and the tensor holds the concatenation up to there and nothing behind it. With `n = Len(requests)`
  that is `Given`, of which `BatchWhole` is a part.
* `Returned` is what a model that works row by row answers, and `CutOut` that the first `n` answers are the
  rows from `Start[i - 1]` to `Start[i]` of each output, or what of them is there. `OwnRows` follows from it.

`Start` is the sum of the rows before a request. It is a fold over the requests, as the width is one over the shape and `FlattenSeq` one
over sequences: see [below](#only-model-checked) for how the proofs deal with these.

### Streaming

For any number of messages and each interface. The inductive invariant is
`Inv == TypeOK /\ Flag /\ Queue /\ Sent /\ Finals /\ Errors`. `Queue` says that the queue holds
a suffix of what was posted, followed by nothing but `None`, and that while the generator
loops what it has sent is the rest. `Flag` orders the two threads around the two steps in which the run flag
falls and `None` is put: this is where the generator may leave its loop early, and why nothing more than a
prefix can be promised then (`Sent`). `Finals` and `Errors` say with what a stream ends that is being stopped.
`NothingLostInLoop` filters the queue by its kind, which is a recursion over data; `NothingLost`
states the same position by position, and the last lemma leads from one to the other.

### The C++ monitor

For any number of threads and samples, any size of the windows, however late the pool runs timers. The
inductive invariant is

    Inv == TypeOK /\ Chain /\ Clock /\ Youngest(buffer) /\ Causal /\ Kept /\ Blocked /\ Spent /\ SamplesCounted

`Chain` is `OneTimer` with what holds before the metric exists. The rest is about samples, which are stamped
before they are put: `Clock` and `Causal` say that a tick that begins after a sample was put is not of an earlier second
than the sample; `Youngest`, that the buffer holds the youngest samples in the order they were put. A tick of second `s`
takes samples from the head until it meets one that is not older. `Kept` says that none is dropped before
its time, `Blocked` that a sample left out by the tick of the next second stands behind a younger
one, and `Spent` that what was counted has nothing of its own second before it: with these two, a
sample is missed only where `SamplesCounted` says it may be, and counted twice only by ticks of the same second.
TLC has checked `Inv` with three samples and lateness of one and a half seconds (16,309,461 states).

`WindowsAligned` follows from a second invariant, `Windows`, proved next to `Inv`: `iter_` is the number of ticks of the day so
far, with the one under way (`iter = Len(ticks) % Day`, or one more). With `Q[n]` for the sum of what the first `n` ticks
counted, a cell of the seconds is a difference of two neighbours in `Q`, and one of the minutes, hours and days a difference of
two that are a period apart. When `iter_` is a multiple of a period, and only then, the finer window is made of exactly the
periods of the coarser one that ends, and the total of its cells telescopes.

### The Python monitor

For any number of metrics, kinds, pieces and jobs, any size of the queue and of the windows. The inductive
invariant is `Inv == TypeOK /\ Made /\ Locked /\ Fresh /\ Seconds`. `Made` follows the constructor of a metric: its job is scheduled, and
its windows are there, before its lock is and before the dictionary has it, so the
aggregation thread makes no metric a second time. `Locked` says that between the read and the write of
a cell the lock is held, and that the cell read is still the last one: a roll in between would bring the cell back. `Fresh` says that a piece is in the queue,
in hand, or counted, and only one of these; `Seconds`, which `CountedOnce` counts, that the cells hold what is
counted and have nothing in common. TLC has checked `Inv` on the instance of the run, and with a queue of two and
three pieces (1,447,824 states).

`WindowsAligned` follows from `AllRolls`, proved next to `Inv`. A job rolls four windows in four steps under one lock, and
between them some windows are ahead of the others: `InStep` says which seconds each has seen at each of these steps, and
that the counter is the number of complete seconds modulo the day. A window is a whole minute, hour or day as unions of
periods of periods. All this holds of a metric as long as none of its jobs has failed for want of a lock
(`ticks[k] = Gone(k)`), which is how `WindowsAligned` states it too.

### The life of a server

For any number of users, commands and processes and any timeouts, **while at most one command is at
work**: `Alone`, as a hypothesis of the theorems. A parent that waits for a byte of its child is not at
work, so users may come and go, and Ctrl-C leaves a child at work behind. Nothing weaker is true: `stop` takes no lock, and a stop between the check
and the start of a deployment leaves a server without a PID file. Processes start, serve, come up late and die, and the port is taken, at any time. The inductive
invariant is `Inv == TypeOK /\ Directory /\ Stands(u) /\ Boots /\ Tracked`: one process has the working directory and the PID file is
its own (`Directory`), each place of a command guarantees what the next step relies on (`Stands`), and a process without a
PID file is waited for or was given up (`Boots`). TLC has checked it with two users, under `Alone`, in 13,991,422 states.

### The checks of the confs

For any number of keys that differ from the template's, so for every combination of values of
the model. The inductive invariant is `Inv == Typed /\ CommandsPassed /\ CppPassed /\ PyPassed /\ Instances`: what a stage that
was passed has established of the conf. `OutcomeCases` says that a sequence of tests accepts exactly if
all hold; a lemma per check says what its tests come to as one predicate of the conf, and the theorems compare
these predicates. They confirm what two keys off the template suggest: no combination of
three or more values is accepted by a command and refused by a server without being on the written list.

### Only model-checked

Every safety property of the runs that hold is a theorem. Liveness is out of the prover's reach throughout (no `ENABLED`, no
reasoning about fairness): `EveryCallReturns`, `StopReturns` and its variants, `PredictReturns`, `StreamEnds` and
`CommandEnds` stay with TLC. The theorems about `Lifecycle` say nothing of commands that overlap; `lock_removed` shows what
these may do.

The provers cannot use the library's induction theorems, which take an operator as a parameter, nor what the library says of folds. Sums over
windows, widths of shapes and rows of a batch are folds nevertheless. Their definitions are expanded to the recursive function
they choose, which is shown to exist from the set of lengths up to which it does, and a fact about it is
proved of the least number at which it would fail (`WellFoundedInduction`'s theorem about sets, or the minimum of a set of numbers).

## Not modelled

Models and customized converters are user code: they
may succeed, set an error, throw and stream. What C++ code throws in the predict thread is taken to be a `std::exception`: the handlers
catch nothing else, and another type ends the process. The batcher's workers catch everything. Message formats are left out; which message a
buffer holds is kept where it matters (`CppInference`, `TensorBatch`).
Request parsing, routing, rendering of the monitor pages, logging, the allocators of the memory managers, the loops of
the system monitors and calls into inference libraries are I/O or libraries. Of the modelled
components these are left out:

* the C++ monitor's dump thread and readers, its other kinds of aggregation, and metrics that race on the map;
* DAG variants over vectors of messages, and merger and splitter nodes, which throw;
* inference through several Python nodes, with the one future their batches share;
* `Executor::Terminate`, and calls that arrive while and after the C++ server ends;
* the health endpoints;
* the lifetime of an output message whose caller returned early (`batcher.cc:152`);
* `stop` of the Python batcher, which only its destructor calls while the schedule thread, which refers to it, keeps it alive;
* several server names that share a port as equals, and MPI ranks above zero;
* the packing of archives, `grpst create` and `grpst logs`.

Vendored code (`src/deps`), generated code (`src/apis`), project templates and documents are
outside the project.

## Plan

1. Batchers and their abstract specification, proofs and refinement of the C++ one. *Done.*
2. The request path of C++ (`CppInference`) with its proofs, and streaming of Python (`PyStreaming`). *Done.*
3. `CppMonitor` and `PyMonitor`. *Done.*
4. `Lifecycle` and `Config`. *Done.*
5. `TensorBatch`. *Done.*
6. Proofs: `PyStreaming` for any number of messages, `PyDynamicBatcher` with its refinement, `OneTimer` and
   `SamplesCounted` of `CppMonitor`, `CountedOnce` of `PyMonitor`, `WindowsAligned` of both, `TensorBatch`, `Config`, `Lifecycle`
   for commands that do not overlap. *Done.* Left: `DeploymentsExclude` of `Lifecycle` for one user.
7. A Python counterpart of `CppInference`, with several batched nodes that share a future
   (`context.py:267`), and the lifetime of output messages in both.
8. Health state of the servers and the completion of RPCs while the server ends.
