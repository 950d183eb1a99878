----------------------------- MODULE PyMonitor -----------------------------
(***************************************************************************)
(* The monitor of the Python server (monitor/monitor.py).  Handlers put    *)
(* pieces into a bounded queue; one thread takes them out and makes the    *)
(* metrics; jobs of a scheduler with one worker roll their windows; a      *)
(* thread goes through the dictionary of metrics to dump it every second;  *)
(* and stop ends them.                                                     *)
(*                                                                         *)
(* A cell of a window is the set of the pieces in it, for averages keep    *)
(* nothing else apart.  A job that the scheduler misses does not fire.     *)
(***************************************************************************)
EXTENDS Integers, Sequences, FiniteSets, Functions, SequencesExt

CONSTANTS
  Keys,       \* names of metrics
  Kinds,      \* kinds of aggregation; "cdf" is the one without coarse windows
  PerMinute, PerHour, PerDay, Days,  \* 60 seconds, 60 minutes, 24 hours, 30 days
  QueueSize,  \* maxsize of the queue: 1000
  MaxPieces,  \* bound on the pieces put
  MaxTicks    \* bound on the jobs that fire

ASSUME KindsAssumption == Kinds \subseteq {"inc", "cdf"}
ASSUME WindowsAssumption == {PerMinute, PerHour, PerDay, Days, QueueSize} \subseteq Nat \ {0}
ASSUME BoundsAssumption == {MaxPieces, MaxTicks} \subseteq Nat

VARIABLES
  running,    \* __running
  queue,      \* __metrics_pieces_queue
  agg,        \* the aggregation thread: where it is, its piece and a cell it read
  metrics,    \* the keys of __metrics_composes, in the order they came
  compose,    \* the MetricsCompose of a key
  scheduler,  \* "off", "on" or "shut"
  job,        \* the job the worker of the scheduler is at
  dump,       \* the dump thread: where it is in the dictionary
  stop,       \* the thread that calls stop
  puts,       \* history: the pieces put so far
  ticks,      \* history: how often the job of a key fired
  sealed,     \* history: the second cells of a key that are complete
  counted     \* history: the pieces that were put into their metric

threads == <<agg, metrics, compose, scheduler, job, dump, stop>>
vars == <<running, queue, threads, puts, ticks, sealed, counted>>
-----------------------------------------------------------------------------
Empty(n) == [i \in 1..n |-> {}]

\* Before its constructor has added the job.
NoCompose == [kind |-> "none", scheduled |-> FALSE, locked |-> "missing", cnt |-> 0,
              second |-> <<>>, minute |-> <<>>, hour |-> <<>>, day |-> <<>>]

\* The second window holds one cell more than a minute, and the current one.
NewCompose(kind) ==
  [kind |-> kind, scheduled |-> TRUE, locked |-> "missing", cnt |-> 0,
   second |-> Empty(IF kind = "cdf" THEN 2 ELSE PerMinute + 2),
   minute |-> Empty(PerHour), hour |-> Empty(PerDay), day |-> Empty(Days)]

NoPiece == [id |-> 0, key |-> "none", kind |-> "none"]

Init ==
  /\ running = TRUE /\ queue = <<>> /\ metrics = <<>>
  /\ agg = [pc |-> "top", piece |-> NoPiece, cell |-> {}]
  /\ compose = [k \in Keys |-> NoCompose]
  /\ scheduler = "off" /\ job = [pc |-> "idle", key |-> "none"]
  /\ dump = [pc |-> "idle", size |-> 0]
  /\ stop = "idle" /\ puts = 0 /\ ticks = [k \in Keys |-> 0] /\ sealed = [k \in Keys |-> <<>>]
  /\ counted = {}

\* __put_metric_piece: a piece is dropped when the queue is full.
Put ==
  /\ running /\ puts < MaxPieces
  /\ \E k \in Keys, kind \in Kinds :
       queue' = IF Len(queue) < QueueSize
                THEN Append(queue, [id |-> puts + 1, key |-> k, kind |-> kind]) ELSE queue
  /\ puts' = puts + 1
  /\ UNCHANGED <<running, threads, ticks, sealed, counted>>
-----------------------------------------------------------------------------
(***************************************************************************)
(* The aggregation thread.                                                 *)
(***************************************************************************)
AggVars(rest) == UNCHANGED <<running, job, dump, stop, puts, ticks, sealed, counted, rest>>

Goto(pc) == agg' = [agg EXCEPT !.pc = pc]

\* The test of __running, and the get with its timeout: the thread waits at
\* most a second for a piece before it tests again.
Top ==
  /\ agg.pc = "top"
  /\ Goto(IF running THEN "get" ELSE "ended")
  /\ AggVars(<<queue, metrics, compose, scheduler>>)

\* Mutant: it waits for a piece as long as it takes.
NoTimeout == FALSE

Timeout == agg.pc = "get" /\ queue = <<>>

GetEmpty == Timeout /\ Goto("top") /\ AggVars(<<queue, metrics, compose, scheduler>>)

Get ==
  /\ agg.pc = "get" /\ queue # <<>>
  /\ LET piece == Head(queue)
     IN  agg' = [agg EXCEPT !.piece = piece,
                   !.pc = IF piece.key \in Range(metrics) THEN "match" ELSE "schedule"]
  /\ queue' = Tail(queue)
  /\ AggVars(<<metrics, compose, scheduler>>)

\* The constructor of MetricsCompose adds its job and starts the scheduler
\* before it has made its lock, and the metric is in the dictionary only then.
Schedule ==
  /\ agg.pc = "schedule"
  /\ compose' = [compose EXCEPT ![agg.piece.key] = NewCompose(agg.piece.kind)]
  /\ scheduler' = IF scheduler = "off" THEN "on" ELSE scheduler
  /\ Goto("lock") /\ AggVars(<<queue, metrics>>)

MakeLock ==
  /\ agg.pc = "lock"
  /\ compose' = [compose EXCEPT ![agg.piece.key].locked = "no"]
  /\ Goto("insert") /\ AggVars(<<queue, metrics, scheduler>>)

Insert ==
  /\ agg.pc = "insert"
  /\ metrics' = Append(metrics, agg.piece.key)
  /\ Goto("match") /\ AggVars(<<queue, compose, scheduler>>)

\* A piece of another kind than its metric is dropped.
Match ==
  /\ agg.pc = "match"
  /\ Goto(IF compose[agg.piece.key].kind = agg.piece.kind THEN "acquire" ELSE "top")
  /\ AggVars(<<queue, metrics, compose, scheduler>>)

\* Mutant: put and update do not exclude each other.
Ignored(k) == compose[k].locked # "missing"

\* The lock of a metric is made, and nobody holds it.
Free(k) == compose[k].locked = "no"

\* MetricsHistory.put reads the current cell and then writes it.
Acquire ==
  /\ agg.pc = "acquire" /\ Free(agg.piece.key)
  /\ agg' = [agg EXCEPT !.pc = "write", !.cell = Last(compose[agg.piece.key].second)]
  /\ compose' = [compose EXCEPT ![agg.piece.key].locked = "agg"]
  /\ AggVars(<<queue, metrics, scheduler>>)

Write ==
  /\ agg.pc = "write"
  /\ LET k == agg.piece.key
         n == Len(compose[k].second)
     IN  compose' = [compose EXCEPT ![k].second[n] = agg.cell \union {agg.piece.id},
                                    ![k].locked = "no"]
  /\ agg' = [pc |-> "top", piece |-> NoPiece, cell |-> {}]
  /\ counted' = counted \union {agg.piece.id}
  /\ UNCHANGED <<running, queue, metrics, scheduler, job, dump, stop, puts, ticks, sealed>>

Aggregator ==
  \/ Top \/ GetEmpty \/ Get \/ Schedule \/ MakeLock \/ Insert \/ Match \/ Acquire \/ Write
-----------------------------------------------------------------------------
(***************************************************************************)
(* The jobs: MetricsCompose.update.                                        *)
(***************************************************************************)
JobVars(rest) == UNCHANGED <<running, queue, agg, metrics, scheduler, dump, stop, puts, counted, rest>>

At(pc) == job.pc = pc
Step(pc) == job' = IF pc = "idle" THEN [pc |-> "idle", key |-> "none"] ELSE [job EXCEPT !.pc = pc]

\* A window rolls: its oldest cell goes, and a new one comes.
Rolled(window, cell) == Append(Tail(window), cell)

Union(cells) == UNION Range(cells)

\* A job fires, and counts.
Fire ==
  /\ scheduler = "on" /\ At("idle") /\ FoldFunction(+, 0, ticks) < MaxTicks
  /\ \E k \in Keys :
       /\ compose[k].scheduled
       /\ compose' = [compose EXCEPT ![k].cnt = @ + 1]
       /\ job' = [pc |-> "roll", key |-> k]
       /\ ticks' = [ticks EXCEPT ![k] = @ + 1]
  /\ JobVars(sealed)

\* Without a lock yet the job fails, and the scheduler goes on with the next.
NoLock ==
  /\ At("roll") /\ compose[job.key].locked = "missing"
  /\ Step("idle") /\ JobVars(<<compose, ticks, sealed>>)

RollSecond ==
  /\ At("roll") /\ Free(job.key)
  /\ LET k == job.key
     IN  /\ compose' = [compose EXCEPT ![k].second = Rolled(@, {})]
         /\ sealed' = [sealed EXCEPT ![k] = Append(@, Last(compose[k].second))]
         /\ Step(IF compose[k].kind = "cdf" THEN "idle" ELSE "minute")
  /\ JobVars(ticks)

\* Mutant: the current second counts to the minute, and the oldest is left out.
UpToNow(second) == SubSeq(second, 3, Len(second))

\* The complete seconds of the last minute: second_data.data[1:-1].
LastMinute(second) == SubSeq(second, 2, Len(second) - 1)

\* The calls of an hour and of a day.
Hour == PerMinute * PerHour
Day  == Hour * PerDay

\* Every 60th call.
RollMinute ==
  /\ At("minute")
  /\ LET c == compose[job.key]
     IN  compose' = IF c.cnt % PerMinute # 0 THEN compose
                    ELSE [compose EXCEPT ![job.key].minute = Rolled(@, Union(LastMinute(c.second)))]
  /\ Step("hour") /\ JobVars(<<ticks, sealed>>)

\* Every 3600th call.
RollHour ==
  /\ At("hour")
  /\ LET c == compose[job.key]
     IN  compose' = IF c.cnt % Hour # 0 THEN compose
                    ELSE [compose EXCEPT ![job.key].hour = Rolled(@, Union(c.minute))]
  /\ Step("day") /\ JobVars(<<ticks, sealed>>)

\* Every 86400th call, after which the count starts again.
RollDay ==
  /\ At("day")
  /\ LET c == compose[job.key]
     IN  compose' = IF c.cnt # Day THEN compose
                    ELSE [compose EXCEPT ![job.key].day = Rolled(@, Union(c.hour)),
                                         ![job.key].cnt = 0]
  /\ Step("idle") /\ JobVars(<<ticks, sealed>>)

Worker == NoLock \/ RollSecond \/ RollMinute \/ RollHour \/ RollDay
-----------------------------------------------------------------------------
(***************************************************************************)
(* The dump thread, and stop.                                              *)
(***************************************************************************)
DumpVars ==
  UNCHANGED <<running, queue, agg, metrics, compose, scheduler, job, stop, puts, ticks, sealed, counted>>

\* Once a second, as long as the monitor runs.
Begin ==
  /\ dump.pc = "idle" /\ running
  /\ dump' = [pc |-> "next", size |-> Len(metrics)]
  /\ DumpVars

\* An iterator fails at its next element, or at its end, when the dictionary has
\* grown, and nothing catches that in the dump thread.  (read_all, which does the
\* same, fails its client instead.)  The elements before that change nothing.
Iterate ==
  /\ dump.pc = "next"
  /\ dump' = [pc |-> IF Len(metrics) # dump.size THEN "died" ELSE "idle", size |-> 0]
  /\ DumpVars

DumpEnds ==
  /\ dump.pc = "idle" /\ ~running
  /\ dump' = [dump EXCEPT !.pc = "ended"] /\ DumpVars

Dump == Begin \/ Iterate \/ DumpEnds

StopVars == UNCHANGED <<queue, agg, metrics, compose, job, dump, puts, ticks, sealed, counted>>

StopFlag ==
  /\ stop = "idle" /\ running' = FALSE /\ stop' = "join"
  /\ UNCHANGED scheduler /\ StopVars

\* The scheduler can only be shut down when a metric has started it, and waits
\* for its job.
StopJoin ==
  /\ stop = "join" /\ agg.pc = "ended" /\ dump.pc \in {"ended", "died"}
  /\ IF scheduler = "off" THEN stop' = "raised" /\ UNCHANGED scheduler
                          ELSE stop' = "shutdown" /\ scheduler' = "shut"
  /\ UNCHANGED running /\ StopVars

StopWait ==
  /\ stop = "shutdown" /\ At("idle") /\ stop' = "done"
  /\ UNCHANGED <<running, scheduler>> /\ StopVars

Stop == StopFlag \/ StopJoin \/ StopWait

Next ==
  \/ Put \/ Aggregator \/ Fire \/ Worker \/ Dump \/ Stop

\* Threads that can run do; whether anything is put, read or stopped is free.
Fairness ==
  /\ WF_vars(Aggregator) /\ WF_vars(Worker) /\ WF_vars(Dump)
  /\ WF_vars(StopJoin \/ StopWait)

Spec == Init /\ [][Next]_vars /\ Fairness
-----------------------------------------------------------------------------
(***************************************************************************)
(* Properties.                                                             *)
(***************************************************************************)
\* Every cell a metric ever had, the current one last.
Cells(k) == IF compose[k].second = <<>> THEN <<>> ELSE Append(sealed[k], Last(compose[k].second))

\* A piece that was put into its metric is in exactly one second of it, however
\* its put and the roll of the job fell, and no other piece is in any.
CountedOnce ==
  LET places(id) == UNION {{k} \X {i \in DOMAIN Cells(k) : id \in Cells(k)[i]} : k \in Keys}
  IN  \A id \in 1..puts : Cardinality(places(id)) = IF id \in counted THEN 1 ELSE 0

\* What the i-th period of len seconds holds.
Period(cells, i, len) == UNION {cells[j] : j \in (i - 1) * len + 1 .. i * len}

\* The cells of a window are the last periods, of which some are complete.
Aligned(window, size, cells, len, complete) ==
  /\ Len(window) = size
  /\ \A i \in 1 .. size :
       window[i] = IF complete < size - i + 1 THEN {} ELSE Period(cells, complete - (size - i), len)

\* A minute that is over holds what was put in its seconds, an hour what its
\* minutes hold and a day what its hours hold: the counts at which the windows
\* roll never drift apart, unless a job fired before there was a lock.
WindowsAligned ==
  \A k \in Keys :
    LET c == compose[k]
        n == Len(sealed[k])
    IN  c.kind = "inc" /\ job.key # k /\ n = ticks[k] =>
          /\ c.cnt = n % Day
          /\ Aligned(c.minute, PerHour, sealed[k], PerMinute, n \div PerMinute)
          /\ Aligned(c.hour, PerDay, sealed[k], Hour, n \div Hour)
          /\ Aligned(c.day, Days, sealed[k], Day, n \div Day)

\* stop returns, and raises only if no metric was ever made.
StopReturns == stop = "join" ~> stop = "done" \/ (stop = "raised" /\ metrics = <<>>)
=============================================================================
