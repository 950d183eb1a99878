---------------------------- MODULE CppMonitor ----------------------------
(***************************************************************************)
(* One metric of the C++ monitor (monitor/monitor.cc): request threads put *)
(* samples into it and create it on the way, the thread of MetricsAgg::pool*)
(* aggregates it once a second by a timer that re-arms itself, and Stop    *)
(* ends both.  The aggregation is kInc; a sample counts as one.            *)
(*                                                                         *)
(* Averages over a window are kept as sums, since each window has a fixed  *)
(* length.  The clock counts 1 / Sub seconds.  The dump thread is left out. *)
(***************************************************************************)
EXTENDS Integers, Sequences, FiniteSets, SequencesExt

CONSTANTS
  Putters,     \* threads that put samples
  Idle,        \* stands for: no AggThreadFunc under way
  Sub,         \* clock steps in a second
  PerMinute, PerHour, PerDay,  \* second, minute and hour cells: 60, 60 and 24
  Days,        \* day cells: 30
  MaxLag,      \* bound on how late the pool runs a timer, in clock steps
  MaxSamples,  \* bound on the samples
  Horizon      \* bound on the clock

ASSUME PuttersAssumption == IsFiniteSet(Putters)
ASSUME WindowAssumption  == {Sub, PerMinute, PerHour, PerDay, Days} \subseteq Nat \ {0}
ASSUME IdleAssumption    == Idle \notin Nat
ASSUME BoundsAssumption  == {MaxLag, MaxSamples, Horizon} \subseteq Nat

VARIABLES
  now,      \* the clock
  running,  \* running_ of the Monitor
  stop,     \* where the thread in Monitor::Stop stands
  pc,       \* where each putter stands
  stamp,    \* MetricsPiece::now of its sample, in seconds
  present,  \* whether metrics_agg_ holds the metric
  active,   \* running_ of the MetricsAgg
  waits,    \* handlers waiting on timer_
  expires,  \* expiry of timer_
  cur,      \* cur_time_s of the AggThreadFunc under way, or Idle
  iter,     \* iter_
  buffer,   \* agg_buffer_: numbers of samples
  seconds, minutes, hours, days,  \* the parts of trend_agg_datas_
  samples,  \* history: stamp of each sample, and ticks that began before it
  ticks     \* history: second of each tick, and the samples it counted

timerVars  == <<present, active, waits, expires>>
putVars    == <<pc, stamp>>
windowVars == <<iter, seconds, minutes, hours, days>>
stopVars   == <<running, stop>>
vars       == <<now, stopVars, putVars, timerVars, cur, buffer, windowVars, samples, ticks>>

Second(t) == t \div Sub
Zeros(n)  == [i \in 1 .. n |-> 0]

Init ==
  /\ now \in 0 .. Sub - 1
  /\ running = TRUE /\ stop = "idle"
  /\ pc = [p \in Putters |-> "idle"] /\ stamp = [p \in Putters |-> 0]
  /\ present = FALSE /\ active = FALSE /\ waits = 0 /\ expires = 0
  /\ cur = Idle /\ iter = 0 /\ buffer = <<>>
  /\ seconds = Zeros(PerMinute) /\ minutes = Zeros(PerHour)
  /\ hours = Zeros(PerDay) /\ days = Zeros(Days)
  /\ samples = <<>> /\ ticks = <<>>
-----------------------------------------------------------------------------
(***************************************************************************)
(* Time passes; the pool runs a timer MaxLag late at most.  To let Stop    *)
(* end, the clock may go on for two seconds after the horizon.             *)
(***************************************************************************)
Due == (waits > 0 \/ cur # Idle) /\ now >= expires + MaxLag

Advance ==
  /\ now < Horizon + (IF stop = "join" THEN 2 * Sub ELSE 0)
  /\ ~Due
  /\ now' = now + 1
  /\ UNCHANGED <<stopVars, putVars, timerVars, cur, buffer, windowVars, samples, ticks>>
-----------------------------------------------------------------------------
(***************************************************************************)
(* Monitor::Inc and PutMetricPiece.                                        *)
(***************************************************************************)
\* The sample is stamped and the monitor found to be running.
Enter(p) ==
  /\ pc[p] = "idle" /\ running
  /\ Len(samples) + Cardinality({q \in Putters : pc[q] # "idle"}) < MaxSamples
  /\ pc' = [pc EXCEPT ![p] = "find"]
  /\ stamp' = [stamp EXCEPT ![p] = Second(now)]
  /\ UNCHANGED <<now, stopVars, timerVars, cur, buffer, windowVars, samples, ticks>>

\* Lookup with the shared lock.
Find(p) ==
  /\ pc[p] = "find"
  /\ pc' = [pc EXCEPT ![p] = IF present THEN "put" ELSE "insert"]
  /\ UNCHANGED <<now, stopVars, stamp, timerVars, cur, buffer, windowVars, samples, ticks>>

\* emplace and MetricsAgg::Start: the timer expires a second from now.
Start ==
  /\ present' = TRUE /\ active' = TRUE
  /\ waits' = waits + 1
  /\ expires' = now + Sub

\* Mutant: not looked up again with the exclusive lock.
InsertUnchecked(p) ==
  /\ pc[p] = "insert"
  /\ pc' = [pc EXCEPT ![p] = "put"]
  /\ Start
  /\ UNCHANGED <<now, stopVars, stamp, cur, buffer, windowVars, samples, ticks>>

\* Second lookup, with the exclusive lock.
Insert(p) ==
  /\ pc[p] = "insert"
  /\ pc' = [pc EXCEPT ![p] = "put"]
  /\ IF present THEN UNCHANGED timerVars ELSE Start
  /\ UNCHANGED <<now, stopVars, stamp, cur, buffer, windowVars, samples, ticks>>

\* Ticks that have read the clock.
Started == Len(ticks) + (IF cur = Idle THEN 0 ELSE 1)

\* MetricsAgg::Put.
Put(p) ==
  /\ pc[p] = "put"
  /\ pc' = [pc EXCEPT ![p] = "idle"]
  /\ samples' = Append(samples, [at |-> stamp[p], after |-> Started])
  /\ buffer' = Append(buffer, Len(samples) + 1)
  /\ UNCHANGED <<now, stopVars, stamp, timerVars, cur, windowVars, ticks>>
-----------------------------------------------------------------------------
(***************************************************************************)
(* AggThreadFunc.                                                          *)
(***************************************************************************)
\* The timer fires: the aggregate was stopped, or the clock is read.
Fire ==
  /\ waits > 0 /\ cur = Idle /\ now >= expires
  /\ waits' = waits - 1
  /\ IF active THEN cur' = Second(now) /\ iter' = iter + 1
               ELSE UNCHANGED <<cur, iter>>
  /\ UNCHANGED <<now, stopVars, putVars, present, active, expires, buffer,
                 seconds, minutes, hours, days, samples, ticks>>

Stamp(i) == samples[i].at

\* Mutant: <= for <.
ExpiredEager == SelectInSeq(buffer, LAMBDA i : Stamp(i) >= cur)

\* Old samples are popped, up to the first that is not.
Expired == SelectInSeq(buffer, LAMBDA i : Stamp(i) >= cur - 1)

Unexpired == IF Expired = 0 THEN <<>> ELSE SubSeq(buffer, Expired, Len(buffer))

\* What is left is counted, up to the first sample of the current second.
Counted ==
  LET end == SelectInSeq(Unexpired, LAMBDA i : Stamp(i) >= cur)
  IN  ToSet(IF end = 0 THEN Unexpired ELSE SubSeq(Unexpired, 1, end - 1))

Total(window)    == FoldLeft(LAMBDA a, b : a + b, 0, window)
Shift(window, v) == Append(Tail(window), v)

\* Mutant: each window is filled before the one it is made of.
RollStale(v) ==
  /\ seconds' = Shift(seconds, v)
  /\ minutes' = IF iter % PerMinute = 0 THEN Shift(minutes, Total(seconds')) ELSE minutes
  /\ hours' = IF iter % (PerMinute * PerHour) = 0 THEN Shift(hours, Total(minutes)) ELSE hours
  /\ IF iter % (PerMinute * PerHour * PerDay) = 0
     THEN days' = Shift(days, Total(hours)) /\ iter' = 0
     ELSE UNCHANGED <<days, iter>>

\* Each window that is due is shifted and gets the total of the finer one.
Roll(v) ==
  /\ seconds' = Shift(seconds, v)
  /\ minutes' = IF iter % PerMinute = 0 THEN Shift(minutes, Total(seconds')) ELSE minutes
  /\ hours' = IF iter % (PerMinute * PerHour) = 0 THEN Shift(hours, Total(minutes')) ELSE hours
  /\ IF iter % (PerMinute * PerHour * PerDay) = 0
     THEN days' = Shift(days, Total(hours')) /\ iter' = 0
     ELSE UNCHANGED <<days, iter>>

\* The rest of AggThreadFunc; the timer is re-armed a second after its expiry.
Aggregate ==
  /\ cur # Idle
  /\ buffer' = Unexpired
  /\ Roll(Cardinality(Counted))
  /\ ticks' = Append(ticks, [at |-> cur, counted |-> Counted])
  /\ expires' = expires + Sub
  /\ waits' = waits + 1
  /\ cur' = Idle
  /\ UNCHANGED <<now, stopVars, putVars, present, active, samples>>
-----------------------------------------------------------------------------
(***************************************************************************)
(* Monitor::Stop.                                                          *)
(***************************************************************************)
\* Clears running_ and joins the dump thread.
StopFlag ==
  /\ stop = "idle"
  /\ stop' = "aggs"
  /\ running' = FALSE
  /\ UNCHANGED <<now, putVars, timerVars, cur, buffer, windowVars, samples, ticks>>

\* Mutant: the aggregates are not stopped.
StopNoAggs ==
  /\ stop = "aggs"
  /\ stop' = "join"
  /\ UNCHANGED <<now, running, putVars, timerVars, cur, buffer, windowVars, samples, ticks>>

\* Stops every aggregate in the map.
StopAggs ==
  /\ stop = "aggs"
  /\ stop' = "join"
  /\ active' = FALSE
  /\ UNCHANGED <<now, running, putVars, present, waits, expires, cur, buffer,
                 windowVars, samples, ticks>>

\* pool.join() waits for every handler.
StopJoin ==
  /\ stop = "join"
  /\ waits = 0 /\ cur = Idle
  /\ stop' = "stopped"
  /\ UNCHANGED <<now, running, putVars, timerVars, cur, buffer, windowVars, samples, ticks>>

Putter(p) == Enter(p) \/ Find(p) \/ Insert(p) \/ Put(p)
Timer     == Fire \/ Aggregate
Stopper   == StopAggs \/ StopJoin

Next == Advance \/ (\E p \in Putters : Putter(p)) \/ Timer \/ StopFlag \/ Stopper

\* Time passes, the pool runs what is due, and a Stop that was called goes on.
Spec     == Init /\ [][Next]_vars
FairSpec == Spec /\ WF_vars(Advance) /\ WF_vars(Timer) /\ WF_vars(Stopper)
-----------------------------------------------------------------------------
(***************************************************************************)
(* Properties.                                                             *)
(***************************************************************************)

(***************************************************************************)
(* A metric that several threads create at once has one chain of timers,   *)
(* which neither breaks nor forks while it is active.                      *)
(***************************************************************************)
OneTimer ==
  LET chains == waits + (IF cur = Idle THEN 0 ELSE 1)
  IN  /\ chains <= 1
      /\ active => chains = 1

\* A tick that began after i was put ran in second s.
TickAfter(i, s) == \E k \in DOMAIN ticks : k > samples[i].after /\ ticks[k].at = s

(***************************************************************************)
(* However late samples are put and ticks run: two ticks count the same    *)
(* sample only if they ran in the same second, and a sample that was put   *)
(* before the ticks of the two seconds after its own began is counted,     *)
(* even if a younger one was put before it.                                *)
(***************************************************************************)
SamplesCounted ==
  /\ \A j, k \in DOMAIN ticks :
       ticks[j].counted \cap ticks[k].counted # {} => ticks[j].at = ticks[k].at
  /\ \A i \in DOMAIN samples :
       TickAfter(i, Stamp(i) + 1) /\ TickAfter(i, Stamp(i) + 2)
         => \E k \in DOMAIN ticks : i \in ticks[k].counted

(***************************************************************************)
(* Samples counted by the n-th period of len ticks.                        *)
(***************************************************************************)
PeriodTotal(n, len) == Total([k \in 1 .. len |-> Cardinality(ticks[(n - 1) * len + k].counted)])

\* The cells of a window are the last complete periods.
Holds(window, len) ==
  LET last == Len(ticks) \div len
  IN  \A i \in DOMAIN window :
        window[i] = IF last < Len(window) - i + 1 THEN 0
                    ELSE PeriodTotal(last - (Len(window) - i), len)

(***************************************************************************)
(* Each tick enters exactly one cell of the minute, hour and day windows,  *)
(* also when iter_ starts again after a day.                               *)
(***************************************************************************)
WindowsAligned ==
  /\ Holds(seconds, 1)
  /\ Holds(minutes, PerMinute)
  /\ Holds(hours, PerMinute * PerHour)
  /\ Holds(days, PerMinute * PerHour * PerDay)

(***************************************************************************)
(* Stop returns although timers re-arm themselves while it runs, unless a  *)
(* thread that found the monitor running creates the metric after Stop has *)
(* gone through the map.                                                   *)
(***************************************************************************)
StopReturnsUnlessCreating ==
  stop = "aggs" /\ (present \/ \A p \in Putters : pc[p] \in {"idle", "put"})
    ~> stop = "stopped"
=============================================================================
