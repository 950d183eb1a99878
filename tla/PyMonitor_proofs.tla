---------------------------- MODULE PyMonitor_proofs ----------------------------
(***************************************************************************)
(* Proofs about the Python monitor, for any number of metrics and pieces,  *)
(* any size of its queue and of its windows.                               *)
(***************************************************************************)
EXTENDS PyMonitor, SequenceTheorems, FiniteSetTheorems, TLAPS

Pieces == [id : Nat, key : Keys, kind : Kinds]
Window == Seq(SUBSET Nat)
AggPcs == {"top", "get", "ended", "match", "schedule", "lock", "insert", "acquire", "write"}

Compose ==
  [kind : Kinds \cup {"none"}, scheduled : BOOLEAN, locked : {"missing", "no", "agg"}, cnt : Nat,
   second : Window, minute : Window, hour : Window, day : Window]

TypeOK ==
  /\ queue \in Seq(Pieces) /\ metrics \in Seq(Keys) /\ puts \in Nat
  /\ agg \in [pc : AggPcs, piece : Pieces \cup {NoPiece}, cell : SUBSET Nat]
  /\ compose \in [Keys -> Compose]
  /\ job \in [pc : {"idle", "roll", "minute", "hour", "day"}, key : Keys \cup {"none"}]
  /\ sealed \in [Keys -> Window]
  /\ counted \in SUBSET (1 .. puts)

\* The aggregation thread has a piece in hand, which it has not counted yet.
Holds  == agg.pc \in {"match", "schedule", "lock", "insert", "acquire", "write"}
Making == agg.pc \in {"lock", "insert"}

\* A metric has windows once its job is scheduled, and is in the dictionary once
\* its constructor is through.
Made ==
  /\ \A k \in Keys :
       /\ compose[k].scheduled <=> k \in Range(metrics) \/ (Making /\ agg.piece.key = k)
       /\ IF compose[k].scheduled
          THEN <<>> \notin {compose[k].second, compose[k].minute, compose[k].hour, compose[k].day}
          ELSE compose[k].second = <<>> /\ sealed[k] = <<>>
  /\ agg.pc = "schedule" => agg.piece.key \notin Range(metrics)
  /\ agg.pc \in {"match", "acquire", "write"} => agg.piece.key \in Range(metrics)
  /\ job.pc # "idle" => job.key \in Keys /\ compose[job.key].scheduled

\* Between the read and the write of a cell the lock is held, so the cell stays.
Locked ==
  /\ \A k \in Keys : compose[k].locked = "agg" <=> agg.pc = "write" /\ agg.piece.key = k
  /\ agg.pc = "write" => agg.cell = Last(compose[agg.piece.key].second)

\* A piece is in the queue, or in hand, or counted.
Fresh ==
  /\ \A i \in DOMAIN queue : queue[i].id \in 1 .. puts /\ queue[i].id \notin counted
  /\ \A i, j \in DOMAIN queue : queue[i].id = queue[j].id => i = j
  /\ Holds => /\ agg.piece \in Pieces /\ agg.piece.id \in 1 .. puts /\ agg.piece.id \notin counted
              /\ \A i \in DOMAIN queue : queue[i].id # agg.piece.id

\* What is counted is in a cell, and no two cells have a piece in common.
Seconds ==
  /\ \A k \in Keys : \A i \in DOMAIN Cells(k) : Cells(k)[i] \subseteq counted
  /\ \A id \in counted : \E k \in Keys : \E i \in DOMAIN Cells(k) : id \in Cells(k)[i]
  /\ \A k, l \in Keys : \A i \in DOMAIN Cells(k), j \in DOMAIN Cells(l) :
       Cells(k)[i] \cap Cells(l)[j] # {} => k = l /\ i = j

Inv == TypeOK /\ Made /\ Locked /\ Fresh /\ Seconds
-----------------------------------------------------------------------------
(***************************************************************************)
(* Windows and cells.                                                      *)
(***************************************************************************)
LEMMA EmptyWindow ==
  ASSUME NEW n \in Nat \ {0}
  PROVE  Empty(n) \in Window /\ Empty(n) # <<>> /\ Last(Empty(n)) = {}
<1>1. Empty(n) \in Window /\ Len(Empty(n)) = n
  BY DEF Empty, Window
<1>2. Empty(n)[n] = {}
  BY DEF Empty
<1> QED BY <1>1, <1>2 DEF Last

LEMMA RolledWindow ==
  ASSUME NEW w \in Window, w # <<>>, NEW cell \in SUBSET Nat
  PROVE  Rolled(w, cell) \in Window /\ Rolled(w, cell) # <<>> /\ Last(Rolled(w, cell)) = cell
<1>1. Tail(w) \in Window
  BY DEF Window
<1>2. /\ Append(Tail(w), cell) \in Window /\ Len(Append(Tail(w), cell)) = Len(Tail(w)) + 1
      /\ Append(Tail(w), cell)[Len(Tail(w)) + 1] = cell
  BY <1>1, AppendProperties DEF Window
<1>3. Len(Tail(w)) \in Nat
  BY <1>1 DEF Window
<1> QED BY <1>2, <1>3 DEF Rolled, Last

LEMMA UnionType ==
  ASSUME NEW w \in Window PROVE Union(w) \in SUBSET Nat
<1>1. \A i \in DOMAIN w : w[i] \in SUBSET Nat
  BY DEF Window
<1> QED BY <1>1 DEF Union, Range

LEMMA LastType ==
  ASSUME NEW w \in Window, w # <<>>
  PROVE  Last(w) \in SUBSET Nat /\ Len(w) \in Nat \ {0} /\ Len(w) \in DOMAIN w /\ Last(w) = w[Len(w)]
<1>1. Len(w) \in Nat \ {0}
  BY DEF Window
<1> QED BY <1>1 DEF Window, Last

\* The cells of a metric, by place.
LEMMA CellsByPlace ==
  ASSUME NEW k \in Keys, sealed[k] \in Window, compose[k].second \in Window
  PROVE  /\ compose[k].second = <<>> => Cells(k) = <<>> /\ DOMAIN Cells(k) = {}
         /\ compose[k].second # <<>> =>
              /\ Cells(k) \in Window /\ Len(Cells(k)) = Len(sealed[k]) + 1
              /\ DOMAIN Cells(k) = 1 .. Len(sealed[k]) + 1
              /\ Cells(k)[Len(sealed[k]) + 1] = Last(compose[k].second)
              /\ \A i \in 1 .. Len(sealed[k]) : Cells(k)[i] = sealed[k][i]
         /\ Len(sealed[k]) \in Nat
<1>1. CASE compose[k].second = <<>>
  BY <1>1 DEF Cells, Window
<1>2. CASE compose[k].second # <<>>
  <2>1. Last(compose[k].second) \in SUBSET Nat
    BY <1>2, LastType
  <2>2. Cells(k) = Append(sealed[k], Last(compose[k].second))
    BY <1>2 DEF Cells
  <2> HIDE DEF Cells
  <2>3. /\ Cells(k) \in Window /\ Len(Cells(k)) = Len(sealed[k]) + 1
        /\ Cells(k)[Len(sealed[k]) + 1] = Last(compose[k].second)
        /\ \A i \in 1 .. Len(sealed[k]) : Cells(k)[i] = sealed[k][i]
    BY <2>1, <2>2, AppendProperties DEF Window
  <2>4. DOMAIN Cells(k) = 1 .. Len(sealed[k]) + 1 /\ Len(sealed[k]) \in Nat
    BY <2>3 DEF Window
  <2> QED BY <1>2, <2>3, <2>4
<1> QED BY <1>1, <1>2

LEMMA Fields ==
  ASSUME TypeOK, NEW k \in Keys
  PROVE  /\ compose[k] \in Compose /\ sealed[k] \in Window
         /\ compose[k].kind \in Kinds \cup {"none"} /\ compose[k].scheduled \in BOOLEAN
         /\ compose[k].locked \in {"missing", "no", "agg"} /\ compose[k].cnt \in Nat
         /\ compose[k].second \in Window /\ compose[k].minute \in Window
         /\ compose[k].hour \in Window /\ compose[k].day \in Window
BY DEF TypeOK, Compose

\* What leaves the second windows alone leaves the cells alone.
LEMMA SecondsUnchanged ==
  ASSUME Seconds, \A k \in Keys : compose'[k].second = compose[k].second,
         UNCHANGED <<sealed, counted>>
  PROVE  Seconds'
<1>1. \A k \in Keys : Cells(k)' = Cells(k)
  BY DEF Cells
<1> QED BY <1>1 DEF Seconds

\* What a step does to the windows of one metric but not to its seconds.
LEMMA OneCompose ==
  ASSUME TypeOK, NEW k \in Keys, NEW c \in Compose, compose' = [compose EXCEPT ![k] = c],
         c.second = compose[k].second, c.scheduled = compose[k].scheduled,
         c.minute # <<>> \/ c.minute = compose[k].minute,
         c.hour # <<>> \/ c.hour = compose[k].hour, c.day # <<>> \/ c.day = compose[k].day
  PROVE  /\ compose' \in [Keys -> Compose]
         /\ \A l \in Keys : /\ compose'[l].second = compose[l].second
                            /\ compose'[l].scheduled = compose[l].scheduled
                            /\ compose'[l].minute # <<>> \/ compose'[l].minute = compose[l].minute
                            /\ compose'[l].hour # <<>> \/ compose'[l].hour = compose[l].hour
                            /\ compose'[l].day # <<>> \/ compose'[l].day = compose[l].day
                            /\ l # k => compose'[l] = compose[l]
         /\ compose'[k] = c
<1>1. compose \in [Keys -> Compose]
  BY DEF TypeOK
<1>2. compose'[k] = c /\ \A l \in Keys : l # k => compose'[l] = compose[l]
  BY <1>1
<1>3. compose' \in [Keys -> Compose]
  BY <1>1
<1> QED BY <1>2, <1>3
-----------------------------------------------------------------------------
LEMMA InitInv == Init => Inv
<1> SUFFICES ASSUME Init PROVE Inv
  OBVIOUS
<1>1. <<>> \in Window
  BY DEF Window
<1>2. NoCompose \in Compose
  BY <1>1 DEF NoCompose, Compose
<1>3. TypeOK
  <2>1. queue \in Seq(Pieces) /\ metrics \in Seq(Keys) /\ puts \in Nat /\ counted \in SUBSET (1 .. puts)
    BY DEF Init
  <2>2. agg \in [pc : AggPcs, piece : Pieces \cup {NoPiece}, cell : SUBSET Nat]
    BY DEF Init, AggPcs
  <2>3. job \in [pc : {"idle", "roll", "minute", "hour", "day"}, key : Keys \cup {"none"}]
    BY DEF Init
  <2> QED BY <1>1, <1>2, <2>1, <2>2, <2>3 DEF Init, TypeOK
<1>4. \A k \in Keys : /\ ~compose[k].scheduled /\ compose[k].second = <<>> /\ sealed[k] = <<>>
                      /\ compose[k].locked = "missing"
  BY DEF Init, NoCompose
<1>5. Range(metrics) = {} /\ DOMAIN queue = {} /\ counted = {}
  BY DEF Init, Range
<1>6. agg.pc = "top" /\ job.pc = "idle"
  BY DEF Init
<1>7. Made /\ Locked /\ Fresh
  BY <1>4, <1>5, <1>6 DEF Made, Locked, Fresh, Making, Holds
<1>8. \A k \in Keys : DOMAIN Cells(k) = {}
  BY <1>4 DEF Cells
<1>9. Seconds
  BY <1>5, <1>8 DEF Seconds
<1> QED BY <1>3, <1>7, <1>9 DEF Inv
-----------------------------------------------------------------------------
(***************************************************************************)
(* Pieces on their way.                                                    *)
(***************************************************************************)
LEMMA PutInv == ASSUME Inv, Put PROVE Inv'
<1>1. /\ puts' = puts + 1 /\ puts \in Nat
      /\ UNCHANGED <<agg, metrics, compose, job, sealed, counted>>
  BY DEF Put, Inv, TypeOK, threads
<1>2. PICK k \in Keys, kind \in Kinds :
        queue' = queue \/ queue' = Append(queue, [id |-> puts + 1, key |-> k, kind |-> kind])
  BY DEF Put
<1> DEFINE piece == [id |-> puts + 1, key |-> k, kind |-> kind]
<1>3. piece \in Pieces /\ piece.id = puts + 1
  BY <1>1 DEF Pieces
<1>4. queue' = queue \/ queue' = Append(queue, piece)
  BY <1>2
<1> HIDE DEF piece
<1>5. queue \in Seq(Pieces) /\ counted \in SUBSET (1 .. puts)
  BY DEF Inv, TypeOK
<1>6. /\ queue' \in Seq(Pieces)
      /\ \A i \in DOMAIN queue' : \/ i \in DOMAIN queue /\ queue'[i] = queue[i]
                                  \/ i = Len(queue) + 1 /\ queue'[i] = piece
  <2>1. CASE queue' = queue
    BY <1>5, <2>1
  <2>2. CASE queue' = Append(queue, piece)
    BY <1>3, <1>5, <2>2, AppendProperties
  <2> QED BY <1>4, <2>1, <2>2
<1>7. TypeOK'
  BY <1>1, <1>5, <1>6 DEF Inv, TypeOK
<1>8. Made' /\ Locked'
  BY <1>1 DEF Inv, Made, Locked, Making
<1>9. Fresh'
  <2>1. \A i \in DOMAIN queue : queue[i].id \in 1 .. puts /\ queue[i].id \notin counted
    BY DEF Inv, Fresh
  <2>2. puts + 1 \notin 1 .. puts /\ 1 .. puts \subseteq 1 .. puts + 1 /\ puts + 1 \in 1 .. puts + 1
    BY <1>1
  <2>3. \A i \in DOMAIN queue' : queue'[i].id \in 1 .. puts' /\ queue'[i].id \notin counted'
    BY <1>1, <1>3, <1>5, <1>6, <2>1, <2>2
  <2>4. \A i, j \in DOMAIN queue' : queue'[i].id = queue'[j].id => i = j
    BY <1>3, <1>6, <2>1, <2>2 DEF Inv, Fresh
  <2>5. Holds' => /\ agg'.piece \in Pieces /\ agg'.piece.id \in 1 .. puts' /\ agg'.piece.id \notin counted'
                  /\ \A i \in DOMAIN queue' : queue'[i].id # agg'.piece.id
    BY <1>1, <1>3, <1>6, <2>2 DEF Inv, Fresh, Holds
  <2> QED BY <2>3, <2>4, <2>5 DEF Fresh
<1>10. Seconds'
  BY <1>1, SecondsUnchanged DEF Inv
<1> QED BY <1>7, <1>8, <1>9, <1>10 DEF Inv

\* The aggregation thread moves, and keeps what it has in hand or lets go of it.
LEMMA MoveInv ==
  ASSUME Inv, NEW pc \in {"top", "get", "ended", "acquire"}, Goto(pc),
         agg.pc \in {"top", "get", "match"},
         pc = "acquire" => agg.pc = "match",
         UNCHANGED <<queue, metrics, compose, job, puts, sealed, counted>>
  PROVE  Inv'
<1>1. agg' = [agg EXCEPT !.pc = pc] /\ agg \in [pc : AggPcs, piece : Pieces \cup {NoPiece}, cell : SUBSET Nat]
  BY DEF Goto, Inv, TypeOK
<1>2. agg'.pc = pc /\ agg'.piece = agg.piece /\ agg'.cell = agg.cell
  BY <1>1
<1>3. agg' \in [pc : AggPcs, piece : Pieces \cup {NoPiece}, cell : SUBSET Nat]
  BY <1>1 DEF AggPcs
<1>4. TypeOK'
  BY <1>3 DEF Inv, TypeOK
<1>5. Made'
  BY <1>2 DEF Inv, Made, Making
<1>6. Locked'
  BY <1>2 DEF Inv, Locked
<1>7. Fresh'
  BY <1>2 DEF Inv, Fresh, Holds
<1>8. Seconds'
  BY SecondsUnchanged DEF Inv
<1> QED BY <1>4, <1>5, <1>6, <1>7, <1>8 DEF Inv

LEMMA GetInv == ASSUME Inv, Get PROVE Inv'
<1> DEFINE piece == Head(queue)
<1>1. /\ agg.pc = "get" /\ queue # <<>> /\ queue' = Tail(queue)
      /\ agg' = [agg EXCEPT !.piece = piece,
                       !.pc = IF piece.key \in Range(metrics) THEN "match" ELSE "schedule"]
      /\ UNCHANGED <<metrics, compose, job, puts, sealed, counted>>
  BY DEF Get, AggVars
<1>2. queue \in Seq(Pieces) /\ agg \in [pc : AggPcs, piece : Pieces \cup {NoPiece}, cell : SUBSET Nat]
  BY DEF Inv, TypeOK
<1>3. /\ piece \in Pieces /\ piece = queue[1] /\ 1 \in DOMAIN queue
      /\ queue' \in Seq(Pieces)
      /\ \A i \in DOMAIN queue' : i + 1 \in DOMAIN queue /\ queue'[i] = queue[i + 1] /\ i \in Nat \ {0}
  <2>1. Len(queue) \in Nat \ {0} /\ DOMAIN queue = 1 .. Len(queue)
    BY <1>1, <1>2
  <2>2. /\ queue' \in Seq(Pieces) /\ DOMAIN queue' = 1 .. Len(queue) - 1
        /\ \A i \in 1 .. Len(queue) - 1 : queue'[i] = queue[i + 1]
    BY <1>1, <1>2, <2>1, HeadTailProperties
  <2>3. piece = queue[1] /\ piece \in Pieces
    BY <1>1, <1>2
  <2> QED BY <2>1, <2>2, <2>3
<1> HIDE DEF piece
<1>4. /\ agg'.piece = piece /\ agg'.cell = agg.cell
      /\ agg'.pc = IF piece.key \in Range(metrics) THEN "match" ELSE "schedule"
  BY <1>1, <1>2
<1>5. agg' \in [pc : AggPcs, piece : Pieces \cup {NoPiece}, cell : SUBSET Nat]
  BY <1>1, <1>2, <1>3 DEF AggPcs
<1>6. TypeOK'
  BY <1>1, <1>3, <1>5 DEF Inv, TypeOK
<1>7. Made'
  BY <1>1, <1>4 DEF Inv, Made, Making
<1>8. Locked'
  BY <1>1, <1>4 DEF Inv, Locked
<1>9. Fresh'
  <2>1. \A i, j \in DOMAIN queue' : queue'[i].id = queue'[j].id => i = j
    BY <1>3 DEF Inv, Fresh
  <2>2. \A i \in DOMAIN queue' : queue'[i].id # piece.id
    BY <1>3 DEF Inv, Fresh
  <2>3. piece.id \in 1 .. puts /\ piece.id \notin counted
    BY <1>3 DEF Inv, Fresh
  <2>4. \A i \in DOMAIN queue' : queue'[i].id \in 1 .. puts /\ queue'[i].id \notin counted
    BY <1>3 DEF Inv, Fresh
  <2> QED BY <1>1, <1>3, <1>4, <2>1, <2>2, <2>3, <2>4 DEF Fresh
<1>10. Seconds'
  BY <1>1, SecondsUnchanged DEF Inv
<1> QED BY <1>6, <1>7, <1>8, <1>9, <1>10 DEF Inv
-----------------------------------------------------------------------------
(***************************************************************************)
(* A metric is made.                                                       *)
(***************************************************************************)
LEMMA NewComposeType ==
  ASSUME NEW kind \in Kinds
  PROVE  /\ NewCompose(kind) \in Compose /\ NewCompose(kind).scheduled
         /\ NewCompose(kind).locked = "missing"
         /\ NewCompose(kind).second # <<>> /\ NewCompose(kind).minute # <<>>
         /\ NewCompose(kind).hour # <<>> /\ NewCompose(kind).day # <<>>
         /\ Last(NewCompose(kind).second) = {}
<1> DEFINE n == IF kind = "cdf" THEN 2 ELSE PerMinute + 2
<1>1. {n, PerHour, PerDay, Days} \subseteq Nat \ {0}
  BY WindowsAssumption
<1> HIDE DEF n
<1>2. \A m \in {n, PerHour, PerDay, Days} : Empty(m) \in Window /\ Empty(m) # <<>> /\ Last(Empty(m)) = {}
  BY <1>1, EmptyWindow
<1>3. NewCompose(kind) =
        [kind |-> kind, scheduled |-> TRUE, locked |-> "missing", cnt |-> 0,
         second |-> Empty(n), minute |-> Empty(PerHour), hour |-> Empty(PerDay), day |-> Empty(Days)]
  BY DEF NewCompose, n
<1> QED BY <1>2, <1>3 DEF Compose

LEMMA InHand ==
  ASSUME Inv, Holds
  PROVE  /\ agg.piece \in Pieces /\ agg.piece.key \in Keys /\ agg.piece.id \in 1 .. puts
         /\ agg.piece.kind \in Kinds /\ agg.piece.id \notin counted
         /\ agg \in [pc : AggPcs, piece : Pieces \cup {NoPiece}, cell : SUBSET Nat]
BY DEF Inv, Fresh, Pieces, TypeOK

LEMMA ScheduleInv == ASSUME Inv, Schedule PROVE Inv'
<1>0. PICK k \in Keys : k = agg.piece.key
  BY InHand DEF Schedule, Holds
<1> DEFINE new == NewCompose(agg.piece.kind)
<1>1. /\ agg.pc = "schedule" /\ compose' = [compose EXCEPT ![k] = new]
      /\ agg' = [agg EXCEPT !.pc = "lock"]
      /\ UNCHANGED <<queue, metrics, job, puts, sealed, counted>>
  BY <1>0 DEF Schedule, AggVars, Goto
<1>2. /\ agg.piece.kind \in Kinds
      /\ agg \in [pc : AggPcs, piece : Pieces \cup {NoPiece}, cell : SUBSET Nat]
  BY <1>1, InHand DEF Holds
<1>3. /\ new \in Compose /\ new.scheduled /\ new.locked = "missing"
      /\ <<>> \notin {new.second, new.minute, new.hour, new.day} /\ Last(new.second) = {}
  BY <1>2, NewComposeType
<1> HIDE DEF new
<1>4. k \notin Range(metrics) /\ ~compose[k].scheduled /\ compose[k].second = <<>> /\ sealed[k] = <<>>
  BY <1>0, <1>1, <1>2 DEF Inv, Made, Making
<1>5. /\ agg'.pc = "lock" /\ agg'.piece = agg.piece
      /\ agg' \in [pc : AggPcs, piece : Pieces \cup {NoPiece}, cell : SUBSET Nat]
  BY <1>1, <1>2 DEF AggPcs
<1>6. /\ compose' \in [Keys -> Compose] /\ compose'[k] = new
      /\ \A l \in Keys : l # k => compose'[l] = compose[l]
  BY <1>1, <1>2, <1>3 DEF Inv, TypeOK
<1>7. TypeOK'
  BY <1>1, <1>5, <1>6 DEF Inv, TypeOK
<1>8. Made'
  <2>1. ASSUME NEW l \in Keys
        PROVE  /\ compose'[l].scheduled <=> l \in Range(metrics') \/ (Making' /\ agg'.piece.key = l)
               /\ IF compose'[l].scheduled
                  THEN <<>> \notin {compose'[l].second, compose'[l].minute, compose'[l].hour, compose'[l].day}
                  ELSE compose'[l].second = <<>> /\ sealed'[l] = <<>>
    <3>1. CASE l = k
      BY <1>0, <1>1, <1>3, <1>5, <1>6, <3>1 DEF Making
    <3>2. CASE l # k
      BY <1>0, <1>1, <1>5, <1>6, <3>2 DEF Inv, Made, Making
    <3> QED BY <3>1, <3>2
  <2>2. job.pc # "idle" => job.key \in Keys /\ compose[job.key].scheduled
    BY DEF Inv, Made
  <2>3. job'.pc # "idle" => job'.key \in Keys /\ compose'[job'.key].scheduled
    BY <1>1, <1>4, <1>6, <2>2
  <2> QED BY <1>5, <2>1, <2>3 DEF Made
<1>9. Locked'
  <2>1. ASSUME NEW l \in Keys PROVE compose'[l].locked # "agg"
    BY <1>1, <1>3, <1>6 DEF Inv, Locked
  <2> QED BY <1>5, <2>1 DEF Locked
<1>10. Fresh'
  BY <1>1, <1>5 DEF Inv, Fresh, Holds
<1>11. Seconds'
  <2>1. \A l \in Keys : l # k => Cells(l)' = Cells(l)
    BY <1>1, <1>6 DEF Cells
  <2>2. Cells(k)' = <<{}>> /\ DOMAIN Cells(k) = {}
    <3>1. Cells(k)' = Append(<<>>, {})
      BY <1>1, <1>3, <1>4, <1>6 DEF Cells
    <3>2. Cells(k) = <<>>
      BY <1>4 DEF Cells
    <3> QED BY <3>1, <3>2
  <2>3. DOMAIN Cells(k)' = {1} /\ Cells(k)'[1] = {}
    BY <2>2
  <2>4. \A l \in Keys : \A i \in DOMAIN Cells(l)' :
          Cells(l)'[i] = {} \/ (i \in DOMAIN Cells(l) /\ Cells(l)'[i] = Cells(l)[i])
    BY <2>1, <2>3
  <2>5. \A l \in Keys : \A i \in DOMAIN Cells(l) : i \in DOMAIN Cells(l)' /\ Cells(l)'[i] = Cells(l)[i]
    BY <2>1, <2>2
  <2> QED BY <1>1, <2>4, <2>5 DEF Inv, Seconds
<1> QED BY <1>7, <1>8, <1>9, <1>10, <1>11 DEF Inv

LEMMA MakeLockInv == ASSUME Inv, MakeLock PROVE Inv'
<1> DEFINE k == agg.piece.key
<1> DEFINE c == [compose[k] EXCEPT !.locked = "no"]
<1>1. /\ agg.pc = "lock" /\ compose' = [compose EXCEPT ![k] = c]
      /\ agg' = [agg EXCEPT !.pc = "insert"]
      /\ UNCHANGED <<queue, metrics, job, puts, sealed, counted>>
  BY DEF MakeLock, AggVars, Goto
<1>2. k \in Keys /\ agg \in [pc : AggPcs, piece : Pieces \cup {NoPiece}, cell : SUBSET Nat]
  BY <1>1, InHand DEF Holds
<1>3. /\ c \in Compose /\ c.locked = "no" /\ c.second = compose[k].second
      /\ c.scheduled = compose[k].scheduled /\ c.minute = compose[k].minute
      /\ c.hour = compose[k].hour /\ c.day = compose[k].day
  BY <1>2, Fields DEF Inv, Compose
<1> HIDE DEF c
<1>4. /\ compose' \in [Keys -> Compose] /\ compose'[k] = c
      /\ \A l \in Keys : l # k => compose'[l] = compose[l]
  BY <1>1, <1>2, <1>3 DEF Inv, TypeOK
<1>5. /\ agg'.pc = "insert" /\ agg'.piece = agg.piece
      /\ agg' \in [pc : AggPcs, piece : Pieces \cup {NoPiece}, cell : SUBSET Nat]
  BY <1>1, <1>2 DEF AggPcs
<1>6. TypeOK'
  BY <1>1, <1>4, <1>5 DEF Inv, TypeOK
<1>7. \A l \in Keys : /\ compose'[l].second = compose[l].second
                      /\ compose'[l].scheduled = compose[l].scheduled
                      /\ compose'[l].minute = compose[l].minute
                      /\ compose'[l].hour = compose[l].hour /\ compose'[l].day = compose[l].day
  BY <1>3, <1>4
<1>8. Made'
  BY <1>1, <1>5, <1>7 DEF Inv, Made, Making
<1>9. Locked'
  <2>1. ASSUME NEW l \in Keys PROVE compose'[l].locked # "agg"
    BY <1>1, <1>3, <1>4 DEF Inv, Locked
  <2> QED BY <1>5, <2>1 DEF Locked
<1>10. Fresh'
  BY <1>1, <1>5 DEF Inv, Fresh, Holds
<1>11. Seconds'
  BY <1>1, <1>7, SecondsUnchanged DEF Inv
<1> QED BY <1>6, <1>8, <1>9, <1>10, <1>11 DEF Inv

LEMMA InsertInv == ASSUME Inv, Insert PROVE Inv'
<1> DEFINE k == agg.piece.key
<1>1. /\ agg.pc = "insert" /\ metrics' = Append(metrics, k)
      /\ agg' = [agg EXCEPT !.pc = "match"]
      /\ UNCHANGED <<queue, compose, job, puts, sealed, counted>>
  BY DEF Insert, AggVars, Goto
<1>2. k \in Keys /\ agg \in [pc : AggPcs, piece : Pieces \cup {NoPiece}, cell : SUBSET Nat]
  BY <1>1, InHand DEF Holds
<1>3. metrics \in Seq(Keys)
  BY DEF Inv, TypeOK
<1>4. metrics' \in Seq(Keys) /\ Range(metrics') = Range(metrics) \cup {k}
  <2>1. /\ metrics' \in Seq(Keys) /\ DOMAIN metrics' = 1 .. Len(metrics) + 1 /\ Len(metrics) \in Nat
        /\ metrics'[Len(metrics) + 1] = k /\ DOMAIN metrics = 1 .. Len(metrics)
        /\ \A i \in 1 .. Len(metrics) : metrics'[i] = metrics[i]
    BY <1>1, <1>2, <1>3, AppendProperties
  <2>2. Range(metrics') \subseteq Range(metrics) \cup {k}
    BY <2>1 DEF Range
  <2>3. Range(metrics) \cup {k} \subseteq Range(metrics')
    BY <2>1 DEF Range
  <2> QED BY <2>1, <2>2, <2>3
<1>5. /\ agg'.pc = "match" /\ agg'.piece = agg.piece
      /\ agg' \in [pc : AggPcs, piece : Pieces \cup {NoPiece}, cell : SUBSET Nat]
  BY <1>1, <1>2 DEF AggPcs
<1>6. TypeOK'
  BY <1>1, <1>4, <1>5 DEF Inv, TypeOK
<1>7. Made'
  BY <1>1, <1>4, <1>5 DEF Inv, Made, Making
<1>8. Locked'
  BY <1>1, <1>5 DEF Inv, Locked
<1>9. Fresh'
  BY <1>1, <1>5 DEF Inv, Fresh, Holds
<1>10. Seconds'
  BY <1>1, SecondsUnchanged DEF Inv
<1> QED BY <1>6, <1>7, <1>8, <1>9, <1>10 DEF Inv
-----------------------------------------------------------------------------
(***************************************************************************)
(* A piece is counted: the read of the current cell, and the write.        *)
(***************************************************************************)
LEMMA AcquireInv == ASSUME Inv, Acquire PROVE Inv'
<1> DEFINE k == agg.piece.key
<1> DEFINE c == [compose[k] EXCEPT !.locked = "agg"]
<1>1. /\ agg.pc = "acquire" /\ compose[k].locked = "no" /\ compose' = [compose EXCEPT ![k] = c]
      /\ agg' = [agg EXCEPT !.pc = "write", !.cell = Last(compose[k].second)]
      /\ UNCHANGED <<queue, metrics, job, puts, sealed, counted>>
  BY DEF Acquire, AggVars, Free
<1>2. k \in Keys /\ agg \in [pc : AggPcs, piece : Pieces \cup {NoPiece}, cell : SUBSET Nat]
  BY <1>1, InHand DEF Holds
<1>3. /\ c \in Compose /\ c.locked = "agg" /\ c.second = compose[k].second
      /\ c.scheduled = compose[k].scheduled /\ c.minute = compose[k].minute
      /\ c.hour = compose[k].hour /\ c.day = compose[k].day
  BY <1>2, Fields DEF Inv, Compose
<1> HIDE DEF c
<1>4. /\ compose' \in [Keys -> Compose] /\ compose'[k] = c
      /\ \A l \in Keys : l # k => compose'[l] = compose[l]
  BY <1>1, <1>2, <1>3 DEF Inv, TypeOK
<1>5. compose[k].second # <<>> /\ Last(compose[k].second) \in SUBSET Nat
  <2>1. compose[k].second # <<>>
    BY <1>1, <1>2 DEF Inv, Made
  <2>2. compose[k].second \in Window
    BY <1>2, Fields DEF Inv
  <2> QED BY <2>1, <2>2, LastType
<1>6. /\ agg'.pc = "write" /\ agg'.piece = agg.piece /\ agg'.cell = Last(compose[k].second)
      /\ agg' \in [pc : AggPcs, piece : Pieces \cup {NoPiece}, cell : SUBSET Nat]
  BY <1>1, <1>2, <1>5 DEF AggPcs
<1>7. TypeOK'
  BY <1>1, <1>4, <1>6 DEF Inv, TypeOK
<1>8. \A l \in Keys : /\ compose'[l].second = compose[l].second
                      /\ compose'[l].scheduled = compose[l].scheduled
                      /\ compose'[l].minute = compose[l].minute
                      /\ compose'[l].hour = compose[l].hour /\ compose'[l].day = compose[l].day
  BY <1>3, <1>4
<1>9. Made'
  BY <1>1, <1>6, <1>8 DEF Inv, Made, Making
<1>10. Locked'
  <2>1. \A l \in Keys : l # k => compose'[l].locked # "agg"
    BY <1>1, <1>4 DEF Inv, Locked
  <2> QED BY <1>2, <1>3, <1>4, <1>6, <1>8, <2>1 DEF Locked
<1>11. Fresh'
  BY <1>1, <1>6 DEF Inv, Fresh, Holds
<1>12. Seconds'
  BY <1>1, <1>8, SecondsUnchanged DEF Inv
<1> QED BY <1>7, <1>9, <1>10, <1>11, <1>12 DEF Inv

LEMMA WriteInv == ASSUME Inv, Write PROVE Inv'
<1>0. PICK k \in Keys, id \in 1 .. puts : k = agg.piece.key /\ id = agg.piece.id
  BY InHand DEF Write, Holds
<1> DEFINE w == compose[k].second
<1> DEFINE n == Len(w)
<1> DEFINE v == [w EXCEPT ![n] = agg.cell \cup {id}]
<1> DEFINE c == [compose[k] EXCEPT !.second = v, !.locked = "no"]
<1>1. agg.pc = "write" /\ Holds
  BY DEF Write, Holds
<1>2. /\ k \in Keys /\ id \in 1 .. puts /\ id \notin counted
      /\ agg \in [pc : AggPcs, piece : Pieces \cup {NoPiece}, cell : SUBSET Nat]
  BY <1>0, <1>1, InHand
<1>3. /\ agg' = [pc |-> "top", piece |-> NoPiece, cell |-> {}]
      /\ counted' = counted \cup {id}
      /\ UNCHANGED <<queue, metrics, job, puts, sealed>>
  BY <1>0 DEF Write
<1>4. compose' = [compose EXCEPT ![k] = c]
  <2>1. compose' = [compose EXCEPT ![k].second[n] = agg.cell \cup {id}, ![k].locked = "no"]
    BY <1>0 DEF Write
  <2>2. compose \in [Keys -> Compose]
    BY DEF Inv, TypeOK
  <2> QED BY <1>2, <2>1, <2>2
<1>5. w \in Window /\ w # <<>> /\ agg.cell = Last(w)
  <2>1. w # <<>> /\ agg.cell = Last(w)
    BY <1>0, <1>1, <1>2 DEF Inv, Made, Locked
  <2> QED BY <1>2, <2>1, Fields DEF Inv
<1>6. /\ n \in Nat \ {0} /\ n \in DOMAIN w /\ Last(w) = w[n] /\ agg.cell \in SUBSET Nat /\ id \in Nat
  BY <1>2, <1>5, LastType DEF Inv, TypeOK
<1> HIDE DEF w, n
<1>7. v \in Window /\ v # <<>> /\ Last(v) = agg.cell \cup {id}
  <2>1. w \in Seq(SUBSET Nat) /\ n = Len(w) /\ agg.cell \cup {id} \in SUBSET Nat
    BY <1>5, <1>6 DEF Window, n
  <2>2. v \in Seq(SUBSET Nat) /\ Len(v) = n /\ v[n] = agg.cell \cup {id}
    BY <1>6, <2>1
  <2> QED BY <1>6, <2>2 DEF Window, Last
<1> HIDE DEF v
<1>8. /\ c \in Compose /\ c.locked = "no" /\ c.second = v
      /\ c.scheduled = compose[k].scheduled /\ c.minute = compose[k].minute
      /\ c.hour = compose[k].hour /\ c.day = compose[k].day
  <2>1. compose[k] \in Compose
    BY <1>2, Fields DEF Inv
  <2> QED BY <1>7, <2>1 DEF Compose
<1> HIDE DEF c
<1>9. /\ compose' \in [Keys -> Compose] /\ compose'[k] = c
      /\ \A l \in Keys : l # k => compose'[l] = compose[l]
  BY <1>2, <1>4, <1>8 DEF Inv, TypeOK
<1>10. agg'.pc = "top" /\ agg'.piece = NoPiece /\ agg'.cell = {}
  BY <1>3
<1>11. TypeOK'
  <2>1. agg' \in [pc : AggPcs, piece : Pieces \cup {NoPiece}, cell : SUBSET Nat]
    BY <1>3 DEF AggPcs
  <2>2. counted' \in SUBSET (1 .. puts')
    BY <1>2, <1>3 DEF Inv, TypeOK
  <2> QED BY <1>3, <1>9, <2>1, <2>2 DEF Inv, TypeOK
<1>12. Made'
  <2>1. ASSUME NEW l \in Keys
        PROVE  /\ compose'[l].scheduled = compose[l].scheduled
               /\ compose'[l].minute = compose[l].minute
               /\ compose'[l].hour = compose[l].hour /\ compose'[l].day = compose[l].day
               /\ l # k => compose'[l].second = compose[l].second
    BY <1>8, <1>9
  <2>2. compose'[k].second # <<>> /\ compose[k].scheduled
    BY <1>0, <1>1, <1>2, <1>7, <1>8, <1>9 DEF Inv, Made
  <2>3. ~Making /\ ~Making'
    BY <1>1, <1>10 DEF Making
  <2> QED BY <1>2, <1>3, <1>10, <2>1, <2>2, <2>3 DEF Inv, Made
<1>13. Locked'
  <2>1. ASSUME NEW l \in Keys PROVE compose'[l].locked # "agg"
    BY <1>0, <1>1, <1>8, <1>9 DEF Inv, Locked
  <2> QED BY <1>10, <2>1 DEF Locked
<1>14. Fresh'
  <2>1. \A i \in DOMAIN queue : queue[i].id # id /\ queue[i].id \notin counted /\ queue[i].id \in 1 .. puts
    BY <1>0, <1>1 DEF Inv, Fresh
  <2>2. ~Holds'
    BY <1>10 DEF Holds
  <2> QED BY <1>3, <2>1, <2>2 DEF Inv, Fresh
<1>15. Seconds'
  <2> DEFINE m == Len(sealed[k]) + 1
  <2>1. \A l \in Keys : l # k => Cells(l)' = Cells(l)
    BY <1>3, <1>9 DEF Cells
  <2>2. /\ DOMAIN Cells(k) = 1 .. m /\ Cells(k)[m] = agg.cell /\ m \in 1 .. m
        /\ \A i \in 1 .. Len(sealed[k]) : Cells(k)[i] = sealed[k][i]
        /\ Len(sealed[k]) \in Nat
    <3>1. sealed[k] \in Window
      BY <1>2, Fields DEF Inv
    <3> QED BY <1>2, <1>5, <3>1, CellsByPlace DEF w
  <2>3. Cells(k)' = Append(sealed[k], agg.cell \cup {id})
    BY <1>3, <1>7, <1>8, <1>9 DEF Cells
  <2>4. /\ DOMAIN Cells(k)' = 1 .. m /\ Cells(k)'[m] = agg.cell \cup {id}
        /\ \A i \in 1 .. Len(sealed[k]) : Cells(k)'[i] = sealed[k][i]
    <3>1. sealed[k] \in Seq(SUBSET Nat) /\ agg.cell \cup {id} \in SUBSET Nat
      BY <1>2, <1>6, Fields DEF Inv, Window
    <3> QED BY <2>3, <3>1, AppendProperties
  <2>5. \A l \in Keys : /\ DOMAIN Cells(l)' = DOMAIN Cells(l)
                        /\ \A i \in DOMAIN Cells(l) :
                             IF l = k /\ i = m THEN Cells(l)'[i] = Cells(l)[i] \cup {id}
                                               ELSE Cells(l)'[i] = Cells(l)[i]
    <3>1. \A i \in 1 .. m : i = m \/ i \in 1 .. Len(sealed[k])
      BY <2>2
    <3> QED BY <2>1, <2>2, <2>4, <3>1
  <2> HIDE DEF m
  <2>6. \A l \in Keys : \A i \in DOMAIN Cells(l) : id \notin Cells(l)[i]
    BY <1>2 DEF Inv, Seconds
  <2>7. \A l \in Keys : \A i \in DOMAIN Cells(l)' : Cells(l)'[i] \subseteq counted'
    BY <1>3, <2>5 DEF Inv, Seconds
  <2>8. \A x \in counted' : \E l \in Keys : \E i \in DOMAIN Cells(l)' : x \in Cells(l)'[i]
    <3>1. ASSUME NEW x \in counted PROVE \E l \in Keys : \E i \in DOMAIN Cells(l)' : x \in Cells(l)'[i]
      <4>1. PICK l \in Keys : \E i \in DOMAIN Cells(l) : x \in Cells(l)[i]
        BY <3>1 DEF Inv, Seconds
      <4> QED BY <2>5, <4>1
    <3>2. id \in Cells(k)'[m] /\ m \in DOMAIN Cells(k)'
      BY <2>2, <2>4
    <3> QED BY <1>2, <1>3, <3>1, <3>2
  <2>9. ASSUME NEW l \in Keys, NEW p \in Keys, NEW i \in DOMAIN Cells(l)', NEW j \in DOMAIN Cells(p)',
               Cells(l)'[i] \cap Cells(p)'[j] # {}
        PROVE  l = p /\ i = j
    <3>1. PICK x : x \in Cells(l)'[i] /\ x \in Cells(p)'[j]
      BY <2>9
    <3>2. i \in DOMAIN Cells(l) /\ j \in DOMAIN Cells(p)
      BY <2>5
    <3>3. CASE x = id
      BY <2>5, <2>6, <3>1, <3>2, <3>3
    <3>4. CASE x # id
      <4>1. x \in Cells(l)[i] /\ x \in Cells(p)[j]
        BY <2>5, <3>1, <3>2, <3>4
      <4> QED BY <3>2, <4>1 DEF Inv, Seconds
    <3> QED BY <3>3, <3>4
  <2> QED BY <2>7, <2>8, <2>9 DEF Seconds
<1> QED BY <1>11, <1>12, <1>13, <1>14, <1>15 DEF Inv
-----------------------------------------------------------------------------
(***************************************************************************)
(* The jobs.                                                               *)
(***************************************************************************)
\* The job that a step leaves, if any, is that of a metric with windows.
JobOfMetric == job'.pc # "idle" => job'.key \in Keys /\ compose[job'.key].scheduled

LEMMA StepType ==
  ASSUME Inv, job.pc # "idle", NEW pc \in {"idle", "minute", "hour", "day"}, Step(pc)
  PROVE  /\ job' \in [pc : {"idle", "roll", "minute", "hour", "day"}, key : Keys \cup {"none"}]
         /\ JobOfMetric
         /\ job.key \in Keys /\ compose[job.key].scheduled
<1>1. job \in [pc : {"idle", "roll", "minute", "hour", "day"}, key : Keys \cup {"none"}]
  BY DEF Inv, TypeOK
<1>2. job.key \in Keys /\ compose[job.key].scheduled
  BY DEF Inv, Made
<1>3. CASE pc = "idle"
  BY <1>2, <1>3 DEF Step, JobOfMetric
<1>4. CASE pc # "idle"
  <2>1. job' = [job EXCEPT !.pc = pc]
    BY <1>4 DEF Step
  <2>2. job'.key = job.key
    BY <1>1, <2>1
  <2> QED BY <1>1, <1>2, <2>1, <2>2 DEF JobOfMetric
<1> QED BY <1>3, <1>4

\* A step of a job that leaves the seconds alone.
LEMMA CoarseStep ==
  ASSUME Inv, NEW k \in Keys, NEW c \in Compose, compose' = [compose EXCEPT ![k] = c],
         c.second = compose[k].second, c.scheduled = compose[k].scheduled,
         c.locked = compose[k].locked,
         c.minute # <<>> \/ c.minute = compose[k].minute,
         c.hour # <<>> \/ c.hour = compose[k].hour, c.day # <<>> \/ c.day = compose[k].day,
         job' \in [pc : {"idle", "roll", "minute", "hour", "day"}, key : Keys \cup {"none"}],
         JobOfMetric,
         UNCHANGED <<queue, agg, metrics, puts, sealed, counted>>
  PROVE  Inv'
<1>1. /\ compose' \in [Keys -> Compose]
      /\ \A l \in Keys : /\ compose'[l].second = compose[l].second
                         /\ compose'[l].scheduled = compose[l].scheduled
                         /\ compose'[l].minute # <<>> \/ compose'[l].minute = compose[l].minute
                         /\ compose'[l].hour # <<>> \/ compose'[l].hour = compose[l].hour
                         /\ compose'[l].day # <<>> \/ compose'[l].day = compose[l].day
                         /\ l # k => compose'[l] = compose[l]
      /\ compose'[k] = c
  BY OneCompose DEF Inv
<1>2. TypeOK'
  BY <1>1 DEF Inv, TypeOK
<1>3. Made'
  <2>1. \A l \in Keys :
          IF compose'[l].scheduled
          THEN <<>> \notin {compose'[l].second, compose'[l].minute, compose'[l].hour, compose'[l].day}
          ELSE compose'[l].second = <<>> /\ sealed'[l] = <<>>
    BY <1>1 DEF Inv, Made
  <2>2. job'.pc # "idle" => job'.key \in Keys /\ compose'[job'.key].scheduled
    BY <1>1 DEF JobOfMetric
  <2> QED BY <1>1, <2>1, <2>2 DEF Inv, Made, Making
<1>4. Locked'
  <2>1. \A l \in Keys : compose'[l].locked = compose[l].locked
    BY <1>1
  <2>2. agg.pc = "write" => agg.piece.key \in Keys
    BY InHand DEF Holds
  <2> QED BY <1>1, <2>1, <2>2 DEF Inv, Locked
<1>5. Fresh'
  BY DEF Inv, Fresh, Holds
<1>6. Seconds'
  BY <1>1, SecondsUnchanged DEF Inv
<1> QED BY <1>2, <1>3, <1>4, <1>5, <1>6 DEF Inv

\* Nor does a step that leaves every metric alone disturb anything.
LEMMA JobStep ==
  ASSUME Inv,
         job' \in [pc : {"idle", "roll", "minute", "hour", "day"}, key : Keys \cup {"none"}],
         JobOfMetric,
         UNCHANGED <<queue, agg, metrics, compose, puts, sealed, counted>>
  PROVE  Inv'
<1>1. TypeOK'
  BY DEF Inv, TypeOK
<1>2. Made'
  BY DEF Inv, Made, Making, JobOfMetric
<1>3. Locked' /\ Fresh'
  BY DEF Inv, Locked, Fresh, Holds
<1>4. Seconds'
  BY SecondsUnchanged DEF Inv
<1> QED BY <1>1, <1>2, <1>3, <1>4 DEF Inv

LEMMA FireInv == ASSUME Inv, Fire PROVE Inv'
<1>1. PICK k \in Keys :
        /\ compose[k].scheduled /\ job' = [pc |-> "roll", key |-> k]
        /\ compose' = [compose EXCEPT ![k].cnt = @ + 1]
  BY DEF Fire
<1>2. UNCHANGED <<queue, agg, metrics, puts, sealed, counted>>
  BY DEF Fire, JobVars
<1> DEFINE c == [compose[k] EXCEPT !.cnt = @ + 1]
<1>3. compose[k] \in Compose /\ compose' = [compose EXCEPT ![k] = c]
  BY <1>1, Fields DEF Inv
<1>4. /\ c \in Compose /\ c.second = compose[k].second /\ c.scheduled = compose[k].scheduled
      /\ c.locked = compose[k].locked /\ c.minute = compose[k].minute
      /\ c.hour = compose[k].hour /\ c.day = compose[k].day
  BY <1>3 DEF Compose
<1> HIDE DEF c
<1>5. /\ job' \in [pc : {"idle", "roll", "minute", "hour", "day"}, key : Keys \cup {"none"}]
      /\ JobOfMetric
  BY <1>1 DEF JobOfMetric
<1> QED BY <1>2, <1>3, <1>4, <1>5, CoarseStep

LEMMA NoLockInv == ASSUME Inv, NoLock PROVE Inv'
<1>1. job.pc # "idle" /\ Step("idle") /\ UNCHANGED <<queue, agg, metrics, compose, puts, sealed, counted>>
  BY DEF NoLock, At, JobVars
<1> QED BY <1>1, StepType, JobStep

LEMMA RollMinuteInv == ASSUME Inv, RollMinute PROVE Inv'
<1>1. /\ job.pc # "idle" /\ Step("hour")
      /\ UNCHANGED <<queue, agg, metrics, puts, sealed, counted>>
  BY DEF RollMinute, At, JobVars
<1>2. PICK k \in Keys : k = job.key /\ compose[k].scheduled
  BY <1>1, StepType
<1>3. /\ job' \in [pc : {"idle", "roll", "minute", "hour", "day"}, key : Keys \cup {"none"}]
      /\ JobOfMetric
  BY <1>1, StepType
<1>4. CASE compose' = compose
  BY <1>1, <1>3, <1>4, JobStep
<1> DEFINE w == Rolled(compose[k].minute, Union(LastMinute(compose[k].second)))
<1> DEFINE c == [compose[k] EXCEPT !.minute = w]
<1>5. CASE compose' = [compose EXCEPT ![k] = c]
  <2>1. /\ compose[k] \in Compose /\ compose[k].second \in Window
        /\ compose[k].minute \in Window /\ compose[k].minute # <<>>
    BY <1>2, Fields DEF Inv, Made
  <2>2. LastMinute(compose[k].second) \in Window
    <3>1. ASSUME NEW s \in Seq(SUBSET Nat) PROVE SubSeq(s, 2, Len(s) - 1) \in Seq(SUBSET Nat)
      <4>1. Len(s) \in Nat /\ \A i \in 2 .. Len(s) - 1 : s[i] \in SUBSET Nat
        OBVIOUS
      <4> QED BY <4>1, SubSeqProperties
    <3> QED BY <2>1, <3>1 DEF LastMinute, Window
  <2>3. w \in Window /\ w # <<>>
    BY <2>1, <2>2, UnionType, RolledWindow
  <2> HIDE DEF w
  <2>4. /\ c \in Compose /\ c.second = compose[k].second /\ c.scheduled = compose[k].scheduled
        /\ c.locked = compose[k].locked /\ c.minute = w
        /\ c.hour = compose[k].hour /\ c.day = compose[k].day
    BY <2>1, <2>3 DEF Compose
  <2> HIDE DEF c
  <2> QED BY <1>1, <1>3, <1>5, <2>3, <2>4, CoarseStep
<1>6. compose' = compose \/ compose' = [compose EXCEPT ![k] = c]
  BY <1>2 DEF RollMinute
<1> QED BY <1>4, <1>5, <1>6

LEMMA RollHourInv == ASSUME Inv, RollHour PROVE Inv'
<1>1. /\ job.pc # "idle" /\ Step("day")
      /\ UNCHANGED <<queue, agg, metrics, puts, sealed, counted>>
  BY DEF RollHour, At, JobVars
<1>2. PICK k \in Keys : k = job.key /\ compose[k].scheduled
  BY <1>1, StepType
<1>3. /\ job' \in [pc : {"idle", "roll", "minute", "hour", "day"}, key : Keys \cup {"none"}]
      /\ JobOfMetric
  BY <1>1, StepType
<1>4. CASE compose' = compose
  BY <1>1, <1>3, <1>4, JobStep
<1> DEFINE w == Rolled(compose[k].hour, Union(compose[k].minute))
<1> DEFINE c == [compose[k] EXCEPT !.hour = w]
<1>5. CASE compose' = [compose EXCEPT ![k] = c]
  <2>1. /\ compose[k] \in Compose /\ compose[k].minute \in Window
        /\ compose[k].hour \in Window /\ compose[k].hour # <<>>
    BY <1>2, Fields DEF Inv, Made
  <2>2. w \in Window /\ w # <<>>
    BY <2>1, UnionType, RolledWindow
  <2> HIDE DEF w
  <2>3. /\ c \in Compose /\ c.second = compose[k].second /\ c.scheduled = compose[k].scheduled
        /\ c.locked = compose[k].locked /\ c.minute = compose[k].minute
        /\ c.hour = w /\ c.day = compose[k].day
    BY <2>1, <2>2 DEF Compose
  <2> HIDE DEF c
  <2> QED BY <1>1, <1>3, <1>5, <2>2, <2>3, CoarseStep
<1>6. compose' = compose \/ compose' = [compose EXCEPT ![k] = c]
  BY <1>2 DEF RollHour
<1> QED BY <1>4, <1>5, <1>6

LEMMA RollDayInv == ASSUME Inv, RollDay PROVE Inv'
<1>1. /\ job.pc # "idle" /\ Step("idle")
      /\ UNCHANGED <<queue, agg, metrics, puts, sealed, counted>>
  BY DEF RollDay, At, JobVars
<1>2. PICK k \in Keys : k = job.key /\ compose[k].scheduled
  BY <1>1, StepType
<1>3. /\ job' \in [pc : {"idle", "roll", "minute", "hour", "day"}, key : Keys \cup {"none"}]
      /\ JobOfMetric
  BY <1>1, StepType
<1>4. CASE compose' = compose
  BY <1>1, <1>3, <1>4, JobStep
<1> DEFINE w == Rolled(compose[k].day, Union(compose[k].hour))
<1> DEFINE c == [compose[k] EXCEPT !.day = w, !.cnt = 0]
<1>5. compose[k] \in Compose
  BY Fields DEF Inv
<1>6. CASE compose' = [compose EXCEPT ![k] = c]
  <2>1. compose[k].hour \in Window /\ compose[k].day \in Window /\ compose[k].day # <<>>
    BY <1>2, Fields DEF Inv, Made
  <2>2. w \in Window /\ w # <<>>
    BY <2>1, UnionType, RolledWindow
  <2> HIDE DEF w
  <2>3. /\ c \in Compose /\ c.second = compose[k].second /\ c.scheduled = compose[k].scheduled
        /\ c.locked = compose[k].locked /\ c.minute = compose[k].minute
        /\ c.hour = compose[k].hour /\ c.day = w
    BY <1>5, <2>2 DEF Compose
  <2> HIDE DEF c
  <2> QED BY <1>1, <1>3, <1>6, <2>2, <2>3, CoarseStep
<1>7. compose' = compose \/ compose' = [compose EXCEPT ![k].day = w, ![k].cnt = 0]
  BY <1>2 DEF RollDay
<1>8. compose' = compose \/ compose' = [compose EXCEPT ![k] = c]
  <2>1. compose \in [Keys -> Compose]
    BY DEF Inv, TypeOK
  <2> QED BY <1>5, <1>7, <2>1
<1> QED BY <1>4, <1>6, <1>8

\* The current second is over: it joins the cells that are complete, and a new
\* one comes.
LEMMA RollSecondInv == ASSUME Inv, RollSecond PROVE Inv'
<1>1. /\ job.pc # "idle" /\ (Step("idle") \/ Step("minute")) /\ compose[job.key].locked = "no"
      /\ UNCHANGED <<queue, agg, metrics, puts, counted>>
  BY DEF RollSecond, At, JobVars, Free
<1>2. PICK k \in Keys : k = job.key /\ compose[k].scheduled
  BY <1>1, StepType
<1> DEFINE w == compose[k].second
<1> DEFINE v == Rolled(w, {})
<1> DEFINE c == [compose[k] EXCEPT !.second = v]
<1>3. compose' = [compose EXCEPT ![k] = c] /\ sealed' = [sealed EXCEPT ![k] = Append(@, Last(w))]
  BY <1>2 DEF RollSecond
<1>4. /\ job' \in [pc : {"idle", "roll", "minute", "hour", "day"}, key : Keys \cup {"none"}]
      /\ JobOfMetric
  BY <1>1, StepType
<1>5. compose[k] \in Compose /\ w \in Window /\ w # <<>> /\ sealed[k] \in Window
  BY <1>2, Fields DEF Inv, Made
<1>6. Last(w) \in SUBSET Nat
  BY <1>5, LastType
<1>7. v \in Window /\ v # <<>> /\ Last(v) = {}
  BY <1>5, RolledWindow
<1> HIDE DEF v
<1>8. /\ c \in Compose /\ c.second = v /\ c.scheduled = compose[k].scheduled
      /\ c.locked = "no" /\ c.minute = compose[k].minute
      /\ c.hour = compose[k].hour /\ c.day = compose[k].day
  BY <1>1, <1>2, <1>5, <1>7 DEF Compose
<1> HIDE DEF c
<1>9. /\ compose' \in [Keys -> Compose] /\ compose'[k] = c
      /\ \A l \in Keys : l # k => compose'[l] = compose[l]
  BY <1>3, <1>8 DEF Inv, TypeOK
<1>10. Append(sealed[k], Last(w)) \in Window
  BY <1>5, <1>6, AppendProperties DEF Window
<1>11. /\ sealed' \in [Keys -> Window] /\ sealed'[k] = Append(sealed[k], Last(w))
       /\ \A l \in Keys : l # k => sealed'[l] = sealed[l]
  BY <1>3, <1>10 DEF Inv, TypeOK
<1>12. TypeOK'
  BY <1>1, <1>4, <1>9, <1>11 DEF Inv, TypeOK
<1>13. Made'
  <2>1. ASSUME NEW l \in Keys
        PROVE  /\ compose'[l].scheduled = compose[l].scheduled
               /\ IF compose'[l].scheduled
                  THEN <<>> \notin {compose'[l].second, compose'[l].minute, compose'[l].hour, compose'[l].day}
                  ELSE compose'[l].second = <<>> /\ sealed'[l] = <<>>
    <3>1. CASE l = k
      <4>1. compose[k].minute # <<>> /\ compose[k].hour # <<>> /\ compose[k].day # <<>>
        BY <1>2 DEF Inv, Made
      <4>2. c.second # <<>> /\ c.minute # <<>> /\ c.hour # <<>> /\ c.day # <<>> /\ c.scheduled
        BY <1>2, <1>7, <1>8, <4>1
      <4> QED BY <1>2, <1>8, <1>9, <3>1, <4>2
    <3>2. CASE l # k
      BY <1>9, <1>11, <3>2 DEF Inv, Made
    <3> QED BY <3>1, <3>2
  <2>2. job'.pc # "idle" => job'.key \in Keys /\ compose'[job'.key].scheduled
    BY <1>4, <2>1 DEF JobOfMetric
  <2> QED BY <1>1, <2>1, <2>2 DEF Inv, Made, Making
<1>14. Locked'
  <2>1. \A l \in Keys : compose'[l].locked = compose[l].locked
    BY <1>1, <1>2, <1>8, <1>9
  <2>2. agg.pc = "write" => agg.piece.key \in Keys /\ agg.piece.key # k
    <3>1. agg.pc = "write" => agg.piece.key \in Keys
      BY InHand DEF Holds
    <3> QED BY <1>1, <1>2, <3>1 DEF Inv, Locked
  <2>3. agg.pc = "write" => agg.cell = Last(compose'[agg.piece.key].second)
    BY <1>9, <2>2 DEF Inv, Locked
  <2>4. \A l \in Keys : compose'[l].locked = "agg" <=> agg.pc = "write" /\ agg.piece.key = l
    BY <2>1 DEF Inv, Locked
  <2> QED BY <1>1, <2>3, <2>4 DEF Locked
<1>15. Fresh'
  BY <1>1 DEF Inv, Fresh, Holds
<1>16. Seconds'
  <2>1. \A l \in Keys : l # k => Cells(l)' = Cells(l)
    BY <1>9, <1>11 DEF Cells
  <2>2. Cells(k) = Append(sealed[k], Last(w))
    BY <1>5 DEF Cells
  <2>3. Cells(k) \in Seq(SUBSET Nat)
    BY <1>10, <2>2 DEF Window
  <2>4. Cells(k)' = Append(Cells(k), {})
    BY <1>7, <1>8, <1>9, <1>11, <2>2 DEF Cells
  <2>5. /\ DOMAIN Cells(k)' = 1 .. Len(Cells(k)) + 1 /\ DOMAIN Cells(k) = 1 .. Len(Cells(k))
        /\ Cells(k)'[Len(Cells(k)) + 1] = {} /\ Len(Cells(k)) \in Nat
        /\ \A i \in 1 .. Len(Cells(k)) : Cells(k)'[i] = Cells(k)[i]
    BY <2>3, <2>4, AppendProperties
  <2>6. \A l \in Keys : \A i \in DOMAIN Cells(l)' :
          Cells(l)'[i] = {} \/ (i \in DOMAIN Cells(l) /\ Cells(l)'[i] = Cells(l)[i])
    BY <2>1, <2>5
  <2>7. \A l \in Keys : \A i \in DOMAIN Cells(l) : i \in DOMAIN Cells(l)' /\ Cells(l)'[i] = Cells(l)[i]
    BY <2>1, <2>5
  <2> QED BY <1>1, <2>6, <2>7 DEF Inv, Seconds
<1> QED BY <1>12, <1>13, <1>14, <1>15, <1>16 DEF Inv
-----------------------------------------------------------------------------
LEMMA NextInv == ASSUME Inv, [Next]_vars PROVE Inv'
<1> DEFINE same == UNCHANGED <<queue, agg, metrics, compose, job, puts, sealed, counted>>
<1>1. ASSUME same PROVE Inv'
  <2>1. TypeOK' /\ Made' /\ Locked' /\ Fresh'
    BY <1>1 DEF Inv, TypeOK, Made, Making, Locked, Fresh, Holds
  <2>2. Seconds'
    BY <1>1, SecondsUnchanged DEF Inv
  <2> QED BY <2>1, <2>2 DEF Inv
<1>2. CASE Put
  BY <1>2, PutInv
<1>3. CASE Aggregator
  <2>1. CASE Top
    <3>1. /\ agg.pc = "top" /\ (Goto("get") \/ Goto("ended"))
          /\ UNCHANGED <<queue, metrics, compose, job, puts, sealed, counted>>
      BY <2>1 DEF Top, AggVars
    <3> QED BY <3>1, MoveInv
  <2>2. CASE GetEmpty
    <3>1. /\ agg.pc = "get" /\ Goto("top")
          /\ UNCHANGED <<queue, metrics, compose, job, puts, sealed, counted>>
      BY <2>2 DEF GetEmpty, Timeout, AggVars
    <3> QED BY <3>1, MoveInv
  <2>3. CASE Match
    <3>1. /\ agg.pc = "match" /\ (Goto("acquire") \/ Goto("top"))
          /\ UNCHANGED <<queue, metrics, compose, job, puts, sealed, counted>>
      BY <2>3 DEF Match, AggVars
    <3> QED BY <3>1, MoveInv
  <2> QED BY <1>3, <2>1, <2>2, <2>3, GetInv, ScheduleInv, MakeLockInv, InsertInv, AcquireInv, WriteInv
          DEF Aggregator
<1>4. CASE Fire \/ Worker
  BY <1>4, FireInv, NoLockInv, RollSecondInv, RollMinuteInv, RollHourInv, RollDayInv DEF Worker
<1>5. CASE Stop
  <2>1. same
    BY <1>5 DEF Stop, StopFlag, StopJoin, StopWait, StopVars
  <2> QED BY <1>1, <2>1
<1>6. CASE Dump
  <2>1. same
    BY <1>6 DEF Dump, Begin, Iterate, DumpEnds, DumpVars
  <2> QED BY <1>1, <2>1
<1>7. CASE UNCHANGED vars
  <2>1. same
    BY <1>7 DEF vars, threads
  <2> QED BY <1>1, <2>1
<1> QED BY <1>2, <1>3, <1>4, <1>5, <1>6, <1>7 DEF Next

(***************************************************************************)
(* The inductive invariant: the aggregation thread reads and writes a cell *)
(* while no job can roll it away, and a piece it has not counted yet is in *)
(* no cell.                                                                *)
(***************************************************************************)
THEOREM Invariant == Spec => []Inv
BY InitInv, NextInv, PTL DEF Spec

(***************************************************************************)
(* Each piece that MetricsCompose.put took is in exactly one second of its *)
(* metric, however its put and the rolls of the job fall, and no other     *)
(* piece is in any, for any number of metrics, pieces and jobs.            *)
(***************************************************************************)
THEOREM PiecesCountedOnce == Spec => []CountedOnce
<1>1. ASSUME Inv PROVE CountedOnce
  <2> DEFINE places(id) == UNION {{k} \X {i \in DOMAIN Cells(k) : id \in Cells(k)[i]} : k \in Keys}
  <2>1. ASSUME NEW id \in 1 .. puts, id \in counted PROVE Cardinality(places(id)) = 1
    <3>1. PICK k \in Keys : \E i \in DOMAIN Cells(k) : id \in Cells(k)[i]
      BY <1>1, <2>1 DEF Inv, Seconds
    <3>2. PICK i \in DOMAIN Cells(k) : id \in Cells(k)[i]
      BY <3>1
    <3>3. \A l \in Keys : \A j \in DOMAIN Cells(l) : id \in Cells(l)[j] => l = k /\ j = i
      BY <1>1, <3>2 DEF Inv, Seconds
    <3>4. <<k, i>> \in places(id)
      <4>1. <<k, i>> \in {k} \X {j \in DOMAIN Cells(k) : id \in Cells(k)[j]}
        BY <3>2
      <4> QED BY <4>1
    <3>5. ASSUME NEW p \in places(id) PROVE p = <<k, i>>
      <4>1. PICK l \in Keys : p \in {l} \X {j \in DOMAIN Cells(l) : id \in Cells(l)[j]}
        BY <3>5
      <4>2. PICK j \in DOMAIN Cells(l) : p = <<l, j>> /\ id \in Cells(l)[j]
        BY <4>1
      <4> QED BY <3>3, <4>2
    <3>6. places(id) = {<<k, i>>}
      BY <3>4, <3>5
    <3> QED BY <3>6, FS_Singleton
  <2>2. ASSUME NEW id \in 1 .. puts, id \notin counted PROVE Cardinality(places(id)) = 0
    <3>1. \A k \in Keys : \A i \in DOMAIN Cells(k) : id \notin Cells(k)[i]
      BY <1>1, <2>2 DEF Inv, Seconds
    <3>2. places(id) = {}
      BY <3>1
    <3> QED BY <3>2, FS_EmptySet
  <2> QED BY <2>1, <2>2 DEF CountedOnce
<1> QED BY <1>1, Invariant, PTL
-----------------------------------------------------------------------------
(***************************************************************************)
(* Quotients and remainders.                                               *)
(***************************************************************************)
\* A number has one quotient and one remainder.
LEMMA DivMod ==
  ASSUME NEW a \in Nat, NEW d \in Nat \ {0}
  PROVE  /\ a \div d \in Nat /\ a % d \in 0 .. d - 1
         /\ a = d * (a \div d) + (a % d)
OBVIOUS

LEMMA DivModUnique ==
  ASSUME NEW a \in Nat, NEW d \in Nat \ {0}, NEW q \in Nat, NEW r \in 0 .. d - 1, a = d * q + r
  PROVE  a \div d = q /\ a % d = r
<1> DEFINE p == a \div d
<1> DEFINE s == a % d
<1>1. p \in Nat /\ s \in 0 .. d - 1 /\ a = d * p + s
  BY DivMod
<1> HIDE DEF p, s
<1>2. d * q + r = d * p + s
  BY <1>1
<1>3. ~(q > p)
  <2> SUFFICES ASSUME q > p PROVE FALSE
    OBVIOUS
  <2>1. PICK e \in Nat : q = p + 1 + e
    <3>1. q - p - 1 \in Nat /\ q = p + 1 + (q - p - 1)
      BY <1>1
    <3> QED BY <3>1
  <2>2. d * q = d * p + d + d * e
    BY <1>1, <2>1
  <2>3. d * e >= 0 /\ d * p \in Nat
    BY <1>1, <2>1
  <2> QED BY <1>1, <1>2, <2>2, <2>3
<1>4. ~(p > q)
  <2> SUFFICES ASSUME p > q PROVE FALSE
    OBVIOUS
  <2>1. PICK e \in Nat : p = q + 1 + e
    <3>1. p - q - 1 \in Nat /\ p = q + 1 + (p - q - 1)
      BY <1>1
    <3> QED BY <3>1
  <2>2. d * p = d * q + d + d * e
    BY <1>1, <2>1
  <2>3. d * e >= 0 /\ d * q \in Nat
    BY <1>1, <2>1
  <2> QED BY <1>1, <1>2, <2>2, <2>3
<1>5. p = q
  BY <1>1, <1>3, <1>4
<1>6. s = r
  BY <1>1, <1>2, <1>5
<1> QED BY <1>5, <1>6 DEF p, s

\* What is left of a number by a multiple of d leaves the same by d.
LEMMA ModMultiple ==
  ASSUME NEW a \in Nat, NEW d \in Nat \ {0}, NEW e \in Nat \ {0}
  PROVE  /\ (a % (d * e)) % d = a % d
         /\ ((a % (d * e)) + 1) % d = (a + 1) % d
<1> DEFINE m == d * e
<1>1. m \in Nat \ {0}
  OBVIOUS
<1> DEFINE q == a \div m
<1> DEFINE r == a % m
<1>2. q \in Nat /\ r \in 0 .. m - 1 /\ a = m * q + r
  <2> HIDE DEF m
  <2> QED BY <1>1, DivMod
<1>3. r \in Nat /\ m * q = d * (e * q) /\ e * q \in Nat
  <2> HIDE DEF r, q
  <2> QED BY <1>2
<1> HIDE DEF m, r, q
<1>4. ASSUME NEW x \in Nat PROVE (d * (e * q) + x) % d = x % d
  <2> DEFINE p == x \div d
  <2> DEFINE s == x % d
  <2> DEFINE c == e * q
  <2>1. p \in Nat /\ s \in 0 .. d - 1 /\ x = d * p + s /\ c \in Nat
    BY <1>3, DivMod
  <2> HIDE DEF p, s, c
  <2>2. d * c + x = d * (c + p) + s /\ c + p \in Nat /\ d * c + x \in Nat
    BY <2>1
  <2>3. (d * c + x) % d = s
    BY <2>1, <2>2, DivModUnique
  <2> QED BY <2>3 DEF s, c
<1>5. a % d = r % d
  BY <1>2, <1>3, <1>4
<1>6. a + 1 = d * (e * q) + (r + 1) /\ r + 1 \in Nat
  BY <1>2, <1>3
<1>7. (a + 1) % d = (r + 1) % d
  BY <1>6, <1>4
<1> QED BY <1>5, <1>7 DEF r, m

\* The next number begins a quotient, or does not.
LEMMA NextDiv ==
  ASSUME NEW n \in Nat, NEW d \in Nat \ {0}
  PROVE  /\ (n + 1) % d # 0 => (n + 1) \div d = n \div d /\ (n + 1) % d = (n % d) + 1
         /\ (n + 1) % d = 0 => (n + 1) \div d = n \div d + 1 /\ n % d = d - 1
                               /\ n + 1 = d * (n \div d + 1)
<1> DEFINE u == n + 1
<1> DEFINE q == n \div d
<1> DEFINE r == n % d
<1>1. q \in Nat /\ r \in 0 .. d - 1 /\ n = d * q + r
  BY DivMod
<1>0. u = n + 1
  OBVIOUS
<1> HIDE DEF q, r, u
<1>2. CASE r = d - 1
  <2>1. u = d * (q + 1) + 0 /\ q + 1 \in Nat /\ 0 \in 0 .. d - 1 /\ u \in Nat
    BY <1>0, <1>1, <1>2
  <2>2. u \div d = q + 1 /\ u % d = 0
    BY <2>1, DivModUnique
  <2> QED BY <1>2, <2>1, <2>2 DEF q, r, u
<1>3. CASE r # d - 1
  <2>1. u = d * q + (r + 1) /\ r + 1 \in 0 .. d - 1 /\ u \in Nat
    BY <1>0, <1>1, <1>3
  <2>2. u \div d = q /\ u % d = r + 1
    BY <1>1, <2>1, DivModUnique
  <2> QED BY <1>1, <2>2 DEF q, r, u
<1> QED BY <1>2, <1>3

LEMMA Monotone ==
  ASSUME NEW a \in Nat, NEW b \in Nat, a <= b, NEW len \in Nat
  PROVE  a * len \in Nat /\ b * len \in Nat /\ a * len <= b * len
<1>1. PICK e \in Nat : b = a + e
  <2>1. b - a \in Nat /\ b = a + (b - a)
    OBVIOUS
  <2> QED BY <2>1
<1>2. b * len = a * len + e * len /\ e * len \in Nat /\ a * len \in Nat
  BY <1>1
<1> DEFINE x == a * len
<1> DEFINE y == e * len
<1> DEFINE z == b * len
<1>3. z = x + y /\ y \in Nat /\ x \in Nat
  BY <1>2
<1> HIDE DEF x, y, z
<1>4. x \in Nat /\ z \in Nat /\ x <= z
  BY <1>3
<1> QED BY <1>4 DEF x, z

\* The complete periods are no longer than the whole.
LEMMA Complete ==
  ASSUME NEW n \in Nat, NEW len \in Nat \ {0}
  PROVE  n \div len \in Nat /\ (n \div len) * len <= n
<1> DEFINE q == n \div len
<1> DEFINE r == n % len
<1>1. q \in Nat /\ r \in 0 .. len - 1 /\ n = len * q + r
  BY DivMod
<1> HIDE DEF q, r
<1> DEFINE y == q * len
<1>2. y \in Nat /\ r \in Nat /\ n = y + r
  BY <1>1
<1> HIDE DEF y
<1>3. y <= n
  BY <1>2
<1> QED BY <1>1, <1>3 DEF q, y
-----------------------------------------------------------------------------
(***************************************************************************)
(* Periods and the windows that hold them.                                 *)
(***************************************************************************)
\* The cells U go on from the first m of T.
Agree(T, U, m) == \A j \in 1 .. m : U[j] = T[j]

\* A period does not change once it is complete.
LEMMA PeriodKept ==
  ASSUME NEW T, NEW U, NEW m \in Nat, Agree(T, U, m),
         NEW i \in Nat \ {0}, NEW len \in Nat \ {0}, i * len <= m
  PROVE  Period(U, i, len) = Period(T, i, len)
<1> DEFINE b == (i - 1) * len
<1> DEFINE e == i * len
<1>1. b \in Nat /\ e \in Nat /\ e <= m
  OBVIOUS
<1> HIDE DEF b, e
<1>2. \A j \in b + 1 .. e : j \in 1 .. m
  BY <1>1
<1>3. {U[j] : j \in b + 1 .. e} = {T[j] : j \in b + 1 .. e}
  BY <1>2 DEF Agree
<1> QED BY <1>3 DEF Period, b, e

LEMMA AlignedKept ==
  ASSUME NEW T, NEW U, NEW m \in Nat, Agree(T, U, m), NEW w, NEW size \in Nat \ {0},
         NEW len \in Nat \ {0}, NEW q \in Nat, q * len <= m, Aligned(w, size, T, len, q)
  PROVE  Aligned(w, size, U, len, q)
<1>1. ASSUME NEW i \in 1 .. size, ~(q < size - i + 1)
      PROVE  Period(U, q - (size - i), len) = Period(T, q - (size - i), len)
  <2> DEFINE p == q - (size - i)
  <2>1. p \in Nat \ {0} /\ p <= q
    BY <1>1
  <2> HIDE DEF p
  <2>2. p * len <= m
    <3>1. p * len \in Nat /\ q * len \in Nat /\ p * len <= q * len
      BY <2>1, Monotone
    <3> DEFINE x == p * len
    <3> DEFINE y == q * len
    <3>2. x \in Nat /\ y \in Nat /\ x <= y /\ y <= m
      BY <3>1
    <3> HIDE DEF x, y
    <3>3. x <= m
      BY <3>2
    <3> QED BY <3>3 DEF x
  <2>3. Period(U, p, len) = Period(T, p, len)
    BY <2>1, <2>2, PeriodKept
  <2> QED BY <2>3 DEF p
<1> QED BY <1>1 DEF Aligned

\* A window that is due rolls and gets the last period.
LEMMA AlignedRolled ==
  ASSUME NEW T, NEW size \in Nat \ {0}, NEW w \in Window, NEW len \in Nat \ {0}, NEW q \in Nat,
         Aligned(w, size, T, len, q), NEW cell \in SUBSET Nat, cell = Period(T, q + 1, len)
  PROVE  Aligned(Rolled(w, cell), size, T, len, q + 1)
<1> DEFINE x == Rolled(w, cell)
<1>1. w \in Seq(SUBSET Nat) /\ Len(w) = size /\ w # <<>>
  BY DEF Aligned, Window
<1>2. Tail(w) \in Seq(SUBSET Nat) /\ Len(Tail(w)) = size - 1 /\ \A i \in 1 .. size - 1 : Tail(w)[i] = w[i + 1]
  BY <1>1, HeadTailProperties
<1>3. /\ Len(x) = size
      /\ \A i \in 1 .. size - 1 : x[i] = w[i + 1]
      /\ x[size] = cell
  <2> DEFINE t == Tail(w)
  <2>1. x = Append(t, cell) /\ t \in Seq(SUBSET Nat) /\ Len(t) = size - 1 /\ \A i \in 1 .. size - 1 : t[i] = w[i + 1]
    BY <1>2 DEF Rolled
  <2> HIDE DEF x, t
  <2>2. /\ Len(Append(t, cell)) = Len(t) + 1
        /\ \A i \in 1 .. Len(t) : Append(t, cell)[i] = t[i]
        /\ Append(t, cell)[Len(t) + 1] = cell
    BY <2>1, AppendProperties
  <2>3. Len(t) + 1 = size
    BY <2>1
  <2> QED BY <2>1, <2>2, <2>3
<1>4. \A i \in 1 .. size :
        w[i] = IF q < size - i + 1 THEN {} ELSE Period(T, q - (size - i), len)
  BY DEF Aligned
<1> HIDE DEF x
<1>5. ASSUME NEW i \in 1 .. size
      PROVE  x[i] = IF q + 1 < size - i + 1 THEN {} ELSE Period(T, (q + 1) - (size - i), len)
  <2>1. CASE i = size
    <3>1. ~(q + 1 < size - i + 1) /\ (q + 1) - (size - i) = q + 1
      BY <2>1
    <3> QED BY <1>3, <2>1, <3>1
  <2>2. CASE i # size
    <3>1. i \in 1 .. size - 1 /\ i + 1 \in 1 .. size
      BY <2>2
    <3>2. x[i] = w[i + 1]
      BY <1>3, <3>1
    <3>3. q - (size - (i + 1)) = (q + 1) - (size - i) /\ (q < size - (i + 1) + 1 <=> q + 1 < size - i + 1)
      OBVIOUS
    <3> QED BY <1>4, <3>1, <3>2, <3>3
  <2> QED BY <2>1, <2>2
<1> QED BY <1>3, <1>5 DEF Aligned, x

\* N periods of len cells are one of len * N.
LEMMA PeriodOfPeriods ==
  ASSUME NEW T, NEW N \in Nat \ {0}, NEW len \in Nat \ {0}, NEW q \in Nat
  PROVE  Period(T, q + 1, len * N) = UNION {Period(T, q * N + i, len) : i \in 1 .. N}
<1> DEFINE b == q * N
<1> DEFINE lo == b * len
<1> DEFINE hi == (b + N) * len
<1>1. b \in Nat /\ lo \in Nat /\ hi \in Nat
  OBVIOUS
<1>2. Period(T, q + 1, len * N) = UNION {T[j] : j \in lo + 1 .. hi}
  <2>1. ((q + 1) - 1) * (len * N) = lo /\ (q + 1) * (len * N) = hi
    OBVIOUS
  <2> HIDE DEF lo, hi
  <2> QED BY <2>1 DEF Period
<1> HIDE DEF b
\* A cell of a period is one of the coarser period.
<1>3. ASSUME NEW i \in 1 .. N, NEW j \in ((b + i) - 1) * len + 1 .. (b + i) * len
      PROVE  j \in lo + 1 .. hi
  <2>1. (b + i) - 1 \in Nat /\ b <= (b + i) - 1 /\ b + i \in Nat /\ b + i <= b + N /\ b + N \in Nat
    BY <1>1
  <2> DEFINE x == ((b + i) - 1) * len
  <2> DEFINE y == (b + i) * len
  <2>2. x \in Nat /\ lo <= x
    BY <1>1, <2>1, Monotone
  <2>3. y \in Nat /\ y <= hi
    BY <1>1, <2>1, Monotone
  <2>4. j \in x + 1 .. y
    OBVIOUS
  <2> HIDE DEF x, y, lo, hi
  <2> QED BY <1>1, <2>2, <2>3, <2>4
\* A cell of the coarser period is in one of the periods.
<1>4. ASSUME NEW j \in lo + 1 .. hi
      PROVE  \E i \in 1 .. N : j \in ((b + i) - 1) * len + 1 .. (b + i) * len
  <2> DEFINE g == j - 1
  <2> DEFINE c == g \div len
  <2> DEFINE r == g % len
  <2>0. g \in Nat /\ lo <= g /\ g < hi
    <3> HIDE DEF lo, hi
    <3> QED BY <1>1
  <2>1. c \in Nat /\ r \in 0 .. len - 1 /\ g = len * c + r
    <3> HIDE DEF g
    <3> QED BY <2>0, DivMod
  <2>5. j = g + 1
    <3> HIDE DEF lo, hi
    <3> QED BY <1>1
  <2> HIDE DEF c, r, g
  <2>2. c * len \in Nat /\ g = c * len + r /\ (c + 1) * len = c * len + len
    BY <2>1
  <2>3. ~(c < b)
    <3> SUFFICES ASSUME c < b PROVE FALSE
      OBVIOUS
    <3>1. c + 1 \in Nat /\ c + 1 <= b
      BY <1>1, <2>1
    <3>2. (c + 1) * len <= lo
      BY <1>1, <3>1, Monotone
    <3> DEFINE x == c * len
    <3> DEFINE y == (c + 1) * len
    <3>3. x \in Nat /\ y = x + len /\ g = x + r /\ y <= lo
      BY <2>2, <3>2
    <3> HIDE DEF x, y, lo, hi
    <3> QED BY <1>1, <2>0, <2>1, <3>3
  <2>4. ~(c >= b + N)
    <3> SUFFICES ASSUME c >= b + N PROVE FALSE
      OBVIOUS
    <3>1. b + N \in Nat /\ b + N <= c
      BY <1>1, <2>1
    <3>2. hi <= c * len
      BY <2>1, <3>1, Monotone
    <3> DEFINE x == c * len
    <3>3. x \in Nat /\ g = x + r /\ hi <= x
      BY <2>2, <3>2
    <3> HIDE DEF x, lo, hi
    <3> QED BY <1>1, <2>0, <2>1, <3>3
  <2> DEFINE i == (c - b) + 1
  <2>6. i \in 1 .. N /\ (b + i) - 1 = c /\ b + i = c + 1
    <3> HIDE DEF lo, hi
    <3> QED BY <1>1, <2>1, <2>3, <2>4
  <2>7. j \in c * len + 1 .. (c + 1) * len
    <3> DEFINE x == c * len
    <3> DEFINE y == (c + 1) * len
    <3>1. x \in Nat /\ y = x + len /\ g = x + r
      BY <2>2
    <3> HIDE DEF x, y, lo, hi
    <3>2. j \in x + 1 .. y
      BY <2>1, <2>5, <3>1
    <3> QED BY <3>2 DEF x, y
  <2> HIDE DEF i
  <2> QED BY <2>6, <2>7
<1> HIDE DEF lo, hi
<1>5. \A e : (\E j \in lo + 1 .. hi : e \in T[j])
             <=> \E i \in 1 .. N : \E j \in ((b + i) - 1) * len + 1 .. (b + i) * len : e \in T[j]
  <2>1. ASSUME NEW e, NEW j \in lo + 1 .. hi, e \in T[j]
        PROVE  \E i \in 1 .. N : \E h \in ((b + i) - 1) * len + 1 .. (b + i) * len : e \in T[h]
    BY <1>4, <2>1
  <2>2. ASSUME NEW e, NEW i \in 1 .. N, NEW j \in ((b + i) - 1) * len + 1 .. (b + i) * len, e \in T[j]
        PROVE  \E h \in lo + 1 .. hi : e \in T[h]
    BY <1>3, <2>2
  <2> QED BY <2>1, <2>2
<1>6. \A e : e \in UNION {T[j] : j \in lo + 1 .. hi} <=> e \in UNION {Period(T, b + i, len) : i \in 1 .. N}
  <2>1. \A e : e \in UNION {T[j] : j \in lo + 1 .. hi} <=> \E j \in lo + 1 .. hi : e \in T[j]
    OBVIOUS
  <2>2. \A e : e \in UNION {Period(T, b + i, len) : i \in 1 .. N} <=> \E i \in 1 .. N : e \in Period(T, b + i, len)
    OBVIOUS
  <2>3. \A e, i : e \in Period(T, b + i, len) <=> \E j \in ((b + i) - 1) * len + 1 .. (b + i) * len : e \in T[j]
    BY DEF Period
  <2> QED BY <1>5, <2>1, <2>2, <2>3
<1>7. UNION {T[j] : j \in lo + 1 .. hi} = UNION {Period(T, b + i, len) : i \in 1 .. N}
  BY <1>6
<1> QED BY <1>2, <1>7 DEF b

\* A window that has just got its last cell holds a period of the coarser one.
LEMMA AlignedUnion ==
  ASSUME NEW T, NEW N \in Nat \ {0}, NEW w \in Window, NEW len \in Nat \ {0}, NEW q \in Nat,
         Aligned(w, N, T, len, (q + 1) * N)
  PROVE  Union(w) = Period(T, q + 1, len * N)
<1> DEFINE b == q * N
<1>1. b \in Nat /\ (q + 1) * N = b + N
  OBVIOUS
<1> HIDE DEF b
<1>2. Aligned(w, N, T, len, b + N)
  BY <1>1
<1>3. ASSUME NEW i \in 1 .. N PROVE w[i] = Period(T, b + i, len)
  <2>1. ~(b + N < N - i + 1) /\ (b + N) - (N - i) = b + i
    BY <1>1
  <2> QED BY <1>2, <2>1 DEF Aligned
<1>4. DOMAIN w = 1 .. N
  BY <1>2 DEF Aligned, Window
<1>5. Range(w) = {Period(T, b + i, len) : i \in 1 .. N}
  BY <1>3, <1>4 DEF Range
<1>6. Period(T, q + 1, len * N) = UNION {Period(T, b + i, len) : i \in 1 .. N}
  BY PeriodOfPeriods DEF b
<1> QED BY <1>5, <1>6 DEF Union

\* A window that is not due keeps its cells.
LEMMA NotDue ==
  ASSUME NEW m \in Nat, NEW len \in Nat \ {0}, (m + 1) % len # 0, NEW w, NEW size, NEW T,
         Aligned(w, size, T, len, m \div len)
  PROVE  Aligned(w, size, T, len, (m + 1) \div len)
<1>1. (m + 1) \div len = m \div len
  BY NextDiv
<1> QED BY <1>1

LEMMA Due ==
  ASSUME NEW m \in Nat, NEW len \in Nat \ {0}, (m + 1) % len = 0,
         NEW size \in Nat \ {0}, NEW w \in Window, NEW T, Aligned(w, size, T, len, m \div len),
         NEW cell \in SUBSET Nat, cell = Period(T, (m + 1) \div len, len)
  PROVE  Aligned(Rolled(w, cell), size, T, len, (m + 1) \div len)
<1> DEFINE q == m \div len
<1>1. q \in Nat
  BY DivMod
<1>2. (m + 1) \div len = q + 1
  BY NextDiv
<1>3. Aligned(w, size, T, len, q) /\ cell = Period(T, q + 1, len)
  BY <1>2
<1> HIDE DEF q
<1>4. Aligned(Rolled(w, cell), size, T, len, q + 1)
  BY <1>1, <1>3, AlignedRolled
<1> QED BY <1>2, <1>4

\* A window whose cells are M ticks long is due, and a finer one holds its cell.
IsDue(m, M) == (m + 1) % M = 0
HoldsCell(w, m, T, M) == Union(w) = Period(T, (m + 1) \div M, M)

\* When the coarser window is due, the finer one holds its period.
LEMMA DueUnion ==
  ASSUME NEW m \in Nat, NEW len \in Nat \ {0}, NEW N \in Nat \ {0}, IsDue(m, len * N),
         NEW w \in Window, NEW T, Aligned(w, N, T, len, (m + 1) \div len)
  PROVE  HoldsCell(w, m, T, len * N)
<1> DEFINE M == len * N
<1> DEFINE u == m + 1
<1> DEFINE q == m \div M
<1>1. M \in Nat \ {0} /\ u \in Nat
  OBVIOUS
<1>2. q \in Nat /\ u \div M = q + 1 /\ u = M * (q + 1)
  <2> HIDE DEF M
  <2>1. (m + 1) % M = 0
    BY DEF M, IsDue
  <2>2. m \div M \in Nat
    BY <1>1, DivMod
  <2>3. (m + 1) \div M = m \div M + 1 /\ m + 1 = M * (m \div M + 1)
    BY <1>1, <2>1, NextDiv
  <2> QED BY <2>2, <2>3
<1>3. Aligned(w, N, T, len, u \div len)
  OBVIOUS
<1> HIDE DEF q, u
<1> DEFINE c == (q + 1) * N
<1>4. c \in Nat /\ u = len * c + 0 /\ 0 \in 0 .. len - 1
  BY <1>2
<1> HIDE DEF M
<1>5. u \div len = c
  <2> HIDE DEF c
  <2> QED BY <1>1, <1>4, DivModUnique
<1>6. Aligned(w, N, T, len, (q + 1) * N)
  BY <1>3, <1>5
<1>7. Union(w) = Period(T, q + 1, len * N)
  BY <1>2, <1>6, AlignedUnion
<1> QED BY <1>2, <1>7 DEF u, M, HoldsCell

-----------------------------------------------------------------------------
(***************************************************************************)
(* The second window: before the current cell, the last cells of T, which  *)
(* are complete.                                                           *)
(***************************************************************************)
LastSeconds(w, T) ==
  /\ Len(w) = PerMinute + 2
  /\ \A i \in 1 .. PerMinute + 1 :
       w[i] = IF Len(T) < PerMinute + 2 - i THEN {} ELSE T[Len(T) - (PerMinute + 1 - i)]

LEMMA Constants ==
  /\ PerMinute \in Nat \ {0} /\ PerHour \in Nat \ {0} /\ PerDay \in Nat \ {0} /\ Days \in Nat \ {0}
  /\ Hour \in Nat \ {0} /\ Day \in Nat \ {0} /\ PerHour * PerDay \in Nat \ {0}
  /\ Hour = PerMinute * PerHour /\ Day = Hour * PerDay /\ Day = PerMinute * (PerHour * PerDay)
<1>1. PerMinute \in Nat \ {0} /\ PerHour \in Nat \ {0} /\ PerDay \in Nat \ {0} /\ Days \in Nat \ {0}
  BY WindowsAssumption
<1>2. Hour \in Nat \ {0} /\ PerHour * PerDay \in Nat \ {0}
  BY <1>1 DEF Hour
<1>3. Day \in Nat \ {0}
  BY <1>1, <1>2 DEF Day
<1>4. Day = PerMinute * (PerHour * PerDay)
  BY <1>1 DEF Day, Hour
<1> QED BY <1>1, <1>2, <1>3, <1>4 DEF Hour, Day

LEMMA NewSeconds == LastSeconds(Empty(PerMinute + 2), <<>>)
<1>1. PerMinute \in Nat
  BY Constants
<1> QED BY <1>1 DEF LastSeconds, Empty

\* When the current second is over, it is the last of the complete ones.
LEMMA SecondsRolled ==
  ASSUME NEW w \in Window, NEW T \in Window, LastSeconds(w, T)
  PROVE  LastSeconds(Rolled(w, {}), Append(T, Last(w)))
<1> DEFINE S == PerMinute
<1> DEFINE n == Len(T)
<1> DEFINE x == Rolled(w, {})
<1> DEFINE U == Append(T, Last(w))
<1>1. S \in Nat \ {0} /\ n \in Nat
  BY Constants DEF Window
<1>2. /\ Len(w) = S + 2
      /\ \A i \in 1 .. S + 1 : w[i] = IF n < S + 2 - i THEN {} ELSE T[n - (S + 1 - i)]
  BY DEF LastSeconds
<1>3. w \in Seq(SUBSET Nat) /\ w # <<>> /\ Last(w) \in SUBSET Nat /\ Last(w) = w[S + 2]
  <2>1. w # <<>>
    BY <1>1, <1>2 DEF Window
  <2> QED BY <1>2, <2>1, LastType DEF Window
<1>4. Tail(w) \in Seq(SUBSET Nat) /\ Len(Tail(w)) = S + 1 /\ \A i \in 1 .. S + 1 : Tail(w)[i] = w[i + 1]
  <2>1. /\ Tail(w) \in Seq(SUBSET Nat) /\ Len(Tail(w)) = Len(w) - 1
        /\ \A i \in 1 .. Len(Tail(w)) : Tail(w)[i] = w[i + 1]
    BY <1>3, HeadTailProperties
  <2> QED BY <1>1, <1>2, <2>1
<1>5. Len(x) = S + 2 /\ \A i \in 1 .. S + 1 : x[i] = w[i + 1]
  <2> DEFINE t == Tail(w)
  <2>1. x = Append(t, {}) /\ t \in Seq(SUBSET Nat) /\ Len(t) = S + 1 /\ \A i \in 1 .. S + 1 : t[i] = w[i + 1]
    BY <1>4 DEF Rolled
  <2> HIDE DEF x, t
  <2>2. /\ Len(Append(t, {})) = Len(t) + 1
        /\ \A i \in 1 .. Len(t) : Append(t, {})[i] = t[i]
    BY <2>1, AppendProperties
  <2>3. Len(t) + 1 = S + 2
    BY <1>1, <2>1
  <2> QED BY <2>1, <2>2, <2>3
<1>6. Len(U) = n + 1 /\ U[n + 1] = Last(w) /\ \A j \in 1 .. n : U[j] = T[j]
  <2>1. T \in Seq(SUBSET Nat)
    BY DEF Window
  <2> QED BY <1>3, <2>1, AppendProperties
<1> HIDE DEF x, U, n, S
<1>7. ASSUME NEW i \in 1 .. S + 1
      PROVE  x[i] = IF n + 1 < S + 2 - i THEN {} ELSE U[(n + 1) - (S + 1 - i)]
  <2>1. CASE i = S + 1
    <3>1. ~(n + 1 < S + 2 - i) /\ (n + 1) - (S + 1 - i) = n + 1 /\ i + 1 = S + 2
      BY <1>1, <2>1
    <3> QED BY <1>3, <1>5, <1>6, <3>1
  <2>2. CASE i # S + 1
    <3>1. i + 1 \in 1 .. S + 1 /\ (n < S + 2 - (i + 1) <=> n + 1 < S + 2 - i)
          /\ n - (S + 1 - (i + 1)) = (n + 1) - (S + 1 - i)
      BY <1>1, <2>2
    <3>2. x[i] = IF n + 1 < S + 2 - i THEN {} ELSE T[(n + 1) - (S + 1 - i)]
      BY <1>2, <1>5, <3>1
    <3>3. ~(n + 1 < S + 2 - i) => (n + 1) - (S + 1 - i) \in 1 .. n
      BY <1>1, <2>2
    <3> QED BY <1>6, <3>2, <3>3
  <2> QED BY <2>1, <2>2
<1> QED BY <1>5, <1>6, <1>7 DEF LastSeconds, x, U, S, n

\* The seconds between the oldest and the current one are the last minute.
LEMMA LastMinuteUnion ==
  ASSUME NEW w \in Window, NEW T \in Window, LastSeconds(w, T), NEW m \in Nat,
         Len(T) = m + 1, (m + 1) % PerMinute = 0
  PROVE  Union(LastMinute(w)) = Period(T, (m + 1) \div PerMinute, PerMinute)
<1> DEFINE S == PerMinute
<1> DEFINE q == m \div S
<1> DEFINE n == Len(T)
<1> DEFINE x == LastMinute(w)
<1>1. S \in Nat \ {0} /\ n \in Nat /\ n = m + 1
  BY Constants DEF Window
<1>2. q \in Nat /\ n \div S = q + 1 /\ n = S * (q + 1)
  <2>0. S \in Nat \ {0} /\ (m + 1) % S = 0
    BY Constants
  <2> HIDE DEF S
  <2>1. m \div S \in Nat
    BY <2>0, DivMod
  <2>2. (m + 1) \div S = m \div S + 1 /\ m + 1 = S * (m \div S + 1)
    BY <2>0, NextDiv
  <2> QED BY <2>1, <2>2
<1>3. /\ Len(w) = S + 2
      /\ \A i \in 1 .. S + 1 : w[i] = IF n < S + 2 - i THEN {} ELSE T[n - (S + 1 - i)]
  BY DEF LastSeconds
<1> HIDE DEF q, n, S
<1>4. (q + 1) * S = n /\ ((q + 1) - 1) * S = n - S /\ n - S \in Nat
  <2> DEFINE y == q * S
  <2>1. y \in Nat /\ (q + 1) * S = y + S /\ S * (q + 1) = y + S /\ ((q + 1) - 1) * S = y
    BY <1>1, <1>2
  <2> HIDE DEF y
  <2> QED BY <1>1, <1>2, <2>1
<1>5. DOMAIN x = 1 .. S /\ \A i \in 1 .. S : x[i] = w[i + 1]
  <2>1. w \in Seq(SUBSET Nat) /\ \A i \in 2 .. S + 1 : w[i] \in SUBSET Nat
    BY <1>1, <1>3 DEF Window
  <2>2. x = SubSeq(w, 2, S + 1)
    BY <1>1, <1>3 DEF LastMinute
  <2> HIDE DEF x
  <2>3. S + 1 \in Nat /\ 2 <= S + 2
    BY <1>1
  <2>4. /\ SubSeq(w, 2, S + 1) \in Seq(SUBSET Nat)
        /\ Len(SubSeq(w, 2, S + 1)) = S
        /\ \A i \in 1 .. S : SubSeq(w, 2, S + 1)[i] = w[i + 1]
    <3>1. \A i \in 1 .. S : 2 + i - 1 = i + 1
      OBVIOUS
    <3> QED BY <1>1, <2>1, <2>3, <3>1, SubSeqProperties
  <2> QED BY <1>1, <2>2, <2>4
<1>6. ASSUME NEW i \in 1 .. S PROVE x[i] = T[(n - S) + i]
  <2>1. i + 1 \in 1 .. S + 1 /\ ~(n < S + 2 - (i + 1)) /\ n - (S + 1 - (i + 1)) = (n - S) + i
    BY <1>1, <1>4
  <2> QED BY <1>3, <1>5, <2>1
<1> HIDE DEF x
<1>7. Range(x) = {T[j] : j \in (n - S) + 1 .. n}
  <2>1. Range(x) = {x[i] : i \in 1 .. S}
    BY <1>5 DEF Range
  <2>2. \A i \in 1 .. S : (n - S) + i \in (n - S) + 1 .. n
    BY <1>1, <1>4
  <2>3. \A j \in (n - S) + 1 .. n : j - (n - S) \in 1 .. S /\ (n - S) + (j - (n - S)) = j
    BY <1>1, <1>4
  <2> QED BY <1>6, <2>1, <2>2, <2>3
<1>8. Period(T, q + 1, S) = UNION {T[j] : j \in (n - S) + 1 .. n}
  BY <1>4 DEF Period
<1> QED BY <1>1, <1>2, <1>7, <1>8 DEF Union, x, S, n

-----------------------------------------------------------------------------
(***************************************************************************)
(* Where the job of a metric stands, and what its windows hold there.      *)
(***************************************************************************)
Phase(k) == IF job.key = k THEN job.pc ELSE "idle"

\* The complete seconds, without the last one while the job is at one of these steps.
Before(k, pcs) == IF Phase(k) \in pcs THEN Len(sealed[k]) - 1 ELSE Len(sealed[k])

\* How often the job went on after it fired, and is about to.
Gone(k) == Len(sealed[k]) + (IF Phase(k) = "roll" THEN 1 ELSE 0)

InStep(k) ==
  /\ compose[k].cnt = IF Phase(k) = "idle" THEN Len(sealed[k]) % Day
                      ELSE (Before(k, {"minute", "hour", "day"}) % Day) + 1
  /\ Aligned(compose[k].minute, PerHour, sealed[k], PerMinute, Before(k, {"minute"}) \div PerMinute)
  /\ Aligned(compose[k].hour, PerDay, sealed[k], Hour, Before(k, {"minute", "hour"}) \div Hour)
  /\ Aligned(compose[k].day, Days, sealed[k], Day, Before(k, {"minute", "hour", "day"}) \div Day)

\* The windows are in step as long as no job failed for want of a lock.
Rolls(k) ==
  /\ compose[k].kind = "inc" =>
       /\ LastSeconds(compose[k].second, sealed[k])
       /\ Gone(k) <= ticks[k]
       /\ Phase(k) \in {"minute", "hour", "day"} => Len(sealed[k]) > 0
       /\ ticks[k] = Gone(k) => InStep(k)
  /\ ~compose[k].scheduled => ticks[k] = 0

AllRolls == ticks \in [Keys -> Nat] /\ \A k \in Keys : Rolls(k)

LEMMA InitRolls == Init => AllRolls
<1> SUFFICES ASSUME Init PROVE AllRolls
  OBVIOUS
<1>1. compose = [k \in Keys |-> NoCompose] /\ ticks = [k \in Keys |-> 0]
  BY DEF Init
<1>2. \A k \in Keys : compose[k].kind = "none" /\ ticks[k] = 0
  BY <1>1 DEF NoCompose
<1>3. \A k \in Keys : Rolls(k)
  BY <1>2 DEF Rolls
<1> QED BY <1>1, <1>3 DEF AllRolls

\* Nothing that the windows of a metric depend on changed.
LEMMA RollsKept ==
  ASSUME NEW k \in Keys, Rolls(k),
         compose'[k].kind = compose[k].kind, compose'[k].scheduled = compose[k].scheduled,
         compose'[k].cnt = compose[k].cnt, compose'[k].minute = compose[k].minute,
         compose'[k].hour = compose[k].hour, compose'[k].day = compose[k].day,
         LastSeconds(compose[k].second, sealed[k]) => LastSeconds(compose'[k].second, sealed[k]),
         sealed'[k] = sealed[k], ticks'[k] = ticks[k], Phase(k)' = Phase(k)
  PROVE  Rolls(k)'
BY DEF Rolls, InStep, Gone, Before

\* Steps that leave the metrics and the job alone.
LEMMA QuietRolls ==
  ASSUME AllRolls, UNCHANGED <<compose, job, sealed, ticks>>
  PROVE  AllRolls'
<1>1. ASSUME NEW k \in Keys PROVE Rolls(k)'
  <2>1. Rolls(k) /\ Phase(k)' = Phase(k)
    BY DEF AllRolls, Phase
  <2> QED BY <2>1, RollsKept
<1> QED BY <1>1 DEF AllRolls

\* Steps that change the lock of a metric.
LEMMA LockRolls ==
  ASSUME Inv, AllRolls, NEW k \in Keys, NEW lock, compose' = [compose EXCEPT ![k].locked = lock],
         UNCHANGED <<job, sealed, ticks>>
  PROVE  AllRolls'
<1>1. compose \in [Keys -> Compose]
  BY DEF Inv, TypeOK
<1>2. ASSUME NEW l \in Keys
      PROVE  /\ compose'[l].kind = compose[l].kind /\ compose'[l].scheduled = compose[l].scheduled
             /\ compose'[l].cnt = compose[l].cnt /\ compose'[l].minute = compose[l].minute
             /\ compose'[l].hour = compose[l].hour /\ compose'[l].day = compose[l].day
             /\ compose'[l].second = compose[l].second
  <2>1. compose[l] \in Compose
    BY <1>1
  <2>2. CASE l = k
    <3>1. compose'[l] = [compose[l] EXCEPT !.locked = lock]
      BY <1>1, <2>2
    <3> QED BY <2>1, <3>1 DEF Compose
  <2>3. CASE l # k
    <3>1. compose'[l] = compose[l]
      BY <1>1, <2>3
    <3> QED BY <3>1
  <2> QED BY <2>2, <2>3
<1>3. ASSUME NEW l \in Keys PROVE Rolls(l)'
  <2>1. Rolls(l) /\ Phase(l)' = Phase(l) /\ sealed'[l] = sealed[l] /\ ticks'[l] = ticks[l]
    BY DEF AllRolls, Phase
  <2> QED BY <1>2, <2>1, RollsKept
<1> QED BY <1>3 DEF AllRolls

\* A put changes only the current second.
LEMMA WriteRolls ==
  ASSUME Inv, AllRolls, Write
  PROVE  AllRolls'
<1>0. PICK k \in Keys : k = agg.piece.key
  BY InHand DEF Write, Holds
<1> DEFINE w == compose[k].second
<1> DEFINE cell == agg.cell \union {agg.piece.id}
<1> DEFINE x == [w EXCEPT ![Len(w)] = cell]
<1>1. /\ compose' = [compose EXCEPT ![k] = [compose[k] EXCEPT !.second = x, !.locked = "no"]]
      /\ UNCHANGED <<job, sealed, ticks>>
  <2>1. compose \in [Keys -> Compose] /\ compose[k] \in Compose
    BY Fields DEF Inv, TypeOK
  <2>2. compose' = [compose EXCEPT ![k].second[Len(w)] = cell, ![k].locked = "no"]
    BY <1>0 DEF Write
  <2>3. UNCHANGED <<job, sealed, ticks>>
    BY DEF Write
  <2> QED BY <2>1, <2>2, <2>3 DEF Compose
<1>2. /\ compose[k] \in Compose /\ compose \in [Keys -> Compose] /\ w \in Window
  BY Fields DEF Inv, TypeOK
<1>3. LastSeconds(w, sealed[k]) => LastSeconds(x, sealed[k])
  <2> SUFFICES ASSUME LastSeconds(w, sealed[k]) PROVE LastSeconds(x, sealed[k])
    OBVIOUS
  <2>1. Len(w) = PerMinute + 2 /\ PerMinute \in Nat /\ DOMAIN w = 1 .. Len(w)
    BY <1>2, Constants DEF LastSeconds, Window
  <2>2. Len(x) = Len(w)
    BY <1>2 DEF Window
  <2>3. \A i \in 1 .. PerMinute + 1 : x[i] = w[i]
    <3>1. \A i \in 1 .. PerMinute + 1 : i \in 1 .. Len(w) /\ i # Len(w)
      BY <2>1
    <3> HIDE DEF w, cell
    <3> QED BY <2>1, <3>1
  <2> HIDE DEF x, w
  <2> QED BY <2>2, <2>3 DEF LastSeconds
<1>4. ASSUME NEW l \in Keys PROVE Rolls(l)'
  <2>1. Rolls(l) /\ Phase(l)' = Phase(l) /\ sealed'[l] = sealed[l] /\ ticks'[l] = ticks[l]
    BY <1>1 DEF AllRolls, Phase
  <2>2. CASE l = k
    <3> HIDE DEF x
    <3>1. compose'[l] = [compose[l] EXCEPT !.second = x, !.locked = "no"]
      BY <1>1, <1>2, <2>2
    <3>2. /\ compose'[l].kind = compose[l].kind /\ compose'[l].scheduled = compose[l].scheduled
          /\ compose'[l].cnt = compose[l].cnt /\ compose'[l].minute = compose[l].minute
          /\ compose'[l].hour = compose[l].hour /\ compose'[l].day = compose[l].day
          /\ compose'[l].second = x
      BY <1>2, <2>2, <3>1 DEF Compose
    <3> QED BY <1>3, <2>1, <2>2, <3>2, RollsKept
  <2>3. CASE l # k
    <3>1. compose'[l] = compose[l]
      BY <1>1, <1>2, <2>3
    <3> QED BY <2>1, <3>1, RollsKept
  <2> QED BY <2>2, <2>3
<1>5. ticks' \in [Keys -> Nat]
  BY <1>1 DEF AllRolls
<1> QED BY <1>4, <1>5 DEF AllRolls

\* New windows hold nothing yet.
LEMMA NewAligned ==
  ASSUME NEW size \in Nat \ {0}, NEW len \in Nat \ {0}
  PROVE  Aligned(Empty(size), size, <<>>, len, 0 \div len)
<1>1. 0 \div len = 0
  OBVIOUS
<1>2. Len(Empty(size)) = size /\ \A i \in 1 .. size : Empty(size)[i] = {} /\ 0 < size - i + 1
  BY DEF Empty
<1> QED BY <1>1, <1>2 DEF Aligned

LEMMA ScheduleRolls ==
  ASSUME Inv, AllRolls, Schedule
  PROVE  AllRolls'
<1>0. PICK k \in Keys : k = agg.piece.key
  BY InHand DEF Schedule, Holds
<1> DEFINE new == NewCompose(agg.piece.kind)
<1>1. /\ agg.pc = "schedule" /\ compose' = [compose EXCEPT ![k] = new]
      /\ UNCHANGED <<job, sealed, ticks>>
  BY <1>0 DEF Schedule, AggVars
<1>2. ~compose[k].scheduled /\ sealed[k] = <<>>
  BY <1>0, <1>1 DEF Inv, Made, Making
<1>3. Phase(k) = "idle" /\ ticks[k] = 0
  <2>1. job.key = k => job.pc = "idle"
    BY <1>2 DEF Inv, Made
  <2> QED BY <1>2, <2>1 DEF Phase, AllRolls, Rolls
<1>4. compose \in [Keys -> Compose]
  BY DEF Inv, TypeOK
<1>5. ASSUME NEW l \in Keys PROVE Rolls(l)'
  <2>1. Rolls(l) /\ Phase(l)' = Phase(l) /\ sealed'[l] = sealed[l] /\ ticks'[l] = ticks[l]
    BY <1>1 DEF AllRolls, Phase
  <2>2. CASE l # k
    <3>1. compose'[l] = compose[l]
      BY <1>1, <1>4, <2>2
    <3> QED BY <2>1, <3>1, RollsKept
  <2>3. CASE l = k /\ agg.piece.kind = "inc"
    <3>1. compose'[k] = new
      BY <1>1, <1>4
    <3>2. /\ new.scheduled /\ new.cnt = 0 /\ new.second = Empty(PerMinute + 2)
          /\ new.minute = Empty(PerHour) /\ new.hour = Empty(PerDay) /\ new.day = Empty(Days)
      BY <2>3 DEF NewCompose
    <3> HIDE DEF new
    <3>3. Phase(k)' = "idle" /\ sealed'[k] = <<>> /\ ticks'[k] = 0 /\ Len(sealed'[k]) = 0
      BY <1>2, <1>3, <2>1, <2>3
    <3>4. Gone(k)' = 0 /\ \A pcs \in SUBSET {"minute", "hour", "day"} : Before(k, pcs)' = 0
      BY <3>3 DEF Gone, Before
    <3>5. 0 % Day = 0
      BY Constants
    <3>6. /\ Aligned(new.minute, PerHour, <<>>, PerMinute, 0 \div PerMinute)
          /\ Aligned(new.hour, PerDay, <<>>, Hour, 0 \div Hour)
          /\ Aligned(new.day, Days, <<>>, Day, 0 \div Day)
      BY <3>2, NewAligned, Constants
    <3>7. InStep(k)'
      <4>1. Before(k, {"minute"})' = 0 /\ Before(k, {"minute", "hour"})' = 0 /\ Before(k, {"minute", "hour", "day"})' = 0
        BY <3>4
      <4> QED BY <3>1, <3>2, <3>3, <3>5, <3>6, <4>1 DEF InStep
    <3>8. LastSeconds(new.second, <<>>)
      BY <3>2, NewSeconds
    <3> QED BY <2>3, <3>1, <3>2, <3>3, <3>4, <3>7, <3>8 DEF Rolls
  <2>4. CASE l = k /\ agg.piece.kind # "inc"
    <3>1. compose'[k].kind # "inc" /\ compose'[k].scheduled
      BY <1>1, <1>4, <2>4 DEF NewCompose
    <3> QED BY <2>4, <3>1 DEF Rolls
  <2> QED BY <2>2, <2>3, <2>4
<1>6. ticks' \in [Keys -> Nat]
  BY <1>1 DEF AllRolls
<1> QED BY <1>5, <1>6 DEF AllRolls

-----------------------------------------------------------------------------
(***************************************************************************)
(* The steps of a job.                                                     *)
(***************************************************************************)
LEMMA FireRolls ==
  ASSUME Inv, AllRolls, Fire
  PROVE  AllRolls'
<1>1. PICK k \in Keys :
        /\ compose[k].scheduled /\ job' = [pc |-> "roll", key |-> k]
        /\ compose' = [compose EXCEPT ![k].cnt = @ + 1]
        /\ ticks' = [ticks EXCEPT ![k] = @ + 1]
  BY DEF Fire
<1>2. job.pc = "idle" /\ UNCHANGED sealed
  BY DEF Fire, At, JobVars
<1>3. /\ compose \in [Keys -> Compose] /\ ticks \in [Keys -> Nat]
      /\ compose[k] \in Compose /\ sealed[k] \in Window /\ compose[k].cnt \in Nat
  BY Fields DEF Inv, TypeOK, AllRolls
<1>4. compose'[k] = [compose[k] EXCEPT !.cnt = @ + 1] /\ ticks'[k] = ticks[k] + 1
  BY <1>1, <1>3
<1>5. ASSUME NEW l \in Keys, l # k PROVE Rolls(l)'
  <2>1. compose'[l] = compose[l] /\ ticks'[l] = ticks[l] /\ sealed'[l] = sealed[l]
    BY <1>1, <1>2, <1>3, <1>5
  <2>2. Phase(l) = "idle" /\ Phase(l)' = "idle"
    BY <1>1, <1>2, <1>5 DEF Phase
  <2>3. Rolls(l)
    BY DEF AllRolls
  <2> QED BY <2>1, <2>2, <2>3, RollsKept
<1>6. Rolls(k)'
  <2> DEFINE n == Len(sealed[k])
  <2>1. Rolls(k) /\ Phase(k) = "idle" /\ Phase(k)' = "roll" /\ sealed'[k] = sealed[k]
    BY <1>1, <1>2 DEF AllRolls, Phase
  <2>2. n \in Nat
    BY <1>3 DEF Window
  <2>3. /\ Gone(k) = n /\ Gone(k)' = n + 1
        /\ \A pcs \in SUBSET {"minute", "hour", "day"} : Before(k, pcs) = n /\ Before(k, pcs)' = n
    BY <2>1, <2>2 DEF Gone, Before
  <2>4. /\ Before(k, {"minute"})' = Before(k, {"minute"})
        /\ Before(k, {"minute", "hour"})' = Before(k, {"minute", "hour"})
        /\ Before(k, {"minute", "hour", "day"})' = n
        /\ Before(k, {"minute", "hour", "day"}) = n
    BY <2>3
  <2>5. /\ compose'[k].kind = compose[k].kind /\ compose'[k].scheduled
        /\ compose'[k].cnt = compose[k].cnt + 1 /\ compose'[k].minute = compose[k].minute
        /\ compose'[k].hour = compose[k].hour /\ compose'[k].day = compose[k].day
        /\ compose'[k].second = compose[k].second
    BY <1>1, <1>3, <1>4 DEF Compose
  <2>6. InStep(k) => InStep(k)'
    <3> SUFFICES ASSUME InStep(k) PROVE InStep(k)'
      OBVIOUS
    <3>1. compose[k].cnt = n % Day
      BY <2>1 DEF InStep
    <3>2. compose'[k].cnt = (Before(k, {"minute", "hour", "day"})' % Day) + 1
      BY <2>4, <2>5, <3>1
    <3>3. Phase(k)' # "idle"
      BY <2>1
    <3> QED BY <2>1, <2>4, <2>5, <3>2, <3>3 DEF InStep
  <2>7. ticks[k] \in Nat /\ (compose[k].kind = "inc" => Gone(k) <= ticks[k])
    BY <1>3, <2>1 DEF Rolls
  <2>8. /\ compose[k].kind = "inc" => Gone(k)' <= ticks'[k]
        /\ ticks'[k] = Gone(k)' => ticks[k] = Gone(k)
    BY <1>4, <2>2, <2>3, <2>7
  <2> QED BY <2>1, <2>5, <2>6, <2>8 DEF Rolls
<1>7. ticks' \in [Keys -> Nat]
  BY <1>1, <1>3
<1> QED BY <1>5, <1>6, <1>7 DEF AllRolls

\* Only the metric whose job it is may change.
LEMMA JobRolls ==
  ASSUME Inv, AllRolls, job.pc # "idle", NEW pc \in {"idle", "minute", "hour", "day"}, Step(pc),
         NEW k \in Keys, k = job.key, UNCHANGED ticks,
         \A l \in Keys : l # k => compose'[l] = compose[l] /\ sealed'[l] = sealed[l],
         Phase(k) = job.pc /\ Phase(k)' = pc => Rolls(k)'
  PROVE  AllRolls'
<1>1. job \in [pc : {"idle", "roll", "minute", "hour", "day"}, key : Keys \cup {"none"}]
  BY DEF Inv, TypeOK
<1>2. job'.pc = pc /\ (pc # "idle" => job'.key = k)
  <2>1. CASE pc = "idle"
    BY <2>1 DEF Step
  <2>2. CASE pc # "idle"
    <3>1. job' = [job EXCEPT !.pc = pc]
      BY <2>2 DEF Step
    <3> QED BY <1>1, <3>1
  <2> QED BY <2>1, <2>2
<1>3. Phase(k) = job.pc /\ Phase(k)' = pc
  BY <1>2 DEF Phase
<1>4. ASSUME NEW l \in Keys, l # k PROVE Rolls(l)'
  <2>1. Phase(l) = "idle" /\ Phase(l)' = "idle"
    BY <1>2, <1>4 DEF Phase
  <2>2. Rolls(l) /\ compose'[l] = compose[l] /\ sealed'[l] = sealed[l] /\ ticks'[l] = ticks[l]
    BY <1>4 DEF AllRolls
  <2> QED BY <2>1, <2>2, RollsKept
<1>5. Rolls(k)'
  BY <1>3
<1>6. ticks' \in [Keys -> Nat]
  BY DEF AllRolls
<1> QED BY <1>4, <1>5, <1>6 DEF AllRolls

\* From then on the windows of the metric are out of step.
LEMMA NoLockRolls ==
  ASSUME Inv, AllRolls, NoLock
  PROVE  AllRolls'
<1>1. /\ job.pc = "roll" /\ Step("idle") /\ UNCHANGED <<compose, ticks, sealed>>
  BY DEF NoLock, At, JobVars
<1>2. PICK k \in Keys : k = job.key /\ compose[k].scheduled
  BY <1>1, StepType
<1>3. ASSUME Phase(k) = job.pc, Phase(k)' = "idle" PROVE Rolls(k)'
  <2> DEFINE n == Len(sealed[k])
  <2>1. Rolls(k) /\ sealed'[k] = sealed[k] /\ compose'[k] = compose[k] /\ ticks'[k] = ticks[k] /\ ticks[k] \in Nat
    BY <1>1 DEF AllRolls
  <2>2. n \in Nat
    BY Fields DEF Inv, Window
  <2>3. Gone(k) = n + 1 /\ Gone(k)' = n
    BY <1>1, <1>3, <2>1, <2>2 DEF Gone
  <2>4. compose[k].kind = "inc" => Gone(k)' < ticks'[k]
    BY <2>1, <2>2, <2>3 DEF Rolls
  <2>5. compose[k].kind = "inc" => Gone(k)' <= ticks'[k] /\ ticks'[k] # Gone(k)'
    BY <2>1, <2>2, <2>3, <2>4
  <2> QED BY <1>2, <1>3, <2>1, <2>5 DEF Rolls
<1> QED BY <1>1, <1>2, <1>3, JobRolls

LEMMA RollSecondRolls ==
  ASSUME Inv, AllRolls, RollSecond
  PROVE  AllRolls'
<1>1. /\ job.pc = "roll" /\ UNCHANGED ticks
  BY DEF RollSecond, At, JobVars
<1>2. PICK k \in Keys : k = job.key /\ compose[k].scheduled
  BY <1>1 DEF Inv, Made
<1> DEFINE w == compose[k].second
<1> DEFINE T == sealed[k]
<1> DEFINE U == Append(T, Last(w))
<1> DEFINE n == Len(T)
<1>3. /\ compose' = [compose EXCEPT ![k].second = Rolled(@, {})]
      /\ sealed' = [sealed EXCEPT ![k] = Append(@, Last(w))]
      /\ Step(IF compose[k].kind = "cdf" THEN "idle" ELSE "minute")
  BY <1>2 DEF RollSecond
<1>4. /\ compose \in [Keys -> Compose] /\ sealed \in [Keys -> Window]
      /\ compose[k] \in Compose /\ T \in Window /\ w \in Window /\ w # <<>>
  BY <1>2, Fields DEF Inv, TypeOK, Made
<1>5. /\ compose'[k] = [compose[k] EXCEPT !.second = Rolled(w, {})] /\ sealed'[k] = U
      /\ \A l \in Keys : l # k => compose'[l] = compose[l] /\ sealed'[l] = sealed[l]
  BY <1>3, <1>4
<1>6. /\ compose'[k].kind = compose[k].kind /\ compose'[k].scheduled
      /\ compose'[k].cnt = compose[k].cnt /\ compose'[k].minute = compose[k].minute
      /\ compose'[k].hour = compose[k].hour /\ compose'[k].day = compose[k].day
      /\ compose'[k].second = Rolled(w, {})
  BY <1>2, <1>4, <1>5 DEF Compose
<1>7. n \in Nat /\ Len(U) = n + 1 /\ Agree(T, U, n)
  <2>1. T \in Seq(SUBSET Nat) /\ Last(w) \in SUBSET Nat
    BY <1>4, LastType DEF Window
  <2>2. Len(U) = n + 1 /\ \A j \in 1 .. n : U[j] = T[j]
    BY <2>1, AppendProperties
  <2>3. n \in Nat
    BY <2>1
  <2> QED BY <2>2, <2>3 DEF Agree
<1>8. CASE compose[k].kind = "inc"
  <2>1. ASSUME Phase(k) = "roll", Phase(k)' = "minute" PROVE Rolls(k)'
    <3> HIDE DEF U
    <3>1. Rolls(k) /\ ticks'[k] = ticks[k] /\ ticks[k] \in Nat
      BY <1>1 DEF AllRolls
    <3>2. /\ Gone(k) = n + 1 /\ Gone(k)' = n + 1
          /\ Before(k, {"minute"}) = n /\ Before(k, {"minute", "hour"}) = n
          /\ Before(k, {"minute", "hour", "day"}) = n
          /\ Before(k, {"minute"})' = n /\ Before(k, {"minute", "hour"})' = n
          /\ Before(k, {"minute", "hour", "day"})' = n
      <4>1. Len(sealed'[k]) = n + 1 /\ (n + 1) - 1 = n /\ (n + 1) + 0 = n + 1
        BY <1>5, <1>7
      <4> QED BY <1>7, <2>1, <4>1 DEF Gone, Before
    <3>3. LastSeconds(w, T) /\ n + 1 <= ticks[k] /\ (ticks[k] = n + 1 => InStep(k))
      BY <1>8, <3>1, <3>2 DEF Rolls
    <3>4. LastSeconds(Rolled(w, {}), U)
      BY <1>4, <3>3, SecondsRolled DEF U
    <3>5. ASSUME NEW x, NEW size \in Nat \ {0}, NEW len \in Nat \ {0}, Aligned(x, size, T, len, n \div len)
          PROVE  Aligned(x, size, U, len, n \div len)
      <4> DEFINE q == n \div len
      <4>1. q \in Nat /\ q * len <= n
        <5> HIDE DEF n
        <5> QED BY <1>7, Complete
      <4> HIDE DEF q
      <4>3. Aligned(x, size, T, len, q)
        BY <3>5 DEF q
      <4> HIDE DEF n, T
      <4>4. Aligned(x, size, U, len, q)
        BY <1>7, <4>1, <4>3, AlignedKept
      <4> QED BY <4>4 DEF q
    <3>6. InStep(k) => InStep(k)'
      <4> SUFFICES ASSUME InStep(k) PROVE InStep(k)'
        OBVIOUS
      <4>1. /\ compose[k].cnt = (n % Day) + 1
            /\ Aligned(compose[k].minute, PerHour, T, PerMinute, n \div PerMinute)
            /\ Aligned(compose[k].hour, PerDay, T, Hour, n \div Hour)
            /\ Aligned(compose[k].day, Days, T, Day, n \div Day)
        BY <2>1, <3>2 DEF InStep
      <4>2. /\ Aligned(compose[k].minute, PerHour, U, PerMinute, n \div PerMinute)
            /\ Aligned(compose[k].hour, PerDay, U, Hour, n \div Hour)
            /\ Aligned(compose[k].day, Days, U, Day, n \div Day)
        BY <3>5, <4>1, Constants
      <4> HIDE DEF n
      <4> QED BY <1>5, <1>6, <2>1, <3>2, <4>1, <4>2 DEF InStep
    <3>7. Len(sealed'[k]) > 0
      BY <1>5, <1>7
    <3> HIDE DEF n, T, w
    <3> QED BY <1>5, <1>6, <2>1, <3>1, <3>2, <3>3, <3>4, <3>6, <3>7 DEF Rolls
  <2>2. Step("minute")
    BY <1>3, <1>8
  <2> QED BY <1>1, <1>2, <1>5, <2>1, <2>2, JobRolls
<1>9. CASE compose[k].kind # "inc"
  <2>1. Rolls(k)'
    BY <1>6, <1>9 DEF Rolls
  <2>2. Step("minute") \/ Step("idle")
    BY <1>3
  <2> QED BY <1>1, <1>2, <1>5, <2>1, <2>2, JobRolls
<1> QED BY <1>8, <1>9

\* What a job does with a coarse window at the tick m + 1.
LEMMA CoarseAligned ==
  ASSUME NEW m \in Nat, NEW len \in Nat \ {0}, NEW size \in Nat \ {0}, NEW w \in Window, NEW T,
         Aligned(w, size, T, len, m \div len), NEW cell \in SUBSET Nat,
         (m + 1) % len = 0 => cell = Period(T, (m + 1) \div len, len)
  PROVE  Aligned(IF (m + 1) % len = 0 THEN Rolled(w, cell) ELSE w, size, T, len, (m + 1) \div len)
<1>1. CASE (m + 1) % len = 0
  <2>1. Aligned(Rolled(w, cell), size, T, len, (m + 1) \div len)
    BY <1>1, Due
  <2> QED BY <1>1, <2>1
<1>2. CASE (m + 1) % len # 0
  <2>1. Aligned(w, size, T, len, (m + 1) \div len)
    BY <1>2, NotDue
  <2> QED BY <1>2, <2>1
<1> QED BY <1>1, <1>2

\* When the hour is due, the minutes hold it; when the day is due, the hours do.
LEMMA HourOfMinutes ==
  ASSUME NEW m \in Nat, NEW w \in Window, NEW T, IsDue(m, Hour),
         Aligned(w, PerHour, T, PerMinute, (m + 1) \div PerMinute)
  PROVE  HoldsCell(w, m, T, Hour)
<1>1. PerMinute \in Nat \ {0} /\ PerHour \in Nat \ {0}
  BY Constants
<1>2. IsDue(m, PerMinute * PerHour)
  BY DEF Hour
<1>3. HoldsCell(w, m, T, PerMinute * PerHour)
  BY <1>1, <1>2, DueUnion
<1> QED BY <1>3 DEF Hour

LEMMA DayOfHours ==
  ASSUME NEW m \in Nat, NEW w \in Window, NEW T, IsDue(m, Day),
         Aligned(w, PerDay, T, Hour, (m + 1) \div Hour)
  PROVE  HoldsCell(w, m, T, Day)
<1>1. Hour \in Nat \ {0} /\ PerDay \in Nat \ {0}
  BY Constants
<1>2. IsDue(m, Hour * PerDay)
  BY DEF Day
<1>3. HoldsCell(w, m, T, Hour * PerDay)
  BY <1>1, <1>2, DueUnion
<1> QED BY <1>3 DEF Day

\* The count of a job that is at the tick m + 1 tells what is due.
LEMMA CountMod ==
  ASSUME NEW m \in Nat, NEW cnt, cnt = (m % Day) + 1
  PROVE  /\ cnt \in Nat /\ cnt % PerMinute = (m + 1) % PerMinute /\ cnt % Hour = (m + 1) % Hour
         /\ cnt = Day => (m + 1) % Day = 0
         /\ cnt # Day => (m + 1) % Day = cnt
<1>1. /\ PerMinute \in Nat \ {0} /\ PerHour * PerDay \in Nat \ {0} /\ Hour \in Nat \ {0}
      /\ PerDay \in Nat \ {0} /\ Day \in Nat \ {0}
  BY Constants
<1>2. Day = PerMinute * (PerHour * PerDay) /\ Day = Hour * PerDay
  BY Constants
<1> DEFINE c == PerHour * PerDay
<1>3. c \in Nat \ {0} /\ Day = PerMinute * c
  BY <1>1, <1>2
<1> HIDE DEF c
<1>4. cnt % PerMinute = (m + 1) % PerMinute
  <2>1. ((m % (PerMinute * c)) + 1) % PerMinute = (m + 1) % PerMinute
    BY <1>1, <1>3, ModMultiple
  <2> QED BY <1>3, <2>1
<1>5. cnt % Hour = (m + 1) % Hour
  <2>1. ((m % (Hour * PerDay)) + 1) % Hour = (m + 1) % Hour
    BY <1>1, ModMultiple
  <2> QED BY <1>2, <2>1
<1>6. m % Day \in 0 .. Day - 1 /\ (m + 1) % Day \in 0 .. Day - 1
  <2>1. m + 1 \in Nat
    OBVIOUS
  <2> QED BY <1>1, <2>1, DivMod
<1>7. /\ (m + 1) % Day # 0 => (m + 1) % Day = (m % Day) + 1
      /\ (m + 1) % Day = 0 => m % Day = Day - 1
  BY <1>1, NextDiv
<1> DEFINE x == (m + 1) % Day
<1> DEFINE y == m % Day
<1>8. x \in 0 .. Day - 1 /\ y \in 0 .. Day - 1 /\ cnt = y + 1 /\ (x # 0 => x = y + 1) /\ (x = 0 => y = Day - 1)
  BY <1>6, <1>7
<1> HIDE DEF x, y
<1>9. cnt \in Nat /\ (cnt = Day => x = 0) /\ (cnt # Day => x = cnt)
  BY <1>1, <1>8
<1> QED BY <1>4, <1>5, <1>9 DEF x

LEMMA RollMinuteRolls ==
  ASSUME Inv, AllRolls, RollMinute
  PROVE  AllRolls'
<1>1. /\ job.pc = "minute" /\ Step("hour") /\ UNCHANGED <<ticks, sealed>>
  BY DEF RollMinute, At, JobVars
<1>2. PICK k \in Keys : k = job.key /\ compose[k].scheduled
  BY <1>1, StepType
<1> DEFINE c == compose[k]
<1> DEFINE T == sealed[k]
<1> DEFINE cell == Union(LastMinute(c.second))
<1> DEFINE w == IF c.cnt % PerMinute # 0 THEN c.minute ELSE Rolled(c.minute, cell)
<1>3. /\ compose \in [Keys -> Compose] /\ c \in Compose /\ T \in Window
      /\ c.second \in Window /\ c.minute \in Window
  BY Fields DEF Inv, TypeOK
<1>4. compose' = [compose EXCEPT ![k].minute = w]
  <2>1. compose' = IF c.cnt % PerMinute # 0 THEN compose
                   ELSE [compose EXCEPT ![k].minute = Rolled(c.minute, cell)]
    BY <1>2 DEF RollMinute
  <2>2. compose = [compose EXCEPT ![k].minute = c.minute]
    BY <1>3 DEF Compose
  <2> QED BY <2>1, <2>2
<1> HIDE DEF w, cell
<1>5. /\ compose'[k].kind = c.kind /\ compose'[k].scheduled = c.scheduled
      /\ compose'[k].cnt = c.cnt /\ compose'[k].minute = w
      /\ compose'[k].hour = c.hour /\ compose'[k].day = c.day
      /\ compose'[k].second = c.second
      /\ \A l \in Keys : l # k => compose'[l] = compose[l]
  <2>1. compose'[k] = [c EXCEPT !.minute = w] /\ \A l \in Keys : l # k => compose'[l] = compose[l]
    BY <1>3, <1>4
  <2> QED BY <1>3, <2>1 DEF Compose
<1>6. cell \in SUBSET Nat
  <2>1. ASSUME NEW s \in Seq(SUBSET Nat) PROVE SubSeq(s, 2, Len(s) - 1) \in Seq(SUBSET Nat)
    <3>1. Len(s) \in Nat /\ \A i \in 2 .. Len(s) - 1 : s[i] \in SUBSET Nat
      OBVIOUS
    <3> QED BY <3>1, SubSeqProperties
  <2>2. LastMinute(c.second) \in Window
    BY <1>3, <2>1 DEF LastMinute, Window
  <2> QED BY <2>2, UnionType DEF cell
<1>7. ASSUME Phase(k) = "minute", Phase(k)' = "hour" PROVE Rolls(k)'
  <2>1. Rolls(k) /\ ticks'[k] = ticks[k] /\ sealed'[k] = T
    BY <1>1 DEF AllRolls
  <2>2. CASE c.kind # "inc"
    BY <1>2, <1>5, <2>2 DEF Rolls
  <2>3. CASE c.kind = "inc"
    <3>1. /\ LastSeconds(c.second, T) /\ Gone(k) <= ticks[k]
          /\ Len(T) > 0 /\ (ticks[k] = Gone(k) => InStep(k))
      BY <1>7, <2>1, <2>3 DEF Rolls
    <3> DEFINE m == Len(T) - 1
    <3>2. m \in Nat /\ Len(T) = m + 1
      BY <1>3, <3>1 DEF Window
    <3>3. /\ Gone(k)' = Gone(k)
          /\ Before(k, {"minute"}) = m /\ Before(k, {"minute", "hour"}) = m
          /\ Before(k, {"minute", "hour", "day"}) = m
          /\ Before(k, {"minute"})' = m + 1 /\ Before(k, {"minute", "hour"})' = m
          /\ Before(k, {"minute", "hour", "day"})' = m
      BY <1>7, <2>1, <3>2 DEF Gone, Before
    <3> HIDE DEF m, T, c
    <3>4. InStep(k) => InStep(k)'
      <4> SUFFICES ASSUME InStep(k) PROVE InStep(k)'
        OBVIOUS
      <4>1. /\ c.cnt = (m % Day) + 1
            /\ Aligned(c.minute, PerHour, T, PerMinute, m \div PerMinute)
            /\ Aligned(c.hour, PerDay, T, Hour, m \div Hour)
            /\ Aligned(c.day, Days, T, Day, m \div Day)
        BY <1>7, <3>3 DEF InStep, c, T
      <4>2. c.cnt % PerMinute = (m + 1) % PerMinute
        BY <3>2, <4>1, CountMod
      <4>3. (m + 1) % PerMinute = 0 => cell = Period(T, (m + 1) \div PerMinute, PerMinute)
        BY <1>3, <3>1, <3>2, LastMinuteUnion DEF cell
      <4>4. Aligned(IF (m + 1) % PerMinute = 0 THEN Rolled(c.minute, cell) ELSE c.minute,
                    PerHour, T, PerMinute, (m + 1) \div PerMinute)
        BY <1>3, <1>6, <3>2, <4>1, <4>3, CoarseAligned, Constants
      <4>5. w = IF (m + 1) % PerMinute = 0 THEN Rolled(c.minute, cell) ELSE c.minute
        BY <4>2 DEF w
      <4>6. Aligned(w, PerHour, T, PerMinute, (m + 1) \div PerMinute)
        BY <4>4, <4>5
      <4> QED BY <1>5, <1>7, <2>1, <3>3, <4>1, <4>6 DEF InStep
    <3> QED BY <1>2, <1>5, <1>7, <2>1, <2>3, <3>1, <3>2, <3>3, <3>4 DEF Rolls, c
  <2> QED BY <2>2, <2>3
<1> QED BY <1>1, <1>2, <1>5, <1>7, JobRolls

LEMMA RollHourRolls ==
  ASSUME Inv, AllRolls, RollHour
  PROVE  AllRolls'
<1>1. /\ job.pc = "hour" /\ Step("day") /\ UNCHANGED <<ticks, sealed>>
  BY DEF RollHour, At, JobVars
<1>2. PICK k \in Keys : k = job.key /\ compose[k].scheduled
  BY <1>1, StepType
<1> DEFINE c == compose[k]
<1> DEFINE T == sealed[k]
<1> DEFINE cell == Union(c.minute)
<1> DEFINE w == IF c.cnt % Hour # 0 THEN c.hour ELSE Rolled(c.hour, cell)
<1>3. /\ compose \in [Keys -> Compose] /\ c \in Compose /\ T \in Window
      /\ c.minute \in Window /\ c.hour \in Window
  BY Fields DEF Inv, TypeOK
<1>4. compose' = [compose EXCEPT ![k].hour = w]
  <2>1. compose' = IF c.cnt % Hour # 0 THEN compose
                   ELSE [compose EXCEPT ![k].hour = Rolled(c.hour, cell)]
    BY <1>2 DEF RollHour
  <2>2. compose = [compose EXCEPT ![k].hour = c.hour]
    BY <1>3 DEF Compose
  <2> QED BY <2>1, <2>2
<1> HIDE DEF w, cell
<1>5. /\ compose'[k].kind = c.kind /\ compose'[k].scheduled = c.scheduled
      /\ compose'[k].cnt = c.cnt /\ compose'[k].minute = c.minute
      /\ compose'[k].hour = w /\ compose'[k].day = c.day
      /\ compose'[k].second = c.second
      /\ \A l \in Keys : l # k => compose'[l] = compose[l]
  <2>1. compose'[k] = [c EXCEPT !.hour = w] /\ \A l \in Keys : l # k => compose'[l] = compose[l]
    BY <1>3, <1>4
  <2> QED BY <1>3, <2>1 DEF Compose
<1>6. cell \in SUBSET Nat
  BY <1>3, UnionType DEF cell
<1>7. ASSUME Phase(k) = "hour", Phase(k)' = "day" PROVE Rolls(k)'
  <2>1. Rolls(k) /\ ticks'[k] = ticks[k] /\ sealed'[k] = T
    BY <1>1 DEF AllRolls
  <2>2. CASE c.kind # "inc"
    BY <1>2, <1>5, <2>2 DEF Rolls
  <2>3. CASE c.kind = "inc"
    <3>1. /\ LastSeconds(c.second, T) /\ Gone(k) <= ticks[k]
          /\ Len(T) > 0 /\ (ticks[k] = Gone(k) => InStep(k))
      BY <1>7, <2>1, <2>3 DEF Rolls
    <3> DEFINE m == Len(T) - 1
    <3>2. m \in Nat /\ Len(T) = m + 1
      BY <1>3, <3>1 DEF Window
    <3>3. /\ Gone(k)' = Gone(k)
          /\ Before(k, {"minute"}) = m + 1 /\ Before(k, {"minute", "hour"}) = m
          /\ Before(k, {"minute", "hour", "day"}) = m
          /\ Before(k, {"minute"})' = m + 1 /\ Before(k, {"minute", "hour"})' = m + 1
          /\ Before(k, {"minute", "hour", "day"})' = m
      BY <1>7, <2>1, <3>2 DEF Gone, Before
    <3> HIDE DEF m, T, c
    <3>4. InStep(k) => InStep(k)'
      <4> SUFFICES ASSUME InStep(k) PROVE InStep(k)'
        OBVIOUS
      <4>1. /\ c.cnt = (m % Day) + 1
            /\ Aligned(c.minute, PerHour, T, PerMinute, (m + 1) \div PerMinute)
            /\ Aligned(c.hour, PerDay, T, Hour, m \div Hour)
            /\ Aligned(c.day, Days, T, Day, m \div Day)
        BY <1>7, <3>3 DEF InStep, c, T
      <4>2. c.cnt % Hour = (m + 1) % Hour
        BY <3>2, <4>1, CountMod
      <4>3. (m + 1) % Hour = 0 => cell = Period(T, (m + 1) \div Hour, Hour)
        <5>1. Aligned(c.minute, PerHour, T, PerMinute, (m + 1) \div PerMinute)
          BY <4>1
        <5>2. (m + 1) % Hour = 0 => Union(c.minute) = Period(T, (m + 1) \div Hour, Hour)
          BY <1>3, <3>2, <5>1, HourOfMinutes DEF IsDue, HoldsCell
        <5> QED BY <5>2 DEF cell, c
      <4>4. Aligned(IF (m + 1) % Hour = 0 THEN Rolled(c.hour, cell) ELSE c.hour,
                    PerDay, T, Hour, (m + 1) \div Hour)
        BY <1>3, <1>6, <3>2, <4>1, <4>3, CoarseAligned, Constants
      <4>5. w = IF (m + 1) % Hour = 0 THEN Rolled(c.hour, cell) ELSE c.hour
        BY <4>2 DEF w
      <4>6. Aligned(w, PerDay, T, Hour, (m + 1) \div Hour)
        BY <4>4, <4>5
      <4> QED BY <1>5, <1>7, <2>1, <3>3, <4>1, <4>6 DEF InStep
    <3> QED BY <1>2, <1>5, <1>7, <2>1, <2>3, <3>1, <3>2, <3>3, <3>4 DEF Rolls, c
  <2> QED BY <2>2, <2>3
<1> QED BY <1>1, <1>2, <1>5, <1>7, JobRolls

LEMMA RollDayRolls ==
  ASSUME Inv, AllRolls, RollDay
  PROVE  AllRolls'
<1>1. /\ job.pc = "day" /\ Step("idle") /\ UNCHANGED <<ticks, sealed>>
  BY DEF RollDay, At, JobVars
<1>2. PICK k \in Keys : k = job.key /\ compose[k].scheduled
  BY <1>1, StepType
<1> DEFINE c == compose[k]
<1> DEFINE T == sealed[k]
<1> DEFINE cell == Union(c.hour)
<1> DEFINE w == IF c.cnt # Day THEN c.day ELSE Rolled(c.day, cell)
<1> DEFINE cnt == IF c.cnt # Day THEN c.cnt ELSE 0
<1>3. /\ compose \in [Keys -> Compose] /\ c \in Compose /\ T \in Window
      /\ c.hour \in Window /\ c.day \in Window
  BY Fields DEF Inv, TypeOK
<1>4. compose' = [compose EXCEPT ![k] = [c EXCEPT !.day = w, !.cnt = cnt]]
  <2>1. compose' = IF c.cnt # Day THEN compose
                   ELSE [compose EXCEPT ![k].day = Rolled(c.day, cell), ![k].cnt = 0]
    BY <1>2 DEF RollDay
  <2>2. compose = [compose EXCEPT ![k] = [c EXCEPT !.day = c.day, !.cnt = c.cnt]]
    BY <1>3 DEF Compose
  <2>3. [compose EXCEPT ![k].day = Rolled(c.day, cell), ![k].cnt = 0]
        = [compose EXCEPT ![k] = [c EXCEPT !.day = Rolled(c.day, cell), !.cnt = 0]]
    BY <1>3 DEF Compose
  <2> QED BY <2>1, <2>2, <2>3
<1> HIDE DEF w, cell, cnt
<1>5. /\ compose'[k].kind = c.kind /\ compose'[k].scheduled = c.scheduled
      /\ compose'[k].cnt = cnt /\ compose'[k].minute = c.minute
      /\ compose'[k].hour = c.hour /\ compose'[k].day = w
      /\ compose'[k].second = c.second
      /\ \A l \in Keys : l # k => compose'[l] = compose[l]
  <2>1. compose'[k] = [c EXCEPT !.day = w, !.cnt = cnt] /\ \A l \in Keys : l # k => compose'[l] = compose[l]
    BY <1>3, <1>4
  <2> QED BY <1>3, <2>1 DEF Compose
<1>6. cell \in SUBSET Nat
  BY <1>3, UnionType DEF cell
<1>7. ASSUME Phase(k) = "day", Phase(k)' = "idle" PROVE Rolls(k)'
  <2>1. Rolls(k) /\ ticks'[k] = ticks[k] /\ sealed'[k] = T
    BY <1>1 DEF AllRolls
  <2>2. CASE c.kind # "inc"
    BY <1>2, <1>5, <2>2 DEF Rolls
  <2>3. CASE c.kind = "inc"
    <3>1. /\ LastSeconds(c.second, T) /\ Gone(k) <= ticks[k]
          /\ Len(T) > 0 /\ (ticks[k] = Gone(k) => InStep(k))
      BY <1>7, <2>1, <2>3 DEF Rolls
    <3> DEFINE m == Len(T) - 1
    <3>2. m \in Nat /\ Len(T) = m + 1
      BY <1>3, <3>1 DEF Window
    <3>3. /\ Gone(k)' = Gone(k)
          /\ Before(k, {"minute"}) = m + 1 /\ Before(k, {"minute", "hour"}) = m + 1
          /\ Before(k, {"minute", "hour", "day"}) = m
          /\ Before(k, {"minute"})' = m + 1 /\ Before(k, {"minute", "hour"})' = m + 1
          /\ Before(k, {"minute", "hour", "day"})' = m + 1
          /\ Len(sealed'[k]) = m + 1
      BY <1>7, <2>1, <3>2 DEF Gone, Before
    <3> HIDE DEF m, T, c
    <3>4. InStep(k) => InStep(k)'
      <4> SUFFICES ASSUME InStep(k) PROVE InStep(k)'
        OBVIOUS
      <4>1. /\ c.cnt = (m % Day) + 1
            /\ Aligned(c.minute, PerHour, T, PerMinute, (m + 1) \div PerMinute)
            /\ Aligned(c.hour, PerDay, T, Hour, (m + 1) \div Hour)
            /\ Aligned(c.day, Days, T, Day, m \div Day)
        BY <1>7, <3>3 DEF InStep, c, T
      <4>2. /\ c.cnt = Day => (m + 1) % Day = 0
            /\ c.cnt # Day => (m + 1) % Day = c.cnt
            /\ c.cnt # 0
        <5>1. /\ c.cnt = Day => (m + 1) % Day = 0
              /\ c.cnt # Day => (m + 1) % Day = c.cnt
          BY <3>2, <4>1, CountMod
        <5>2. m % Day \in 0 .. Day - 1
          BY <3>2, DivMod, Constants
        <5> DEFINE y == m % Day
        <5>3. y \in Nat /\ c.cnt = y + 1
          BY <4>1, <5>2, Constants
        <5> HIDE DEF y
        <5>4. c.cnt # 0
          BY <5>3
        <5> QED BY <5>1, <5>4
      <4>3. (m + 1) % Day = 0 => cell = Period(T, (m + 1) \div Day, Day)
        <5>1. Aligned(c.hour, PerDay, T, Hour, (m + 1) \div Hour)
          BY <4>1
        <5>2. (m + 1) % Day = 0 => Union(c.hour) = Period(T, (m + 1) \div Day, Day)
          BY <1>3, <3>2, <5>1, DayOfHours DEF IsDue, HoldsCell
        <5> QED BY <5>2 DEF cell, c
      <4>4. Aligned(IF (m + 1) % Day = 0 THEN Rolled(c.day, cell) ELSE c.day,
                    Days, T, Day, (m + 1) \div Day)
        BY <1>3, <1>6, <3>2, <4>1, <4>3, CoarseAligned, Constants
      <4>5. w = IF (m + 1) % Day = 0 THEN Rolled(c.day, cell) ELSE c.day
        BY <4>2 DEF w, c
      <4>6. Aligned(w, Days, T, Day, (m + 1) \div Day)
        BY <4>4, <4>5
      <4>7. cnt = (m + 1) % Day
        BY <4>2 DEF cnt, c
      <4> QED BY <1>5, <1>7, <2>1, <3>3, <4>1, <4>6, <4>7 DEF InStep
    <3> QED BY <1>2, <1>5, <1>7, <2>1, <2>3, <3>1, <3>2, <3>3, <3>4 DEF Rolls, c
  <2> QED BY <2>2, <2>3
<1> QED BY <1>1, <1>2, <1>5, <1>7, JobRolls

LEMMA NextRolls ==
  ASSUME Inv, AllRolls, [Next]_vars
  PROVE  AllRolls'
<1>1. CASE UNCHANGED <<compose, job, sealed, ticks>>
  BY <1>1, QuietRolls
<1>2. CASE Put
  BY <1>1, <1>2 DEF Put, threads
<1>3. CASE Aggregator
  <2>1. CASE Top \/ GetEmpty \/ Get \/ Match \/ Insert
    BY <1>1, <2>1 DEF Top, GetEmpty, Get, Match, Insert, AggVars
  <2>2. CASE MakeLock \/ Acquire
    <3>0. PICK k \in Keys : k = agg.piece.key
      BY <2>2, InHand DEF MakeLock, Acquire, Holds
    <3>1. /\ \/ compose' = [compose EXCEPT ![k].locked = "no"]
             \/ compose' = [compose EXCEPT ![k].locked = "agg"]
          /\ UNCHANGED <<job, sealed, ticks>>
      BY <2>2, <3>0 DEF MakeLock, Acquire, AggVars
    <3> QED BY <3>1, LockRolls
  <2> QED BY <1>3, <2>1, <2>2, ScheduleRolls, WriteRolls DEF Aggregator
<1>4. CASE Fire \/ Worker
  BY <1>4, FireRolls, NoLockRolls, RollSecondRolls, RollMinuteRolls, RollHourRolls, RollDayRolls DEF Worker
<1>5. CASE Stop
  BY <1>1, <1>5 DEF Stop, StopFlag, StopJoin, StopWait, StopVars
<1>6. CASE Dump
  BY <1>1, <1>6 DEF Dump, Begin, Iterate, DumpEnds, DumpVars
<1>7. CASE UNCHANGED vars
  BY <1>1, <1>7 DEF vars, threads
<1> QED BY <1>2, <1>3, <1>4, <1>5, <1>6, <1>7 DEF Next

(***************************************************************************)
(* The windows of MetricsCompose hold the last minutes, hours and days, and*)
(* the count of its calls tells which, whatever their lengths, however     *)
(* puts and jobs interleave, unless a job failed for want of a lock.       *)
(***************************************************************************)
THEOREM WindowsAlwaysAligned == Spec => []WindowsAligned
<1>1. ASSUME AllRolls PROVE WindowsAligned
  <2> SUFFICES ASSUME NEW k \in Keys, compose[k].kind = "inc", job.key # k, Len(sealed[k]) = ticks[k]
               PROVE  /\ compose[k].cnt = Len(sealed[k]) % Day
                      /\ Aligned(compose[k].minute, PerHour, sealed[k], PerMinute, Len(sealed[k]) \div PerMinute)
                      /\ Aligned(compose[k].hour, PerDay, sealed[k], Hour, Len(sealed[k]) \div Hour)
                      /\ Aligned(compose[k].day, Days, sealed[k], Day, Len(sealed[k]) \div Day)
    BY DEF WindowsAligned
  <2>1. Rolls(k) /\ ticks[k] \in Nat
    BY <1>1 DEF AllRolls
  <2>2. Phase(k) = "idle"
    BY DEF Phase
  <2>3. /\ Gone(k) = ticks[k] /\ Before(k, {"minute"}) = Len(sealed[k])
        /\ Before(k, {"minute", "hour"}) = Len(sealed[k])
        /\ Before(k, {"minute", "hour", "day"}) = Len(sealed[k])
    BY <2>1, <2>2 DEF Gone, Before
  <2>4. InStep(k)
    BY <2>1, <2>3 DEF Rolls
  <2> QED BY <2>2, <2>3, <2>4 DEF InStep
<1>2. Inv /\ AllRolls /\ [Next]_vars => AllRolls'
  BY NextRolls
<1>3. Spec => []AllRolls
  BY <1>2, InitRolls, Invariant, PTL DEF Spec
<1> QED BY <1>1, <1>3, PTL
=============================================================================
