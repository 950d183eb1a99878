--------------------------- MODULE Lifecycle_proofs ---------------------------
(***************************************************************************)
(* Proofs about the life of a server name while commands do not overlap:   *)
(* any number of users, who run any number of commands, but at any time at *)
(* most one of them is at work.  (A parent that waits, for a byte that may *)
(* never come, is not at work.)  Server processes boot, serve and die, and *)
(* other servers take the port, at any time.                               *)
(***************************************************************************)
EXTENDS Lifecycle, TLAPS

Places == {"idle", "open", "lock", "check", "clear", "prepare", "archive", "start", "poll",
           "kill", "rm", "unlock", "remove", "done", "refused", "raised"}

TypeOK ==
  /\ parent \in [Users -> {"idle", "waiting"}]
  /\ cmd \in [Users -> {"deploy", "serve", "stop"}]
  /\ pc \in [Users -> Places]
  /\ ok \in [Users -> BOOLEAN]
  /\ locked \in [Users -> BOOLEAN]
  /\ retry \in [Users -> Nat]
  /\ launched \in [Users -> Procs \cup {None}]
  /\ pid \in Procs \cup {None}
  /\ scripts \in BOOLEAN /\ crit \in BOOLEAN /\ other \in BOOLEAN
  /\ proc \in [Procs -> {"unused", "boot", "init", "serving", "dead"}]
  /\ home \in SUBSET Procs /\ abandoned \in SUBSET Procs

\* The commands that are at work, of which there is one at most.
Resting == {"idle", "done", "refused", "raised"}
Busy(u) == pc[u] \notin Resting
Alone   == \A u, v \in Users : Busy(u) /\ Busy(v) => u = v

\* One process at most has the working directory, the PID file is its own, and
\* so is a critical line in the log.
Directory ==
  /\ \A p, q \in home : p = q
  /\ pid # None => pid \in home /\ proc[pid] \notin {"unused", "boot"}
  /\ crit => \A p \in home : proc[p] = "dead"

\* What a command may rely on at the place where it stands.
Stands(u) ==
  /\ pc[u] \in {"prepare", "archive", "start"} => home = {}
  /\ pc[u] = "poll" => home = {launched[u]}
  /\ pc[u] = "kill" /\ cmd[u] # "stop" => home = {launched[u]}
  /\ pc[u] = "clear" => pid = None \/ pid \in abandoned
  /\ pc[u] = "rm" => pid # None /\ proc[pid] = "dead"
  /\ cmd[u] = "stop" => pc[u] \in {"idle", "kill", "rm", "done", "refused"}

\* A process without a PID file is either being waited for or given up.
Boots ==
  \A p \in Procs : proc[p] = "boot" =>
    p \in abandoned \/ \E u \in Users : pc[u] = "poll" /\ launched[u] = p

Inv == TypeOK /\ Directory /\ (\A u \in Users : Stands(u)) /\ Boots /\ Tracked
-----------------------------------------------------------------------------
LEMMA InitInv == Init => Inv
<1> SUFFICES ASSUME Init PROVE Inv
  OBVIOUS
<1>1. TypeOK
  BY DEF Init, TypeOK, Places
<1>2. Directory /\ Boots /\ Tracked
  BY DEF Init, Directory, Boots, Tracked
<1>3. \A u \in Users : Stands(u)
  BY DEF Init, Stands
<1> QED BY <1>1, <1>2, <1>3 DEF Inv

\* While u is at work nobody waits for a process but u.
LEMMA BootsOfOthers ==
  ASSUME Inv, Alone, NEW u \in Users, Busy(u), pc[u] # "poll"
  PROVE  \A p \in Procs : proc[p] = "boot" => p \in abandoned
BY DEF Inv, Boots, Alone, Busy, Resting

\* A command that is not at work relies on nothing.
LEMMA RestingStands ==
  ASSUME Inv, Alone, NEW u \in Users, Busy(u), UNCHANGED cmd, Stands(u)',
         \A v \in Users : v # u => pc'[v] = pc[v]
  PROVE  \A v \in Users : Stands(v)'
<1> SUFFICES ASSUME NEW v \in Users, v # u PROVE Stands(v)'
  OBVIOUS
<1>1. pc[v] \in Resting /\ pc'[v] = pc[v] /\ cmd'[v] = cmd[v] /\ Stands(v)
  BY DEF Alone, Busy, Inv
<1> QED BY <1>1 DEF Stands, Resting

\* A step of u that leaves the directory and the processes alone.
LEMMA QuietStep ==
  ASSUME Inv, TypeOK', NEW u \in Users, pc[u] # "poll", Stands(u)',
         \A v \in Users : v # u => pc'[v] = pc[v] /\ cmd'[v] = cmd[v],
         UNCHANGED <<launched, pid, crit, procVars>>
  PROVE  Inv'
<1>1. UNCHANGED <<launched, pid, crit, proc, home, abandoned>>
  BY DEF procVars
<1>2. Directory' /\ Tracked'
  BY <1>1 DEF Inv, Directory, Tracked, Listed, Alive
<1>3. ASSUME NEW v \in Users, v # u PROVE Stands(v)'
  <2>1. pc'[v] = pc[v] /\ cmd'[v] = cmd[v] /\ Stands(v)
    BY <1>3 DEF Inv
  <2> QED BY <1>1, <2>1 DEF Stands
<1>4. Boots'
  BY <1>1 DEF Inv, Boots
<1> QED BY <1>2, <1>3, <1>4 DEF Inv
-----------------------------------------------------------------------------
(***************************************************************************)
(* The steps of the commands that are quiet.                               *)
(***************************************************************************)
LEMMA CommandInv ==
  ASSUME Inv, NEW u \in Users, Deploy(u) \/ Serve(u) \/ Stop(u)
  PROVE  Inv'
<1>1. PICK c \in {"deploy", "serve", "stop"}, place \in {"open", "kill", "refused"} :
        /\ Command(u, c, place)
        /\ c = "stop" <=> place # "open"
  BY DEF Deploy, Serve, Stop
<1>2. /\ pc[u] = "idle" /\ pc' = [pc EXCEPT ![u] = place] /\ cmd' = [cmd EXCEPT ![u] = c]
      /\ parent' = [parent EXCEPT ![u] = "waiting"] /\ ok' = [ok EXCEPT ![u] = TRUE]
      /\ UNCHANGED <<locked, retry, launched, pid, scripts, crit, proc, home, other, abandoned>>
  BY <1>1 DEF Command, GoTo, dirVars, procVars
<1>3. TypeOK'
  BY <1>2 DEF Inv, TypeOK, Places
<1>4. /\ pc'[u] = place /\ cmd'[u] = c
      /\ \A v \in Users : v # u => pc'[v] = pc[v] /\ cmd'[v] = cmd[v]
  BY <1>2 DEF Inv, TypeOK
<1>5. Stands(u)'
  BY <1>1, <1>4 DEF Stands
<1> QED BY <1>2, <1>3, <1>4, <1>5, QuietStep DEF procVars

\* The rest of the quiet steps change the place of the command and nothing that
\* another may rely on.
Quiet(u) ==
  \/ Return(u) \/ Interrupt(u) \/ EndAlone(u) \/ OpenLock(u) \/ TakeLock(u)
  \/ Unlock(u) \/ RemoveLock(u) \/ DeployCheck(u) \/ ServeCheck(u)
  \/ DeployPrepare(u) \/ ServePrepare(u) \/ ServeArchive(u)

\* Where a quiet step leads.
QuietMove(from, to) ==
  \/ from \in Resting /\ to \in {from, "idle"}
  \/ from = "open" /\ to = "lock"
  \/ from = "lock" /\ to \in {"check", "done"}
  \/ from = "unlock" /\ to = "remove"
  \/ from = "remove" /\ to \in {"raised", "done"}
  \/ from = "check" /\ to = "unlock"
  \/ from = "check" /\ to = "clear" /\ pid = None
  \/ from = "prepare" /\ to \in {"start", "archive", "unlock", "raised"}
  \/ from = "archive" /\ to \in {"start", "unlock"}

\* A command moves, and may succeed no longer or give up its lock.
LEMMA MoveEffect ==
  ASSUME Inv, NEW u \in Users, NEW place \in Places, GoTo(u, place), QuietMove(pc[u], place),
         ok' = ok \/ ok' = [ok EXCEPT ![u] = FALSE],
         locked' = locked \/ \E held \in BOOLEAN : locked' = [locked EXCEPT ![u] = held],
         scripts' \in BOOLEAN,
         UNCHANGED <<parent, cmd, retry, launched, pid, crit, procVars>>
  PROVE  /\ TypeOK'
         /\ UNCHANGED <<cmd, launched, pid, crit, procVars>>
         /\ \A v \in Users : v # u => pc'[v] = pc[v]
         /\ QuietMove(pc[u], pc'[u])
<1>1. /\ pc \in [Users -> Places] /\ pc' = [pc EXCEPT ![u] = place]
      /\ ok \in [Users -> BOOLEAN] /\ locked \in [Users -> BOOLEAN]
  BY DEF Inv, TypeOK, GoTo
<1>2. pc' \in [Users -> Places] /\ pc'[u] = place /\ \A v \in Users : v # u => pc'[v] = pc[v]
  BY <1>1
<1>3. ok' \in [Users -> BOOLEAN]
  BY <1>1
<1>4. locked' \in [Users -> BOOLEAN]
  BY <1>1
<1>5. UNCHANGED <<parent, cmd, retry, launched, pid, crit, other, proc, home, abandoned>>
  BY DEF procVars
<1>6. TypeOK'
  BY <1>2, <1>3, <1>4, <1>5 DEF Inv, TypeOK
<1> QED BY <1>2, <1>6

LEMMA QuietEffect ==
  ASSUME Inv, NEW u \in Users, Quiet(u)
  PROVE  /\ TypeOK'
         /\ UNCHANGED <<cmd, launched, pid, crit, procVars>>
         /\ \A v \in Users : v # u => pc'[v] = pc[v]
         /\ QuietMove(pc[u], pc'[u]) \/ UNCHANGED pc
<1>1. CASE Return(u)
  BY <1>1 DEF Return, Resting, Inv, TypeOK, dirVars, procVars, QuietMove, GoTo, Places
<1>2. CASE Interrupt(u)
  BY <1>2 DEF Interrupt, Inv, TypeOK, dirVars, procVars
<1>3. CASE EndAlone(u)
  BY <1>3 DEF EndAlone, Resting, Inv, TypeOK, dirVars, procVars, QuietMove, GoTo, Places
<1>4. CASE OpenLock(u)
  <2>1. "lock" \in Places /\ QuietMove(pc[u], "lock")
    BY <1>4 DEF OpenLock, QuietMove, Places
  <2> QED BY <1>4, <2>1, MoveEffect DEF OpenLock, Inv, TypeOK
<1>5. CASE TakeLock(u)
  <2>1. \A place \in {"check", "done"} : place \in Places /\ QuietMove(pc[u], place)
    BY <1>5 DEF TakeLock, QuietMove, Places
  <2>2. scripts' \in BOOLEAN /\ UNCHANGED <<parent, cmd, retry, launched, pid, crit, procVars>>
    BY <1>5 DEF TakeLock, dirVars, Inv, TypeOK
  <2>3. CASE Lockable(u)
    BY <1>5, <2>1, <2>2, <2>3, MoveEffect DEF TakeLock
  <2>4. CASE ~Lockable(u)
    BY <1>5, <2>1, <2>2, <2>4, MoveEffect DEF TakeLock, Fail
  <2> QED BY <2>3, <2>4
<1>6. CASE Unlock(u)
  <2>1. "remove" \in Places /\ QuietMove(pc[u], "remove")
    BY <1>6 DEF Unlock, QuietMove, Places
  <2> QED BY <1>6, <2>1, MoveEffect DEF Unlock, dirVars, Inv, TypeOK
<1>7. CASE RemoveLock(u)
  BY <1>7 DEF RemoveLock, Inv, TypeOK, dirVars, procVars, QuietMove, GoTo, Fail, Places
<1>8. CASE DeployCheck(u)
  <2>1. /\ "unlock" \in Places /\ QuietMove(pc[u], "unlock")
        /\ "clear" \in Places /\ (pid = None => QuietMove(pc[u], "clear"))
    BY <1>8 DEF DeployCheck, QuietMove, Places
  <2>2. /\ scripts' \in BOOLEAN /\ locked' = locked
        /\ UNCHANGED <<parent, cmd, retry, launched, pid, crit, procVars>>
    BY <1>8 DEF DeployCheck, dirVars, Inv, TypeOK
  <2>3. CASE Fail(u, "unlock")
    BY <2>1, <2>2, <2>3, MoveEffect DEF Fail
  <2>4. CASE pid = None /\ GoTo(u, "clear") /\ UNCHANGED ok
    BY <2>1, <2>2, <2>4, MoveEffect
  <2> QED BY <1>8, <2>3, <2>4 DEF DeployCheck
<1>9. CASE ServeCheck(u)
  <2>1. /\ "unlock" \in Places /\ QuietMove(pc[u], "unlock")
        /\ "clear" \in Places /\ (pid = None => QuietMove(pc[u], "clear"))
    BY <1>9 DEF ServeCheck, QuietMove, Places
  <2>2. /\ scripts' \in BOOLEAN /\ locked' = locked
        /\ UNCHANGED <<parent, cmd, retry, launched, pid, crit, procVars>>
    BY <1>9 DEF ServeCheck, dirVars, Inv, TypeOK
  <2>3. CASE pid # None
    BY <1>9, <2>1, <2>2, <2>3, MoveEffect DEF ServeCheck, Fail
  <2>4. CASE pid = None
    BY <1>9, <2>1, <2>2, <2>4, MoveEffect DEF ServeCheck
  <2> QED BY <2>3, <2>4
<1>10. CASE DeployPrepare(u)
  <2>1. \A place \in {"start", "unlock", "raised"} : place \in Places /\ QuietMove(pc[u], place)
    BY <1>10 DEF DeployPrepare, QuietMove, Places
  <2>2. scripts' \in BOOLEAN /\ UNCHANGED <<parent, cmd, retry, launched, pid, crit, procVars>>
    BY <1>10 DEF DeployPrepare
  <2>3. CASE GoTo(u, "start") /\ UNCHANGED <<ok, locked>>
    BY <2>1, <2>2, <2>3, MoveEffect
  <2>4. CASE Fail(u, "unlock") /\ UNCHANGED locked
    BY <2>1, <2>2, <2>4, MoveEffect DEF Fail
  <2>5. CASE Raise(u) /\ UNCHANGED ok
    BY <2>1, <2>2, <2>5, MoveEffect DEF Raise
  <2> QED BY <1>10, <2>3, <2>4, <2>5 DEF DeployPrepare
<1>11. CASE ServePrepare(u)
  <2>1. \A place \in {"archive", "unlock", "raised"} : place \in Places /\ QuietMove(pc[u], place)
    BY <1>11 DEF ServePrepare, QuietMove, Places
  <2>2. scripts' \in BOOLEAN /\ UNCHANGED <<parent, cmd, retry, launched, pid, crit, procVars>>
    BY <1>11 DEF ServePrepare
  <2>3. CASE GoTo(u, "archive") /\ UNCHANGED <<ok, locked>>
    BY <2>1, <2>2, <2>3, MoveEffect
  <2>4. CASE Fail(u, "unlock") /\ UNCHANGED locked
    BY <2>1, <2>2, <2>4, MoveEffect DEF Fail
  <2>5. CASE Raise(u) /\ UNCHANGED ok
    BY <2>1, <2>2, <2>5, MoveEffect DEF Raise
  <2> QED BY <1>11, <2>3, <2>4, <2>5 DEF ServePrepare
<1>12. CASE ServeArchive(u)
  <2>1. \A place \in {"start", "unlock"} : place \in Places /\ QuietMove(pc[u], place)
    BY <1>12 DEF ServeArchive, QuietMove, Places
  <2>2. /\ scripts' \in BOOLEAN /\ locked' = locked
        /\ UNCHANGED <<parent, cmd, retry, launched, pid, crit, procVars>>
    BY <1>12 DEF ServeArchive, dirVars, Inv, TypeOK
  <2>3. CASE GoTo(u, "start") /\ UNCHANGED ok
    BY <2>1, <2>2, <2>3, MoveEffect
  <2>4. CASE Fail(u, "unlock")
    BY <2>1, <2>2, <2>4, MoveEffect DEF Fail
  <2> QED BY <1>12, <2>3, <2>4 DEF ServeArchive
<1> QED BY <1>1, <1>2, <1>3, <1>4, <1>5, <1>6, <1>7, <1>8, <1>9, <1>10, <1>11, <1>12 DEF Quiet

LEMMA QuietInv ==
  ASSUME Inv, NEW u \in Users, Quiet(u)
  PROVE  Inv'
<1>1. /\ TypeOK' /\ UNCHANGED <<cmd, launched, pid, crit, procVars>>
      /\ \A v \in Users : v # u => pc'[v] = pc[v]
      /\ QuietMove(pc[u], pc'[u]) \/ UNCHANGED pc
  BY QuietEffect
<1>2. UNCHANGED <<proc, home, abandoned>> /\ cmd'[u] = cmd[u] /\ launched'[u] = launched[u]
  BY <1>1 DEF procVars
<1>3. CASE UNCHANGED pc
  <2>1. Directory' /\ Boots' /\ Tracked' /\ \A v \in Users : Stands(v)'
    BY <1>1, <1>2, <1>3 DEF Inv, Directory, Boots, Tracked, Listed, Alive, Stands
  <2> QED BY <1>1, <2>1 DEF Inv
<1>4. CASE QuietMove(pc[u], pc'[u])
  <2>1. Stands(u)
    BY DEF Inv
  <2>2. Stands(u)'
    BY <1>1, <1>2, <1>4, <2>1 DEF Stands, QuietMove, Resting
  <2>3. pc[u] # "poll"
    BY <1>4 DEF QuietMove, Resting
  <2> QED BY <1>1, <2>2, <2>3, QuietStep
<1> QED BY <1>1, <1>3, <1>4
-----------------------------------------------------------------------------
(***************************************************************************)
(* The steps of the commands that change the directory or a process.       *)
(***************************************************************************)
\* What such a step of u leaves alone.
Frame(u) ==
  /\ cmd' = cmd
  /\ \A v \in Users : v # u => pc'[v] = pc[v]

LEMMA ClearDirectoryInv ==
  ASSUME Inv, Alone, NEW u \in Users, ClearDirectory(u)
  PROVE  Inv'
<1>1. /\ pc[u] = "clear" /\ pc' = [pc EXCEPT ![u] = "prepare"]
      /\ pid' = None /\ scripts' = FALSE /\ crit' = FALSE /\ home' = {}
      /\ UNCHANGED <<parent, cmd, ok, locked, retry, launched, proc, other, abandoned>>
  BY DEF ClearDirectory, GoTo
<1>2. Busy(u) /\ pc[u] # "poll"
  BY <1>1 DEF Busy, Resting
<1>3. TypeOK'
  BY <1>1 DEF Inv, TypeOK, Places
<1>4. pc'[u] = "prepare" /\ Frame(u)
  BY <1>1 DEF Inv, TypeOK, Frame
<1>5. Directory'
  BY <1>1 DEF Directory
<1>6. Stands(u)'
  BY <1>1, <1>4 DEF Inv, Stands
<1>7. \A v \in Users : Stands(v)'
  BY <1>2, <1>4, <1>6, RestingStands DEF Frame
<1>8. Boots'
  BY <1>1, <1>2, BootsOfOthers DEF Boots
<1>9. Tracked'
  <2>1. pid = None \/ pid \in abandoned
    BY <1>1 DEF Inv, Stands
  <2> QED BY <1>1, <2>1, NoneAssumption DEF Inv, Tracked, Listed
<1> QED BY <1>3, <1>5, <1>7, <1>8, <1>9 DEF Inv

LEMMA StartScriptInv ==
  ASSUME Inv, Alone, NEW u \in Users, StartScript(u)
  PROVE  Inv'
<1>1. pc[u] = "start" /\ UNCHANGED <<parent, cmd, locked, scripts, other, abandoned>>
  BY DEF StartScript
<1>2. Busy(u) /\ pc[u] # "poll"
  BY <1>1 DEF Busy, Resting
<1>3. home = {} /\ pid = None /\ cmd[u] # "stop"
  BY <1>1 DEF Inv, Stands, Directory
<1>4. pid' = None
  BY <1>3 DEF StartScript
<1>5. \A p \in Procs : proc[p] = "boot" => p \in abandoned
  BY <1>2, BootsOfOthers
<1>6. \A p \in Procs : proc[p] \in {"init", "serving"} => p \in abandoned
  BY <1>3, NoneAssumption DEF Inv, Tracked, Listed
<1>7. CASE PortUsed \/ ~scripts
  <2>1. /\ pc' = [pc EXCEPT ![u] = "unlock"] /\ ok' = [ok EXCEPT ![u] = FALSE]
        /\ UNCHANGED <<retry, launched, crit, proc, home>>
    BY <1>3, <1>7 DEF StartScript, Fail, GoTo
  <2>2. TypeOK'
    BY <1>1, <1>4, <2>1 DEF Inv, TypeOK, Places
  <2>3. pc'[u] = "unlock" /\ Frame(u)
    BY <1>1, <2>1 DEF Inv, TypeOK, Frame
  <2>4. Stands(u)'
    BY <1>1, <1>3, <2>3 DEF Stands
  <2>5. \A v \in Users : Stands(v)'
    BY <1>2, <2>3, <2>4, RestingStands DEF Frame
  <2>6. Directory'
    BY <1>4, <2>1 DEF Inv, Directory
  <2>7. Boots' /\ Tracked'
    BY <1>1, <1>5, <1>6, <2>1 DEF Boots, Tracked
  <2> QED BY <2>2, <2>5, <2>6, <2>7 DEF Inv
<1>8. CASE ~(PortUsed \/ ~scripts)
  <2>1. PICK p \in {q \in Procs : proc[q] = "unused"} :
          /\ proc' = [proc EXCEPT ![p] = "boot"] /\ home' = home \union {p}
          /\ launched' = [launched EXCEPT ![u] = p]
          /\ retry' = [retry EXCEPT ![u] = 0] /\ crit' = FALSE
          /\ pc' = [pc EXCEPT ![u] = "poll"] /\ ok' = ok
    BY <1>3, <1>8 DEF StartScript, GoTo
  <2>2. TypeOK'
    BY <1>1, <1>4, <2>1 DEF Inv, TypeOK, Places
  <2>3. pc'[u] = "poll" /\ launched'[u] = p /\ home' = {p} /\ Frame(u)
    BY <1>1, <1>3, <2>1 DEF Inv, TypeOK, Frame
  <2>4. Stands(u)'
    BY <1>1, <1>3, <2>3 DEF Stands
  <2>5. \A v \in Users : Stands(v)'
    BY <1>2, <2>3, <2>4, RestingStands, <1>1 DEF Frame
  <2>6. Directory'
    BY <1>4, <2>1, <2>3 DEF Directory
  <2>7. \A q \in Procs : q # p => proc'[q] = proc[q]
    BY <2>1 DEF Inv, TypeOK
  <2>8. proc'[p] = "boot"
    BY <2>1 DEF Inv, TypeOK
  <2>9. Boots'
    BY <1>1, <1>5, <2>3, <2>7 DEF Boots
  <2>10. Tracked'
    BY <1>1, <1>6, <2>7, <2>8 DEF Tracked
  <2> QED BY <2>2, <2>5, <2>6, <2>9, <2>10 DEF Inv
<1> QED BY <1>7, <1>8

\* While a script polls, the process it launched is the only one that may not
\* have written its PID file, unless it was given up.
LEMMA PollEffect ==
  ASSUME Inv, NEW u \in Users, Poll(u)
  PROVE  /\ pc[u] = "poll" /\ home = {launched[u]} /\ cmd[u] # "stop"
         /\ UNCHANGED <<cmd, launched, dirVars, proc, home, other>>
         /\ TypeOK'
         /\ \A v \in Users : v # u => pc'[v] = pc[v]
         /\ \/ pc'[u] = "poll" /\ abandoned' = abandoned
            \/ pc'[u] = "kill" /\ abandoned' = abandoned /\ proc[launched[u]] # "boot"
            \/ pc'[u] = "unlock" /\ abandoned' = abandoned /\ proc[launched[u]] # "boot"
            \/ pc'[u] = "unlock" /\ abandoned' = abandoned \union {launched[u]}
<1>1. /\ pc[u] = "poll" /\ home = {launched[u]} /\ cmd[u] # "stop"
      /\ UNCHANGED <<parent, cmd, locked, launched, dirVars, proc, home, other>>
  BY DEF Poll, Inv, Stands
<1>2. /\ pid # None => pid = launched[u] /\ proc[launched[u]] # "boot"
      /\ crit => proc[launched[u]] # "boot"
      /\ launched[u] \in Procs
  BY <1>1 DEF Inv, Directory, TypeOK
<1>3. retry[u] \in Nat /\ Timeout \in Nat /\ GiveUp \in Nat /\ GiveUp < Timeout
  BY LimitsAssumption DEF Inv, TypeOK
<1> DEFINE failed == crit \/ (pid # None /\ ~Alive(pid))
           noPid  == ~failed /\ pid = None /\ retry[u] >= GiveUp
           wait   == ~failed /\ ~noPid
           known  == abandoned' = IF pc'[u] = "unlock" /\ pid = None
                                  THEN abandoned \union {launched[u]} ELSE abandoned
<1>4. /\ known
      /\ \/ failed /\ Fail(u, "kill") /\ UNCHANGED retry
         \/ noPid /\ Fail(u, "unlock") /\ UNCHANGED retry
         \/ ~failed /\ ~noPid /\ PortUsed /\ GoTo(u, "unlock") /\ UNCHANGED <<ok, retry>>
         \/ wait /\ retry[u] < Timeout /\ retry' = [retry EXCEPT ![u] = @ + 1] /\ UNCHANGED <<pc, ok>>
         \/ wait /\ retry[u] >= Timeout /\ Fail(u, "kill") /\ UNCHANGED retry
  BY DEF Poll
<1>5. /\ pc \in [Users -> Places] /\ ok \in [Users -> BOOLEAN] /\ retry \in [Users -> Nat]
      /\ {"kill", "unlock"} \subseteq Places
  BY DEF Inv, TypeOK, Places
<1>6. CASE failed /\ Fail(u, "kill") /\ UNCHANGED retry
  <2>1. pc'[u] = "kill" /\ pc' = [pc EXCEPT ![u] = "kill"] /\ ok' = [ok EXCEPT ![u] = FALSE]
    BY <1>5, <1>6 DEF Fail, GoTo
  <2>2. abandoned' = abandoned
    BY <1>4, <2>1
  <2>3. TypeOK'
    BY <1>1, <1>5, <1>6, <2>1, <2>2 DEF Inv, TypeOK, dirVars
  <2> QED BY <1>1, <1>2, <1>6, <2>1, <2>2, <2>3
<1>7. CASE noPid /\ Fail(u, "unlock") /\ UNCHANGED retry
  <2>1. pc'[u] = "unlock" /\ pc' = [pc EXCEPT ![u] = "unlock"] /\ ok' = [ok EXCEPT ![u] = FALSE]
    BY <1>5, <1>7 DEF Fail, GoTo
  <2>2. abandoned' = abandoned \union {launched[u]}
    BY <1>4, <1>7, <2>1
  <2>3. TypeOK'
    BY <1>1, <1>2, <1>5, <1>7, <2>1, <2>2 DEF Inv, TypeOK, dirVars
  <2> QED BY <1>1, <2>1, <2>2, <2>3
<1>8. CASE ~failed /\ ~noPid /\ PortUsed /\ GoTo(u, "unlock") /\ UNCHANGED <<ok, retry>>
  <2>1. pc'[u] = "unlock" /\ pc' = [pc EXCEPT ![u] = "unlock"]
    BY <1>5, <1>8 DEF GoTo
  <2>2. IF pid = None THEN abandoned' = abandoned \union {launched[u]} ELSE abandoned' = abandoned
    BY <1>4, <2>1
  <2>3. TypeOK'
    BY <1>1, <1>2, <1>5, <1>8, <2>1, <2>2 DEF Inv, TypeOK, dirVars
  <2> QED BY <1>1, <1>2, <2>1, <2>2, <2>3
<1>9. CASE wait /\ retry[u] < Timeout /\ retry' = [retry EXCEPT ![u] = @ + 1] /\ UNCHANGED <<pc, ok>>
  <2>1. abandoned' = abandoned /\ pc'[u] = "poll"
    BY <1>1, <1>4, <1>9
  <2>2. retry' \in [Users -> Nat]
    BY <1>5, <1>9
  <2>3. TypeOK'
    BY <1>1, <1>9, <2>1, <2>2 DEF Inv, TypeOK, dirVars
  <2> QED BY <1>1, <1>9, <2>1, <2>3
<1>10. CASE wait /\ retry[u] >= Timeout /\ Fail(u, "kill") /\ UNCHANGED retry
  <2>1. pc'[u] = "kill" /\ pc' = [pc EXCEPT ![u] = "kill"] /\ ok' = [ok EXCEPT ![u] = FALSE]
    BY <1>5, <1>10 DEF Fail, GoTo
  <2>2. abandoned' = abandoned
    BY <1>4, <2>1
  <2>3. TypeOK'
    BY <1>1, <1>5, <1>10, <2>1, <2>2 DEF Inv, TypeOK, dirVars
  <2>4. pid # None
    BY <1>3, <1>10
  <2> QED BY <1>1, <1>2, <2>1, <2>2, <2>3, <2>4
<1> QED BY <1>4, <1>6, <1>7, <1>8, <1>9, <1>10

LEMMA PollInv ==
  ASSUME Inv, Alone, NEW u \in Users, Poll(u)
  PROVE  Inv'
<1>1. /\ pc[u] = "poll" /\ home = {launched[u]} /\ cmd[u] # "stop"
      /\ UNCHANGED <<cmd, launched, pid, crit, proc, home, other>>
      /\ TypeOK'
      /\ \A v \in Users : v # u => pc'[v] = pc[v]
      /\ pc'[u] \in {"poll", "kill", "unlock"} /\ abandoned \subseteq abandoned'
      /\ pc'[u] # "poll" => proc[launched[u]] # "boot" \/ launched[u] \in abandoned'
  BY PollEffect DEF dirVars
<1>2. Busy(u)
  BY <1>1 DEF Busy, Resting
<1>3. Stands(u)'
  BY <1>1 DEF Stands
<1>4. \A v \in Users : Stands(v)'
  BY <1>1, <1>2, <1>3, RestingStands
<1>5. Directory' /\ Tracked'
  BY <1>1 DEF Inv, Directory, Tracked, Listed, Alive
<1>6. Boots'
  <2> SUFFICES ASSUME NEW p \in Procs, proc[p] = "boot", p \notin abandoned
               PROVE  p \in abandoned' \/ \E v \in Users : pc'[v] = "poll" /\ launched'[v] = p
    BY <1>1 DEF Boots
  <2>1. launched[u] = p
    BY <1>2 DEF Inv, Boots, Alone, Busy, Resting
  <2> QED BY <1>1, <2>1
<1> QED BY <1>1, <1>4, <1>5, <1>6 DEF Inv

LEMMA KillServerInv ==
  ASSUME Inv, Alone, NEW u \in Users, KillServer(u)
  PROVE  Inv'
<1>1. /\ pc[u] = "kill" /\ pc' = [pc EXCEPT ![u] = IF pid = None THEN AfterStop(u) ELSE "rm"]
      /\ proc' = IF pid = None THEN proc ELSE [proc EXCEPT ![pid] = "dead"]
      /\ UNCHANGED <<parent, cmd, ok, locked, retry, launched, pid, scripts, crit, home>>
      /\ UNCHANGED <<other, abandoned>>
  BY DEF KillServer, GoTo, dirVars
<1>2. Busy(u) /\ pc[u] # "poll"
  BY <1>1 DEF Busy, Resting
<1>3. AfterStop(u) \in {"done", "unlock"} /\ (cmd[u] = "stop" => AfterStop(u) = "done")
  BY DEF AfterStop
<1>4. TypeOK'
  <2>1. pc' \in [Users -> Places]
    BY <1>1, <1>3 DEF Inv, TypeOK, Places
  <2>2. proc' \in [Procs -> {"unused", "boot", "init", "serving", "dead"}]
    BY <1>1 DEF Inv, TypeOK
  <2> QED BY <1>1, <2>1, <2>2 DEF Inv, TypeOK
<1>5. \A v \in Users : v # u => pc'[v] = pc[v]
  BY <1>1 DEF Inv, TypeOK
<1>6. \A p \in Procs : proc'[p] = proc[p] \/ (pid = p /\ proc'[p] = "dead")
  <2>1. proc \in [Procs -> {"unused", "boot", "init", "serving", "dead"}]
    BY DEF Inv, TypeOK
  <2>2. CASE pid = None
    BY <1>1, <2>2
  <2>3. CASE pid # None
    <3>1. proc' = [proc EXCEPT ![pid] = "dead"]
      BY <1>1, <2>3
    <3> QED BY <2>1, <3>1
  <2> QED BY <2>2, <2>3
<1>7. Directory'
  <2>1. home \subseteq Procs /\ pid \in Procs \cup {None}
    BY DEF Inv, TypeOK
  <2> QED BY <1>1, <1>6, <2>1 DEF Inv, Directory
<1>8. Stands(u)'
  <2>1. CASE pid = None
    <3>1. pc'[u] = AfterStop(u)
      BY <1>1, <2>1 DEF Inv, TypeOK
    <3> QED BY <1>1, <1>3, <3>1 DEF Stands
  <2>2. CASE pid # None
    <3>1. pc'[u] = "rm" /\ proc'[pid] = "dead"
      BY <1>1, <2>2 DEF Inv, TypeOK
    <3> QED BY <1>1, <2>2, <3>1 DEF Stands
  <2> QED BY <2>1, <2>2
<1>9. \A v \in Users : Stands(v)'
  BY <1>1, <1>2, <1>5, <1>8, RestingStands
<1>10. Boots'
  BY <1>1, <1>2, <1>6, BootsOfOthers DEF Boots
<1>11. Tracked'
  BY <1>1, <1>6 DEF Inv, Tracked, Listed, Alive
<1> QED BY <1>4, <1>7, <1>9, <1>10, <1>11 DEF Inv

LEMMA RemovePidInv ==
  ASSUME Inv, Alone, NEW u \in Users, RemovePid(u)
  PROVE  Inv'
<1>1. /\ pc[u] = "rm" /\ pc' = [pc EXCEPT ![u] = AfterStop(u)] /\ pid' = None
      /\ UNCHANGED <<parent, cmd, ok, locked, retry, launched, scripts, crit, proc, home>>
      /\ UNCHANGED <<other, abandoned>>
  BY DEF RemovePid, GoTo, procVars
<1>2. Busy(u) /\ pc[u] # "poll"
  BY <1>1 DEF Busy, Resting
<1>3. AfterStop(u) \in {"done", "unlock"} /\ (cmd[u] = "stop" => AfterStop(u) = "done")
  BY DEF AfterStop
<1>4. TypeOK'
  BY <1>1, <1>3 DEF Inv, TypeOK, Places
<1>5. pc'[u] = AfterStop(u) /\ \A v \in Users : v # u => pc'[v] = pc[v]
  BY <1>1 DEF Inv, TypeOK
<1>6. Directory'
  BY <1>1 DEF Inv, Directory
<1>7. Stands(u)'
  BY <1>1, <1>3, <1>5 DEF Stands
<1>8. \A v \in Users : Stands(v)'
  BY <1>1, <1>2, <1>5, <1>7, RestingStands
<1>9. Boots'
  BY <1>1, <1>2, BootsOfOthers DEF Boots
<1>10. Tracked'
  <2>1. proc[pid] = "dead"
    BY <1>1 DEF Inv, Stands
  <2> QED BY <1>1, <2>1 DEF Inv, Tracked, Listed, Alive
<1> QED BY <1>4, <1>6, <1>8, <1>9, <1>10 DEF Inv
-----------------------------------------------------------------------------
(***************************************************************************)
(* The steps of the server processes, and of servers of other names.       *)
(***************************************************************************)
LEMMA WritePidInv ==
  ASSUME Inv, Alone, NEW p \in Procs, WritePid(p)
  PROVE  Inv'
<1>1. /\ proc[p] = "boot"
      /\ UNCHANGED <<userVars, path, scripts, crit, home, other, abandoned>>
  BY DEF WritePid
<1>2. UNCHANGED <<parent, cmd, pc, ok, locked, retry, launched>>
  BY <1>1 DEF userVars
<1>3. CASE p \notin home
  <2>1. proc' = [proc EXCEPT ![p] = "dead"] /\ pid' = pid
    BY <1>3 DEF WritePid
  <2>2. \A q \in Procs : q # p => proc'[q] = proc[q]
    BY <2>1 DEF Inv, TypeOK
  <2>3. proc'[p] = "dead"
    BY <2>1 DEF Inv, TypeOK
  <2>4. TypeOK'
    BY <1>1, <1>2, <2>1 DEF Inv, TypeOK
  <2>5. home \subseteq Procs /\ pid # p
    BY <1>3, NoneAssumption DEF Inv, TypeOK, Directory
  <2>6. Directory'
    BY <1>1, <1>3, <2>1, <2>2, <2>5 DEF Inv, Directory
  <2>7. ASSUME NEW u \in Users PROVE Stands(u)'
    <3>1. Stands(u) /\ (pid # None => proc'[pid] = proc[pid])
      BY <2>2, <2>5 DEF Inv, TypeOK
    <3> QED BY <1>1, <1>2, <2>1, <3>1 DEF Stands
  <2>8. Boots' /\ Tracked'
    BY <1>1, <1>2, <2>1, <2>2, <2>3 DEF Inv, Boots, Tracked, Listed, Alive
  <2> QED BY <2>4, <2>6, <2>7, <2>8 DEF Inv
<1>4. CASE p \in home
  <2>1. proc' = [proc EXCEPT ![p] = "init"] /\ pid' = p
    BY <1>4 DEF WritePid
  <2>2. \A q \in Procs : q # p => proc'[q] = proc[q]
    BY <2>1 DEF Inv, TypeOK
  <2>3. proc'[p] = "init"
    BY <2>1 DEF Inv, TypeOK
  <2>4. home = {p} /\ pid = None /\ ~crit
    BY <1>1, <1>4 DEF Inv, Directory
  <2>5. TypeOK'
    BY <1>1, <1>2, <2>1 DEF Inv, TypeOK
  <2>6. Directory'
    BY <1>1, <2>1, <2>3, <2>4 DEF Directory
  <2>7. ASSUME NEW u \in Users PROVE Stands(u)'
    <3>1. Stands(u)
      BY DEF Inv
    <3>2. pc[u] # "rm"
      BY <2>4, <3>1 DEF Stands
    <3>3. pc[u] = "clear" => p \in abandoned
      BY <1>1, BootsOfOthers DEF Busy, Resting
    <3> QED BY <1>1, <1>2, <2>1, <3>1, <3>2, <3>3 DEF Stands
  <2>8. Boots'
    BY <1>1, <1>2, <2>2, <2>3 DEF Inv, Boots
  <2>9. Tracked'
    <3>1. \A q \in Procs : proc[q] \in {"init", "serving"} => q \in abandoned
      BY <2>4, NoneAssumption DEF Inv, Tracked, Listed
    <3>2. Listed(p)'
      BY <2>1, <2>3 DEF Listed, Alive
    <3> QED BY <1>1, <2>2, <3>1, <3>2 DEF Tracked
  <2> QED BY <2>5, <2>6, <2>7, <2>8, <2>9 DEF Inv
<1> QED BY <1>3, <1>4

\* A process past its first step goes on serving, or dies.
LEMMA LaterInv ==
  ASSUME Inv, NEW p \in Procs, CppMain(p) \/ PyMain(p) \/ Crash(p)
  PROVE  Inv'
<1>1. PICK place \in {"serving", "dead"} :
        /\ proc[p] \in {"init", "serving"} /\ proc' = [proc EXCEPT ![p] = place]
        /\ UNCHANGED <<userVars, path, pid, scripts, home, other, abandoned>>
        /\ crit' \in BOOLEAN
        /\ crit' # crit => place = "dead" /\ p \in home
  <2>1. CASE proc[p] = "init" /\ Bind(p)
    BY <2>1 DEF Bind, dirVars, Inv, TypeOK
  <2>2. ASSUME NEW logged \in BOOLEAN, proc[p] \in {"init", "serving"}, Die(p, logged)
        PROVE  /\ proc' = [proc EXCEPT ![p] = "dead"]
               /\ UNCHANGED <<userVars, path, pid, scripts, home, other, abandoned>>
               /\ crit' \in BOOLEAN
               /\ crit' # crit => p \in home
    BY <2>2 DEF Die, Inv, TypeOK
  <2> QED BY <2>1, <2>2 DEF CppMain, PyMain, Crash
<1>2. UNCHANGED <<parent, cmd, pc, ok, locked, retry, launched>>
  BY <1>1 DEF userVars
<1>3. proc'[p] = place /\ \A q \in Procs : q # p => proc'[q] = proc[q]
  BY <1>1 DEF Inv, TypeOK
<1>4. TypeOK'
  BY <1>1, <1>2 DEF Inv, TypeOK
<1>5. Directory'
  <2>1. home \subseteq Procs /\ pid \in Procs \cup {None} /\ crit \in BOOLEAN
    BY DEF Inv, TypeOK
  <2>2. \A q \in home : proc[q] = "dead" => proc'[q] = "dead"
    BY <1>1, <1>3, <2>1
  <2>3. crit' => \A q \in home : proc'[q] = "dead"
    <3>1. CASE crit
      BY <2>2, <3>1 DEF Inv, Directory
    <3>2. CASE ~crit /\ crit'
      <4>1. home = {p} /\ proc'[p] = "dead"
        BY <1>1, <1>3, <3>2 DEF Inv, Directory
      <4> QED BY <4>1
    <3> QED BY <3>1, <3>2
  <2>4. pid # None => pid \in home /\ proc'[pid] \notin {"unused", "boot"}
    BY <1>3, <2>1 DEF Inv, Directory
  <2> QED BY <1>1, <2>3, <2>4 DEF Inv, Directory
<1>6. ASSUME NEW u \in Users PROVE Stands(u)'
  <2>1. Stands(u) /\ pid \in Procs \cup {None}
    BY DEF Inv, TypeOK
  <2>2. pid # None /\ proc[pid] = "dead" => proc'[pid] = "dead"
    BY <1>1, <1>3, <2>1
  <2> QED BY <1>1, <1>2, <2>1, <2>2 DEF Stands
<1>7. Boots'
  BY <1>1, <1>2, <1>3 DEF Inv, Boots
<1>8. Tracked'
  BY <1>1, <1>3 DEF Inv, Tracked, Listed, Alive
<1> QED BY <1>4, <1>5, <1>6, <1>7, <1>8 DEF Inv

LEMMA StutterInv ==
  ASSUME Inv, OtherServer \/ UNCHANGED vars
  PROVE  Inv'
<1>1. /\ UNCHANGED <<parent, cmd, pc, ok, locked, retry, launched>>
      /\ UNCHANGED <<pid, scripts, crit, proc, home, abandoned>>
      /\ other' \in BOOLEAN
  BY DEF OtherServer, vars, userVars, dirVars, procVars, Inv, TypeOK
<1>2. TypeOK'
  BY <1>1 DEF Inv, TypeOK
<1>3. Directory' /\ Boots' /\ Tracked' /\ \A u \in Users : Stands(u)'
  BY <1>1 DEF Inv, Directory, Boots, Tracked, Listed, Alive, Stands
<1> QED BY <1>2, <1>3 DEF Inv

LEMMA NextInv == Inv /\ Alone /\ [Next]_vars => Inv'
<1> SUFFICES ASSUME Inv, Alone, [Next]_vars PROVE Inv'
  OBVIOUS
<1>1. ASSUME NEW u \in Users, Work(u) PROVE Inv'
  <2>1. Quiet(u) \/ ClearDirectory(u) \/ Script(u)
    BY <1>1 DEF Work, Quiet
  <2> QED BY <2>1, QuietInv, ClearDirectoryInv, StartScriptInv, PollInv, KillServerInv,
             RemovePidInv DEF Script
<1>2. ASSUME NEW u \in Users, Deploy(u) \/ Serve(u) \/ Stop(u) PROVE Inv'
  BY <1>2, CommandInv
<1>3. ASSUME NEW u \in Users, Interrupt(u) PROVE Inv'
  BY <1>3, QuietInv DEF Quiet
<1>4. ASSUME NEW p \in Procs, Boot(p) \/ Crash(p) PROVE Inv'
  BY <1>4, WritePidInv, LaterInv DEF Boot
<1>5. CASE OtherServer \/ UNCHANGED vars
  BY <1>5, StutterInv
<1> QED BY <1>1, <1>2, <1>3, <1>4, <1>5 DEF Next

(***************************************************************************)
(* The inductive invariant, while commands do not overlap.                 *)
(***************************************************************************)
THEOREM Invariant == Spec /\ []Alone => []Inv
<1>1. Init => Inv
  BY InitInv
<1>2. Inv /\ Alone /\ [Next]_vars => Inv'
  BY NextInv
<1> QED BY <1>1, <1>2, PTL DEF Spec

-----------------------------------------------------------------------------
(***************************************************************************)
(* While commands do not overlap, every server that got past its first     *)
(* step is the one that stop and ps find, or start_server.sh ended before  *)
(* it wrote the PID file.                                                  *)
(***************************************************************************)
THEOREM ServersTracked == Spec /\ []Alone => []Tracked
<1>1. Inv => Tracked
  BY DEF Inv
<1> QED BY <1>1, Invariant, PTL

\* Only its own step moves a command, and the place tells which.
LEMMA OwnStep ==
  ASSUME Inv, [Next]_vars, NEW u \in Users, pc'[u] # pc[u]
  PROVE  \/ pc[u] = "idle" /\ pc'[u] \in {"open", "kill", "refused"}
         \/ QuietMove(pc[u], pc'[u])
         \/ pc[u] = "clear" /\ pc'[u] = "prepare"
         \/ pc[u] = "start" /\ pc'[u] \in {"poll", "unlock"}
         \/ pc[u] = "poll" /\ pc'[u] \in {"kill", "unlock"} /\ Poll(u)
         \/ pc[u] = "kill" /\ KillServer(u)
         \/ pc[u] = "rm" /\ RemovePid(u)
<1>1. pc \in [Users -> Places]
  BY DEF Inv, TypeOK
<1>2. ASSUME NEW q \in Procs, Boot(q) \/ Crash(q) PROVE FALSE
  BY <1>2 DEF Boot, WritePid, CppMain, PyMain, Crash, Bind, Die, userVars
<1>3. ~(OtherServer \/ UNCHANGED vars)
  BY DEF OtherServer, vars, userVars
<1>4. ASSUME NEW v \in Users, Deploy(v) \/ Serve(v) \/ Stop(v)
      PROVE  pc[u] = "idle" /\ pc'[u] \in {"open", "kill", "refused"}
  BY <1>1, <1>4 DEF Deploy, Serve, Stop, Command, GoTo
<1>5. ASSUME NEW v \in Users, Quiet(v) PROVE QuietMove(pc[u], pc'[u])
  BY <1>5, QuietEffect
<1>6. ASSUME NEW v \in Users, ClearDirectory(v)
      PROVE  pc[u] = "clear" /\ pc'[u] = "prepare"
  BY <1>1, <1>6 DEF ClearDirectory, GoTo
<1>7. ASSUME NEW v \in Users, StartScript(v)
      PROVE  pc[u] = "start" /\ pc'[u] \in {"poll", "unlock"}
  BY <1>1, <1>7 DEF StartScript, GoTo, Fail
<1>8. ASSUME NEW v \in Users, Poll(v)
      PROVE  pc[u] = "poll" /\ pc'[u] \in {"kill", "unlock"} /\ Poll(u)
  BY <1>8, PollEffect
<1>9. ASSUME NEW v \in Users, KillServer(v) \/ RemovePid(v)
      PROVE  (pc[u] = "kill" /\ KillServer(u)) \/ (pc[u] = "rm" /\ RemovePid(u))
  BY <1>1, <1>9 DEF KillServer, RemovePid, GoTo
<1> QED BY <1>2, <1>3, <1>4, <1>5, <1>6, <1>7, <1>8, <1>9 DEF Next, Work, Script, Quiet

\* A script of a deployment that kills something kills what it launched.
LEMMA KillStep ==
  ASSUME Inv, [Next]_vars, NEW u \in Users, NEW p \in Procs,
         pc[u] = "kill", pc'[u] # "kill", cmd[u] # "stop", Alive(p), proc'[p] = "dead"
  PROVE  launched[u] = p
<1>1. home = {launched[u]} /\ (pid # None => pid \in home)
  BY DEF Inv, Stands, Directory
<1>2. proc \in [Procs -> {"unused", "boot", "init", "serving", "dead"}] /\ pc \in [Users -> Places]
  BY DEF Inv, TypeOK
<1>3. KillServer(u)
  BY OwnStep DEF QuietMove, Resting
<1>4. pid # None /\ p = pid
  BY <1>2, <1>3 DEF KillServer, Alive
<1> QED BY <1>1, <1>4

(***************************************************************************)
(* While commands do not overlap, a deployment that fails kills no server  *)
(* but its own.                                                            *)
(***************************************************************************)
THEOREM OnlyOwnKilled == Spec /\ []Alone => KillsOwn
<1>1. Inv /\ [Next]_vars => 
        \A u \in Users, p \in Procs :
          pc[u] = "kill" /\ pc'[u] # "kill" /\ cmd[u] # "stop" /\ Alive(p) /\ proc'[p] = "dead"
            => launched[u] = p
  BY KillStep
<1>2. Inv /\ [Next]_vars =>
       [\A u \in Users, p \in Procs :
          pc[u] = "kill" /\ pc'[u] # "kill" /\ cmd[u] # "stop" /\ Alive(p) /\ proc'[p] = "dead"
            => launched[u] = p]_vars
  BY <1>1
<1> QED BY <1>2, Invariant, PTL DEF Spec, KillsOwn

\* stop is over when nothing but a process that was given up is left.
LEMMA StopStep ==
  ASSUME Inv, [Next]_vars, NEW u \in Users,
         cmd[u] = "stop", pc[u] # "done", pc'[u] = "done"
  PROVE  pid' = None /\ \A p \in Procs : proc'[p] \in {"init", "serving"} => p \in abandoned
<1>1. pc \in [Users -> Places] /\ pc[u] \in {"idle", "kill", "rm", "refused"}
  BY DEF Inv, TypeOK, Stands
<1>2. KillServer(u) \/ RemovePid(u)
  BY <1>1, OwnStep DEF QuietMove, Resting
<1>3. CASE KillServer(u)
  <2>1. pid = None /\ pid' = None /\ proc' = proc
    BY <1>1, <1>3 DEF KillServer, GoTo, dirVars
  <2> QED BY <2>1, NoneAssumption DEF Inv, Tracked, Listed
<1>4. CASE RemovePid(u)
  <2>1. pid' = None /\ proc' = proc /\ proc[pid] = "dead"
    BY <1>4 DEF RemovePid, procVars, Inv, Stands
  <2> QED BY <2>1 DEF Inv, Tracked, Listed, Alive
<1> QED BY <1>2, <1>3, <1>4

(***************************************************************************)
(* While commands do not overlap, a stop that has succeeded has left no    *)
(* server of the name running, with the same exception.                    *)
(***************************************************************************)
THEOREM StopSucceeds == Spec /\ []Alone => StopStops
<1>1. Inv /\ [Next]_vars =>
        \A u \in Users : cmd[u] = "stop" /\ pc[u] # "done" /\ pc'[u] = "done" =>
          pid' = None /\ \A p \in Procs : proc'[p] \in {"init", "serving"} => p \in abandoned
  BY StopStep
<1>2. Inv /\ [Next]_vars =>
       [\A u \in Users : cmd[u] = "stop" /\ pc[u] # "done" /\ pc'[u] = "done" =>
          pid' = None /\ \A p \in Procs : proc'[p] \in {"init", "serving"} => p \in abandoned]_vars
  BY <1>1
<1> QED BY <1>2, Invariant, PTL DEF Spec, StopStops

\* The port that a script sees in use is that of its own server, of one that
\* was given up, or of a server of another name.
LEMMA SuccessStep ==
  ASSUME Inv, [Next]_vars, NEW u \in Users, pc[u] = "poll", pc'[u] = "unlock", ok'[u], ~other
  PROVE  \E p \in abandoned \union {launched[u]} : proc[p] = "serving"
<1>1. pc \in [Users -> Places] /\ ok \in [Users -> BOOLEAN] /\ home = {launched[u]}
  BY DEF Inv, TypeOK, Stands
<1>2. Poll(u)
  BY OwnStep DEF QuietMove, Resting
<1>3. PortUsed
  BY <1>1, <1>2 DEF Poll, Fail, GoTo
<1>4. PICK p \in Procs : proc[p] = "serving"
  BY <1>3 DEF PortUsed
<1>5. p \in abandoned \/ pid = p
  BY <1>4 DEF Inv, Tracked, Listed
<1>6. pid = p => p = launched[u]
  BY <1>1, NoneAssumption DEF Inv, Directory
<1> QED BY <1>4, <1>5, <1>6

(***************************************************************************)
(* While commands do not overlap, a deployment that reports success has    *)
(* seen a server of its own answer, unless a server it does not know of    *)
(* had the port.                                                           *)
(***************************************************************************)
THEOREM SuccessIsItsOwn == Spec /\ []Alone => SuccessIsOwn
<1>1. Inv /\ [Next]_vars =>
        \A u \in Users : pc[u] = "poll" /\ pc'[u] = "unlock" /\ ok'[u] =>
          other \/ \E p \in abandoned \union {launched[u]} : proc[p] = "serving"
  BY SuccessStep
<1>2. Inv /\ [Next]_vars =>
       [\A u \in Users : pc[u] = "poll" /\ pc'[u] = "unlock" /\ ok'[u] =>
          other \/ \E p \in abandoned \union {launched[u]} : proc[p] = "serving"]_vars
  BY <1>1
<1> QED BY <1>2, Invariant, PTL DEF Spec, SuccessIsOwn

=============================================================================
