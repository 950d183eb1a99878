------------------------------ MODULE Lifecycle ------------------------------
(***************************************************************************)
(* The life of one server name under ~/.grps: the grpst commands deploy,   *)
(* quick serve and stop, the scripts start_server.sh and stop_server.sh    *)
(* they run, and the server processes that the scripts launch.  What they  *)
(* share is the file system: the lock file, the working directory with the *)
(* scripts in it, and the PID file, which a server writes first of all and *)
(* which only stop_server.sh and the next deployment remove.               *)
(*                                                                         *)
(* A deployment runs in a forked child, and its parent waits for one byte  *)
(* from it; stop runs in the parent.  One name is modelled, on one port.   *)
(***************************************************************************)
EXTENDS Naturals, FiniteSets, FiniteSetsExt

CONSTANTS
  Users,     \* who runs commands; one runs one command at a time
  Procs,     \* bound on the server processes that are ever launched
  Inodes,    \* what the path of the lock file may lead to
  Timeout,   \* --timeout, in polls of start_server.sh
  GiveUp,    \* polls without a PID file after which the script gives up
  None

ASSUME LimitsAssumption == Timeout \in Nat /\ GiveUp \in Nat /\ GiveUp < Timeout
ASSUME InodesAssumption == IsFiniteSet(Inodes) /\ Cardinality(Inodes) > Cardinality(Users)
ASSUME NoneAssumption   == None \notin Procs \cup Inodes

VARIABLES
  parent,    \* whether the command's parent process waits
  cmd,       \* the command of each user
  pc,        \* where the process that does the work stands
  ok,        \* what it returns
  fd, locked,\* its descriptor of the lock file, and whether it holds the lock
  retry,     \* polls of its start_server.sh
  launched,  \* the process its start_server.sh launched
  path,      \* what the lock file's path leads to
  pid,       \* what the PID file says
  scripts,   \* whether the working directory holds an extracted project
  crit,      \* whether the log has a critical line newer than the start
  proc,      \* the server processes
  home,      \* those whose working directory has not been removed
  other,     \* whether a server of another name has the port
  abandoned  \* processes whose start_server.sh ended before they wrote a PID file

userVars == <<parent, cmd, pc, ok, fd, locked, retry, launched>>
dirVars  == <<path, pid, scripts, crit>>
procVars == <<proc, home, other, abandoned>>
vars     == <<userVars, dirVars, procVars>>

Init ==
  /\ parent = [u \in Users |-> "idle"] /\ cmd = [u \in Users |-> "stop"]
  /\ pc = [u \in Users |-> "idle"] /\ ok = [u \in Users |-> FALSE]
  /\ fd = [u \in Users |-> None] /\ locked = [u \in Users |-> FALSE]
  /\ retry = [u \in Users |-> 0] /\ launched = [u \in Users |-> None]
  /\ path = None /\ pid = None /\ scripts = FALSE /\ crit = FALSE
  /\ proc = [p \in Procs |-> "unused"] /\ home = {}
  /\ other = FALSE /\ abandoned = {}

Alive(p)  == proc[p] \in {"boot", "init", "serving"}
PortUsed  == other \/ \E p \in Procs : proc[p] = "serving"
GoTo(u, place) == pc' = [pc EXCEPT ![u] = place]
Fail(u, place) == GoTo(u, place) /\ ok' = [ok EXCEPT ![u] = FALSE]
-----------------------------------------------------------------------------
(***************************************************************************)
(* The commands begin.                                                     *)
(***************************************************************************)
\* Bound: a deployment begins only while there is a process for it to launch.
Spare ==
  Cardinality({p \in Procs : proc[p] = "unused"}) > Cardinality({v \in Users : pc[v] # "idle"})

Command(u, c, place) ==
  /\ parent[u] = "idle" /\ pc[u] = "idle"
  /\ parent' = [parent EXCEPT ![u] = "waiting"]
  /\ cmd' = [cmd EXCEPT ![u] = c] /\ ok' = [ok EXCEPT ![u] = TRUE]
  /\ GoTo(u, place)
  /\ UNCHANGED <<fd, locked, retry, launched, dirVars, procVars>>

Deploy(u) == Spare /\ Command(u, "deploy", "open")
Serve(u)  == Spare /\ Command(u, "serve", "open")

\* stop takes no lock, and needs the script of a deployed project.
Stop(u) == Command(u, "stop", IF scripts THEN "kill" ELSE "refused")

\* The parent reads the byte; a child that raised an exception wrote none, and
\* the parent's own copy of the pipe keeps the read from ending.
Return(u) ==
  /\ parent[u] = "waiting" /\ pc[u] \in {"done", "refused"}
  /\ parent' = [parent EXCEPT ![u] = "idle"] /\ GoTo(u, "idle")
  /\ UNCHANGED <<cmd, ok, fd, locked, retry, launched, dirVars, procVars>>

\* Ctrl-C: the parent returns, the child is in a session of its own and goes on.
Interrupt(u) ==
  /\ parent[u] = "waiting" /\ cmd[u] # "stop"
  /\ parent' = [parent EXCEPT ![u] = "idle"]
  /\ UNCHANGED <<cmd, pc, ok, fd, locked, retry, launched, dirVars, procVars>>

\* A child whose parent has returned ends.
EndAlone(u) ==
  /\ parent[u] = "idle" /\ pc[u] \in {"done", "refused", "raised"}
  /\ GoTo(u, "idle")
  /\ UNCHANGED <<parent, cmd, ok, fd, locked, retry, launched, dirVars, procVars>>
-----------------------------------------------------------------------------
(***************************************************************************)
(* The lock file.                                                          *)
(***************************************************************************)
Lockable(u) == \A v \in Users : locked[v] => fd[v] # fd[u]

\* open(file_path, 'w') in file_lock: the file is made if it is not there.
OpenLock(u) ==
  /\ pc[u] = "open" /\ GoTo(u, "lock")
  /\ path' = IF path # None THEN path
             ELSE CHOOSE i \in Inodes : \A v \in Users : fd[v] # i
  /\ fd' = [fd EXCEPT ![u] = path']
  /\ UNCHANGED <<parent, cmd, ok, locked, retry, launched, pid, scripts, crit, procVars>>

\* flock in file_lock; a command that does not get the lock ends.
TakeLock(u) ==
  /\ pc[u] = "lock"
  /\ IF Lockable(u)
     THEN GoTo(u, "check") /\ locked' = [locked EXCEPT ![u] = TRUE] /\ UNCHANGED <<ok, fd>>
     ELSE Fail(u, "done") /\ fd' = [fd EXCEPT ![u] = None] /\ UNCHANGED locked
  /\ UNCHANGED <<parent, cmd, retry, launched, dirVars, procVars>>

\* Mutant: the lock is kept.
KeepLock(u) ==
  /\ pc[u] = "unlock" /\ GoTo(u, "remove")
  /\ UNCHANGED <<parent, cmd, ok, fd, locked, retry, launched, dirVars, procVars>>

\* LOCK_UN and close in file_unlock ...
Unlock(u) ==
  /\ pc[u] = "unlock" /\ GoTo(u, "remove")
  /\ locked' = [locked EXCEPT ![u] = FALSE] /\ fd' = [fd EXCEPT ![u] = None]
  /\ UNCHANGED <<parent, cmd, ok, retry, launched, dirVars, procVars>>

\* ... and os.remove, which raises if another command removed the file.
RemoveLock(u) ==
  /\ pc[u] = "remove" /\ path' = None
  /\ GoTo(u, IF path = None THEN "raised" ELSE "done")
  /\ UNCHANGED <<parent, cmd, ok, fd, locked, retry, launched, pid, scripts, crit, procVars>>

\* An exception ends the child: the system closes its descriptors.
Raise(u) ==
  /\ GoTo(u, "raised")
  /\ fd' = [fd EXCEPT ![u] = None] /\ locked' = [locked EXCEPT ![u] = FALSE]
-----------------------------------------------------------------------------
(***************************************************************************)
(* The deployment up to the start of the server.                           *)
(***************************************************************************)
\* A missing mar file and a PID file end a deployment.
DeployCheck(u) ==
  /\ pc[u] = "check" /\ cmd[u] = "deploy"
  /\ \/ Fail(u, "unlock")
     \/ pid = None /\ GoTo(u, "clear") /\ UNCHANGED ok
  /\ UNCHANGED <<parent, cmd, fd, locked, retry, launched, dirVars, procVars>>

ServeCheck(u) ==
  /\ pc[u] = "check" /\ cmd[u] = "serve"
  /\ IF pid # None THEN Fail(u, "unlock") ELSE GoTo(u, "clear") /\ UNCHANGED ok
  /\ UNCHANGED <<parent, cmd, fd, locked, retry, launched, dirVars, procVars>>

\* Mutant: the files are removed and the directory is kept.
KeepDirectory(u) ==
  /\ pc[u] = "clear" /\ GoTo(u, "prepare")
  /\ pid' = None /\ scripts' = FALSE /\ crit' = FALSE
  /\ UNCHANGED <<parent, cmd, ok, fd, locked, retry, launched, path, procVars>>

\* rmtree and makedirs: whoever runs in the old directory has lost it.
ClearDirectory(u) ==
  /\ pc[u] = "clear" /\ GoTo(u, "prepare")
  /\ pid' = None /\ scripts' = FALSE /\ crit' = FALSE /\ home' = {}
  /\ UNCHANGED <<parent, cmd, ok, fd, locked, retry, launched, path, proc, other, abandoned>>

\* Extracting the mar file and merging the confs: accepted, refused, or a file
\* that cannot be read, which raises before or after the extraction.
DeployPrepare(u) ==
  /\ pc[u] = "prepare" /\ cmd[u] = "deploy"
  /\ \/ GoTo(u, "start") /\ scripts' = TRUE /\ UNCHANGED <<ok, fd, locked>>
     \/ Fail(u, "unlock") /\ scripts' = TRUE /\ UNCHANGED <<fd, locked>>
     \/ Raise(u) /\ scripts' \in BOOLEAN /\ UNCHANGED ok
  /\ UNCHANGED <<parent, cmd, retry, launched, path, pid, crit, procVars>>

\* The built-in project may not be installed, and its generated confs may be
\* refused.
ServePrepare(u) ==
  /\ pc[u] = "prepare" /\ cmd[u] = "serve"
  /\ \/ GoTo(u, "archive") /\ scripts' = TRUE /\ UNCHANGED <<ok, fd, locked>>
     \/ Fail(u, "unlock") /\ scripts' \in BOOLEAN /\ UNCHANGED <<fd, locked>>
     \/ Raise(u) /\ scripts' \in BOOLEAN /\ UNCHANGED ok
  /\ UNCHANGED <<parent, cmd, retry, launched, path, pid, crit, procVars>>

\* --output_path: refused when the path exists.
ServeArchive(u) ==
  /\ pc[u] = "archive"
  /\ \/ GoTo(u, "start") /\ UNCHANGED ok
     \/ Fail(u, "unlock")
  /\ UNCHANGED <<parent, cmd, fd, locked, retry, launched, dirVars, procVars>>
-----------------------------------------------------------------------------
(***************************************************************************)
(* start_server.sh and stop_server.sh.                                     *)
(***************************************************************************)
\* A recorded live server counts as started; a used port is refused;
\* otherwise the server is launched in the background.
StartScript(u) ==
  /\ pc[u] = "start"
  /\ IF pid # None /\ Alive(pid)
     THEN GoTo(u, "unlock") /\ UNCHANGED <<ok, retry, launched, pid, crit, proc, home>>
     ELSE
       /\ pid' = None
       /\ IF PortUsed \/ ~scripts
          THEN Fail(u, "unlock") /\ UNCHANGED <<retry, launched, crit, proc, home>>
          ELSE \E p \in {q \in Procs : proc[q] = "unused"} :
            /\ proc' = [proc EXCEPT ![p] = "boot"] /\ home' = home \union {p}
            /\ launched' = [launched EXCEPT ![u] = p]
            /\ retry' = [retry EXCEPT ![u] = 0] /\ crit' = FALSE
            /\ GoTo(u, "poll") /\ UNCHANGED ok
  /\ UNCHANGED <<parent, cmd, fd, locked, path, scripts, other, abandoned>>

\* Mutant: a PID file is enough.
PollPid(u) ==
  /\ pc[u] = "poll" /\ pid # None /\ GoTo(u, "unlock")
  /\ UNCHANGED <<parent, cmd, ok, fd, locked, retry, launched, dirVars, procVars>>

\* One round of the script's loop, in the order of its tests.  A server on the
\* port may answer the health check with 200; curl may as well give up after
\* its second, or be told something else, and the script tries again.
Poll(u) ==
  LET failed == crit \/ (pid # None /\ ~Alive(pid))
      noPid  == ~failed /\ pid = None /\ retry[u] >= GiveUp
      wait   == ~failed /\ ~noPid
  IN
  /\ pc[u] = "poll"
  /\ \/ failed /\ Fail(u, "kill") /\ UNCHANGED retry
     \/ noPid /\ Fail(u, "unlock") /\ UNCHANGED retry
     \/ ~failed /\ ~noPid /\ PortUsed /\ GoTo(u, "unlock") /\ UNCHANGED <<ok, retry>>
     \/ wait /\ retry[u] < Timeout /\ retry' = [retry EXCEPT ![u] = @ + 1] /\ UNCHANGED <<pc, ok>>
     \/ wait /\ retry[u] >= Timeout /\ Fail(u, "kill") /\ UNCHANGED retry
  /\ abandoned' = IF pc'[u] = "unlock" /\ pid = None THEN abandoned \union {launched[u]} ELSE abandoned
  /\ UNCHANGED <<parent, cmd, fd, locked, launched, dirVars, proc, home, other>>

\* Where stop_server.sh returns to.
AfterStop(u) == IF cmd[u] = "stop" THEN "done" ELSE "unlock"

\* Mutant: the PID file is removed and the process left alone.
KillNothing(u) ==
  /\ pc[u] = "kill" /\ GoTo(u, IF pid = None THEN AfterStop(u) ELSE "rm")
  /\ UNCHANGED <<parent, cmd, ok, fd, locked, retry, launched, dirVars, procVars>>

\* kill -9 of what the PID file names; nothing to do without one.
KillServer(u) ==
  /\ pc[u] = "kill" /\ GoTo(u, IF pid = None THEN AfterStop(u) ELSE "rm")
  /\ proc' = IF pid = None THEN proc ELSE [proc EXCEPT ![pid] = "dead"]
  /\ UNCHANGED <<parent, cmd, ok, fd, locked, retry, launched, dirVars, home, other, abandoned>>

RemovePid(u) ==
  /\ pc[u] = "rm" /\ GoTo(u, AfterStop(u)) /\ pid' = None
  /\ UNCHANGED <<parent, cmd, ok, fd, locked, retry, launched, path, scripts, crit, procVars>>
-----------------------------------------------------------------------------
(***************************************************************************)
(* The server processes.                                                   *)
(***************************************************************************)
\* Mutant: the PID file is written once the server is ready.
WriteLate(p) ==
  /\ proc[p] = "boot" /\ proc' = [proc EXCEPT ![p] = "init"]
  /\ UNCHANGED <<userVars, dirVars, home, other, abandoned>>

\* The first thing main does; the file cannot be opened in a removed directory.
WritePid(p) ==
  /\ proc[p] = "boot"
  /\ IF p \in home
     THEN pid' = p /\ proc' = [proc EXCEPT ![p] = "init"]
     ELSE proc' = [proc EXCEPT ![p] = "dead"] /\ UNCHANGED pid
  /\ UNCHANGED <<userVars, path, scripts, crit, home, other, abandoned>>

\* The server dies; a critical line reaches the log of its own directory.
Die(p, logged) ==
  /\ proc' = [proc EXCEPT ![p] = "dead"]
  /\ crit' = (crit \/ (logged /\ p \in home))
  /\ UNCHANGED <<userVars, path, pid, scripts, home, other, abandoned>>

Bind(p) ==
  /\ ~PortUsed /\ proc' = [proc EXCEPT ![p] = "serving"]
  /\ UNCHANGED <<userVars, dirVars, home, other, abandoned>>

\* Each step of main after the PID file may fail: the C++ confs without a
\* line in the log, the rest with one; the HTTP server comes last.
CppMain(p) ==
  proc[p] = "init" /\ (Bind(p) \/ \E logged \in BOOLEAN : Die(p, logged))

PyMain(p) ==
  proc[p] = "init" /\ (Bind(p) \/ Die(p, TRUE))

Crash(p) == proc[p] = "serving" /\ Die(p, FALSE)

\* A server of another name takes the port, or gives it back.
OtherServer ==
  /\ (other \/ ~PortUsed) /\ other' = ~other
  /\ UNCHANGED <<userVars, dirVars, proc, home, abandoned>>

\* What grpst ps lists: the process of the PID file, while it lives.
Listed(p) == pid = p /\ Alive(p)
-----------------------------------------------------------------------------
Script(u) ==
  StartScript(u) \/ Poll(u) \/ KillServer(u) \/ RemovePid(u)

Work(u) ==
  \/ OpenLock(u) \/ TakeLock(u) \/ DeployCheck(u) \/ ServeCheck(u)
  \/ ClearDirectory(u) \/ DeployPrepare(u) \/ ServePrepare(u) \/ ServeArchive(u)
  \/ Script(u) \/ Unlock(u) \/ RemoveLock(u) \/ Return(u) \/ EndAlone(u)

Boot(p) == WritePid(p) \/ CppMain(p) \/ PyMain(p)

Next ==
  \/ \E u \in Users : Work(u) \/ Deploy(u) \/ Serve(u) \/ Stop(u) \/ Interrupt(u)
  \/ \E p \in Procs : Boot(p) \/ Crash(p)
  \/ OtherServer

Fairness == \A u \in Users : WF_vars(Work(u))
Spec == Init /\ [][Next]_vars /\ Fairness
-----------------------------------------------------------------------------
(***************************************************************************)
(* Properties.                                                             *)
(***************************************************************************)
\* A server that got past its first step is the one in the PID file, where stop
\* and ps look for it, unless start_server.sh ended before it wrote the file:
\* given up on, or taken for the other server that answered on its port.
\* Holds while the commands of one user do not overlap.
Tracked == \A p \in Procs : proc[p] \in {"init", "serving"} => Listed(p) \/ p \in abandoned

\* Two deployments of one name never work in its directory at once.
DeploymentsExclude == \A u, v \in Users : locked[u] /\ locked[v] => u = v

\* When stop has succeeded, no server of the name runs and the name is free
\* for the next deployment, with the same exception.
StopStops ==
  [][\A u \in Users : cmd[u] = "stop" /\ pc[u] # "done" /\ pc'[u] = "done" =>
       pid' = None /\ \A p \in Procs : proc'[p] \in {"init", "serving"} => p \in abandoned]_vars

\* A deployment that reports success has seen the server it launched answer,
\* unless a server it does not know of had the port meanwhile.
SuccessIsOwn ==
  [][\A u \in Users : pc[u] = "poll" /\ pc'[u] = "unlock" /\ ok'[u] =>
       other \/ \E p \in abandoned \union {launched[u]} : proc[p] = "serving"]_vars

\* The script of a deployment that fails kills no server but its own.
KillsOwn ==
  [][\A u \in Users, p \in Procs :
       pc[u] = "kill" /\ pc'[u] # "kill" /\ cmd[u] # "stop" /\ Alive(p) /\ proc'[p] = "dead"
         => launched[u] = p]_vars

\* Every command ends and gives the lock back, whatever its server does;
\* only a child that raised an exception leaves its parent waiting.
CommandEnds ==
  \A u \in Users :
    /\ parent[u] = "waiting" ~> parent[u] = "idle" \/ pc[u] = "raised"
    /\ locked[u] ~> ~locked[u]
=============================================================================
