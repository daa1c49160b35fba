--------------------------- MODULE DockerWorkspace ---------------------------
(***************************************************************************)
(* A DockerWorkspace and the Docker daemon: the container that commands    *)
(* run in is created and started on first use, restarted when a command    *)
(* times out, and removed by close.                                        *)
(*                                                                         *)
(* Each call of the docker command runs in a thread.  The caller may stop  *)
(* waiting for it: its timeout expires, or the task is cancelled by the    *)
(* deadline of the run or by Ctrl-C.  The daemon may then still do what    *)
(* was asked, at any later time.                                           *)
(***************************************************************************)
EXTENDS Integers, FiniteSets

CONSTANT Containers  \* the container ids the daemon hands out; bounds how many

ASSUME DockerAssumption == "none" \notin Containers

VARIABLES
  daemon,   \* the state of each container
  busy,     \* whether a command of the workspace runs in it
  id,       \* _container_id, or "none"
  started,  \* _started
  closed,   \* _closed
  goal,     \* the method that was called, or "none"
  pc,       \* what it awaits
  raising,  \* whether an exception is on its way out of the method
  leaving,  \* a method has raised, and its caller only closes from now on
  late,     \* docker calls that nobody waits for any more
  cut       \* history: the containers of the creates among them

there     == <<daemon, busy>>
workspace == <<id, started, closed>>
caller    == <<goal, pc, raising, leaving>>
vars      == <<daemon, busy, id, started, closed, goal, pc, raising, leaving, late, cut>>

States   == {"unused", "created", "running", "exited", "gone"}
Methods  == {"start", "execute", "stop", "remove", "close"}
Lifecycle == {"start", "restart", "kill", "stop", "rm"}
Awaits   == Lifecycle \cup {"create", "executing"}

Init ==
  /\ daemon = [c \in Containers |-> "unused"]
  /\ busy = [c \in Containers |-> FALSE]
  /\ id = "none" /\ started = FALSE /\ closed = FALSE
  /\ goal = "none" /\ pc = "idle" /\ raising = FALSE /\ leaving = FALSE
  /\ late = {} /\ cut = {}

Exists(c) == daemon[c] \in {"created", "running", "exited"}

-----------------------------------------------------------------------------
(* The daemon                                                              *)

\* The calls that the daemon does not refuse.
Accepts(op, c) ==
  CASE op \in {"start", "restart", "stop"} -> Exists(c)
    [] op = "kill" -> daemon[c] = "running"
    [] op = "rm" -> daemon[c] # "unused"

Becomes(op, c) ==
  CASE op \in {"start", "restart"} -> "running"
    [] op = "stop" -> IF daemon[c] = "running" THEN "exited" ELSE daemon[c]
    [] op = "kill" -> "exited"
    [] op = "rm" -> "gone"

Perform(op, c) ==
  /\ Accepts(op, c)
  /\ daemon' = [daemon EXCEPT ![c] = Becomes(op, c)]
  /\ busy' = [busy EXCEPT ![c] = IF op \in {"start", "restart"} THEN @ ELSE FALSE]

\* A call that nobody waits for is done, or fails.
LateEffect ==
  \E l \in late :
    /\ late' = late \ {l}
    /\ \/ l.op = "create" /\ daemon' = [daemon EXCEPT ![l.container] = "created"]
                          /\ UNCHANGED busy
       \/ l.op # "create" /\ Perform(l.op, l.container)
       \/ UNCHANGED there
    /\ UNCHANGED <<workspace, caller, cut>>

\* The command, with all it started, ends.
CommandEnds(c) ==
  /\ busy[c]
  /\ busy' = [busy EXCEPT ![c] = FALSE]
  /\ UNCHANGED <<daemon, workspace, caller, late, cut>>

\* The container stops by itself, of its memory limit for one.
ContainerDies(c) ==
  /\ daemon[c] = "running"
  /\ daemon' = [daemon EXCEPT ![c] = "exited"]
  /\ busy' = [busy EXCEPT ![c] = FALSE]
  /\ UNCHANGED <<workspace, caller, late, cut>>

-----------------------------------------------------------------------------
(* The methods                                                             *)

Await(what) == pc' = what /\ UNCHANGED <<goal, raising, leaving>>

Return ==
  /\ pc' = "idle" /\ goal' = "none" /\ raising' = FALSE
  /\ leaving' = (leaving \/ raising)

Raise == pc' = "idle" /\ goal' = "none" /\ raising' = FALSE /\ leaving' = TRUE

Call(method, what) ==
  /\ pc = "idle" /\ goal' = method /\ pc' = what
  /\ UNCHANGED <<raising, leaving>>

\* start, and execute with its start, when the container does not run yet.
CallStart(method) ==
  /\ ~closed /\ ~leaving /\ ~started
  /\ Call(method, IF id = "none" THEN "create" ELSE "start")
  /\ UNCHANGED <<there, workspace, late, cut>>

\* The command begins, unless the container has stopped.
Begins == [busy EXCEPT ![id] = daemon[id] = "running"]

CallExecute ==
  /\ ~closed /\ ~leaving /\ started
  /\ Call("execute", "executing")
  /\ busy' = Begins
  /\ UNCHANGED <<daemon, workspace, late, cut>>

CallStop ==
  /\ ~leaving /\ id # "none" /\ started
  /\ Call("stop", "stop")
  /\ UNCHANGED <<there, workspace, late, cut>>

CallRemove ==
  /\ ~leaving /\ id # "none"
  /\ Call("remove", "rm")
  /\ UNCHANGED <<there, workspace, late, cut>>

\* A mutant: a container that does not run is forgotten.
MutCallCloseOfStarted ==
  /\ ~closed
  /\ IF id = "none" \/ ~started
     THEN /\ pc = "idle" /\ closed' = TRUE
          /\ UNCHANGED <<id, started, caller>>
     ELSE Call("close", "stop") /\ UNCHANGED workspace
  /\ UNCHANGED <<there, late, cut>>

\* close stops and removes what there is.
CallClose ==
  /\ ~closed
  /\ IF id = "none"
     THEN /\ pc = "idle" /\ closed' = TRUE
          /\ UNCHANGED <<id, started, caller>>
     ELSE /\ Call("close", IF started THEN "stop" ELSE "rm")
          /\ UNCHANGED workspace
  /\ UNCHANGED <<there, late, cut>>

\* The daemon hands out an id that it never handed out.
Created ==
  /\ pc = "create"
  /\ \E c \in Containers :
       /\ daemon[c] = "unused" /\ c \notin cut
       /\ daemon' = [daemon EXCEPT ![c] = "created"]
       /\ id' = c
  /\ Await("start")
  /\ UNCHANGED <<busy, started, closed, late, cut>>

Started ==
  /\ pc = "start"
  /\ Perform("start", id)
  /\ started' = TRUE
  /\ IF goal = "execute" THEN Await("exec") ELSE Return
  /\ UNCHANGED <<id, closed, late, cut>>

RunCommand ==
  /\ pc = "exec"
  /\ busy' = Begins
  /\ Await("executing")
  /\ UNCHANGED <<daemon, workspace, late, cut>>

CommandReturns ==
  /\ pc = "executing" /\ ~busy[id]
  /\ Return
  /\ UNCHANGED <<there, workspace, late, cut>>

\* A mutant: the container is not restarted.
MutCommandExpiresOnly ==
  /\ pc = "executing"
  /\ Return
  /\ UNCHANGED <<there, workspace, late, cut>>

\* The command's timeout: the docker client is killed, and the command is not.
CommandExpires ==
  /\ pc = "executing"
  /\ Await("kill")
  /\ UNCHANGED <<there, workspace, late, cut>>

Killed ==
  /\ pc = "kill"
  /\ Perform("kill", id)
  /\ started' = FALSE
  /\ Await("restart")
  /\ UNCHANGED <<id, closed, late, cut>>

Restarted ==
  /\ pc = "restart"
  /\ Perform("restart", id)
  /\ started' = TRUE
  /\ Return
  /\ UNCHANGED <<id, closed, late, cut>>

\* stop, also as the first half of close.
Stopped ==
  /\ pc = "stop"
  /\ Perform("stop", id)
  /\ started' = FALSE
  /\ IF goal = "close" THEN Await("rm") ELSE Return
  /\ UNCHANGED <<id, closed, late, cut>>

\* A mutant: _started is not reset.
MutRemovedStarted ==
  /\ pc = "rm"
  /\ Perform("rm", id)
  /\ id' = "none" /\ closed' = (closed \/ goal = "close")
  /\ Return
  /\ UNCHANGED <<started, late, cut>>

\* remove, also as the end of close and of a failure.
Removed ==
  /\ pc = "rm"
  /\ Perform("rm", id)
  /\ id' = "none" /\ started' = FALSE
  /\ closed' = (closed \/ goal = "close")
  /\ Return
  /\ UNCHANGED <<late, cut>>

\* What a method does when an awaited call fails: close goes on to remove the
\* container; a container that neither starts nor dies is removed.
RaiseAfter(cleanup) ==
  IF \/ pc = "stop" /\ goal = "close"
     \/ cleanup /\ pc \in {"start", "kill", "restart"}
  THEN pc' = "rm" /\ raising' = TRUE /\ UNCHANGED <<goal, leaving>>
  ELSE Raise

\* A mutant: close counts as done although the container is still there.
MutRefused ==
  /\ pc \in Lifecycle \cup {"create"}
  /\ RaiseAfter(TRUE)
  /\ closed' = (closed \/ (goal = "close" /\ pc = "rm"))
  /\ UNCHANGED <<there, id, started, late, cut>>

\* The docker command returns nonzero.
Refused ==
  /\ pc \in Lifecycle \cup {"create"}
  /\ RaiseAfter(TRUE)
  /\ UNCHANGED <<there, workspace, late, cut>>

\* The caller waits no longer: TimeoutExpired after _LIFECYCLE_TIMEOUT, or the
\* task is cancelled.
GiveUp ==
  /\ \/ /\ pc \in Lifecycle
        /\ late' = late \cup {[op |-> pc, container |-> id]}
        /\ UNCHANGED cut
     \/ /\ pc = "create"
        /\ \E c \in Containers \ cut :
             /\ daemon[c] = "unused"
             /\ late' = late \cup {[op |-> "create", container |-> c]}
             /\ cut' = cut \cup {c}
  /\ RaiseAfter(FALSE)
  /\ UNCHANGED <<there, workspace>>

\* The task is cancelled while a command runs; the command goes on.
CancelCommand ==
  /\ pc = "executing"
  /\ Raise
  /\ UNCHANGED <<there, workspace, late, cut>>

Next ==
  \/ LateEffect
  \/ \E c \in Containers : CommandEnds(c) \/ ContainerDies(c)
  \/ \E method \in {"start", "execute"} : CallStart(method)
  \/ CallExecute \/ CallStop \/ CallRemove \/ CallClose
  \/ Created \/ Started \/ RunCommand \/ CommandReturns \/ CommandExpires
  \/ Killed \/ Restarted \/ Stopped \/ Removed
  \/ Refused \/ GiveUp \/ CancelCommand

Spec == Init /\ [][Next]_vars

-----------------------------------------------------------------------------
(* Properties                                                              *)

\* _started is only set with a container, a command runs only in a running
\* container, and only the creates that nobody waits for are counted as cut.
TypeOK ==
  /\ daemon \in [Containers -> States] /\ busy \in [Containers -> BOOLEAN]
  /\ id \in Containers \cup {"none"}
  /\ started \in BOOLEAN /\ closed \in BOOLEAN
  /\ goal \in Methods \cup {"none"} /\ pc \in Awaits \cup {"idle", "exec"}
  /\ raising \in BOOLEAN /\ leaving \in BOOLEAN
  /\ late \subseteq [op: Lifecycle \cup {"create"}, container: Containers]
  /\ cut \subseteq Containers
  /\ started => id # "none"
  /\ \A c \in Containers : busy[c] => daemon[c] = "running"

\* "Stop and remove the container": once close has succeeded nothing is left,
\* but for what a create made that its caller no longer waited for.
ClosedRemoved == closed => \A c \in Containers : Exists(c) => c \in cut

\* Whatever timed out, failed or was cancelled before, a closed workspace has
\* nothing that runs.
ClosedQuiet == closed => \A c \in Containers : daemon[c] # "running" /\ ~busy[c]

\* A workspace never has two containers, whatever fails between create, start
\* and remove; so all commands of a run share one file system and one limit.
OneContainer ==
  \A c, d \in Containers \ cut : Exists(c) /\ Exists(d) => c = d

\* test_docker_workspace_timeout_recovers_clean_container: no command begins
\* while one that timed out is still running.
CleanContainer ==
  [][\A c \in Containers : pc' = "executing" /\ pc # "executing" => ~busy[c]]_vars

=============================================================================
