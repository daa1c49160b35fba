------------------------ MODULE DockerWorkspaceProofs ------------------------
(***************************************************************************)
(* For any containers, failures, expired waits and cancellations: what a   *)
(* closed workspace leaves behind, and what a command may find running.    *)
(***************************************************************************)
EXTENDS DockerWorkspace, TLAPS

\* The workspace knows every container, but for those of a cut create; these
\* are never started.  A call that is late was made for a known container.
OwnInv ==
  /\ \A c \in Containers : Exists(c) => c = id \/ c \in cut
  /\ \A c \in cut : c # id /\ daemon[c] \in {"unused", "created"}
  /\ id # "none" => daemon[id] # "unused"
  /\ \A l \in late : IF l.op = "create" THEN l.container \in cut
                     ELSE l.container \notin cut /\ daemon[l.container] # "unused"

\* When there is a container, and what a caller that has seen an exception does.
PcInv ==
  /\ pc = "create" => id = "none"
  /\ pc \in Lifecycle \cup {"exec", "executing"} => id # "none"
  /\ closed => id = "none" /\ pc = "idle"
  /\ leaving => pc \in {"idle", "stop", "rm"}

\* Where the next command of the workspace may be about to begin, none runs.
CalmInv ==
  ~leaving /\ pc \in {"idle", "create", "start", "exec", "restart"} /\ id # "none"
    => ~busy[id]

IInv == TypeOK /\ OwnInv /\ PcInv /\ CalmInv

\* Only the workspace's own container has a command in it.
LEMMA BusyIsOwn ==
  ASSUME TypeOK, OwnInv, NEW c \in Containers, busy[c]
  PROVE  c = id
BY DEF TypeOK, OwnInv, Exists

-----------------------------------------------------------------------------
(* What the docker calls do                                                *)

\* An accepted call gives its container a state that fits the call.
LEMMA PerformType ==
  ASSUME TypeOK, NEW op \in Lifecycle, NEW c \in Containers, Perform(op, c)
  PROVE  /\ daemon' \in [Containers -> States]
         /\ busy' \in [Containers -> BOOLEAN]
         /\ \A d \in Containers : busy'[d] => busy[d] /\ daemon'[d] = "running"
         /\ \A d \in Containers : d # c => daemon'[d] = daemon[d] /\ busy'[d] = busy[d]
         /\ daemon[c] # "unused" /\ daemon'[c] # "unused"
         /\ op \in {"stop", "kill", "rm"} => ~busy'[c]
         /\ op = "rm" => daemon'[c] = "gone"
         /\ daemon'[c] \in {"created", "running", "exited"} => Exists(c)
<1> USE DEF Perform
<1>1. Accepts(op, c) /\ daemon' = [daemon EXCEPT ![c] = Becomes(op, c)]
  OBVIOUS
<1>2. CASE op \in {"start", "restart"}
  BY <1>1, <1>2 DEF TypeOK, Accepts, Becomes, Exists, States
<1>3. CASE op = "stop"
  BY <1>1, <1>3 DEF TypeOK, Accepts, Becomes, Exists, States
<1>4. CASE op = "kill"
  BY <1>1, <1>4 DEF TypeOK, Accepts, Becomes, Exists, States
<1>5. CASE op = "rm"
  <2>1. Becomes(op, c) = "gone" /\ daemon[c] # "unused"
    BY <1>1, <1>5 DEF Accepts, Becomes
  <2> QED BY <1>1, <1>5, <2>1 DEF TypeOK, Exists, States
<1> QED BY <1>2, <1>3, <1>4, <1>5 DEF Lifecycle

\* A call leaves the invariant's part about ownership in place, and adds no
\* command; so does it when the workspace forgets a container that is gone.
LEMMA PerformOwn ==
  ASSUME TypeOK, OwnInv, NEW op \in Lifecycle, NEW c \in Containers, c \notin cut,
         Perform(op, c), cut' = cut, late' \subseteq late,
         id' = id \/ (id' = "none" /\ op = "rm" /\ c = id)
  PROVE  OwnInv'
<1>1. /\ \A d \in Containers : d # c => daemon'[d] = daemon[d]
      /\ daemon[c] # "unused" /\ daemon'[c] # "unused"
      /\ op = "rm" => daemon'[c] = "gone"
      /\ daemon'[c] \in {"created", "running", "exited"} => Exists(c)
  BY PerformType
<1>2. \A d \in Containers : Exists(d)' => d = id' \/ d \in cut'
  BY <1>1, DockerAssumption DEF OwnInv, Exists
<1>3. \A d \in cut' : d # id' /\ daemon'[d] \in {"unused", "created"}
  BY <1>1, DockerAssumption DEF OwnInv, TypeOK
<1>4. id' # "none" => daemon'[id'] # "unused"
  BY <1>1 DEF OwnInv, TypeOK
<1>5. \A l \in late' : IF l.op = "create" THEN l.container \in cut'
                       ELSE l.container \notin cut' /\ daemon'[l.container] # "unused"
  <2> SUFFICES ASSUME NEW l \in late'
               PROVE  IF l.op = "create" THEN l.container \in cut'
                      ELSE l.container \notin cut' /\ daemon'[l.container] # "unused"
    OBVIOUS
  <2>1. l \in late /\ l.container \in Containers
    BY DEF TypeOK
  <2> QED BY <1>1, <2>1 DEF OwnInv
<1> QED BY <1>2, <1>3, <1>4, <1>5 DEF OwnInv

\* The awaited calls are about the workspace's own container.
LEMMA OwnCall ==
  ASSUME TypeOK, OwnInv, PcInv, pc \in Lifecycle
  PROVE  id \in Containers /\ id \notin cut
BY DEF TypeOK, OwnInv, PcInv

-----------------------------------------------------------------------------
(* The invariant                                                           *)

\* Nothing exists at the start.
LEMMA InitInvariant == Init => IInv
BY DockerAssumption DEF Init, IInv, TypeOK, OwnInv, PcInv, CalmInv, States, Methods, Awaits,
   Lifecycle, Exists

\* What becomes of the containers when nothing is created or forgotten.
LEMMA SameOwn ==
  ASSUME TypeOK, OwnInv, daemon' = daemon, id' = id, cut' = cut, late' = late
  PROVE  OwnInv'
BY DEF OwnInv, Exists

\* Removing the container ends the method; so it does for close.
LEMMA RemovedStep ==
  ASSUME IInv, Removed
  PROVE  IInv'
<1> USE DEF IInv
<1>1. /\ pc = "rm" /\ Perform("rm", id) /\ id' = "none" /\ started' = FALSE
      /\ closed' = (closed \/ goal = "close")
      /\ pc' = "idle" /\ goal' = "none" /\ raising' = FALSE /\ leaving' = (leaving \/ raising)
      /\ late' = late /\ cut' = cut
  BY DEF Removed, Return
<1>2. id \in Containers /\ id \notin cut
  BY <1>1, OwnCall DEF Lifecycle
<1>3. /\ daemon' \in [Containers -> States] /\ busy' \in [Containers -> BOOLEAN]
      /\ \A d \in Containers : busy'[d] => daemon'[d] = "running"
  BY <1>1, <1>2, PerformType DEF Lifecycle
<1>4. TypeOK'
  BY <1>1, <1>3 DEF TypeOK
<1>5. OwnInv'
  BY <1>1, <1>2, PerformOwn DEF Lifecycle
<1>6. PcInv' /\ CalmInv'
  BY <1>1 DEF PcInv, CalmInv, TypeOK, Lifecycle
<1> QED BY <1>4, <1>5, <1>6

\* An accepted start, kill or stop.
LEMMA PerformedStep ==
  ASSUME IInv, Started \/ Killed \/ Restarted \/ Stopped
  PROVE  IInv'
<1> USE DEF IInv
<1>1. PICK op \in Lifecycle :
        /\ op = pc /\ op # "rm" /\ Perform(op, id)
        /\ id' = id /\ closed' = closed /\ late' = late /\ cut' = cut
        /\ started' = TRUE \/ started' = FALSE
        /\ goal' = goal \/ goal' = "none"
        /\ raising' = raising \/ raising' = FALSE
        /\ leaving' = leaving \/ leaving' = (leaving \/ raising)
        /\ \/ op = "start" /\ pc' \in {"exec", "idle"}
           \/ op = "kill" /\ pc' = "restart" /\ leaving' = leaving
           \/ op = "restart" /\ pc' = "idle"
           \/ op = "stop" /\ pc' \in {"rm", "idle"}
        /\ pc' = "exec" => leaving' = leaving
  <2>1. CASE Started
    BY <2>1 DEF Started, Await, Return, Lifecycle
  <2>2. CASE Killed
    BY <2>2 DEF Killed, Await, Lifecycle
  <2>3. CASE Restarted
    BY <2>3 DEF Restarted, Return, Lifecycle
  <2>4. CASE Stopped
    BY <2>4 DEF Stopped, Await, Return, Lifecycle
  <2> QED BY <2>1, <2>2, <2>3, <2>4
<1>2. id \in Containers /\ id \notin cut
  BY <1>1, OwnCall
<1>3. /\ daemon' \in [Containers -> States] /\ busy' \in [Containers -> BOOLEAN]
      /\ \A d \in Containers : busy'[d] => busy[d] /\ daemon'[d] = "running"
      /\ op \in {"stop", "kill", "rm"} => ~busy'[id]
  BY <1>1, <1>2, PerformType
<1>4. TypeOK'
  BY <1>1, <1>2, <1>3, DockerAssumption DEF TypeOK, Awaits, Lifecycle
<1>5. OwnInv'
  BY <1>1, <1>2, PerformOwn
<1>6. PcInv'
  BY <1>1, <1>2, DockerAssumption DEF PcInv, Lifecycle, TypeOK
<1>7. CalmInv'
  BY <1>1, <1>2, <1>3 DEF CalmInv, PcInv, Lifecycle, TypeOK
<1> QED BY <1>4, <1>5, <1>6, <1>7

\* The wait for a call ends without an answer, or with a refusal.
LEMMA FailedStep ==
  ASSUME IInv, Refused \/ GiveUp \/ CancelCommand
  PROVE  IInv'
<1> USE DEF IInv
<1>1. /\ daemon' = daemon /\ busy' = busy /\ id' = id /\ started' = started /\ closed' = closed
      /\ pc \in Lifecycle \cup {"create", "executing"}
  BY DEF Refused, GiveUp, CancelCommand, there, workspace
<1>2. /\ \/ /\ pc \in {"start", "kill", "restart", "stop"} /\ pc' = "rm"
            /\ raising' = TRUE /\ goal' = goal /\ leaving' = leaving
         \/ pc' = "idle" /\ goal' = "none" /\ raising' = FALSE /\ leaving' = TRUE
  BY DEF Refused, GiveUp, CancelCommand, RaiseAfter, Raise
<1>3. \/ late' = late /\ cut' = cut
      \/ /\ pc \in Lifecycle
         /\ late' = late \cup {[op |-> pc, container |-> id]} /\ cut' = cut
      \/ \E c \in Containers \ cut :
           /\ daemon[c] = "unused" /\ cut' = cut \cup {c}
           /\ late' = late \cup {[op |-> "create", container |-> c]}
  BY DEF Refused, GiveUp, CancelCommand
<1>4. TypeOK'
  <2>1. late' \subseteq [op: Lifecycle \cup {"create"}, container: Containers] /\ cut' \subseteq Containers
    BY <1>3, OwnCall DEF TypeOK
  <2> QED BY <1>1, <1>2, <2>1 DEF TypeOK, Awaits, Lifecycle
<1>5. OwnInv'
  <2>1. CASE late' = late /\ cut' = cut
    BY <1>1, <2>1, SameOwn
  <2>2. CASE /\ pc \in Lifecycle /\ cut' = cut
             /\ late' = late \cup {[op |-> pc, container |-> id]}
    <3>1. id \in Containers /\ id \notin cut /\ daemon[id] # "unused" /\ pc # "create"
      BY <2>2, OwnCall, DockerAssumption DEF OwnInv, Lifecycle
    <3> QED BY <1>1, <2>2, <3>1 DEF OwnInv, Exists
  <2>3. ASSUME NEW c \in Containers, c \notin cut, daemon[c] = "unused",
               cut' = cut \cup {c}, late' = late \cup {[op |-> "create", container |-> c]}
        PROVE  OwnInv'
    <3>1. c # id
      BY <2>3, DockerAssumption DEF OwnInv
    <3> QED BY <1>1, <2>3, <3>1 DEF OwnInv, Exists
  <2> QED BY <1>3, <2>1, <2>2, <2>3
<1>6. PcInv'
  BY <1>1, <1>2 DEF PcInv, Lifecycle
<1>7. CalmInv'
  BY <1>1, <1>2 DEF CalmInv, TypeOK
<1> QED BY <1>4, <1>5, <1>6, <1>7

\* The daemon by itself, late calls included: commands only end.
LEMMA DaemonStep ==
  ASSUME IInv, LateEffect \/ \E c \in Containers : CommandEnds(c) \/ ContainerDies(c)
  PROVE  IInv'
<1> USE DEF IInv
<1>1. /\ id' = id /\ started' = started /\ closed' = closed
      /\ goal' = goal /\ pc' = pc /\ raising' = raising /\ leaving' = leaving
      /\ cut' = cut /\ late' \subseteq late
  BY DEF LateEffect, CommandEnds, ContainerDies, workspace, caller
<1>2. PcInv'
  BY <1>1 DEF PcInv
<1>3. SUFFICES /\ daemon' \in [Containers -> States] /\ busy' \in [Containers -> BOOLEAN]
               /\ \A d \in Containers : busy'[d] => busy[d] /\ daemon'[d] = "running"
               /\ OwnInv'
  <2>1. ASSUME busy' \in [Containers -> BOOLEAN], \A d \in Containers : busy'[d] => busy[d]
        PROVE  CalmInv'
    BY <1>1, <2>1 DEF CalmInv, TypeOK
  <2>2. ASSUME daemon' \in [Containers -> States], busy' \in [Containers -> BOOLEAN],
               \A d \in Containers : busy'[d] => daemon'[d] = "running"
        PROVE  TypeOK'
    BY <1>1, <2>2 DEF TypeOK
  <2> QED BY <1>2, <2>1, <2>2
<1>4. CASE \E c \in Containers : CommandEnds(c) \/ ContainerDies(c)
  <2>1. PICK c \in Containers :
          /\ late' = late /\ busy' = [busy EXCEPT ![c] = FALSE]
          /\ \/ daemon' = daemon
             \/ daemon[c] = "running" /\ daemon' = [daemon EXCEPT ![c] = "exited"]
    BY <1>4 DEF CommandEnds, ContainerDies
  <2>2. /\ daemon' \in [Containers -> States] /\ busy' \in [Containers -> BOOLEAN]
        /\ \A d \in Containers : busy'[d] => busy[d] /\ daemon'[d] = "running"
    BY <2>1 DEF TypeOK, States
  <2>3. OwnInv'
    BY <1>1, <2>1, DockerAssumption DEF OwnInv, Exists, TypeOK
  <2> QED BY <2>2, <2>3
<1>5. CASE LateEffect
  <2>1. PICK l \in late :
          /\ late' = late \ {l}
          /\ \/ /\ l.op = "create" /\ daemon' = [daemon EXCEPT ![l.container] = "created"]
                /\ busy' = busy
             \/ l.op # "create" /\ Perform(l.op, l.container)
             \/ daemon' = daemon /\ busy' = busy
    BY <1>5 DEF LateEffect, there
  <2>2. l.container \in Containers /\ l.op \in Lifecycle \cup {"create"}
    BY DEF TypeOK
  <2>3. CASE daemon' = daemon /\ busy' = busy
    <3>1. OwnInv'
      BY <1>1, <2>1, <2>3 DEF OwnInv, Exists
    <3> QED BY <2>3, <3>1 DEF TypeOK
  <2>4. CASE /\ l.op = "create" /\ daemon' = [daemon EXCEPT ![l.container] = "created"]
             /\ busy' = busy
    <3>1. l.container \in cut /\ l.container # id /\ daemon[l.container] # "running"
      BY <2>4 DEF OwnInv
    <3>2. /\ daemon' \in [Containers -> States] /\ busy' \in [Containers -> BOOLEAN]
          /\ \A d \in Containers : busy'[d] => busy[d] /\ daemon'[d] = "running"
      BY <2>2, <2>4, <3>1 DEF TypeOK, States
    <3>3. OwnInv'
      BY <1>1, <2>1, <2>2, <2>4, <3>1 DEF OwnInv, Exists, TypeOK
    <3> QED BY <3>2, <3>3
  <2>5. CASE l.op # "create" /\ Perform(l.op, l.container)
    <3>1. l.op \in Lifecycle /\ l.container \notin cut
      BY <2>2, <2>5 DEF OwnInv
    <3>2. OwnInv'
      BY <1>1, <2>2, <2>5, <3>1, PerformOwn
    <3> QED BY <2>2, <2>5, <3>1, <3>2, PerformType
  <2> QED BY <2>1, <2>3, <2>4, <2>5
<1> QED BY <1>4, <1>5

\* A method is called, or a command begins or ends.
LEMMA CallStep ==
  ASSUME IInv,
         \/ \E method \in {"start", "execute"} : CallStart(method)
         \/ CallExecute \/ CallStop \/ CallRemove \/ CallClose
         \/ RunCommand \/ CommandReturns \/ CommandExpires
  PROVE  IInv'
<1> USE DEF IInv
<1>1. daemon' = daemon /\ id' = id /\ started' = started /\ cut' = cut /\ late' = late
  BY DEF CallStart, CallExecute, CallStop, CallRemove, CallClose, RunCommand, CommandReturns,
     CommandExpires, there, workspace
<1>2. OwnInv'
  BY <1>1, SameOwn
<1>3. CASE CallExecute \/ RunCommand
  <2>1. /\ busy' = [busy EXCEPT ![id] = daemon[id] = "running"] /\ closed' = closed
        /\ pc' = "executing" /\ leaving' = leaving /\ raising' = raising
        /\ goal' \in {goal, "execute"} /\ id # "none" /\ ~closed /\ ~leaving
    BY <1>3, DockerAssumption DEF CallExecute, RunCommand, Call, Await, Begins, workspace, TypeOK, PcInv
  <2>2. id \in Containers
    BY <2>1 DEF TypeOK
  <2>3. TypeOK'
    BY <1>1, <2>1, <2>2 DEF TypeOK, Awaits, Methods
  <2> QED BY <1>1, <1>2, <2>1, <2>3 DEF PcInv, CalmInv
<1>4. CASE CommandReturns \/ CommandExpires
  <2>1. /\ busy' = busy /\ closed' = closed /\ pc = "executing"
        /\ \/ pc' = "kill" /\ goal' = goal /\ raising' = raising /\ leaving' = leaving
           \/ ~busy[id] /\ pc' = "idle" /\ goal' = "none" /\ raising' = FALSE
              /\ leaving' = (leaving \/ raising)
    BY <1>4 DEF CommandReturns, CommandExpires, there, workspace, Await, Return
  <2>2. TypeOK'
    BY <1>1, <2>1 DEF TypeOK, Awaits, Lifecycle
  <2> QED BY <1>1, <1>2, <2>1, <2>2 DEF PcInv, CalmInv, Lifecycle
<1>5. CASE CallClose /\ id = "none"
  <2>1. /\ busy' = busy /\ pc = "idle" /\ pc' = pc /\ goal' = goal /\ closed' = TRUE
        /\ raising' = raising /\ leaving' = leaving
    BY <1>5 DEF CallClose, there, caller
  <2> QED BY <1>1, <1>2, <1>5, <2>1 DEF TypeOK, PcInv, CalmInv, Lifecycle
<1>6. CASE \/ \E method \in {"start", "execute"} : CallStart(method)
           \/ CallStop \/ CallRemove \/ (CallClose /\ id # "none")
  <2>1. /\ busy' = busy /\ closed' = closed /\ pc = "idle"
        /\ goal' \in Methods /\ raising' = raising /\ leaving' = leaving
        /\ \/ id = "none" /\ pc' = "create" /\ ~closed /\ ~leaving
           \/ id # "none" /\ pc' = "start" /\ ~closed /\ ~leaving
           \/ id # "none" /\ pc' \in {"stop", "rm"}
    BY <1>6 DEF CallStart, CallStop, CallRemove, CallClose, Call, there, workspace, Methods
  <2>2. TypeOK'
    BY <1>1, <2>1 DEF TypeOK, Awaits, Lifecycle
  <2> QED BY <1>1, <1>2, <2>1, <2>2 DEF PcInv, CalmInv, Lifecycle
<1> QED BY <1>3, <1>4, <1>5, <1>6

\* A new container becomes the workspace's own.
LEMMA CreatedStep ==
  ASSUME IInv, Created
  PROVE  IInv'
<1> USE DEF IInv
<1>1. PICK c \in Containers :
        /\ pc = "create" /\ daemon[c] = "unused" /\ c \notin cut
        /\ daemon' = [daemon EXCEPT ![c] = "created"] /\ id' = c
        /\ pc' = "start" /\ goal' = goal /\ raising' = raising /\ leaving' = leaving
        /\ busy' = busy /\ started' = started /\ closed' = closed /\ late' = late /\ cut' = cut
  BY DEF Created, Await
<1>2. id = "none" /\ ~closed /\ ~leaving /\ c # "none" /\ ~busy[c]
  BY <1>1, DockerAssumption DEF PcInv, TypeOK
<1>3. TypeOK'
  BY <1>1, <1>2 DEF TypeOK, States, Awaits, Lifecycle
<1>4. OwnInv'
  <2>1. \A d \in Containers : d # c => daemon'[d] = daemon[d]
    BY <1>1 DEF TypeOK
  <2>2. daemon'[c] = "created"
    BY <1>1 DEF TypeOK
  <2>3. \A d \in Containers : Exists(d)' => d = id' \/ d \in cut'
    BY <1>1, <1>2, <2>1, DockerAssumption DEF OwnInv, Exists
  <2>4. \A d \in cut' : d # id' /\ daemon'[d] \in {"unused", "created"}
    BY <1>1, <2>1 DEF OwnInv, TypeOK
  <2>5. \A l \in late' : IF l.op = "create" THEN l.container \in cut'
                         ELSE l.container \notin cut' /\ daemon'[l.container] # "unused"
    <3> SUFFICES ASSUME NEW l \in late
                 PROVE  IF l.op = "create" THEN l.container \in cut
                        ELSE l.container \notin cut /\ daemon'[l.container] # "unused"
      BY <1>1
    <3>1. l.container \in Containers
      BY DEF TypeOK
    <3> QED BY <1>1, <2>1, <2>2, <3>1 DEF OwnInv
  <2> QED BY <1>1, <2>2, <2>3, <2>4, <2>5 DEF OwnInv
<1>5. PcInv' /\ CalmInv'
  BY <1>1, <1>2 DEF PcInv, CalmInv, Lifecycle
<1> QED BY <1>3, <1>4, <1>5

\* Every step of the workspace, of its calls and of docker keeps the invariant.
LEMMA StepInvariant == IInv /\ [Next]_vars => IInv'
<1> SUFFICES ASSUME IInv, [Next]_vars PROVE IInv'
  OBVIOUS
<1>1. CASE UNCHANGED vars
  BY <1>1 DEF vars, IInv, TypeOK, OwnInv, PcInv, CalmInv, Exists
<1>2. CASE Next
  BY <1>2, DaemonStep, CallStep, CreatedStep, PerformedStep, RemovedStep, FailedStep DEF Next
<1> QED BY <1>1, <1>2

\* The invariant holds in every state, whatever docker refuses or does late.
THEOREM InductiveInvariant == Spec => []IInv
BY InitInvariant, StepInvariant, PTL DEF Spec

-----------------------------------------------------------------------------
(* The theorems                                                            *)

\* Every variable has its type, and _started is only set with a container.
THEOREM TypeCorrect == Spec => []TypeOK
<1>1. IInv => TypeOK
  BY DEF IInv
<1> QED BY <1>1, InductiveInvariant, PTL

\* Once close has succeeded, all that is left was made by cut creates.
THEOREM NothingKnownIsLeft == Spec => []ClosedRemoved
<1>1. IInv => ClosedRemoved
  BY DockerAssumption DEF IInv, OwnInv, PcInv, ClosedRemoved
<1> QED BY <1>1, InductiveInvariant, PTL

\* A closed workspace has nothing that runs.
THEOREM NothingRunsOn == Spec => []ClosedQuiet
<1>1. IInv => ClosedQuiet
  <2> SUFFICES ASSUME IInv, closed, NEW c \in Containers
               PROVE  daemon[c] # "running" /\ ~busy[c]
    BY DEF ClosedQuiet
  <2>1. id = "none"
    BY DEF IInv, PcInv
  <2>2. daemon[c] # "running"
    BY <2>1, DockerAssumption DEF IInv, OwnInv, Exists
  <2> QED BY <2>2 DEF IInv, TypeOK
<1> QED BY <1>1, InductiveInvariant, PTL

\* The workspace never has two containers.
THEOREM NeverTwo == Spec => []OneContainer
<1>1. IInv => OneContainer
  BY DEF IInv, OwnInv, OneContainer
<1> QED BY <1>1, InductiveInvariant, PTL

\* No command begins in a container in which another one still runs.
THEOREM CleanStart == Spec => CleanContainer
<1>1. IInv /\ [Next]_vars =>
        [\A c \in Containers : pc' = "executing" /\ pc # "executing" => ~busy[c]]_vars
  <2> SUFFICES ASSUME IInv, Next, pc' = "executing", pc # "executing", NEW c \in Containers, busy[c]
               PROVE  FALSE
    BY DEF vars
  <2>1. CallExecute \/ RunCommand
    BY DEF Next, LateEffect, CommandEnds, ContainerDies, CallStart, CallStop, CallRemove, CallClose,
       Created, Started, CommandReturns, CommandExpires, Killed, Restarted, Stopped, Removed, Refused,
       GiveUp, CancelCommand, RaiseAfter, Raise, Return, Await, Call, caller, Awaits
  <2>2. ~leaving /\ pc \in {"idle", "exec"} /\ id # "none"
    BY <2>1, DockerAssumption DEF CallExecute, RunCommand, Call, IInv, TypeOK, PcInv
  <2>3. ~busy[id]
    BY <2>2 DEF IInv, CalmInv
  <2>4. c = id
    BY BusyIsOwn DEF IInv
  <2> QED BY <2>3, <2>4
<1> QED BY <1>1, InductiveInvariant, PTL DEF Spec, CleanContainer

=============================================================================
