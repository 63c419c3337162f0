---------------------------- MODULE AsyncRuntime ----------------------------
(***************************************************************************)
(* The C event loop under every compiled async function                    *)
(* (src/uranite-crt/async-runtime.c), together with the code the compiler  *)
(* generates around it (ir/mir/codegen.cpp: the spawner, the wrapper of an *)
(* async function, the await expression and main's return).                *)
(*                                                                         *)
(* Everything runs on one thread. Main runs on the process stack, every    *)
(* task on a stack of its own, and swapcontext is the only way from one to *)
(* the other, so what a context does between two swaps is one step. The    *)
(* kernel (timers and sockets becoming ready) moves at any time.           *)
(*                                                                         *)
(* The program is not fixed: at each point a running body may make any     *)
(* call that Ops, MayAwait and MayWaitFor allow it, return or raise.        *)
(* A task's identifier stands for its struct and for its index in tasks[]: *)
(* nextTaskId and taskCount are incremented together and the table only    *)
(* grows until the final cleanup.                                          *)
(*                                                                         *)
(* An operator named Mut_... is a wrong version of the operator after it:  *)
(* the code with a plausible slip. Nothing refers to it; a property is     *)
(* tested by putting it in the place of the right one.                     *)
(***************************************************************************)
EXTENDS Integers, FiniteSets

CONSTANTS
  MaxTasks,   (* URANITE_MAX_TASKS: the entries of tasks[]                 *)
  MaxEvents,  (* URANITE_MAX_EVENTS: events one epoll_wait returns         *)
  MaxOps,     (* bound: [Contexts -> runtime calls its body makes]         *)
  Functions,  (* the async functions of the program                        *)
  Arguments,  (* the argument values; 0 is the zero initializer            *)
  Results,    (* the result values; 0 is what calloc leaves                *)
  Timers,     (* descriptors timerfd_create can return                     *)
  Sockets,    (* descriptors the program opens that epoll can watch        *)
  Files,      (* descriptors the program opens that epoll refuses          *)
  Ops,        (* [Contexts -> subset of OpNames]: the calls a body makes   *)
  MayAwait,   (* [Contexts -> subset of Ids and NoTask]                    *)
  MayWaitFor, (* [Ids -> subset of Sockets and Files]                      *)
  Forever     (* tasks whose body is an endless loop of calls              *)

NoTask == -1
NoFd == -1
NoResult == -1
Rejected == -2
Main == 0
Ids == 1 .. MaxTasks
Contexts == {Main} \cup Ids
Fds == Timers \cup Sockets
OpNames == {"spawn", "await", "yield", "sleep", "awaitFD", "raise"}
TaskStates ==
  {"NONE", "CREATED", "RUNNING", "SUSPENDED", "IO_WAITING", "COMPLETED"}
PCs ==
  {"none", "start", "body", "yielding", "awaiting", "waiting", "sleeping",
   "raised", "ended", "awaitLoop", "runLoop", "exit", "aborted"}

ASSUME ConstantsAssumption ==
  /\ MaxTasks \in Nat \ {0} /\ MaxEvents \in Nat \ {0}
  /\ MaxOps \in [Contexts -> Nat]
  /\ Functions # {}
  /\ 0 \in Arguments
  /\ Results \subseteq Nat /\ 0 \in Results
  /\ Timers \subseteq Nat /\ Sockets \subseteq Nat /\ Files \subseteq Nat
  /\ Timers \cap Sockets = {} /\ Files \cap Fds = {}
  /\ Ops \in [Contexts -> SUBSET OpNames]
  /\ MayAwait \in [Contexts -> SUBSET (Ids \cup {NoTask})]
  /\ MayWaitFor \in [Ids -> SUBSET (Sockets \cup Files)]
  /\ Forever \subseteq Ids

VARIABLES
  taskCount,      (* entries of tasks[] in use                             *)
  state,          (* UraniteTask.state; "NONE" before the task exists      *)
  result,         (* UraniteTask.result                                    *)
  hasError,       (* UraniteTask.hasError                                  *)
  awaitingTaskId, (* UraniteTask.awaitingTaskId                            *)
  waitingFd,      (* UraniteTask.waitingFd                                 *)
  tfd,            (* the timer on the stack of a task's uraniteSleep       *)
  currentTask,    (* UraniteScheduler.currentTask; NULL is NoTask          *)
  nextIndex,      (* i of the pass over tasks[]; 0 between two passes      *)
  epoll,          (* the interest list: [Fds -> data.ptr, or NoTask]       *)
  ready,          (* descriptors that are readable                         *)
  openTimers,     (* timer descriptors that are open                       *)
  control,        (* the context the thread executes                       *)
  pc,             (* where each context is in its code                     *)
  mainTarget,     (* the task main awaits                                  *)
  received,       (* what the last await of a context delivered            *)
  function,       (* the function a task executes                          *)
  argGlobal,      (* the globals "f.arg.x" arguments travel through        *)
  passed,         (* the argument a task was called with                   *)
  got,            (* the argument its body read                            *)
  opsLeft         (* calls a body may still make                           *)

taskVars == <<state, result, hasError, awaitingTaskId, waitingFd>>
argVars == <<function, argGlobal, passed, got>>
kernelVars == <<epoll, ready, openTimers, tfd>>
loopVars == <<currentTask, nextIndex, control>>
vars == <<taskCount, taskVars, loopVars, kernelVars, pc, mainTarget,
          received, argVars, opsLeft>>

Init ==
  /\ taskCount = 0
  /\ state = [t \in Ids |-> "NONE"]
  /\ result = [t \in Ids |-> 0]
  /\ hasError = [t \in Ids |-> FALSE]
  /\ awaitingTaskId = [t \in Ids |-> NoTask]
  /\ waitingFd = [t \in Ids |-> NoFd]
  /\ tfd = [t \in Ids |-> NoFd]
  /\ currentTask = NoTask
  /\ nextIndex = 0
  /\ epoll = [fd \in Fds |-> NoTask]
  /\ ready = {}
  /\ openTimers = {}
  /\ control = Main
  /\ pc = [c \in Contexts |-> IF c = Main THEN "body" ELSE "none"]
  /\ mainTarget = NoTask
  /\ received = [c \in Contexts |-> NoResult]
  /\ function = [t \in Ids |-> CHOOSE f \in Functions : TRUE]
  /\ argGlobal = [f \in Functions |-> 0]
  /\ passed = [t \in Ids |-> 0]
  /\ got = [t \in Ids |-> 0]
  /\ opsLeft = MaxOps

-----------------------------------------------------------------------------
(* What a body does.                                                       *)

CanCall(c, op) ==
  /\ control = c /\ pc[c] = "body"
  /\ op \in Ops[c]
  /\ c \in Forever \/ opsLeft[c] > 0

Spend(c) ==
  opsLeft' = IF c \in Forever THEN opsLeft
             ELSE [opsLeft EXCEPT ![c] = @ - 1]

Goto(c, label) == pc' = [pc EXCEPT ![c] = label]

Mut_KeepCurrentTask ==
  control' = Main /\ nextIndex' = nextIndex + 1 /\ UNCHANGED currentTask
Mut_RestartPass == control' = Main /\ currentTask' = NoTask /\ nextIndex' = 0

(* swapcontext to the scheduler, and the tail of the pass's iteration.     *)
ToScheduler ==
  /\ control' = Main
  /\ currentTask' = NoTask
  /\ nextIndex' = nextIndex + 1

Mut_TableFull == taskCount > MaxTasks
TableFull == taskCount >= MaxTasks

(* A call of async function f. The spawner stores the argument in f's      *)
(* global, then asks for a task; a full table refuses it with -1.          *)
Spawn(c, f, a) ==
  /\ CanCall(c, "spawn")
  /\ argGlobal' = [argGlobal EXCEPT ![f] = a]
  /\ IF TableFull
     THEN UNCHANGED <<taskCount, state, function, passed, pc>>
     ELSE LET t == taskCount + 1 IN
          /\ taskCount' = t
          /\ state' = [state EXCEPT ![t] = "CREATED"]
          /\ function' = [function EXCEPT ![t] = f]
          /\ passed' = [passed EXCEPT ![t] = a]
          /\ Goto(t, "start")
  /\ Spend(c)
  /\ UNCHANGED <<result, hasError, awaitingTaskId, waitingFd, loopVars,
                 kernelVars, mainTarget, received, got>>

(* The first thing a wrapper does is load its argument from the global.    *)
StartTask(t) ==
  /\ control = t /\ pc[t] = "start"
  /\ got' = [got EXCEPT ![t] = argGlobal[function[t]]]
  /\ Goto(t, "body")
  /\ UNCHANGED <<taskCount, taskVars, loopVars, kernelVars, mainTarget,
                 received, function, argGlobal, passed, opsLeft>>

(* A return in the wrapper: uraniteTaskComplete never comes back.          *)
TaskComplete(t, v) ==
  /\ control = t /\ pc[t] = "body" /\ t \notin Forever
  /\ result' = [result EXCEPT ![t] = v]
  /\ state' = [state EXCEPT ![t] = "COMPLETED"]
  /\ Goto(t, "ended")
  /\ ToScheduler
  /\ UNCHANGED <<taskCount, hasError, awaitingTaskId, waitingFd, kernelVars,
                 mainTarget, received, argVars, opsLeft>>

(* The body raises; a handler of the body catches it, or async.catch does. *)
Raise(c) ==
  /\ CanCall(c, "raise")
  /\ Goto(c, "raised")
  /\ Spend(c)
  /\ UNCHANGED <<taskCount, taskVars, loopVars, kernelVars, mainTarget,
                 received, argVars>>

Catch(c) ==
  /\ control = c /\ pc[c] = "raised"
  /\ Goto(c, "body")
  /\ UNCHANGED <<taskCount, taskVars, loopVars, kernelVars, mainTarget,
                 received, argVars, opsLeft>>

TaskError(t) ==
  /\ control = t /\ pc[t] = "raised" /\ t \notin Forever
  /\ hasError' = [hasError EXCEPT ![t] = TRUE]
  /\ state' = [state EXCEPT ![t] = "COMPLETED"]
  /\ Goto(t, "ended")
  /\ ToScheduler
  /\ UNCHANGED <<taskCount, result, awaitingTaskId, waitingFd, kernelVars,
                 mainTarget, received, argVars, opsLeft>>

(* Nothing catches it in main: the process ends without the scheduler.     *)
Abort ==
  /\ control = Main /\ pc[Main] = "raised"
  /\ Goto(Main, "aborted")
  /\ UNCHANGED <<taskCount, taskVars, loopVars, kernelVars, mainTarget,
                 received, argVars, opsLeft>>

TaskYield(t) ==
  /\ CanCall(t, "yield")
  /\ state' = [state EXCEPT ![t] = "SUSPENDED"]
  /\ Goto(t, "yielding")
  /\ ToScheduler
  /\ Spend(t)
  /\ UNCHANGED <<taskCount, result, hasError, awaitingTaskId, waitingFd,
                 kernelVars, mainTarget, received, argVars>>

ResumeYield(t) ==
  /\ control = t /\ pc[t] = "yielding"
  /\ Goto(t, "body")
  /\ UNCHANGED <<taskCount, taskVars, loopVars, kernelVars, mainTarget,
                 received, argVars, opsLeft>>

-----------------------------------------------------------------------------
(* The await expression: uraniteAwaitTask, then uraniteTaskHasError.       *)

findTaskById(id) == IF id \in 1 .. taskCount THEN id ELSE NoTask

Mut_DeliverIgnoresError(c, t) ==
  received' = [received EXCEPT ![c] = result[t]] /\ Goto(c, "body")

(* The value of the await, or the exception the generated code raises.     *)
Deliver(c, t) ==
  /\ received' =
       [received EXCEPT ![c] = IF hasError[t] THEN Rejected ELSE result[t]]
  /\ Goto(c, IF hasError[t] THEN "raised" ELSE "body")

(* The identifier is that of a refused spawn: 0, and no exception.         *)
AwaitRefused(c) ==
  /\ CanCall(c, "await") /\ NoTask \in MayAwait[c]
  /\ TableFull
  /\ received' = [received EXCEPT ![c] = 0]
  /\ Spend(c)
  /\ UNCHANGED <<taskCount, taskVars, loopVars, kernelVars, pc, mainTarget,
                 argVars>>

AwaitCompleted(c, id) ==
  /\ CanCall(c, "await") /\ id \in MayAwait[c]
  /\ findTaskById(id) # NoTask
  /\ state[id] = "COMPLETED"
  /\ Deliver(c, id)
  /\ Spend(c)
  /\ UNCHANGED <<taskCount, taskVars, loopVars, kernelVars, mainTarget,
                 argVars>>

(* From a task: suspend until the scheduler finds the target completed.    *)
AwaitInTask(t, id) ==
  /\ CanCall(t, "await") /\ id \in MayAwait[t]
  /\ findTaskById(id) # NoTask
  /\ state[id] # "COMPLETED"
  /\ state' = [state EXCEPT ![t] = "SUSPENDED"]
  /\ awaitingTaskId' = [awaitingTaskId EXCEPT ![t] = id]
  /\ Goto(t, "awaiting")
  /\ ToScheduler
  /\ Spend(t)
  /\ UNCHANGED <<taskCount, result, hasError, waitingFd, kernelVars,
                 mainTarget, received, argVars>>

ResumeAwait(t) ==
  /\ control = t /\ pc[t] = "awaiting"
  /\ awaitingTaskId' = [awaitingTaskId EXCEPT ![t] = NoTask]
  /\ Deliver(t, awaitingTaskId[t])
  /\ UNCHANGED <<taskCount, state, result, hasError, waitingFd, loopVars,
                 kernelVars, mainTarget, argVars, opsLeft>>

(* From main, where currentTask is NULL: run the loop on main's stack.     *)
AwaitInMain(id) ==
  /\ CanCall(Main, "await") /\ id \in MayAwait[Main]
  /\ findTaskById(id) # NoTask
  /\ state[id] # "COMPLETED"
  /\ currentTask = NoTask
  /\ mainTarget' = id
  /\ nextIndex' = 0
  /\ Goto(Main, "awaitLoop")
  /\ Spend(Main)
  /\ UNCHANGED <<taskCount, taskVars, currentTask, control, kernelVars,
                 received, argVars>>

-----------------------------------------------------------------------------
(* Waiting for descriptors. The calls have no effect in main, where        *)
(* currentTask is NULL.                                                    *)

(* EPOLL_CTL_ADD, and EPOLL_CTL_MOD when fd is registered already: either  *)
(* way the entry of fd now points to t.                                    *)
AwaitFD(t, fd) ==
  /\ state' = [state EXCEPT ![t] = "IO_WAITING"]
  /\ waitingFd' = [waitingFd EXCEPT ![t] = fd]
  /\ epoll' = [epoll EXCEPT ![fd] = t]
  /\ ToScheduler

AwaitSocket(t, fd) ==
  /\ CanCall(t, "awaitFD") /\ fd \in MayWaitFor[t] \cap Sockets
  /\ AwaitFD(t, fd)
  /\ Goto(t, "waiting")
  /\ Spend(t)
  /\ UNCHANGED <<taskCount, result, hasError, awaitingTaskId, ready,
                 openTimers, tfd, mainTarget, received, argVars>>

(* A regular file: the call returns at once, and the task goes on in state *)
(* SUSPENDED with the descriptor still in waitingFd.                       *)
AwaitFile(t, fd) ==
  /\ CanCall(t, "awaitFD") /\ fd \in MayWaitFor[t] \cap Files
  /\ state' = [state EXCEPT ![t] = "SUSPENDED"]
  /\ waitingFd' = [waitingFd EXCEPT ![t] = fd]
  /\ Spend(t)
  /\ UNCHANGED <<taskCount, result, hasError, awaitingTaskId, loopVars,
                 kernelVars, pc, mainTarget, received, argVars>>

ResumeSocket(t) ==
  /\ control = t /\ pc[t] = "waiting"
  /\ Goto(t, "body")
  /\ UNCHANGED <<taskCount, taskVars, loopVars, kernelVars, mainTarget,
                 received, argVars, opsLeft>>

(* uraniteSleep: a timer of its own, awaited, removed and closed.          *)
Sleep(t, fd) ==
  /\ CanCall(t, "sleep")
  /\ fd \in Timers \ openTimers
  /\ openTimers' = openTimers \cup {fd}
  /\ tfd' = [tfd EXCEPT ![t] = fd]
  /\ AwaitFD(t, fd)
  /\ Goto(t, "sleeping")
  /\ Spend(t)
  /\ UNCHANGED <<taskCount, result, hasError, awaitingTaskId, ready,
                 mainTarget, received, argVars>>

(* No descriptor is left: timerfd_create fails and the call returns.       *)
SleepRefused(t) ==
  /\ CanCall(t, "sleep")
  /\ Timers \subseteq openTimers
  /\ Spend(t)
  /\ UNCHANGED <<taskCount, taskVars, loopVars, kernelVars, pc, mainTarget,
                 received, argVars>>

Mut_CloseTimer(fd) == UNCHANGED <<openTimers, ready>>
CloseTimer(fd) == openTimers' = openTimers \ {fd} /\ ready' = ready \ {fd}

ResumeSleep(t) ==
  /\ control = t /\ pc[t] = "sleeping"
  /\ epoll' = [epoll EXCEPT ![tfd[t]] = NoTask]
  /\ CloseTimer(tfd[t])
  /\ tfd' = [tfd EXCEPT ![t] = NoFd]
  /\ Goto(t, "body")
  /\ UNCHANGED <<taskCount, taskVars, loopVars, mainTarget, received, argVars,
                 opsLeft>>

(* In main, where currentTask is NULL, these return without waiting.       *)
NoEffectInMain ==
  /\ \E op \in {"yield", "sleep", "awaitFD"} : CanCall(Main, op)
  /\ currentTask = NoTask
  /\ Spend(Main)
  /\ UNCHANGED <<taskCount, taskVars, loopVars, kernelVars, pc, mainTarget,
                 received, argVars>>

-----------------------------------------------------------------------------
(* The loop, on main's stack: under an await of main, or under its return. *)

InLoop == control = Main /\ pc[Main] \in {"awaitLoop", "runLoop"}

AwaitedCompleted(t) ==
  LET awaited == findTaskById(awaitingTaskId[t])
  IN awaited # NoTask => state[awaited] = "COMPLETED"

Mut_RunIgnoresAwait(t) == state[t] \notin {"COMPLETED", "IO_WAITING"}
Mut_RunIgnoresIO(t) == state[t] # "COMPLETED" /\ AwaitedCompleted(t)
canRunTask(t) ==
  state[t] \notin {"COMPLETED", "IO_WAITING"} /\ AwaitedCompleted(t)

Ready == {t \in 1 .. taskCount : canRunTask(t)}
Switchable(t) == canRunTask(t) /\ state[t] \in {"CREATED", "SUSPENDED"}
HasIOWaiting == \E t \in 1 .. taskCount : state[t] = "IO_WAITING"

BeginPass ==
  /\ InLoop /\ nextIndex = 0
  /\ Ready # {}
  /\ nextIndex' = 1
  /\ UNCHANGED <<taskCount, taskVars, currentTask, control, kernelVars, pc,
                 mainTarget, received, argVars, opsLeft>>

(* The pass asks again, task by task, and reads taskCount again: a task    *)
(* spawned during the pass runs in it.                                     *)
RunNext(t) ==
  /\ InLoop /\ nextIndex \in 1 .. t /\ t <= taskCount
  /\ Switchable(t) /\ \A u \in nextIndex .. t - 1 : ~Switchable(u)
  /\ state' = [state EXCEPT ![t] = "RUNNING"]
  /\ currentTask' = t
  /\ control' = t
  /\ nextIndex' = t
  /\ UNCHANGED <<taskCount, result, hasError, awaitingTaskId, waitingFd,
                 kernelVars, pc, mainTarget, received, argVars, opsLeft>>

EndPass ==
  /\ InLoop /\ nextIndex > 0
  /\ \A t \in nextIndex .. taskCount : ~Switchable(t)
  /\ nextIndex' = 0
  /\ UNCHANGED <<taskCount, taskVars, currentTask, control, kernelVars, pc,
                 mainTarget, received, argVars, opsLeft>>

(* EPOLL_CTL_DEL of each woken task's waitingFd.                           *)
Mut_NotDeregistered(woken) == epoll
Mut_DeregisterAllReady(woken) ==
  [fd \in Fds |-> IF fd \in ready THEN NoTask ELSE epoll[fd]]
Deregistered(woken) ==
  LET dropped == {waitingFd[t] : t \in woken} IN
  [fd \in Fds |-> IF fd \in dropped THEN NoTask ELSE epoll[fd]]

(* epoll_wait: at most MaxEvents of the registered descriptors that are    *)
(* ready. Each wakes the task its entry points to and is deregistered.     *)
EpollWait(batch) ==
  /\ InLoop /\ nextIndex = 0
  /\ Ready = {} /\ HasIOWaiting
  /\ batch # {} /\ Cardinality(batch) <= MaxEvents
  /\ \A fd \in batch : fd \in ready /\ epoll[fd] # NoTask
  /\ LET woken == {epoll[fd] : fd \in batch} IN
     /\ state' = [t \in Ids |-> IF t \in woken THEN "SUSPENDED" ELSE state[t]]
     /\ waitingFd' = [t \in Ids |-> IF t \in woken THEN NoFd ELSE waitingFd[t]]
     /\ epoll' = Deregistered(woken)
  /\ UNCHANGED <<taskCount, result, hasError, awaitingTaskId, loopVars, ready,
                 openTimers, tfd, pc, mainTarget, received, argVars, opsLeft>>

Mut_LoopEndsWithoutPolling == nextIndex = 0 /\ Ready = {}

(* Every task is completed, or none can run and none waits for I/O.        *)
LoopEnds == nextIndex = 0 /\ Ready = {} /\ ~HasIOWaiting

(* Main's await answers what its target holds, completed or not.           *)
EndAwaitInMain ==
  /\ InLoop /\ pc[Main] = "awaitLoop" /\ LoopEnds
  /\ Deliver(Main, mainTarget)
  /\ UNCHANGED <<taskCount, taskVars, loopVars, kernelVars, mainTarget,
                 argVars, opsLeft>>

(* Main returns: the generated return runs the scheduler once more.        *)
MainReturn ==
  /\ control = Main /\ pc[Main] = "body"
  /\ nextIndex' = 0
  /\ Goto(Main, "runLoop")
  /\ UNCHANGED <<taskCount, taskVars, currentTask, control, kernelVars,
                 mainTarget, received, argVars, opsLeft>>

(* uraniteRunScheduler frees every struct once its loop ends: the other    *)
(* task variables keep what the structs held when they were freed.         *)
Cleanup ==
  /\ InLoop /\ pc[Main] = "runLoop" /\ LoopEnds
  /\ taskCount' = 0
  /\ epoll' = [fd \in Fds |-> NoTask]
  /\ Goto(Main, "exit")
  /\ UNCHANGED <<taskVars, loopVars, ready, openTimers, tfd, mainTarget,
                 received, argVars, opsLeft>>

-----------------------------------------------------------------------------
(* The kernel: an armed timer expires and stays readable; a socket becomes *)
(* readable, or is drained by whoever reads it.                            *)

TimerFires(fd) ==
  /\ fd \in openTimers \ ready
  /\ ready' = ready \cup {fd}
  /\ UNCHANGED <<taskCount, taskVars, loopVars, epoll, openTimers, tfd, pc,
                 mainTarget, received, argVars, opsLeft>>

SocketChanges(fd) ==
  /\ fd \in Sockets
  /\ ready' = IF fd \in ready THEN ready \ {fd} ELSE ready \cup {fd}
  /\ UNCHANGED <<taskCount, taskVars, loopVars, epoll, openTimers, tfd, pc,
                 mainTarget, received, argVars, opsLeft>>

-----------------------------------------------------------------------------
Finished == pc[Main] \in {"exit", "aborted"}

BodyStep(c) ==
  \/ \E f \in Functions, a \in Arguments : Spawn(c, f, a)
  \/ \E id \in Ids : AwaitCompleted(c, id)
  \/ AwaitRefused(c)
  \/ Raise(c)
  \/ Catch(c)

TaskStep(t) ==
  \/ StartTask(t)
  \/ \E v \in Results : TaskComplete(t, v)
  \/ TaskError(t)
  \/ TaskYield(t) \/ ResumeYield(t)
  \/ \E id \in Ids : AwaitInTask(t, id)
  \/ ResumeAwait(t)
  \/ \E fd \in Sockets : AwaitSocket(t, fd)
  \/ \E fd \in Files : AwaitFile(t, fd)
  \/ ResumeSocket(t)
  \/ \E fd \in Timers : Sleep(t, fd)
  \/ SleepRefused(t) \/ ResumeSleep(t)

MainStep ==
  \/ \E id \in Ids : AwaitInMain(id)
  \/ NoEffectInMain
  \/ MainReturn
  \/ Abort

LoopStep ==
  \/ BeginPass
  \/ \E t \in Ids : RunNext(t)
  \/ EndPass
  \/ \E batch \in SUBSET Fds : EpollWait(batch)
  \/ EndAwaitInMain
  \/ Cleanup

(* What the process's one thread does.                                     *)
Step ==
  \/ \E c \in Contexts : BodyStep(c)
  \/ \E t \in Ids : TaskStep(t)
  \/ MainStep
  \/ LoopStep

Terminated == Finished /\ UNCHANGED vars

Next ==
  \/ Step
  \/ \E fd \in Timers : TimerFires(fd)
  \/ \E fd \in Sockets : SocketChanges(fd)
  \/ Terminated

Spec == Init /\ [][Next]_vars

(* The kernel runs the process's thread, and an armed timer expires. No    *)
(* fairness is assumed between tasks: the loop's order is the only one.    *)
Fairness ==
  /\ WF_vars(Step)
  /\ \A fd \in Timers : WF_vars(TimerFires(fd))

FairSpec == Spec /\ Fairness

-----------------------------------------------------------------------------
(* What some of the properties ask of the program.                         *)

(* No two tasks wait for one descriptor.                                   *)
DisjointDescriptors ==
  \A t, u \in Ids : t # u => MayWaitFor[t] \cap MayWaitFor[u] = {}

(* Of any set of tasks, one awaits none of the set.                        *)
AcyclicAwaits ==
  \A T \in SUBSET Ids : T # {} => \E t \in T : MayAwait[t] \cap T = {}

-----------------------------------------------------------------------------
(* Properties.                                                             *)

TypeOK ==
  /\ taskCount \in 0 .. MaxTasks
  /\ state \in [Ids -> TaskStates]
  /\ result \in [Ids -> Results]
  /\ hasError \in [Ids -> BOOLEAN]
  /\ awaitingTaskId \in [Ids -> Ids \cup {NoTask}]
  /\ waitingFd \in [Ids -> Fds \cup Files \cup {NoFd}]
  /\ tfd \in [Ids -> Timers \cup {NoFd}]
  /\ currentTask \in Ids \cup {NoTask}
  /\ nextIndex \in 0 .. MaxTasks + 1
  /\ epoll \in [Fds -> Ids \cup {NoTask}]
  /\ ready \in SUBSET Fds
  /\ openTimers \in SUBSET Timers
  /\ control \in Contexts
  /\ pc \in [Contexts -> PCs]
  /\ mainTarget \in Ids \cup {NoTask}
  /\ received \in [Contexts -> Results \cup {NoResult, Rejected}]
  /\ function \in [Ids -> Functions]
  /\ argGlobal \in [Functions -> Arguments]
  /\ passed \in [Ids -> Arguments]
  /\ got \in [Ids -> Arguments]
  /\ opsLeft \in [Contexts -> Nat]

(* currentTask names the context the thread executes, only that task can   *)
(* be RUNNING, and it was entered from the loop of main: the early returns *)
(* on currentTask (yield, await, AwaitFD) then act on the caller's task.   *)
ControlConsistent ==
  /\ currentTask = IF control = Main THEN NoTask ELSE control
  /\ \A t \in Ids : state[t] = "RUNNING" => t = control
  /\ control # Main => /\ pc[Main] \in {"awaitLoop", "runLoop"}
                       /\ nextIndex = control
                       /\ state[control] \in {"RUNNING", "SUSPENDED"}

(* An entry of the interest list points to a live task that waits for that *)
(* very descriptor: epoll_wait never wakes a task that is doing something  *)
(* else, and never revives one that is completed (async-runtime.c:166).    *)
EpollPointsToWaiter ==
  \A fd \in Fds : epoll[fd] # NoTask =>
    /\ state[epoll[fd]] = "IO_WAITING"
    /\ waitingFd[epoll[fd]] = fd

(* A task that waits for a descriptor is the one its entry wakes: else it  *)
(* waits for ever and the loop blocks in epoll_wait with it.               *)
NoLostWaiter ==
  \A t \in Ids : state[t] = "IO_WAITING" /\ pc[Main] # "exit" =>
    /\ waitingFd[t] \in Fds
    /\ epoll[waitingFd[t]] = t

(* A task that comes back from an await finds its target completed, though *)
(* the pass checked that before other tasks of the pass could run.         *)
AwaitResumesSettled ==
  \A t \in Ids : control = t /\ pc[t] = "awaiting" =>
    /\ awaitingTaskId[t] \in 1 .. taskCount
    /\ state[awaitingTaskId[t]] = "COMPLETED"

(* The program exits only when every task it spawned is completed: the     *)
(* deadlock break of the loop (async-runtime.c:162) abandons none.         *)
NoTaskAbandoned ==
  pc[Main] = "exit" => \A t \in Ids : state[t] \in {"NONE", "COMPLETED"}

(* The open timers are those of the tasks inside uraniteSleep, one each:   *)
(* none is leaked, none closed under a sleeper.                            *)
TimersBelongToSleepers ==
  /\ openTimers = {tfd[t] : t \in {u \in Ids : pc[u] = "sleeping"}}
  /\ \A t, u \in Ids : pc[t] = "sleeping" /\ pc[u] = "sleeping" /\ t # u
                       => tfd[t] # tfd[u]

(* A completed task keeps its state, its result and its error, however     *)
(* late its future is awaited, and its stack is never entered again.       *)
CompletedStays ==
  \A t \in Ids : state[t] = "COMPLETED" =>
    /\ state'[t] = "COMPLETED"
    /\ result'[t] = result[t] /\ hasError'[t] = hasError[t]
    /\ control' # t

CompletedIsFinal == [][CompletedStays]_vars

(* A task's body reads the argument its call passed.                       *)
ArgumentsArePassed ==
  \A t \in Ids : pc[t] \notin {"none", "start"} => got[t] = passed[t]

(* The promise of AsyncTasks, with what is told apart here only by the     *)
(* scheduler (created, running, suspended, waiting) seen as pending.       *)
Status(t) ==
  CASE state[t] = "NONE" -> "absent"
    [] state[t] = "COMPLETED" -> IF hasError[t] THEN "rejected" ELSE "fulfilled"
    [] OTHER -> "pending"

Awaited(c) ==
  CASE c = Main /\ pc[c] = "awaitLoop" -> mainTarget
    [] c # Main /\ pc[c] = "awaiting" -> awaitingTaskId[c]
    [] OTHER -> NoTask

Abstract == INSTANCE AsyncTasks WITH
  status <- [t \in Ids |-> Status(t)],
  value <- result,
  waits <- [c \in Contexts |-> Awaited(c)],
  delivered <- received

(* Every behaviour of the event loop is one AsyncTasks allows: an await    *)
(* delivers the outcome its target settled with, exactly once.             *)
ImplementsAsyncTasks == Abstract!Spec

(* Every task that is spawned completes, unless an exception ends main.    *)
AllTasksFinish ==
  \A t \in Ids :
    state[t] # "NONE" ~> state[t] = "COMPLETED" \/ pc[Main] = "aborted"

(* The program ends.                                                       *)
ProgramEnds == <>Finished

(* A task that can run does, however many tasks never end: the passes are  *)
(* a round robin.                                                          *)
ReadyTasksRun ==
  \A t \in Ids :
    Switchable(t) /\ t <= taskCount ~> control = t \/ Finished

=============================================================================
