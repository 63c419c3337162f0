-------------------------- MODULE NativeScheduler --------------------------
(***************************************************************************)
(* The scheduler of uranite.async, written in Uranite itself               *)
(* (src/stdlibs/async/scheduler.urn), which a program calls through        *)
(* async/runtime.urn. It makes the promise of AsyncTasks with other means  *)
(* than the C event loop: tasks sit in slots, a round runs the runnable    *)
(* task in the lowest slot, and a task that awaits stays runnable and asks *)
(* again each time it is run.                                              *)
(*                                                                         *)
(* One thread: what a context does between two calls of swapContext is one *)
(* step. The program is not fixed: a running body may make any call that   *)
(* Ops, MayAwait and MayWaitFor allow it, complete, fail or raise. Main    *)
(* may run the loop several times.                                         *)
(*                                                                         *)
(* An operator named Mut_... is a wrong version of the operator after it:  *)
(* the code with a plausible slip. Nothing refers to it; a property is     *)
(* tested by putting it in the place of the right one.                     *)
(***************************************************************************)
EXTENDS Integers, FiniteSets

CONSTANTS
  MaxTasks,   (* MAX_TASKS: the slots                                      *)
  MaxEvents,  (* MAX_EPOLL_EVENTS: events one poll returns                 *)
  MaxIds,     (* bound: tasks that are ever created                        *)
  MaxOps,     (* bound: [Contexts -> runtime calls its body makes]         *)
  Results,    (* the result values; 0 is what createTask stores            *)
  Timers,     (* descriptors timerfd_create can return                     *)
  Sockets,    (* descriptors the program opens that epoll can watch        *)
  Files,      (* descriptors the program opens that epoll refuses          *)
  Ops,        (* [Contexts -> subset of OpNames]: the calls a body makes   *)
  MayAwait,   (* [Contexts -> subset of Ids]                               *)
  MayWaitFor  (* [Ids -> subset of Sockets and Files]                      *)

NoTask == -1     (* 0 in a slot, -1 in FIELD_AWAITING_ID                   *)
NoSlot == -1
NoFd == -1
NoResult == -1
Rejected == -2
Main == 0
Slots == 0 .. MaxTasks - 1
Ids == 1 .. MaxIds
Contexts == {Main} \cup Ids
Fds == Timers \cup Sockets
OpNames == {"spawn", "await", "yield", "sleep", "awaitFD", "raise", "run"}
TaskStates ==
  {"NONE", "CREATED", "RUNNING", "SUSPENDED", "IO_WAITING", "COMPLETED", "FAILED"}
PCs == {"none", "body", "awaiting", "sleeping", "raised", "ended", "awaitLoop",
        "runLoop", "exit", "aborted", "lost"}

ASSUME NativeAssumption ==
  /\ MaxTasks \in Nat \ {0} /\ MaxIds \in Nat /\ MaxEvents \in Nat \ {0}
  /\ MaxOps \in [Contexts -> Nat]
  /\ Results \subseteq Nat /\ 0 \in Results
  /\ Timers \subseteq Nat /\ Sockets \subseteq Nat /\ Files \subseteq Nat
  /\ Timers \cap Sockets = {} /\ Files \cap Fds = {}
  /\ Ops \in [Contexts -> SUBSET OpNames]
  /\ MayAwait \in [Contexts -> SUBSET Ids]
  /\ MayWaitFor \in [Ids -> SUBSET (Sockets \cup Files)]

VARIABLES
  taskSlots,      (* NativeScheduler.taskSlots: [Slots -> Ids or NoTask]   *)
  taskCount,      (* NativeScheduler.taskCount                             *)
  nextTaskId,     (* NativeScheduler.nextTaskId                            *)
  currentTaskIdx, (* NativeScheduler.currentTaskIdx                        *)
  state,          (* FIELD_STATE; "NONE" before the task exists            *)
  result,         (* FIELD_RESULT                                          *)
  hasError,       (* FIELD_HAS_ERROR                                       *)
  awaitingId,     (* FIELD_AWAITING_ID                                     *)
  awaitFd,        (* FIELD_AWAIT_FD                                        *)
  target,         (* taskId of the awaitTask a context is in               *)
  tfd,            (* the timer on the stack of a task's sleep              *)
  epoll,          (* the descriptors that are registered                   *)
  ready,          (* descriptors that are readable                         *)
  openTimers,     (* timer descriptors that are open                       *)
  control,        (* the context the thread executes                       *)
  pc,             (* where each context is in its code                     *)
  received,       (* what the last await of a context delivered            *)
  opsLeft         (* calls a body may still make                           *)

tableVars == <<taskSlots, taskCount, nextTaskId>>
taskVars == <<state, result, hasError, awaitingId, awaitFd>>
kernelVars == <<epoll, ready, openTimers, tfd>>
vars == <<tableVars, currentTaskIdx, taskVars, target, kernelVars, control, pc,
          received, opsLeft>>

Init ==
  /\ taskSlots = [s \in Slots |-> NoTask]
  /\ taskCount = 0
  /\ nextTaskId = 1
  /\ currentTaskIdx = NoSlot
  /\ state = [t \in Ids |-> "NONE"]
  /\ result = [t \in Ids |-> 0]
  /\ hasError = [t \in Ids |-> FALSE]
  /\ awaitingId = [t \in Ids |-> NoTask]
  /\ awaitFd = [t \in Ids |-> NoFd]
  /\ target = [c \in Contexts |-> NoTask]
  /\ tfd = [t \in Ids |-> NoFd]
  /\ epoll = {}
  /\ ready = {}
  /\ openTimers = {}
  /\ control = Main
  /\ pc = [c \in Contexts |-> IF c = Main THEN "body" ELSE "none"]
  /\ received = [c \in Contexts |-> NoResult]
  /\ opsLeft = MaxOps

-----------------------------------------------------------------------------
(* What a body does.                                                       *)

CanCall(c, op) ==
  /\ control = c /\ pc[c] = "body"
  /\ op \in Ops[c] /\ opsLeft[c] > 0

Spend(c) == opsLeft' = [opsLeft EXCEPT ![c] = @ - 1]
Goto(c, label) == pc' = [pc EXCEPT ![c] = label]

(* The call acts on the task in the current slot, and there is one.        *)
InTask == currentTaskIdx >= 0

Finished(t) == state[t] \in {"COMPLETED", "FAILED"}
Held(t) == \E s \in Slots : taskSlots[s] = t

(* The first slot that is empty; MaxTasks when none is.                    *)
FreeSlot ==
  CHOOSE s \in 0 .. MaxTasks :
    /\ s \in Slots => taskSlots[s] = NoTask
    /\ \A r \in 0 .. s - 1 : taskSlots[r] # NoTask

Mut_TableFull == taskCount > MaxTasks
TableFull == taskCount >= MaxTasks

(* A completed task keeps its slot until the cleanup.                      *)
Spawn(c) ==
  LET t == nextTaskId IN
  /\ CanCall(c, "spawn")
  /\ ~TableFull /\ t \in Ids
  /\ taskSlots' = [taskSlots EXCEPT ![FreeSlot] = t]
  /\ taskCount' = taskCount + 1
  /\ nextTaskId' = t + 1
  /\ state' = [state EXCEPT ![t] = "CREATED"]
  /\ Goto(t, "body")
  /\ Spend(c)
  /\ UNCHANGED <<currentTaskIdx, result, hasError, awaitingId, awaitFd, target,
                 kernelVars, control, received>>

SpawnRefused(c) ==
  /\ CanCall(c, "spawn")
  /\ TableFull
  /\ Goto(c, "raised")
  /\ Spend(c)
  /\ UNCHANGED <<tableVars, currentTaskIdx, taskVars, target, kernelVars, control,
                 received>>

(* wakeWaiters: who awaits t is no longer marked as awaiting it.           *)
Woken(t) ==
  awaitingId' = [u \in Ids |->
    IF awaitingId[u] = t /\ Held(u) THEN NoTask ELSE awaitingId[u]]

(* The state after t has settled: its waiters are SUSPENDED.               *)
Settle(t, how) ==
  state' = [u \in Ids |-> CASE u = t -> how
                            [] u # t /\ awaitingId[u] = t /\ Held(u) -> "SUSPENDED"
                            [] OTHER -> state[u]]

(* The body returns to the trampoline, or calls runtimeComplete: either    *)
(* way the task is not run again.                                          *)
TaskComplete(t, v) ==
  /\ control = t /\ pc[t] = "body"
  /\ result' = [result EXCEPT ![t] = v]
  /\ Settle(t, "COMPLETED") /\ Woken(t)
  /\ Goto(t, "ended")
  /\ control' = Main
  /\ UNCHANGED <<tableVars, currentTaskIdx, hasError, awaitFd, target, kernelVars,
                 received, opsLeft>>

TaskError(t) ==
  /\ control = t /\ pc[t] = "body"
  /\ hasError' = [hasError EXCEPT ![t] = TRUE]
  /\ Settle(t, "FAILED") /\ Woken(t)
  /\ Goto(t, "ended")
  /\ control' = Main
  /\ UNCHANGED <<tableVars, currentTaskIdx, result, awaitFd, target, kernelVars,
                 received, opsLeft>>

Raise(c) ==
  /\ CanCall(c, "raise")
  /\ Goto(c, "raised")
  /\ Spend(c)
  /\ UNCHANGED <<tableVars, currentTaskIdx, taskVars, target, kernelVars, control,
                 received>>

Catch(c) ==
  /\ control = c /\ pc[c] = "raised"
  /\ Goto(c, "body")
  /\ UNCHANGED <<tableVars, currentTaskIdx, taskVars, target, kernelVars, control,
                 received, opsLeft>>

(* Neither the trampoline nor main's caller has a handler: the process     *)
(* ends.                                                                   *)
Abort(c) ==
  /\ control = c /\ pc[c] = "raised"
  /\ Goto(Main, "aborted")
  /\ control' = Main
  /\ UNCHANGED <<tableVars, currentTaskIdx, taskVars, target, kernelVars, received,
                 opsLeft>>

TaskYield(t) ==
  /\ CanCall(t, "yield")
  /\ state' = [state EXCEPT ![t] = "SUSPENDED"]
  /\ control' = Main
  /\ Spend(t)
  /\ UNCHANGED <<tableVars, currentTaskIdx, result, hasError, awaitingId, awaitFd,
                 target, kernelVars, pc, received>>

-----------------------------------------------------------------------------
(* awaitTask                                                               *)

Mut_Deliver(c, t) ==
  received' = [received EXCEPT ![c] = result[t]] /\ Goto(c, "body")

(* The value of the await, or the exception it raises.                     *)
Deliver(c, t) ==
  /\ received' =
       [received EXCEPT ![c] = IF hasError[t] THEN Rejected ELSE result[t]]
  /\ Goto(c, IF hasError[t] THEN "raised" ELSE "body")

CanAwait(c, id) == CanCall(c, "await") /\ id \in MayAwait[c] /\ id < nextTaskId

(* The slots were emptied since the task was spawned.                      *)
AwaitUnknown(c, id) ==
  /\ CanAwait(c, id) /\ ~Held(id)
  /\ Goto(c, "raised")
  /\ Spend(c)
  /\ UNCHANGED <<tableVars, currentTaskIdx, taskVars, target, kernelVars, control,
                 received>>

AwaitFinished(c, id) ==
  /\ CanAwait(c, id) /\ Held(id) /\ Finished(id)
  /\ Deliver(c, id)
  /\ Spend(c)
  /\ UNCHANGED <<tableVars, currentTaskIdx, taskVars, target, kernelVars, control>>

(* Back to the scheduler, marked as awaiting id and still runnable.        *)
SuspendFor(t, id) ==
  /\ state' = [state EXCEPT ![t] = "SUSPENDED"]
  /\ awaitingId' = [awaitingId EXCEPT ![t] = id]
  /\ control' = Main

AwaitInTask(t, id) ==
  /\ CanAwait(t, id) /\ Held(id) /\ ~Finished(id)
  /\ SuspendFor(t, id)
  /\ target' = [target EXCEPT ![t] = id]
  /\ Goto(t, "awaiting")
  /\ Spend(t)
  /\ UNCHANGED <<tableVars, currentTaskIdx, result, hasError, awaitFd, kernelVars,
                 received>>

(* The task is run and looks at its target again.                          *)
AwaitAgain(t) ==
  /\ control = t /\ pc[t] = "awaiting"
  /\ IF Finished(target[t])
     THEN /\ Deliver(t, target[t])
          /\ target' = [target EXCEPT ![t] = NoTask]
          /\ UNCHANGED <<state, awaitingId, control>>
     ELSE /\ SuspendFor(t, target[t])
          /\ UNCHANGED <<target, received, pc>>
  /\ UNCHANGED <<tableVars, currentTaskIdx, result, hasError, awaitFd, kernelVars,
                 opsLeft>>

-----------------------------------------------------------------------------
(* awaitFd and sleep                                                       *)

AwaitFd(t, fd) ==
  /\ state' = [state EXCEPT ![t] = "IO_WAITING"]
  /\ awaitFd' = [awaitFd EXCEPT ![t] = fd]
  /\ epoll' = epoll \cup {fd}
  /\ control' = Main

AwaitSocket(t, fd) ==
  /\ CanCall(t, "awaitFD") /\ fd \in MayWaitFor[t] \cap Sockets
  /\ fd \notin epoll
  /\ AwaitFd(t, fd)
  /\ Spend(t)
  /\ UNCHANGED <<tableVars, currentTaskIdx, result, hasError, awaitingId, target,
                 ready, openTimers, tfd, pc, received>>

(* EPOLL_CTL_ADD fails, of a file and of a descriptor that another task    *)
(* waits for: the call raises in a task already marked as waiting.         *)
AwaitFdRefused(t, fd) ==
  /\ CanCall(t, "awaitFD") /\ fd \in MayWaitFor[t] \cap (Files \cup epoll)
  /\ state' = [state EXCEPT ![t] = "IO_WAITING"]
  /\ awaitFd' = [awaitFd EXCEPT ![t] = fd]
  /\ Goto(t, "raised")
  /\ Spend(t)
  /\ UNCHANGED <<tableVars, currentTaskIdx, result, hasError, awaitingId, target,
                 kernelVars, control, received>>

Sleep(t, fd) ==
  /\ CanCall(t, "sleep")
  /\ fd \in Timers \ openTimers
  /\ openTimers' = openTimers \cup {fd}
  /\ tfd' = [tfd EXCEPT ![t] = fd]
  /\ AwaitFd(t, fd)
  /\ Goto(t, "sleeping")
  /\ Spend(t)
  /\ UNCHANGED <<tableVars, currentTaskIdx, result, hasError, awaitingId, target,
                 ready, received>>

(* No descriptor is left: timerfd_create fails and the call raises.        *)
SleepRefused(c) ==
  /\ CanCall(c, "sleep")
  /\ Timers \subseteq openTimers
  /\ Goto(c, "raised")
  /\ Spend(c)
  /\ UNCHANGED <<tableVars, currentTaskIdx, taskVars, target, kernelVars, control,
                 received>>

EndSleep(t) ==
  /\ control = t /\ pc[t] = "sleeping"
  /\ openTimers' = openTimers \ {tfd[t]}
  /\ ready' = ready \ {tfd[t]}
  /\ epoll' = epoll \ {tfd[t]}
  /\ tfd' = [tfd EXCEPT ![t] = NoFd]
  /\ Goto(t, "body")
  /\ UNCHANGED <<tableVars, currentTaskIdx, taskVars, target, control, received,
                 opsLeft>>

-----------------------------------------------------------------------------
(* Main                                                                    *)

(* Before the first round no task is current, and these return at once.    *)
NoEffectInMain ==
  /\ \/ CanCall(Main, "yield") \/ CanCall(Main, "awaitFD")
     \/ CanCall(Main, "sleep") /\ ~(Timers \subseteq openTimers)
  /\ ~InTask
  /\ Spend(Main)
  /\ UNCHANGED <<tableVars, currentTaskIdx, taskVars, target, kernelVars, control,
                 pc, received>>

AwaitInMain(id) ==
  /\ CanAwait(Main, id) /\ Held(id) /\ ~Finished(id)
  /\ target' = [target EXCEPT ![Main] = id]
  /\ Goto(Main, "awaitLoop")
  /\ Spend(Main)
  /\ UNCHANGED <<tableVars, currentTaskIdx, taskVars, kernelVars, control, received>>

EndAwaitInMain ==
  /\ control = Main /\ pc[Main] = "awaitLoop"
  /\ Finished(target[Main])
  /\ Deliver(Main, target[Main])
  /\ target' = [target EXCEPT ![Main] = NoTask]
  /\ UNCHANGED <<tableVars, currentTaskIdx, taskVars, kernelVars, control, opsLeft>>

(* A round leaves its slot current. From then on a call of main is taken   *)
(* for one of the task in that slot: it writes that task's state, or       *)
(* through a null pointer once the slots are empty, and switches to the    *)
(* stack pointer main had in its last round, whose frame is gone. What the *)
(* program does next is undefined.                                         *)
Derail ==
  /\ control = Main /\ InTask
  /\ \/ pc[Main] = "awaitLoop" /\ ~Finished(target[Main])
     \/ CanCall(Main, "yield") \/ CanCall(Main, "awaitFD")
     \/ CanCall(Main, "sleep") /\ ~(Timers \subseteq openTimers)
  /\ Goto(Main, "lost")
  /\ UNCHANGED <<tableVars, currentTaskIdx, taskVars, target, kernelVars, control,
                 received, opsLeft>>

(* run: runLoop and cleanup.                                               *)
Run ==
  /\ CanCall(Main, "run")
  /\ Goto(Main, "runLoop")
  /\ Spend(Main)
  /\ UNCHANGED <<tableVars, currentTaskIdx, taskVars, target, kernelVars, control,
                 received>>

MainReturn ==
  /\ control = Main /\ pc[Main] = "body"
  /\ Goto(Main, "exit")
  /\ UNCHANGED <<tableVars, currentTaskIdx, taskVars, target, kernelVars, control,
                 received, opsLeft>>

-----------------------------------------------------------------------------
(* The rounds, on main's stack                                             *)

Mut_CanRun(s) == taskSlots[s] # NoTask /\ state[taskSlots[s]] = "SUSPENDED"
CanRun(s) ==
  taskSlots[s] # NoTask /\ state[taskSlots[s]] \in {"CREATED", "SUSPENDED"}

Pending(s) == taskSlots[s] # NoTask /\ ~Finished(taskSlots[s])
HasPending == \E s \in Slots : Pending(s)

InRound ==
  /\ control = Main
  /\ \/ pc[Main] = "runLoop" /\ HasPending
     \/ pc[Main] = "awaitLoop" /\ ~Finished(target[Main]) /\ ~InTask

(* The runnable task in the lowest slot.                                   *)
RunOnce(s) ==
  /\ InRound
  /\ CanRun(s) /\ \A r \in 0 .. s - 1 : ~CanRun(r)
  /\ currentTaskIdx' = s
  /\ state' = [state EXCEPT ![taskSlots[s]] = "RUNNING"]
  /\ control' = taskSlots[s]
  /\ UNCHANGED <<tableVars, result, hasError, awaitingId, awaitFd, target,
                 kernelVars, pc, received, opsLeft>>

Mut_Deregistered(woken) == epoll
Deregistered(woken) == epoll \ {awaitFd[t] : t \in woken}

(* What a poll reports: every descriptor that is ready, or as many as fit. *)
Reported(batch) ==
  /\ batch \subseteq epoll \cap ready
  /\ Cardinality(batch) <= MaxEvents
  /\ batch = epoll \cap ready \/ Cardinality(batch) = MaxEvents

(* No task is runnable: the registered descriptors that are ready wake the *)
(* tasks that wait for them. A poll that times out changes nothing.        *)
PollIO(batch) ==
  LET woken == {t \in Ids : Held(t) /\ state[t] = "IO_WAITING" /\ awaitFd[t] \in batch}
  IN /\ InRound
     /\ \A s \in Slots : ~CanRun(s)
     /\ batch # {} /\ Reported(batch)
     /\ state' = [t \in Ids |-> IF t \in woken THEN "SUSPENDED" ELSE state[t]]
     /\ awaitFd' = [t \in Ids |-> IF t \in woken THEN NoFd ELSE awaitFd[t]]
     /\ epoll' = Deregistered(woken)
     /\ UNCHANGED <<tableVars, currentTaskIdx, result, hasError, awaitingId, target,
                    ready, openTimers, tfd, control, pc, received, opsLeft>>

Mut_EmptyTable == taskSlots' = [s \in Slots |-> NoTask] /\ UNCHANGED taskCount
EmptyTable == taskSlots' = [s \in Slots |-> NoTask] /\ taskCount' = 0

Cleanup ==
  /\ control = Main /\ pc[Main] = "runLoop" /\ ~HasPending
  /\ EmptyTable
  /\ Goto(Main, "body")
  /\ UNCHANGED <<nextTaskId, currentTaskIdx, taskVars, target, kernelVars, control,
                 received, opsLeft>>

-----------------------------------------------------------------------------
(* The kernel                                                              *)

TimerFires(fd) ==
  /\ fd \in openTimers \ ready
  /\ ready' = ready \cup {fd}
  /\ UNCHANGED <<tableVars, currentTaskIdx, taskVars, target, epoll, openTimers,
                 tfd, control, pc, received, opsLeft>>

SocketChanges(fd) ==
  /\ fd \in Sockets
  /\ ready' = IF fd \in ready THEN ready \ {fd} ELSE ready \cup {fd}
  /\ UNCHANGED <<tableVars, currentTaskIdx, taskVars, target, epoll, openTimers,
                 tfd, control, pc, received, opsLeft>>

-----------------------------------------------------------------------------
Ended == pc[Main] \in {"exit", "aborted", "lost"}

BodyStep(c) ==
  \/ Spawn(c) \/ SpawnRefused(c)
  \/ \E id \in Ids : AwaitUnknown(c, id) \/ AwaitFinished(c, id)
  \/ SleepRefused(c)
  \/ Raise(c) \/ Catch(c) \/ Abort(c)

TaskStep(t) ==
  \/ \E v \in Results : TaskComplete(t, v)
  \/ TaskError(t)
  \/ TaskYield(t)
  \/ \E id \in Ids : AwaitInTask(t, id)
  \/ AwaitAgain(t)
  \/ \E fd \in Sockets : AwaitSocket(t, fd)
  \/ \E fd \in Fds \cup Files : AwaitFdRefused(t, fd)
  \/ \E fd \in Timers : Sleep(t, fd)
  \/ EndSleep(t)

MainStep ==
  \/ NoEffectInMain
  \/ \E id \in Ids : AwaitInMain(id)
  \/ EndAwaitInMain
  \/ Derail
  \/ Run \/ MainReturn

RoundStep ==
  \/ \E s \in Slots : RunOnce(s)
  \/ \E batch \in SUBSET Fds : PollIO(batch)
  \/ Cleanup

(* What the process's one thread does.                                     *)
Step ==
  \/ \E c \in Contexts : BodyStep(c)
  \/ \E t \in Ids : TaskStep(t)
  \/ MainStep
  \/ RoundStep

Terminated == Ended /\ UNCHANGED vars

Next ==
  \/ Step
  \/ \E fd \in Timers : TimerFires(fd)
  \/ \E fd \in Sockets : SocketChanges(fd)
  \/ Terminated

Spec == Init /\ [][Next]_vars

(* The kernel runs the process's thread, and an armed timer expires.       *)
FairSpec == Spec /\ WF_vars(Step) /\ \A fd \in Timers : WF_vars(TimerFires(fd))

-----------------------------------------------------------------------------
(* Every variable stays within its type; the counters never exceed what the
   table holds.                                                            *)
NativeTypeOK ==
  /\ taskSlots \in [Slots -> Ids \cup {NoTask}]
  /\ taskCount \in 0 .. MaxTasks
  /\ nextTaskId \in 1 .. MaxIds + 1
  /\ currentTaskIdx \in Slots \cup {NoSlot}
  /\ state \in [Ids -> TaskStates]
  /\ result \in [Ids -> Results]
  /\ hasError \in [Ids -> BOOLEAN]
  /\ awaitingId \in [Ids -> Ids \cup {NoTask}]
  /\ awaitFd \in [Ids -> Fds \cup Files \cup {NoFd}]
  /\ target \in [Contexts -> Ids \cup {NoTask}]
  /\ tfd \in [Ids -> Timers \cup {NoFd}]
  /\ epoll \subseteq Fds
  /\ ready \subseteq Fds
  /\ openTimers \subseteq Timers
  /\ control \in Contexts
  /\ pc \in [Contexts -> PCs]
  /\ received \in [Contexts -> Results \cup {NoResult, Rejected}]
  /\ opsLeft \in [Contexts -> Nat]

(* The scheduler's calls act on the slot currentTaskIdx and trust that it is
   the caller's: whenever a task executes, it is, and no other task is
   RUNNING. The table they search holds every task that is not finished,
   each once, and taskCount says how many slots are used, so that spawn's
   second loop always finds the free slot its first test promised.         *)
RunnerIsCurrent ==
  /\ control # Main =>
       /\ InTask /\ taskSlots[currentTaskIdx] = control
       /\ state[control] \in {"RUNNING", "IO_WAITING"}
  /\ \A t \in Ids :
       /\ state[t] = "RUNNING" /\ ~Ended => t = control
       /\ state[t] \notin {"NONE", "COMPLETED", "FAILED"} => Held(t)
  /\ \A r, s \in Slots : taskSlots[r] = taskSlots[s] /\ r # s => taskSlots[s] = NoTask
  /\ taskCount = Cardinality({s \in Slots : taskSlots[s] # NoTask})

(* Who waits is known to what it waits for, and only that. A descriptor is
   registered exactly while one suspended task waits for it in IO_WAITING, and
   a timer is open exactly while a task sleeps on it. A task that found its
   target unfinished stays runnable and marked with it, and the target never
   finishes: the awaiting task is in the lowest slot that is runnable, so no
   slot above it is run, and the descriptors that those below it wait for are
   not polled.                                                             *)
WaitersAreKnown ==
  /\ ~Ended =>
       \A fd \in Fds : fd \in epoll <=>
         \E t \in Ids \ {control} : state[t] = "IO_WAITING" /\ awaitFd[t] = fd
  /\ ~Ended =>
       \A t, u \in Ids \ {control} :
         state[t] = "IO_WAITING" /\ state[u] = "IO_WAITING" /\ t # u
           => awaitFd[t] # awaitFd[u]
  /\ openTimers = {tfd[t] : t \in Ids} \ {NoFd}
  /\ \A t \in Ids :
       /\ pc[t] = "awaiting" =>
            /\ control # t => state[t] = "SUSPENDED"
            /\ ~Finished(target[t])
       /\ awaitingId[t] = IF pc[t] = "awaiting" THEN target[t] ELSE NoTask

Status(t) == CASE state[t] = "NONE" -> "absent"
               [] state[t] = "COMPLETED" -> "fulfilled"
               [] state[t] = "FAILED" -> "rejected"
               [] OTHER -> "pending"

(* A task settles at most once and an await delivers the outcome its target
   settled with, or raises: what the C event loop promises too.            *)
Abstract == INSTANCE AsyncTasks WITH
  status <- [t \in Ids |-> Status(t)],
  value <- result,
  waits <- target,
  delivered <- received

FollowsAsyncTasks == Abstract!Spec

(* runLoop runs, of all runnable tasks, only the one in the lowest slot, and
   that one awaits a task that has not finished: it will ask again for ever.*)
Spinning ==
  \E s \in Slots :
    /\ taskSlots[s] # NoTask /\ \A r \in 0 .. s - 1 : ~CanRun(r)
    /\ LET t == taskSlots[s] IN
         /\ pc[t] = "awaiting" /\ ~Finished(target[t])
         /\ control \in {Main, t}
         /\ state[t] \in {"RUNNING", "SUSPENDED"}

WaitsForSocket == \E t \in Ids : state[t] = "IO_WAITING" /\ awaitFd[t] \in Sockets

(* Bodies that end, and timers that expire, are enough for the program to
   end, but for two cases: a task is for ever waiting for a descriptor that
   nothing makes ready, or an awaiting task in the lowest runnable slot
   keeps its target from running.                                          *)
FinishesOrSpins == <>Ended \/ <>[]Spinning \/ []<>WaitsForSocket

=============================================================================
