------------------------ MODULE AsyncRuntime_proofs ------------------------
(***************************************************************************)
(* Proofs about the event loop, for every program, every table size, every *)
(* set of descriptors and every bound on the bodies.                       *)
(***************************************************************************)
EXTENDS AsyncRuntime, TLAPS

(* What relates a task's code to its struct and to the table.              *)
TaskShape ==
  /\ pc[Main] # "exit" => \A t \in Ids : state[t] = "NONE" <=> t > taskCount
  /\ \A t \in Ids : state[t] = "NONE" => pc[t] = "none"
  /\ pc[Main] \in {"exit", "aborted"} => control = Main
  /\ pc[Main] = "awaitLoop" => mainTarget \in 1 .. taskCount
  /\ \A t \in Ids : pc[t] = "awaiting" =>
       /\ awaitingTaskId[t] \in Ids
       /\ pc[Main] # "exit" => awaitingTaskId[t] <= taskCount

(* A waiting task is in AwaitFD, for a descriptor it may wait for or for   *)
(* the timer of its sleep.                                                 *)
WaitShape ==
  \A t \in Ids : state[t] = "IO_WAITING" =>
    \/ pc[t] = "waiting" /\ waitingFd[t] \in MayWaitFor[t] \cap Sockets
    \/ pc[t] = "sleeping" /\ waitingFd[t] = tfd[t]

IInv ==
  /\ TypeOK
  /\ ControlConsistent
  /\ TaskShape
  /\ EpollPointsToWaiter
  /\ AwaitResumesSettled
  /\ TimersBelongToSleepers
  /\ WaitShape

USE ConstantsAssumption
USE DEF NoTask, NoFd, NoResult, Rejected, Main, Ids, Contexts, Fds,
        vars, taskVars, loopVars, kernelVars, argVars

-----------------------------------------------------------------------------
(* Helpers of the actions.                                                 *)

(* A call leaves the budget of every body a natural number.                *)
LEMMA SpendType ==
  ASSUME TypeOK, NEW c \in Contexts, NEW op, CanCall(c, op), Spend(c)
  PROVE  opsLeft' \in [Contexts -> Nat]
<1>1. CASE c \in Forever
  BY <1>1 DEF TypeOK, Spend
<1>2. CASE c \notin Forever
  <2>1. opsLeft[c] \in Nat /\ opsLeft[c] > 0
    BY <1>2 DEF TypeOK, CanCall
  <2> QED BY <1>2, <2>1 DEF TypeOK, Spend
<1> QED BY <1>1, <1>2

(* A switch to the scheduler leaves the task at its place in the pass.     *)
LEMMA ToSchedulerType ==
  ASSUME TypeOK, ControlConsistent, control \in Ids, ToScheduler
  PROVE  /\ control' = Main /\ control' \in Contexts
         /\ currentTask' = NoTask
         /\ nextIndex' \in 0 .. MaxTasks + 1
BY DEF TypeOK, ControlConsistent, ToScheduler

(* What a call of an async function does to the table when it has room.    *)
SpawnsAt(n) ==
  /\ n = taskCount + 1
  /\ state[n] = "NONE" /\ pc[n] = "none" /\ n # control
  /\ taskCount' = n
  /\ state' = [state EXCEPT ![n] = "CREATED"]
  /\ pc' = [pc EXCEPT ![n] = "start"]

(* What any call does, and what it leaves alone.                           *)
SpawnFrame ==
  /\ opsLeft' \in [Contexts -> Nat]
  /\ argGlobal' \in [Functions -> Arguments]
  /\ function' \in [Ids -> Functions] /\ passed' \in [Ids -> Arguments]
  /\ UNCHANGED <<result, hasError, awaitingTaskId, waitingFd, loopVars,
                 kernelVars, mainTarget, received, got>>

LEMMA SpawnEffect ==
  ASSUME TypeOK, ControlConsistent, TaskShape,
         NEW c \in Contexts, NEW f \in Functions, NEW a \in Arguments,
         Spawn(c, f, a)
  PROVE  SpawnFrame /\ (\/ UNCHANGED <<taskCount, state, pc>>
                        \/ \E n \in Ids : SpawnsAt(n))
<1>1. opsLeft' \in [Contexts -> Nat]
  BY SpendType DEF Spawn
<1>2. argGlobal' \in [Functions -> Arguments]
  BY DEF Spawn, TypeOK
<1>3. CASE TableFull
  BY <1>1, <1>2, <1>3 DEF Spawn, SpawnFrame, TypeOK
<1>4. CASE ~TableFull
  <2> DEFINE n == taskCount + 1
  <2>1. n \in Ids
    BY <1>4 DEF TypeOK, TableFull
  <2>2. pc[Main] # "exit"
    BY DEF Spawn, CanCall, TaskShape, TypeOK
  <2>3. state[n] = "NONE" /\ pc[n] = "none"
    BY <2>1, <2>2 DEF TaskShape, TypeOK
  <2>4. n # control
    BY <2>1, <2>3 DEF ControlConsistent
  <2>5. SpawnsAt(n)
    BY <1>4, <2>3, <2>4 DEF Spawn, SpawnsAt, Goto
  <2>6. /\ function' = [function EXCEPT ![n] = f]
        /\ passed' = [passed EXCEPT ![n] = a]
    BY <1>4 DEF Spawn
  <2>7. function' \in [Ids -> Functions] /\ passed' \in [Ids -> Arguments]
    BY <2>6 DEF TypeOK
  <2> QED BY <1>1, <1>2, <2>1, <2>5, <2>7 DEF Spawn, SpawnFrame
<1> QED BY <1>3, <1>4

(* After an await the context goes on, or raises.                          *)
LEMMA DeliverGoesOn ==
  ASSUME NEW c, NEW t, Deliver(c, t)
  PROVE  \E label \in {"body", "raised"} : pc' = [pc EXCEPT ![c] = label]
BY DEF Deliver, Goto

(* The sleeping tasks and their timers decide TimersBelongToSleepers.      *)
LEMMA SameSleepers ==
  ASSUME TimersBelongToSleepers, UNCHANGED <<tfd, openTimers>>,
         \A t \in Ids : pc'[t] = "sleeping" <=> pc[t] = "sleeping"
  PROVE  TimersBelongToSleepers'
BY DEF TimersBelongToSleepers

-----------------------------------------------------------------------------
(* One lemma for each conjunct of the invariant: which of the others a     *)
(* step needs to preserve it, and why each action does.                    *)

(* Typing needs the place of the running task in the pass (ToScheduler)    *)
(* and the targets of the awaits (Deliver).                                *)
LEMMA TypeOKStep ==
  ASSUME TypeOK, ControlConsistent, TaskShape, [Next]_vars
  PROVE  TypeOK'
<1>1. ASSUME NEW c \in Contexts, NEW f \in Functions, NEW a \in Arguments,
      Spawn(c, f, a) PROVE TypeOK'
  <2>1. SpawnFrame
    BY <1>1, SpawnEffect
  <2>2. CASE UNCHANGED <<taskCount, state, pc>>
    BY <2>1, <2>2 DEF SpawnFrame, TypeOK
  <2>3. ASSUME NEW n \in Ids, SpawnsAt(n) PROVE TypeOK'
    <3>1. taskCount' \in 0 .. MaxTasks
      BY <2>3 DEF SpawnsAt
    <3>2. state' \in [Ids -> TaskStates] /\ pc' \in [Contexts -> PCs]
      BY <2>3 DEF SpawnsAt, TypeOK, TaskStates, PCs
    <3> QED BY <2>1, <3>1, <3>2 DEF SpawnFrame, TypeOK
  <2> QED BY <1>1, <2>2, <2>3, SpawnEffect
<1>2. ASSUME NEW c \in Contexts, NEW id \in Ids, AwaitCompleted(c, id) PROVE
      TypeOK'
  <2>1. opsLeft' \in [Contexts -> Nat]
    BY <1>2, SpendType DEF AwaitCompleted
  <2> QED BY <1>2, <2>1 DEF AwaitCompleted, CanCall, Goto, Deliver,
        findTaskById,
             TypeOK, PCs, TaskStates
<1>3. ASSUME NEW c \in Contexts, AwaitRefused(c) PROVE TypeOK'
  <2>1. opsLeft' \in [Contexts -> Nat]
    BY <1>3, SpendType DEF AwaitRefused
  <2> QED BY <1>3, <2>1 DEF AwaitRefused, CanCall,
             TypeOK, PCs, TaskStates
<1>4. ASSUME NEW c \in Contexts, Raise(c) PROVE TypeOK'
  <2>1. opsLeft' \in [Contexts -> Nat]
    BY <1>4, SpendType DEF Raise
  <2> QED BY <1>4, <2>1 DEF Raise, Goto,
             TypeOK, PCs, TaskStates
<1>5. ASSUME NEW c \in Contexts, Catch(c) PROVE TypeOK'
  BY <1>5 DEF Catch, Goto, TypeOK, ControlConsistent, TaskShape, PCs,
     TaskStates
<1>6. ASSUME NEW t \in Ids, StartTask(t) PROVE TypeOK'
  BY <1>6 DEF StartTask, Goto, TypeOK, ControlConsistent, TaskShape, PCs,
     TaskStates
<1>7. ASSUME NEW t \in Ids, NEW v \in Results, TaskComplete(t, v) PROVE TypeOK'
  <2>1. control \in Ids /\ ToScheduler
    BY <1>7 DEF TaskComplete
  <2> QED BY <1>7, <2>1, ToSchedulerType DEF TaskComplete, Goto, TypeOK, PCs,
             TaskStates
<1>8. ASSUME NEW t \in Ids, TaskError(t) PROVE TypeOK'
  <2>1. control \in Ids /\ ToScheduler
    BY <1>8 DEF TaskError
  <2> QED BY <1>8, <2>1, ToSchedulerType DEF TaskError, Goto, TypeOK, PCs,
             TaskStates
<1>9. ASSUME NEW t \in Ids, TaskYield(t) PROVE TypeOK'
  <2>1. opsLeft' \in [Contexts -> Nat]
    BY <1>9, SpendType DEF TaskYield
  <2>2. control \in Ids /\ ToScheduler
    BY <1>9 DEF TaskYield, CanCall, AwaitFD
  <2> QED BY <1>9, <2>1, <2>2, ToSchedulerType DEF TaskYield, Goto,
             TypeOK, PCs, TaskStates
<1>10. ASSUME NEW t \in Ids, ResumeYield(t) PROVE TypeOK'
  BY <1>10 DEF ResumeYield, Goto, TypeOK, ControlConsistent, TaskShape, PCs,
     TaskStates
<1>11. ASSUME NEW t \in Ids, NEW id \in Ids, AwaitInTask(t, id) PROVE TypeOK'
  <2>1. opsLeft' \in [Contexts -> Nat]
    BY <1>11, SpendType DEF AwaitInTask
  <2>2. control \in Ids /\ ToScheduler
    BY <1>11 DEF AwaitInTask, CanCall, AwaitFD
  <2> QED BY <1>11, <2>1, <2>2, ToSchedulerType DEF AwaitInTask, Goto,
             TypeOK, PCs, TaskStates
<1>12. ASSUME NEW t \in Ids, ResumeAwait(t) PROVE TypeOK'
  BY <1>12 DEF ResumeAwait, Goto, Deliver, TypeOK, ControlConsistent,
     TaskShape, PCs, TaskStates
<1>13. ASSUME NEW t \in Ids, NEW fd \in Sockets, AwaitSocket(t, fd) PROVE
      TypeOK'
  <2>1. opsLeft' \in [Contexts -> Nat]
    BY <1>13, SpendType DEF AwaitSocket
  <2>2. control \in Ids /\ ToScheduler
    BY <1>13 DEF AwaitSocket, CanCall, AwaitFD
  <2> QED BY <1>13, <2>1, <2>2, ToSchedulerType DEF AwaitSocket, Goto, AwaitFD,
             TypeOK, PCs, TaskStates
<1>14. ASSUME NEW t \in Ids, NEW fd \in Files, AwaitFile(t, fd) PROVE TypeOK'
  <2>1. opsLeft' \in [Contexts -> Nat]
    BY <1>14, SpendType DEF AwaitFile
  <2> QED BY <1>14, <2>1 DEF AwaitFile, CanCall,
             TypeOK, PCs, TaskStates
<1>15. ASSUME NEW t \in Ids, ResumeSocket(t) PROVE TypeOK'
  BY <1>15 DEF ResumeSocket, Goto, TypeOK, ControlConsistent, TaskShape, PCs,
     TaskStates
<1>16. ASSUME NEW t \in Ids, NEW fd \in Timers, Sleep(t, fd) PROVE TypeOK'
  <2>1. opsLeft' \in [Contexts -> Nat]
    BY <1>16, SpendType DEF Sleep
  <2>2. control \in Ids /\ ToScheduler
    BY <1>16 DEF Sleep, CanCall, AwaitFD
  <2> QED BY <1>16, <2>1, <2>2, ToSchedulerType DEF Sleep, Goto, AwaitFD,
             TypeOK, PCs, TaskStates
<1>17. ASSUME NEW t \in Ids, SleepRefused(t) PROVE TypeOK'
  <2>1. opsLeft' \in [Contexts -> Nat]
    BY <1>17, SpendType DEF SleepRefused
  <2> QED BY <1>17, <2>1 DEF SleepRefused, CanCall,
             TypeOK, PCs, TaskStates
<1>18. ASSUME NEW t \in Ids, ResumeSleep(t) PROVE TypeOK'
  BY <1>18 DEF ResumeSleep, Goto, CloseTimer, TypeOK, ControlConsistent,
     TaskShape, PCs, TaskStates
<1>19. ASSUME NEW id \in Ids, AwaitInMain(id) PROVE TypeOK'
  <2>1. opsLeft' \in [Contexts -> Nat]
    BY <1>19, SpendType DEF AwaitInMain
  <2>2. nextIndex' \in 0 .. MaxTasks + 1 /\ mainTarget' \in Ids \cup {NoTask}
    BY <1>19 DEF AwaitInMain
  <2>3. pc' \in [Contexts -> PCs]
    BY <1>19 DEF AwaitInMain, Goto, TypeOK, PCs
  <2> QED BY <1>19, <2>1, <2>2, <2>3 DEF AwaitInMain, TypeOK
<1>20. CASE NoEffectInMain
  <2>1. opsLeft' \in [Contexts -> Nat]
    BY <1>20, SpendType DEF NoEffectInMain
  <2> QED BY <1>20, <2>1 DEF NoEffectInMain, CanCall,
             TypeOK, PCs, TaskStates
<1>21. CASE MainReturn
  <2>1. pc' \in [Contexts -> PCs] /\ nextIndex' \in 0 .. MaxTasks + 1
    BY <1>21 DEF MainReturn, Goto, TypeOK, PCs
  <2> QED BY <1>21, <2>1 DEF MainReturn, TypeOK
<1>22. CASE Abort
  BY <1>22 DEF Abort, Goto, TypeOK, ControlConsistent, TaskShape, PCs,
     TaskStates
<1>23. CASE BeginPass
  <2>1. nextIndex' \in 0 .. MaxTasks + 1
    BY <1>23 DEF BeginPass
  <2> QED BY <1>23, <2>1 DEF BeginPass, TypeOK
<1>24. ASSUME NEW t \in Ids, RunNext(t) PROVE TypeOK'
  <2>1. /\ state' \in [Ids -> TaskStates] /\ currentTask' \in Ids
        /\ control' \in Contexts /\ nextIndex' \in 0 .. MaxTasks + 1
    BY <1>24 DEF RunNext, TypeOK, TaskStates
  <2>2. UNCHANGED <<taskCount, result, hasError, awaitingTaskId, waitingFd,
                    kernelVars, pc, mainTarget, received, argVars, opsLeft>>
    BY <1>24 DEF RunNext
  <2> QED BY <2>1, <2>2 DEF TypeOK
<1>25. CASE EndPass
  <2>1. nextIndex' \in 0 .. MaxTasks + 1
    BY <1>25 DEF EndPass
  <2> QED BY <1>25, <2>1 DEF EndPass, TypeOK
<1>26. ASSUME NEW batch \in SUBSET Fds, EpollWait(batch) PROVE TypeOK'
  <2>1. state' \in [Ids -> TaskStates]
    BY <1>26 DEF EpollWait, TypeOK, TaskStates
  <2>2. waitingFd' \in [Ids -> Fds \cup Files \cup {NoFd}]
    BY <1>26 DEF EpollWait, TypeOK
  <2>3. epoll' \in [Fds -> Ids \cup {NoTask}]
    BY <1>26 DEF EpollWait, Deregistered, TypeOK
  <2> QED BY <1>26, <2>1, <2>2, <2>3 DEF EpollWait, TypeOK
<1>27. CASE EndAwaitInMain
  <2>1. PICK label \in {"body", "raised"} : pc' = [pc EXCEPT ![Main] = label]
    BY <1>27, DeliverGoesOn DEF EndAwaitInMain
  <2>2. mainTarget \in Ids
    BY <1>27 DEF EndAwaitInMain, TaskShape, TypeOK
  <2>3. pc' \in [Contexts -> PCs]
    BY <2>1 DEF TypeOK, PCs
  <2>4. received' \in [Contexts -> Results \cup {NoResult, Rejected}]
    BY <1>27, <2>2 DEF EndAwaitInMain, Deliver, TypeOK
  <2>5. UNCHANGED <<taskCount, taskVars, loopVars, kernelVars, mainTarget, argVars, opsLeft>>
    BY <1>27 DEF EndAwaitInMain
  <2> QED BY <2>3, <2>4, <2>5 DEF TypeOK
<1>28. CASE Cleanup
  BY <1>28 DEF Cleanup, InLoop, Goto, TypeOK, ControlConsistent, TaskShape,
     PCs, TaskStates
<1>29. ASSUME NEW fd \in Timers, TimerFires(fd) PROVE TypeOK'
  BY <1>29 DEF TimerFires, TypeOK, ControlConsistent, TaskShape, PCs,
     TaskStates
<1>30. ASSUME NEW fd \in Sockets, SocketChanges(fd) PROVE TypeOK'
  BY <1>30 DEF SocketChanges, TypeOK, ControlConsistent, TaskShape, PCs,
     TaskStates
<1>31. CASE UNCHANGED vars
  BY <1>31 DEF TypeOK, ControlConsistent, TaskShape, PCs, TaskStates
<1> QED BY <1>1, <1>2, <1>3, <1>4, <1>5, <1>6, <1>7, <1>8, <1>9, <1>10, <1>11,
     <1>12, <1>13, <1>14, <1>15, <1>16, <1>17, <1>18, <1>19, <1>20, <1>21,
     <1>22, <1>23, <1>24, <1>25, <1>26, <1>27, <1>28, <1>29, <1>30, <1>31 DEF
     Next, Step, BodyStep, TaskStep, MainStep, LoopStep, Terminated

(* Control moves only in RunNext and ToScheduler, together with            *)
(* currentTask.                                                            *)
LEMMA ControlStep ==
  ASSUME TypeOK, ControlConsistent, TaskShape, [Next]_vars
  PROVE  ControlConsistent'
<1>1. ASSUME NEW c \in Contexts, NEW f \in Functions, NEW a \in Arguments,
      Spawn(c, f, a) PROVE ControlConsistent'
  <2>1. SpawnFrame
    BY <1>1, SpawnEffect
  <2>2. CASE UNCHANGED <<taskCount, state, pc>>
    BY <2>1, <2>2 DEF SpawnFrame, TypeOK, ControlConsistent
  <2>3. ASSUME NEW n \in Ids, SpawnsAt(n) PROVE ControlConsistent'
    BY <2>1, <2>3 DEF SpawnFrame, SpawnsAt, TypeOK, ControlConsistent
  <2> QED BY <1>1, <2>2, <2>3, SpawnEffect
<1>2. ASSUME NEW c \in Contexts, NEW id \in Ids, AwaitCompleted(c, id) PROVE
      ControlConsistent'
  BY <1>2 DEF AwaitCompleted, CanCall, Spend, Goto, Deliver, findTaskById,
     TypeOK, ControlConsistent, TaskShape
<1>3. ASSUME NEW c \in Contexts, AwaitRefused(c) PROVE ControlConsistent'
  BY <1>3 DEF AwaitRefused, CanCall, Spend, TypeOK, ControlConsistent,
     TaskShape
<1>4. ASSUME NEW c \in Contexts, Raise(c) PROVE ControlConsistent'
  BY <1>4 DEF Raise, CanCall, Spend, Goto, TypeOK, ControlConsistent, TaskShape
<1>5. ASSUME NEW c \in Contexts, Catch(c) PROVE ControlConsistent'
  BY <1>5 DEF Catch, Goto, TypeOK, ControlConsistent, TaskShape
<1>6. ASSUME NEW t \in Ids, StartTask(t) PROVE ControlConsistent'
  BY <1>6 DEF StartTask, Goto, TypeOK, ControlConsistent, TaskShape
<1>7. ASSUME NEW t \in Ids, NEW v \in Results, TaskComplete(t, v) PROVE
      ControlConsistent'
  BY <1>7 DEF TaskComplete, Goto, ToScheduler, TypeOK, ControlConsistent,
     TaskShape
<1>8. ASSUME NEW t \in Ids, TaskError(t) PROVE ControlConsistent'
  BY <1>8 DEF TaskError, Goto, ToScheduler, TypeOK, ControlConsistent,
     TaskShape
<1>9. ASSUME NEW t \in Ids, TaskYield(t) PROVE ControlConsistent'
  BY <1>9 DEF TaskYield, CanCall, Spend, Goto, ToScheduler, TypeOK,
     ControlConsistent, TaskShape
<1>10. ASSUME NEW t \in Ids, ResumeYield(t) PROVE ControlConsistent'
  BY <1>10 DEF ResumeYield, Goto, TypeOK, ControlConsistent, TaskShape
<1>11. ASSUME NEW t \in Ids, NEW id \in Ids, AwaitInTask(t, id) PROVE
      ControlConsistent'
  BY <1>11 DEF AwaitInTask, CanCall, Spend, Goto, ToScheduler, findTaskById,
     TypeOK, ControlConsistent, TaskShape
<1>12. ASSUME NEW t \in Ids, ResumeAwait(t) PROVE ControlConsistent'
  BY <1>12 DEF ResumeAwait, Goto, Deliver, TypeOK, ControlConsistent, TaskShape
<1>13. ASSUME NEW t \in Ids, NEW fd \in Sockets, AwaitSocket(t, fd) PROVE
      ControlConsistent'
  BY <1>13 DEF AwaitSocket, CanCall, Spend, Goto, AwaitFD, ToScheduler, TypeOK,
     ControlConsistent, TaskShape
<1>14. ASSUME NEW t \in Ids, NEW fd \in Files, AwaitFile(t, fd) PROVE
      ControlConsistent'
  BY <1>14 DEF AwaitFile, CanCall, Spend, TypeOK, ControlConsistent, TaskShape
<1>15. ASSUME NEW t \in Ids, ResumeSocket(t) PROVE ControlConsistent'
  BY <1>15 DEF ResumeSocket, Goto, TypeOK, ControlConsistent, TaskShape
<1>16. ASSUME NEW t \in Ids, NEW fd \in Timers, Sleep(t, fd) PROVE
      ControlConsistent'
  BY <1>16 DEF Sleep, CanCall, Spend, Goto, AwaitFD, ToScheduler, TypeOK,
     ControlConsistent, TaskShape
<1>17. ASSUME NEW t \in Ids, SleepRefused(t) PROVE ControlConsistent'
  BY <1>17 DEF SleepRefused, CanCall, Spend, TypeOK, ControlConsistent,
     TaskShape
<1>18. ASSUME NEW t \in Ids, ResumeSleep(t) PROVE ControlConsistent'
  BY <1>18 DEF ResumeSleep, Goto, CloseTimer, TypeOK, ControlConsistent,
     TaskShape
<1>19. ASSUME NEW id \in Ids, AwaitInMain(id) PROVE ControlConsistent'
  BY <1>19 DEF AwaitInMain, CanCall, Spend, Goto, findTaskById, TypeOK,
     ControlConsistent, TaskShape
<1>20. CASE NoEffectInMain
  BY <1>20 DEF NoEffectInMain, CanCall, Spend, TypeOK, ControlConsistent,
     TaskShape
<1>21. CASE MainReturn
  BY <1>21 DEF MainReturn, Goto, TypeOK, ControlConsistent, TaskShape
<1>22. CASE Abort
  BY <1>22 DEF Abort, Goto, TypeOK, ControlConsistent, TaskShape
<1>23. CASE BeginPass
  BY <1>23 DEF BeginPass, InLoop, TypeOK, ControlConsistent, TaskShape
<1>24. ASSUME NEW t \in Ids, RunNext(t) PROVE ControlConsistent'
  <2>1. /\ state' = [state EXCEPT ![t] = "RUNNING"] /\ currentTask' = t /\ control' = t
        /\ nextIndex' = t /\ pc' = pc /\ control = Main
        /\ pc[Main] \in {"awaitLoop", "runLoop"}
    BY <1>24 DEF RunNext, InLoop
  <2>2. state'[t] = "RUNNING" /\ \A u \in Ids \ {t} : state'[u] = state[u] /\ u # control
    BY <2>1 DEF TypeOK
  <2>3. \A u \in Ids \ {t} : state'[u] # "RUNNING"
    BY <2>2 DEF ControlConsistent
  <2> QED BY <2>1, <2>2, <2>3 DEF ControlConsistent
<1>25. CASE EndPass
  BY <1>25 DEF EndPass, InLoop, TypeOK, ControlConsistent, TaskShape
<1>26. ASSUME NEW batch \in SUBSET Fds, EpollWait(batch) PROVE
      ControlConsistent'
  BY <1>26 DEF EpollWait, InLoop, Deregistered, TypeOK, ControlConsistent,
     TaskShape
<1>27. CASE EndAwaitInMain
  BY <1>27 DEF EndAwaitInMain, InLoop, Deliver, Goto, TypeOK,
     ControlConsistent, TaskShape
<1>28. CASE Cleanup
  BY <1>28 DEF Cleanup, InLoop, Goto, TypeOK, ControlConsistent, TaskShape
<1>29. ASSUME NEW fd \in Timers, TimerFires(fd) PROVE ControlConsistent'
  BY <1>29 DEF TimerFires, TypeOK, ControlConsistent, TaskShape
<1>30. ASSUME NEW fd \in Sockets, SocketChanges(fd) PROVE ControlConsistent'
  BY <1>30 DEF SocketChanges, TypeOK, ControlConsistent, TaskShape
<1>31. CASE UNCHANGED vars
  BY <1>31 DEF TypeOK, ControlConsistent, TaskShape
<1> QED BY <1>1, <1>2, <1>3, <1>4, <1>5, <1>6, <1>7, <1>8, <1>9, <1>10, <1>11,
     <1>12, <1>13, <1>14, <1>15, <1>16, <1>17, <1>18, <1>19, <1>20, <1>21,
     <1>22, <1>23, <1>24, <1>25, <1>26, <1>27, <1>28, <1>29, <1>30, <1>31 DEF
     Next, Step, BodyStep, TaskStep, MainStep, LoopStep, Terminated

(* A slot below taskCount keeps a task: an event of epoll_wait revives     *)
(* none that does not exist.                                               *)
LEMMA ShapeStep ==
  ASSUME TypeOK, ControlConsistent, TaskShape, EpollPointsToWaiter, [Next]_vars
  PROVE  TaskShape'
<1>1. ASSUME NEW c \in Contexts, NEW f \in Functions, NEW a \in Arguments,
      Spawn(c, f, a) PROVE TaskShape'
  <2>1. SpawnFrame
    BY <1>1, SpawnEffect
  <2>2. CASE UNCHANGED <<taskCount, state, pc>>
    BY <2>1, <2>2 DEF SpawnFrame, TaskShape
  <2>3. ASSUME NEW n \in Ids, SpawnsAt(n) PROVE TaskShape'
    <3>1. /\ pc'[Main] = pc[Main]
          /\ pc'[n] = "start" /\ state'[n] = "CREATED"
          /\ \A t \in Ids \ {n} : pc'[t] = pc[t] /\ state'[t] = state[t]
      BY <2>3 DEF SpawnsAt, TypeOK
    <3>2. pc[Main] # "exit" =>
            \A t \in Ids : state'[t] = "NONE" <=> t > taskCount'
      <4> SUFFICES ASSUME pc[Main] # "exit", NEW t \in Ids
                   PROVE  state'[t] = "NONE" <=> t > taskCount'
        OBVIOUS
      <4>1. t > taskCount' <=> t > taskCount /\ t # n
        BY <2>3 DEF SpawnsAt, TypeOK
      <4> QED BY <3>1, <4>1 DEF TaskShape
    <3>3. \A t \in Ids : state'[t] = "NONE" => pc'[t] = "none"
      BY <3>1 DEF TaskShape
    <3>4. \A t \in Ids : pc'[t] = "awaiting" =>
            /\ awaitingTaskId'[t] \in Ids
            /\ pc'[Main] # "exit" => awaitingTaskId'[t] <= taskCount'
      <4> SUFFICES ASSUME NEW t \in Ids, pc'[t] = "awaiting"
                   PROVE  /\ awaitingTaskId'[t] \in Ids
                          /\ pc'[Main] # "exit" => awaitingTaskId'[t] <=
                             taskCount'
        OBVIOUS
      <4>1. pc[t] = "awaiting" /\ awaitingTaskId'[t] = awaitingTaskId[t]
        BY <2>1, <3>1 DEF SpawnFrame
      <4>2. /\ awaitingTaskId[t] \in Ids
            /\ pc[Main] # "exit" => awaitingTaskId[t] <= taskCount
        BY <4>1 DEF TaskShape
      <4>3. taskCount' = taskCount + 1 /\ taskCount \in Nat
        BY <2>3 DEF SpawnsAt, TypeOK
      <4> QED BY <3>1, <4>1, <4>2, <4>3
    <3>5. /\ pc[Main] = "awaitLoop" => mainTarget' \in 1 .. taskCount'
          /\ pc[Main] \in {"exit", "aborted"} => control' = Main
      BY <2>1, <2>3 DEF SpawnFrame, SpawnsAt, TaskShape, TypeOK
    <3> QED BY <3>1, <3>2, <3>3, <3>4, <3>5 DEF TaskShape
  <2> QED BY <1>1, <2>2, <2>3, SpawnEffect
<1>2. ASSUME NEW c \in Contexts, NEW id \in Ids, AwaitCompleted(c, id) PROVE
      TaskShape'
  BY <1>2 DEF AwaitCompleted, CanCall, Spend, Goto, Deliver, findTaskById,
     TypeOK, ControlConsistent, TaskShape, EpollPointsToWaiter
<1>3. ASSUME NEW c \in Contexts, AwaitRefused(c) PROVE TaskShape'
  BY <1>3 DEF AwaitRefused, CanCall, Spend, TypeOK, ControlConsistent,
     TaskShape, EpollPointsToWaiter
<1>4. ASSUME NEW c \in Contexts, Raise(c) PROVE TaskShape'
  BY <1>4 DEF Raise, CanCall, Spend, Goto, TypeOK, ControlConsistent,
     TaskShape, EpollPointsToWaiter
<1>5. ASSUME NEW c \in Contexts, Catch(c) PROVE TaskShape'
  BY <1>5 DEF Catch, Goto, TypeOK, ControlConsistent, TaskShape,
     EpollPointsToWaiter
<1>6. ASSUME NEW t \in Ids, StartTask(t) PROVE TaskShape'
  BY <1>6 DEF StartTask, Goto, TypeOK, ControlConsistent, TaskShape,
     EpollPointsToWaiter
<1>7. ASSUME NEW t \in Ids, NEW v \in Results, TaskComplete(t, v) PROVE
      TaskShape'
  BY <1>7 DEF TaskComplete, Goto, ToScheduler, TypeOK, ControlConsistent,
     TaskShape, EpollPointsToWaiter
<1>8. ASSUME NEW t \in Ids, TaskError(t) PROVE TaskShape'
  BY <1>8 DEF TaskError, Goto, ToScheduler, TypeOK, ControlConsistent,
     TaskShape, EpollPointsToWaiter
<1>9. ASSUME NEW t \in Ids, TaskYield(t) PROVE TaskShape'
  BY <1>9 DEF TaskYield, CanCall, Spend, Goto, ToScheduler, TypeOK,
     ControlConsistent, TaskShape, EpollPointsToWaiter
<1>10. ASSUME NEW t \in Ids, ResumeYield(t) PROVE TaskShape'
  BY <1>10 DEF ResumeYield, Goto, TypeOK, ControlConsistent, TaskShape,
     EpollPointsToWaiter
<1>11. ASSUME NEW t \in Ids, NEW id \in Ids, AwaitInTask(t, id) PROVE
      TaskShape'
  <2>1. /\ state' = [state EXCEPT ![t] = "SUSPENDED"] /\ pc' = [pc EXCEPT ![t] = "awaiting"]
        /\ awaitingTaskId' = [awaitingTaskId EXCEPT ![t] = id] /\ control' = Main
        /\ taskCount' = taskCount /\ mainTarget' = mainTarget
        /\ control = t /\ pc[t] = "body" /\ id \in 1 .. taskCount
    BY <1>11 DEF AwaitInTask, CanCall, Goto, ToScheduler, findTaskById
  <2>2. /\ pc'[t] = "awaiting" /\ awaitingTaskId'[t] = id /\ state'[t] = "SUSPENDED"
        /\ \A u \in Ids \ {t} : /\ state'[u] = state[u] /\ pc'[u] = pc[u]
                                /\ awaitingTaskId'[u] = awaitingTaskId[u]
        /\ pc'[Main] = pc[Main]
    BY <2>1 DEF TypeOK
  <2>3. state[t] # "NONE"
    BY <2>1 DEF TaskShape
  <2>4. id \in Ids /\ id <= taskCount
    BY <2>1
  <2>5. ASSUME NEW u \in Ids, pc'[u] = "awaiting"
        PROVE  awaitingTaskId'[u] \in Ids /\ (pc[Main] # "exit" => awaitingTaskId'[u] <= taskCount)
    <3>1. CASE u = t
      BY <2>2, <2>4, <3>1
    <3>2. CASE u # t
      BY <2>2, <2>5, <3>2 DEF TaskShape
    <3> QED BY <3>1, <3>2
  <2>6. \A u \in Ids : /\ state'[u] = "NONE" <=> state[u] = "NONE"
                       /\ state'[u] = "NONE" => pc'[u] = "none"
    BY <2>2, <2>3 DEF TaskShape
  <2> QED BY <2>1, <2>2, <2>5, <2>6 DEF TaskShape
<1>12. ASSUME NEW t \in Ids, ResumeAwait(t) PROVE TaskShape'
  <2>1. PICK label \in {"body", "raised"} : pc' = [pc EXCEPT ![t] = label]
    BY <1>12, DeliverGoesOn DEF ResumeAwait
  <2>2. /\ awaitingTaskId' = [awaitingTaskId EXCEPT ![t] = NoTask] /\ control' = control
        /\ UNCHANGED <<taskCount, state, mainTarget>> /\ pc[t] = "awaiting"
    BY <1>12 DEF ResumeAwait
  <2>3. /\ pc'[t] = label /\ pc'[Main] = pc[Main]
        /\ \A u \in Ids \ {t} : /\ awaitingTaskId'[u] = awaitingTaskId[u] /\ pc'[u] = pc[u]
    BY <2>1, <2>2 DEF TypeOK
  <2>4. ASSUME NEW u \in Ids, pc'[u] = "awaiting"
        PROVE  u # t /\ pc[u] = "awaiting" /\ awaitingTaskId'[u] = awaitingTaskId[u]
    BY <2>3, <2>4
  <2>5. \A u \in Ids : state[u] = "NONE" => pc'[u] = "none"
    BY <2>2, <2>3 DEF TaskShape
  <2> QED BY <2>2, <2>3, <2>4, <2>5 DEF TaskShape
<1>13. ASSUME NEW t \in Ids, NEW fd \in Sockets, AwaitSocket(t, fd) PROVE
      TaskShape'
  <2>1. /\ state' = [state EXCEPT ![t] = "IO_WAITING"] /\ pc' = [pc EXCEPT ![t] = "waiting"]
        /\ UNCHANGED <<taskCount, awaitingTaskId, mainTarget>> /\ control' = Main
        /\ pc[t] = "body"
    BY <1>13 DEF AwaitSocket, CanCall, AwaitFD, ToScheduler, Goto
  <2>2. /\ pc'[t] = "waiting" /\ state'[t] = "IO_WAITING" /\ pc'[Main] = pc[Main]
        /\ \A u \in Ids \ {t} : state'[u] = state[u] /\ pc'[u] = pc[u]
    BY <2>1 DEF TypeOK
  <2>3. state[t] # "NONE"
    BY <2>1 DEF TaskShape
  <2> QED BY <2>1, <2>2, <2>3 DEF TaskShape
<1>14. ASSUME NEW t \in Ids, NEW fd \in Files, AwaitFile(t, fd) PROVE
      TaskShape'
  <2>1. /\ state' = [state EXCEPT ![t] = "SUSPENDED"] /\ pc[t] = "body"
        /\ UNCHANGED <<taskCount, pc, awaitingTaskId, control, mainTarget>>
    BY <1>14 DEF AwaitFile, CanCall
  <2>2. state'[t] = "SUSPENDED" /\ \A u \in Ids \ {t} : state'[u] = state[u]
    BY <2>1 DEF TypeOK
  <2>3. state[t] # "NONE"
    BY <2>1 DEF TaskShape
  <2> QED BY <2>1, <2>2, <2>3 DEF TaskShape
<1>15. ASSUME NEW t \in Ids, ResumeSocket(t) PROVE TaskShape'
  BY <1>15 DEF ResumeSocket, Goto, TypeOK, ControlConsistent, TaskShape,
     EpollPointsToWaiter
<1>16. ASSUME NEW t \in Ids, NEW fd \in Timers, Sleep(t, fd) PROVE TaskShape'
  <2>1. /\ state' = [state EXCEPT ![t] = "IO_WAITING"] /\ pc' = [pc EXCEPT ![t] = "sleeping"]
        /\ UNCHANGED <<taskCount, awaitingTaskId, mainTarget>> /\ control' = Main
        /\ pc[t] = "body"
    BY <1>16 DEF Sleep, CanCall, AwaitFD, ToScheduler, Goto
  <2>2. /\ pc'[t] = "sleeping" /\ state'[t] = "IO_WAITING" /\ pc'[Main] = pc[Main]
        /\ \A u \in Ids \ {t} : state'[u] = state[u] /\ pc'[u] = pc[u]
    BY <2>1 DEF TypeOK
  <2>3. state[t] # "NONE"
    BY <2>1 DEF TaskShape
  <2> QED BY <2>1, <2>2, <2>3 DEF TaskShape
<1>17. ASSUME NEW t \in Ids, SleepRefused(t) PROVE TaskShape'
  BY <1>17 DEF SleepRefused, CanCall, Spend, TypeOK, ControlConsistent,
     TaskShape, EpollPointsToWaiter
<1>18. ASSUME NEW t \in Ids, ResumeSleep(t) PROVE TaskShape'
  BY <1>18 DEF ResumeSleep, Goto, CloseTimer, TypeOK, ControlConsistent,
     TaskShape, EpollPointsToWaiter
<1>19. ASSUME NEW id \in Ids, AwaitInMain(id) PROVE TaskShape'
  BY <1>19 DEF AwaitInMain, CanCall, Spend, Goto, findTaskById, TypeOK,
     ControlConsistent, TaskShape, EpollPointsToWaiter
<1>20. CASE NoEffectInMain
  BY <1>20 DEF NoEffectInMain, CanCall, Spend, TypeOK, ControlConsistent,
     TaskShape, EpollPointsToWaiter
<1>21. CASE MainReturn
  BY <1>21 DEF MainReturn, Goto, TypeOK, ControlConsistent, TaskShape,
     EpollPointsToWaiter
<1>22. CASE Abort
  BY <1>22 DEF Abort, Goto, TypeOK, ControlConsistent, TaskShape,
     EpollPointsToWaiter
<1>23. CASE BeginPass
  BY <1>23 DEF BeginPass, InLoop, TypeOK, ControlConsistent, TaskShape,
     EpollPointsToWaiter
<1>24. ASSUME NEW t \in Ids, RunNext(t) PROVE TaskShape'
  <2>1. /\ state' = [state EXCEPT ![t] = "RUNNING"] /\ state[t] \in {"CREATED", "SUSPENDED"}
        /\ UNCHANGED <<taskCount, pc, awaitingTaskId, mainTarget>>
        /\ pc[Main] \in {"awaitLoop", "runLoop"}
    BY <1>24 DEF RunNext, InLoop, Switchable
  <2>2. state'[t] = "RUNNING" /\ \A u \in Ids \ {t} : state'[u] = state[u]
    BY <2>1 DEF TypeOK
  <2> QED BY <2>1, <2>2 DEF TaskShape
<1>25. CASE EndPass
  BY <1>25 DEF EndPass, InLoop, TypeOK, ControlConsistent, TaskShape,
     EpollPointsToWaiter
<1>26. ASSUME NEW batch \in SUBSET Fds, EpollWait(batch) PROVE TaskShape'
  <2>1. \A fd \in batch : state[epoll[fd]] = "IO_WAITING"
    BY <1>26 DEF EpollWait, TypeOK, EpollPointsToWaiter
  <2>2. \A t \in Ids : state'[t] = "NONE" <=> state[t] = "NONE"
    BY <1>26, <2>1 DEF EpollWait, TypeOK
  <2> QED BY <1>26, <2>2 DEF EpollWait, InLoop, TypeOK, TaskShape
<1>27. CASE EndAwaitInMain
  BY <1>27 DEF EndAwaitInMain, InLoop, Deliver, Goto, TypeOK,
     ControlConsistent, TaskShape, EpollPointsToWaiter
<1>28. CASE Cleanup
  BY <1>28 DEF Cleanup, InLoop, Goto, TypeOK, ControlConsistent, TaskShape,
     EpollPointsToWaiter
<1>29. ASSUME NEW fd \in Timers, TimerFires(fd) PROVE TaskShape'
  BY <1>29 DEF TimerFires, TypeOK, ControlConsistent, TaskShape,
     EpollPointsToWaiter
<1>30. ASSUME NEW fd \in Sockets, SocketChanges(fd) PROVE TaskShape'
  BY <1>30 DEF SocketChanges, TypeOK, ControlConsistent, TaskShape,
     EpollPointsToWaiter
<1>31. CASE UNCHANGED vars
  BY <1>31 DEF TypeOK, ControlConsistent, TaskShape, EpollPointsToWaiter
<1> QED BY <1>1, <1>2, <1>3, <1>4, <1>5, <1>6, <1>7, <1>8, <1>9, <1>10, <1>11,
     <1>12, <1>13, <1>14, <1>15, <1>16, <1>17, <1>18, <1>19, <1>20, <1>21,
     <1>22, <1>23, <1>24, <1>25, <1>26, <1>27, <1>28, <1>29, <1>30, <1>31 DEF
     Next, Step, BodyStep, TaskStep, MainStep, LoopStep, Terminated

(* Only the running task becomes a waiter, and no entry pointed to it; a   *)
(* woken task loses its entry.                                             *)
LEMMA EpollStep ==
  ASSUME TypeOK, ControlConsistent, TaskShape, EpollPointsToWaiter, [Next]_vars
  PROVE  EpollPointsToWaiter'
<1>1. ASSUME NEW c \in Contexts, NEW f \in Functions, NEW a \in Arguments,
      Spawn(c, f, a) PROVE EpollPointsToWaiter'
  <2>1. SpawnFrame
    BY <1>1, SpawnEffect
  <2>2. CASE UNCHANGED <<taskCount, state, pc>>
    BY <2>1, <2>2 DEF SpawnFrame, TypeOK, EpollPointsToWaiter
  <2>3. ASSUME NEW n \in Ids, SpawnsAt(n) PROVE EpollPointsToWaiter'
    <3>1. /\ state' = [state EXCEPT ![n] = "CREATED"] /\ state[n] = "NONE"
          /\ UNCHANGED <<epoll, waitingFd>>
      BY <2>1, <2>3 DEF SpawnFrame, SpawnsAt
    <3> QED BY <3>1 DEF TypeOK, EpollPointsToWaiter
  <2> QED BY <1>1, <2>2, <2>3, SpawnEffect
<1>2. ASSUME NEW c \in Contexts, NEW id \in Ids, AwaitCompleted(c, id) PROVE
      EpollPointsToWaiter'
  BY <1>2 DEF AwaitCompleted, EpollPointsToWaiter
<1>3. ASSUME NEW c \in Contexts, AwaitRefused(c) PROVE EpollPointsToWaiter'
  BY <1>3 DEF AwaitRefused, CanCall, Spend, TypeOK, ControlConsistent,
     TaskShape, EpollPointsToWaiter
<1>4. ASSUME NEW c \in Contexts, Raise(c) PROVE EpollPointsToWaiter'
  BY <1>4 DEF Raise, CanCall, Spend, Goto, TypeOK, ControlConsistent,
     TaskShape, EpollPointsToWaiter
<1>5. ASSUME NEW c \in Contexts, Catch(c) PROVE EpollPointsToWaiter'
  BY <1>5 DEF Catch, Goto, TypeOK, ControlConsistent, TaskShape,
     EpollPointsToWaiter
<1>6. ASSUME NEW t \in Ids, StartTask(t) PROVE EpollPointsToWaiter'
  BY <1>6 DEF StartTask, Goto, TypeOK, ControlConsistent, TaskShape,
     EpollPointsToWaiter
<1>7. ASSUME NEW t \in Ids, NEW v \in Results, TaskComplete(t, v) PROVE
      EpollPointsToWaiter'
  <2>1. state' = [state EXCEPT ![t] = "COMPLETED"] /\ UNCHANGED <<epoll, waitingFd>>
    BY <1>7 DEF TaskComplete
  <2>2. state[t] # "IO_WAITING"
    BY <1>7 DEF TaskComplete, ControlConsistent
  <2> QED BY <2>1, <2>2 DEF TypeOK, EpollPointsToWaiter
<1>8. ASSUME NEW t \in Ids, TaskError(t) PROVE EpollPointsToWaiter'
  <2>1. state' = [state EXCEPT ![t] = "COMPLETED"] /\ UNCHANGED <<epoll, waitingFd>>
    BY <1>8 DEF TaskError
  <2>2. state[t] # "IO_WAITING"
    BY <1>8 DEF TaskError, ControlConsistent
  <2> QED BY <2>1, <2>2 DEF TypeOK, EpollPointsToWaiter
<1>9. ASSUME NEW t \in Ids, TaskYield(t) PROVE EpollPointsToWaiter'
  <2>1. state' = [state EXCEPT ![t] = "SUSPENDED"] /\ UNCHANGED <<epoll, waitingFd>>
    BY <1>9 DEF TaskYield
  <2>2. state[t] # "IO_WAITING"
    BY <1>9 DEF TaskYield, CanCall, ControlConsistent
  <2> QED BY <2>1, <2>2 DEF TypeOK, EpollPointsToWaiter
<1>10. ASSUME NEW t \in Ids, ResumeYield(t) PROVE EpollPointsToWaiter'
  BY <1>10 DEF ResumeYield, Goto, TypeOK, ControlConsistent, TaskShape,
     EpollPointsToWaiter
<1>11. ASSUME NEW t \in Ids, NEW id \in Ids, AwaitInTask(t, id) PROVE
      EpollPointsToWaiter'
  <2>1. state' = [state EXCEPT ![t] = "SUSPENDED"] /\ UNCHANGED <<epoll, waitingFd>>
    BY <1>11 DEF AwaitInTask
  <2>2. state[t] # "IO_WAITING"
    BY <1>11 DEF AwaitInTask, CanCall, ControlConsistent
  <2> QED BY <2>1, <2>2 DEF TypeOK, EpollPointsToWaiter
<1>12. ASSUME NEW t \in Ids, ResumeAwait(t) PROVE EpollPointsToWaiter'
  BY <1>12 DEF ResumeAwait, Goto, Deliver, TypeOK, ControlConsistent,
     TaskShape, EpollPointsToWaiter
<1>13. ASSUME NEW t \in Ids, NEW fd \in Sockets, AwaitSocket(t, fd) PROVE
      EpollPointsToWaiter'
  <2>1. /\ state' = [state EXCEPT ![t] = "IO_WAITING"]
        /\ waitingFd' = [waitingFd EXCEPT ![t] = fd]
        /\ epoll' = [epoll EXCEPT ![fd] = t] /\ control = t
    BY <1>13 DEF AwaitSocket, CanCall, AwaitFD
  <2>2. state[t] # "IO_WAITING"
    BY <2>1 DEF ControlConsistent
  <2>3. \A f \in Fds : epoll[f] # NoTask => epoll[f] \in Ids \ {t}
    BY <2>2 DEF TypeOK, EpollPointsToWaiter
  <2>4. /\ state'[t] = "IO_WAITING" /\ waitingFd'[t] = fd /\ epoll'[fd] = t
        /\ \A u \in Ids \ {t} : state'[u] = state[u] /\ waitingFd'[u] = waitingFd[u]
        /\ \A f \in Fds \ {fd} : epoll'[f] = epoll[f]
    BY <2>1 DEF TypeOK
  <2>5. \A f \in Fds : epoll[f] # NoTask => /\ state[epoll[f]] = "IO_WAITING"
                                             /\ waitingFd[epoll[f]] = f
    BY DEF EpollPointsToWaiter
  <2>6. ASSUME NEW f \in Fds, epoll'[f] # NoTask
        PROVE  state'[epoll'[f]] = "IO_WAITING" /\ waitingFd'[epoll'[f]] = f
    <3>1. CASE f = fd
      BY <2>4, <3>1
    <3>2. CASE f # fd
      <4>1. epoll'[f] = epoll[f] /\ epoll[f] \in Ids \ {t}
        BY <2>3, <2>4, <2>6, <3>2
      <4>2. state'[epoll[f]] = state[epoll[f]] /\ waitingFd'[epoll[f]] = waitingFd[epoll[f]]
        BY <2>4, <4>1
      <4>3. state[epoll[f]] = "IO_WAITING" /\ waitingFd[epoll[f]] = f
        BY <2>5, <2>6, <4>1
      <4> QED BY <4>1, <4>2, <4>3
    <3> QED BY <3>1, <3>2
  <2> QED BY <2>6 DEF EpollPointsToWaiter
<1>14. ASSUME NEW t \in Ids, NEW fd \in Files, AwaitFile(t, fd) PROVE
      EpollPointsToWaiter'
  <2>1. /\ state' = [state EXCEPT ![t] = "SUSPENDED"] /\ epoll' = epoll
        /\ waitingFd' = [waitingFd EXCEPT ![t] = fd]
    BY <1>14 DEF AwaitFile
  <2>2. state[t] # "IO_WAITING"
    BY <1>14 DEF AwaitFile, CanCall, ControlConsistent
  <2> QED BY <2>1, <2>2 DEF TypeOK, EpollPointsToWaiter
<1>15. ASSUME NEW t \in Ids, ResumeSocket(t) PROVE EpollPointsToWaiter'
  BY <1>15 DEF ResumeSocket, Goto, TypeOK, ControlConsistent, TaskShape,
     EpollPointsToWaiter
<1>16. ASSUME NEW t \in Ids, NEW fd \in Timers, Sleep(t, fd) PROVE
      EpollPointsToWaiter'
  <2>1. /\ state' = [state EXCEPT ![t] = "IO_WAITING"]
        /\ waitingFd' = [waitingFd EXCEPT ![t] = fd]
        /\ epoll' = [epoll EXCEPT ![fd] = t] /\ control = t
    BY <1>16 DEF Sleep, CanCall, AwaitFD
  <2>2. state[t] # "IO_WAITING"
    BY <2>1 DEF ControlConsistent
  <2>3. \A f \in Fds : epoll[f] # NoTask => epoll[f] \in Ids \ {t}
    BY <2>2 DEF TypeOK, EpollPointsToWaiter
  <2>4. /\ state'[t] = "IO_WAITING" /\ waitingFd'[t] = fd /\ epoll'[fd] = t
        /\ \A u \in Ids \ {t} : state'[u] = state[u] /\ waitingFd'[u] = waitingFd[u]
        /\ \A f \in Fds \ {fd} : epoll'[f] = epoll[f]
    BY <2>1 DEF TypeOK
  <2>5. \A f \in Fds : epoll[f] # NoTask => /\ state[epoll[f]] = "IO_WAITING"
                                             /\ waitingFd[epoll[f]] = f
    BY DEF EpollPointsToWaiter
  <2>6. ASSUME NEW f \in Fds, epoll'[f] # NoTask
        PROVE  state'[epoll'[f]] = "IO_WAITING" /\ waitingFd'[epoll'[f]] = f
    <3>1. CASE f = fd
      BY <2>4, <3>1
    <3>2. CASE f # fd
      <4>1. epoll'[f] = epoll[f] /\ epoll[f] \in Ids \ {t}
        BY <2>3, <2>4, <2>6, <3>2
      <4>2. state'[epoll[f]] = state[epoll[f]] /\ waitingFd'[epoll[f]] = waitingFd[epoll[f]]
        BY <2>4, <4>1
      <4>3. state[epoll[f]] = "IO_WAITING" /\ waitingFd[epoll[f]] = f
        BY <2>5, <2>6, <4>1
      <4> QED BY <4>1, <4>2, <4>3
    <3> QED BY <3>1, <3>2
  <2> QED BY <2>6 DEF EpollPointsToWaiter
<1>17. ASSUME NEW t \in Ids, SleepRefused(t) PROVE EpollPointsToWaiter'
  BY <1>17 DEF SleepRefused, CanCall, Spend, TypeOK, ControlConsistent,
     TaskShape, EpollPointsToWaiter
<1>18. ASSUME NEW t \in Ids, ResumeSleep(t) PROVE EpollPointsToWaiter'
  BY <1>18 DEF ResumeSleep, Goto, CloseTimer, TypeOK, ControlConsistent,
     TaskShape, EpollPointsToWaiter
<1>19. ASSUME NEW id \in Ids, AwaitInMain(id) PROVE EpollPointsToWaiter'
  BY <1>19 DEF AwaitInMain, CanCall, Spend, Goto, findTaskById, TypeOK,
     ControlConsistent, TaskShape, EpollPointsToWaiter
<1>20. CASE NoEffectInMain
  BY <1>20 DEF NoEffectInMain, CanCall, Spend, TypeOK, ControlConsistent,
     TaskShape, EpollPointsToWaiter
<1>21. CASE MainReturn
  BY <1>21 DEF MainReturn, Goto, TypeOK, ControlConsistent, TaskShape,
     EpollPointsToWaiter
<1>22. CASE Abort
  BY <1>22 DEF Abort, Goto, TypeOK, ControlConsistent, TaskShape,
     EpollPointsToWaiter
<1>23. CASE BeginPass
  BY <1>23 DEF BeginPass, InLoop, TypeOK, ControlConsistent, TaskShape,
     EpollPointsToWaiter
<1>24. ASSUME NEW t \in Ids, RunNext(t) PROVE EpollPointsToWaiter'
  BY <1>24 DEF RunNext, InLoop, Switchable, canRunTask, AwaitedCompleted,
     findTaskById, TypeOK, ControlConsistent, TaskShape, EpollPointsToWaiter
<1>25. CASE EndPass
  BY <1>25 DEF EndPass, InLoop, TypeOK, ControlConsistent, TaskShape,
     EpollPointsToWaiter
<1>26. ASSUME NEW batch \in SUBSET Fds, EpollWait(batch) PROVE
      EpollPointsToWaiter'
  <2> DEFINE woken == {epoll[fd] : fd \in batch}
  <2>1. \A u \in woken : u \in Ids
    BY <1>26 DEF EpollWait, TypeOK
  <2> SUFFICES ASSUME NEW fd \in Fds, epoll'[fd] # NoTask
               PROVE  /\ state'[epoll'[fd]] = "IO_WAITING"
                      /\ waitingFd'[epoll'[fd]] = fd
    BY DEF EpollPointsToWaiter
  <2>2. epoll'[fd] = epoll[fd] /\ ~ \E u \in woken : waitingFd[u] = fd
    BY <1>26 DEF EpollWait, Deregistered
  <2>3. epoll[fd] \in Ids /\ epoll[fd] \notin woken
    BY <2>2 DEF EpollPointsToWaiter, TypeOK
  <2>4. /\ state'[epoll[fd]] = state[epoll[fd]]
        /\ waitingFd'[epoll[fd]] = waitingFd[epoll[fd]]
    BY <1>26, <2>3 DEF EpollWait
  <2> QED BY <2>2, <2>3, <2>4 DEF EpollPointsToWaiter
<1>27. CASE EndAwaitInMain
  BY <1>27 DEF EndAwaitInMain, EpollPointsToWaiter
<1>28. CASE Cleanup
  BY <1>28 DEF Cleanup, InLoop, Goto, TypeOK, ControlConsistent, TaskShape,
     EpollPointsToWaiter
<1>29. ASSUME NEW fd \in Timers, TimerFires(fd) PROVE EpollPointsToWaiter'
  BY <1>29 DEF TimerFires, TypeOK, ControlConsistent, TaskShape,
     EpollPointsToWaiter
<1>30. ASSUME NEW fd \in Sockets, SocketChanges(fd) PROVE EpollPointsToWaiter'
  BY <1>30 DEF SocketChanges, TypeOK, ControlConsistent, TaskShape,
     EpollPointsToWaiter
<1>31. CASE UNCHANGED vars
  BY <1>31 DEF TypeOK, ControlConsistent, TaskShape, EpollPointsToWaiter
<1> QED BY <1>1, <1>2, <1>3, <1>4, <1>5, <1>6, <1>7, <1>8, <1>9, <1>10, <1>11,
     <1>12, <1>13, <1>14, <1>15, <1>16, <1>17, <1>18, <1>19, <1>20, <1>21,
     <1>22, <1>23, <1>24, <1>25, <1>26, <1>27, <1>28, <1>29, <1>30, <1>31 DEF
     Next, Step, BodyStep, TaskStep, MainStep, LoopStep, Terminated

(* RunNext asked again whether the target is completed, and no other task  *)
(* runs between the answer and the switch.                                 *)
LEMMA AwaitStep ==
  ASSUME TypeOK, ControlConsistent, TaskShape, AwaitResumesSettled, [Next]_vars
  PROVE  AwaitResumesSettled'
<1>1. ASSUME NEW c \in Contexts, NEW f \in Functions, NEW a \in Arguments,
      Spawn(c, f, a) PROVE AwaitResumesSettled'
  <2>1. SpawnFrame
    BY <1>1, SpawnEffect
  <2>2. CASE UNCHANGED <<taskCount, state, pc>>
    BY <2>1, <2>2 DEF SpawnFrame, AwaitResumesSettled
  <2>3. ASSUME NEW n \in Ids, SpawnsAt(n) PROVE AwaitResumesSettled'
    <3> SUFFICES ASSUME NEW t \in Ids, control' = t, pc'[t] = "awaiting"
                 PROVE  /\ awaitingTaskId'[t] \in 1 .. taskCount'
                        /\ state'[awaitingTaskId'[t]] = "COMPLETED"
      BY DEF AwaitResumesSettled
    <3>1. control = t /\ pc[t] = "awaiting"
      BY <2>1, <2>3 DEF SpawnFrame, SpawnsAt, TypeOK
    <3>2. /\ awaitingTaskId[t] \in 1 .. taskCount
          /\ state[awaitingTaskId[t]] = "COMPLETED"
      BY <3>1 DEF AwaitResumesSettled
    <3>3. awaitingTaskId[t] \in Ids
      BY <3>2 DEF TypeOK
    <3>4. awaitingTaskId[t] # n
      BY <2>3, <3>2 DEF SpawnsAt
    <3> QED BY <2>1, <2>3, <3>2, <3>3, <3>4 DEF SpawnFrame, SpawnsAt, TypeOK
  <2> QED BY <1>1, <2>2, <2>3, SpawnEffect
<1>2. ASSUME NEW c \in Contexts, NEW id \in Ids, AwaitCompleted(c, id) PROVE
      AwaitResumesSettled'
  BY <1>2 DEF AwaitCompleted, CanCall, Spend, Goto, Deliver, findTaskById,
     TypeOK, ControlConsistent, TaskShape, AwaitResumesSettled
<1>3. ASSUME NEW c \in Contexts, AwaitRefused(c) PROVE AwaitResumesSettled'
  BY <1>3 DEF AwaitRefused, CanCall, Spend, TypeOK, ControlConsistent,
     TaskShape, AwaitResumesSettled
<1>4. ASSUME NEW c \in Contexts, Raise(c) PROVE AwaitResumesSettled'
  BY <1>4 DEF Raise, CanCall, Spend, Goto, TypeOK, ControlConsistent,
     TaskShape, AwaitResumesSettled
<1>5. ASSUME NEW c \in Contexts, Catch(c) PROVE AwaitResumesSettled'
  BY <1>5 DEF Catch, Goto, TypeOK, ControlConsistent, TaskShape,
     AwaitResumesSettled
<1>6. ASSUME NEW t \in Ids, StartTask(t) PROVE AwaitResumesSettled'
  BY <1>6 DEF StartTask, Goto, TypeOK, ControlConsistent, TaskShape,
     AwaitResumesSettled
<1>7. ASSUME NEW t \in Ids, NEW v \in Results, TaskComplete(t, v) PROVE
      AwaitResumesSettled'
  BY <1>7 DEF TaskComplete, Goto, ToScheduler, TypeOK, ControlConsistent,
     TaskShape, AwaitResumesSettled
<1>8. ASSUME NEW t \in Ids, TaskError(t) PROVE AwaitResumesSettled'
  BY <1>8 DEF TaskError, Goto, ToScheduler, TypeOK, ControlConsistent,
     TaskShape, AwaitResumesSettled
<1>9. ASSUME NEW t \in Ids, TaskYield(t) PROVE AwaitResumesSettled'
  BY <1>9 DEF TaskYield, CanCall, Spend, Goto, ToScheduler, TypeOK,
     ControlConsistent, TaskShape, AwaitResumesSettled
<1>10. ASSUME NEW t \in Ids, ResumeYield(t) PROVE AwaitResumesSettled'
  BY <1>10 DEF ResumeYield, Goto, TypeOK, ControlConsistent, TaskShape,
     AwaitResumesSettled
<1>11. ASSUME NEW t \in Ids, NEW id \in Ids, AwaitInTask(t, id) PROVE
      AwaitResumesSettled'
  BY <1>11 DEF AwaitInTask, CanCall, Spend, Goto, ToScheduler, findTaskById,
     TypeOK, ControlConsistent, TaskShape, AwaitResumesSettled
<1>12. ASSUME NEW t \in Ids, ResumeAwait(t) PROVE AwaitResumesSettled'
  BY <1>12 DEF ResumeAwait, Goto, Deliver, TypeOK, ControlConsistent,
     TaskShape, AwaitResumesSettled
<1>13. ASSUME NEW t \in Ids, NEW fd \in Sockets, AwaitSocket(t, fd) PROVE
      AwaitResumesSettled'
  BY <1>13 DEF AwaitSocket, CanCall, Spend, Goto, AwaitFD, ToScheduler, TypeOK,
     ControlConsistent, TaskShape, AwaitResumesSettled
<1>14. ASSUME NEW t \in Ids, NEW fd \in Files, AwaitFile(t, fd) PROVE
      AwaitResumesSettled'
  BY <1>14 DEF AwaitFile, CanCall, Spend, TypeOK, ControlConsistent, TaskShape,
     AwaitResumesSettled
<1>15. ASSUME NEW t \in Ids, ResumeSocket(t) PROVE AwaitResumesSettled'
  BY <1>15 DEF ResumeSocket, Goto, TypeOK, ControlConsistent, TaskShape,
     AwaitResumesSettled
<1>16. ASSUME NEW t \in Ids, NEW fd \in Timers, Sleep(t, fd) PROVE
      AwaitResumesSettled'
  BY <1>16 DEF Sleep, CanCall, Spend, Goto, AwaitFD, ToScheduler, TypeOK,
     ControlConsistent, TaskShape, AwaitResumesSettled
<1>17. ASSUME NEW t \in Ids, SleepRefused(t) PROVE AwaitResumesSettled'
  BY <1>17 DEF SleepRefused, CanCall, Spend, TypeOK, ControlConsistent,
     TaskShape, AwaitResumesSettled
<1>18. ASSUME NEW t \in Ids, ResumeSleep(t) PROVE AwaitResumesSettled'
  BY <1>18 DEF ResumeSleep, Goto, CloseTimer, TypeOK, ControlConsistent,
     TaskShape, AwaitResumesSettled
<1>19. ASSUME NEW id \in Ids, AwaitInMain(id) PROVE AwaitResumesSettled'
  BY <1>19 DEF AwaitInMain, CanCall, Spend, Goto, findTaskById, TypeOK,
     ControlConsistent, TaskShape, AwaitResumesSettled
<1>20. CASE NoEffectInMain
  BY <1>20 DEF NoEffectInMain, CanCall, Spend, TypeOK, ControlConsistent,
     TaskShape, AwaitResumesSettled
<1>21. CASE MainReturn
  BY <1>21 DEF MainReturn, Goto, TypeOK, ControlConsistent, TaskShape,
     AwaitResumesSettled
<1>22. CASE Abort
  BY <1>22 DEF Abort, Goto, TypeOK, ControlConsistent, TaskShape,
     AwaitResumesSettled
<1>23. CASE BeginPass
  BY <1>23 DEF BeginPass, InLoop, TypeOK, ControlConsistent, TaskShape,
     AwaitResumesSettled
<1>24. ASSUME NEW t \in Ids, RunNext(t) PROVE AwaitResumesSettled'
  <2>1. /\ state' = [state EXCEPT ![t] = "RUNNING"] /\ control' = t
        /\ UNCHANGED <<taskCount, pc, awaitingTaskId>> /\ canRunTask(t)
        /\ state[t] \in {"CREATED", "SUSPENDED"} /\ pc[Main] # "exit"
    BY <1>24 DEF RunNext, InLoop, Switchable
  <2>2. ASSUME pc[t] = "awaiting"
        PROVE  /\ awaitingTaskId[t] \in 1 .. taskCount
               /\ state[awaitingTaskId[t]] = "COMPLETED"
    <3>1. awaitingTaskId[t] \in 1 .. taskCount
      BY <2>1, <2>2 DEF TaskShape, TypeOK
    <3> QED BY <2>1, <3>1 DEF canRunTask, AwaitedCompleted, findTaskById
  <2>3. \A u \in Ids : state[u] = "COMPLETED" => state'[u] = "COMPLETED"
    BY <2>1 DEF TypeOK
  <2>4. 1 .. taskCount \subseteq Ids
    BY DEF TypeOK
  <2> QED BY <2>1, <2>2, <2>3, <2>4 DEF AwaitResumesSettled
<1>25. CASE EndPass
  BY <1>25 DEF EndPass, InLoop, TypeOK, ControlConsistent, TaskShape,
     AwaitResumesSettled
<1>26. ASSUME NEW batch \in SUBSET Fds, EpollWait(batch) PROVE
      AwaitResumesSettled'
  BY <1>26 DEF EpollWait, InLoop, Deregistered, TypeOK, ControlConsistent,
     TaskShape, AwaitResumesSettled
<1>27. CASE EndAwaitInMain
  BY <1>27 DEF EndAwaitInMain, InLoop, Deliver, Goto, TypeOK,
     ControlConsistent, TaskShape, AwaitResumesSettled
<1>28. CASE Cleanup
  BY <1>28 DEF Cleanup, InLoop, Goto, TypeOK, ControlConsistent, TaskShape,
     AwaitResumesSettled
<1>29. ASSUME NEW fd \in Timers, TimerFires(fd) PROVE AwaitResumesSettled'
  BY <1>29 DEF TimerFires, TypeOK, ControlConsistent, TaskShape,
     AwaitResumesSettled
<1>30. ASSUME NEW fd \in Sockets, SocketChanges(fd) PROVE AwaitResumesSettled'
  BY <1>30 DEF SocketChanges, TypeOK, ControlConsistent, TaskShape,
     AwaitResumesSettled
<1>31. CASE UNCHANGED vars
  BY <1>31 DEF TypeOK, ControlConsistent, TaskShape, AwaitResumesSettled
<1> QED BY <1>1, <1>2, <1>3, <1>4, <1>5, <1>6, <1>7, <1>8, <1>9, <1>10, <1>11,
     <1>12, <1>13, <1>14, <1>15, <1>16, <1>17, <1>18, <1>19, <1>20, <1>21,
     <1>22, <1>23, <1>24, <1>25, <1>26, <1>27, <1>28, <1>29, <1>30, <1>31 DEF
     Next, Step, BodyStep, TaskStep, MainStep, LoopStep, Terminated

(* A waiting task does not run, so its code stays in AwaitFD.              *)
LEMMA WaitStep ==
  ASSUME TypeOK, ControlConsistent, TaskShape, WaitShape, [Next]_vars
  PROVE  WaitShape'
<1>1. ASSUME NEW c \in Contexts, NEW f \in Functions, NEW a \in Arguments,
      Spawn(c, f, a) PROVE WaitShape'
  <2>1. SpawnFrame
    BY <1>1, SpawnEffect
  <2>2. CASE UNCHANGED <<taskCount, state, pc>>
    BY <2>1, <2>2 DEF SpawnFrame, TypeOK, WaitShape
  <2>3. ASSUME NEW n \in Ids, SpawnsAt(n) PROVE WaitShape'
    BY <2>1, <2>3 DEF SpawnFrame, SpawnsAt, TypeOK, WaitShape
  <2> QED BY <1>1, <2>2, <2>3, SpawnEffect
<1>2. ASSUME NEW c \in Contexts, NEW id \in Ids, AwaitCompleted(c, id) PROVE
      WaitShape'
  BY <1>2 DEF AwaitCompleted, CanCall, Spend, Goto, Deliver, findTaskById,
     TypeOK, ControlConsistent, TaskShape, WaitShape
<1>3. ASSUME NEW c \in Contexts, AwaitRefused(c) PROVE WaitShape'
  BY <1>3 DEF AwaitRefused, CanCall, Spend, TypeOK, ControlConsistent,
     TaskShape, WaitShape
<1>4. ASSUME NEW c \in Contexts, Raise(c) PROVE WaitShape'
  BY <1>4 DEF Raise, CanCall, Spend, Goto, TypeOK, ControlConsistent,
     TaskShape, WaitShape
<1>5. ASSUME NEW c \in Contexts, Catch(c) PROVE WaitShape'
  BY <1>5 DEF Catch, Goto, TypeOK, ControlConsistent, TaskShape, WaitShape
<1>6. ASSUME NEW t \in Ids, StartTask(t) PROVE WaitShape'
  BY <1>6 DEF StartTask, Goto, TypeOK, ControlConsistent, TaskShape, WaitShape
<1>7. ASSUME NEW t \in Ids, NEW v \in Results, TaskComplete(t, v) PROVE
      WaitShape'
  <2>1. /\ state' = [state EXCEPT ![t] = "COMPLETED"] /\ pc' = [pc EXCEPT ![t] = "ended"]
        /\ UNCHANGED <<waitingFd, tfd>>
    BY <1>7 DEF TaskComplete, Goto
  <2> QED BY <2>1 DEF TypeOK, WaitShape
<1>8. ASSUME NEW t \in Ids, TaskError(t) PROVE WaitShape'
  <2>1. /\ state' = [state EXCEPT ![t] = "COMPLETED"] /\ pc' = [pc EXCEPT ![t] = "ended"]
        /\ UNCHANGED <<waitingFd, tfd>>
    BY <1>8 DEF TaskError, Goto
  <2> QED BY <2>1 DEF TypeOK, WaitShape
<1>9. ASSUME NEW t \in Ids, TaskYield(t) PROVE WaitShape'
  <2>1. /\ state' = [state EXCEPT ![t] = "SUSPENDED"] /\ pc' = [pc EXCEPT ![t] = "yielding"]
        /\ UNCHANGED <<waitingFd, tfd>>
    BY <1>9 DEF TaskYield, Goto
  <2> QED BY <2>1 DEF TypeOK, WaitShape
<1>10. ASSUME NEW t \in Ids, ResumeYield(t) PROVE WaitShape'
  BY <1>10 DEF ResumeYield, Goto, TypeOK, ControlConsistent, TaskShape,
     WaitShape
<1>11. ASSUME NEW t \in Ids, NEW id \in Ids, AwaitInTask(t, id) PROVE
      WaitShape'
  <2>1. /\ state' = [state EXCEPT ![t] = "SUSPENDED"] /\ pc' = [pc EXCEPT ![t] = "awaiting"]
        /\ UNCHANGED <<waitingFd, tfd>>
    BY <1>11 DEF AwaitInTask, Goto
  <2> QED BY <2>1 DEF TypeOK, WaitShape
<1>12. ASSUME NEW t \in Ids, ResumeAwait(t) PROVE WaitShape'
  BY <1>12 DEF ResumeAwait, Goto, Deliver, TypeOK, ControlConsistent,
     TaskShape, WaitShape
<1>13. ASSUME NEW t \in Ids, NEW fd \in Sockets, AwaitSocket(t, fd) PROVE
      WaitShape'
  <2>1. /\ state' = [state EXCEPT ![t] = "IO_WAITING"] /\ pc' = [pc EXCEPT ![t] = "waiting"]
        /\ waitingFd' = [waitingFd EXCEPT ![t] = fd] /\ tfd' = tfd
        /\ fd \in MayWaitFor[t] \cap Sockets
    BY <1>13 DEF AwaitSocket, AwaitFD, Goto
  <2> QED BY <2>1 DEF TypeOK, WaitShape
<1>14. ASSUME NEW t \in Ids, NEW fd \in Files, AwaitFile(t, fd) PROVE
      WaitShape'
  BY <1>14 DEF AwaitFile, CanCall, Spend, TypeOK, ControlConsistent, TaskShape,
     WaitShape
<1>15. ASSUME NEW t \in Ids, ResumeSocket(t) PROVE WaitShape'
  BY <1>15 DEF ResumeSocket, Goto, TypeOK, ControlConsistent, TaskShape,
     WaitShape
<1>16. ASSUME NEW t \in Ids, NEW fd \in Timers, Sleep(t, fd) PROVE WaitShape'
  <2>1. /\ state' = [state EXCEPT ![t] = "IO_WAITING"] /\ pc' = [pc EXCEPT ![t] = "sleeping"]
        /\ waitingFd' = [waitingFd EXCEPT ![t] = fd] /\ tfd' = [tfd EXCEPT ![t] = fd]
    BY <1>16 DEF Sleep, AwaitFD, Goto
  <2> QED BY <2>1 DEF TypeOK, WaitShape
<1>17. ASSUME NEW t \in Ids, SleepRefused(t) PROVE WaitShape'
  BY <1>17 DEF SleepRefused, CanCall, Spend, TypeOK, ControlConsistent,
     TaskShape, WaitShape
<1>18. ASSUME NEW t \in Ids, ResumeSleep(t) PROVE WaitShape'
  BY <1>18 DEF ResumeSleep, Goto, CloseTimer, TypeOK, ControlConsistent,
     TaskShape, WaitShape
<1>19. ASSUME NEW id \in Ids, AwaitInMain(id) PROVE WaitShape'
  BY <1>19 DEF AwaitInMain, CanCall, Spend, Goto, findTaskById, TypeOK,
     ControlConsistent, TaskShape, WaitShape
<1>20. CASE NoEffectInMain
  BY <1>20 DEF NoEffectInMain, CanCall, Spend, TypeOK, ControlConsistent,
     TaskShape, WaitShape
<1>21. CASE MainReturn
  BY <1>21 DEF MainReturn, Goto, TypeOK, ControlConsistent, TaskShape,
     WaitShape
<1>22. CASE Abort
  BY <1>22 DEF Abort, Goto, TypeOK, ControlConsistent, TaskShape, WaitShape
<1>23. CASE BeginPass
  BY <1>23 DEF BeginPass, InLoop, TypeOK, ControlConsistent, TaskShape,
     WaitShape
<1>24. ASSUME NEW t \in Ids, RunNext(t) PROVE WaitShape'
  <2>1. state' = [state EXCEPT ![t] = "RUNNING"] /\ UNCHANGED <<pc, waitingFd, tfd>>
    BY <1>24 DEF RunNext
  <2> QED BY <2>1 DEF TypeOK, WaitShape
<1>25. CASE EndPass
  BY <1>25 DEF EndPass, InLoop, TypeOK, ControlConsistent, TaskShape, WaitShape
<1>26. ASSUME NEW batch \in SUBSET Fds, EpollWait(batch) PROVE WaitShape'
  BY <1>26 DEF EpollWait, InLoop, Deregistered, TypeOK, ControlConsistent,
     TaskShape, WaitShape
<1>27. CASE EndAwaitInMain
  BY <1>27 DEF EndAwaitInMain, InLoop, Deliver, Goto, TypeOK,
     ControlConsistent, TaskShape, WaitShape
<1>28. CASE Cleanup
  BY <1>28 DEF Cleanup, InLoop, Goto, TypeOK, ControlConsistent, TaskShape,
     WaitShape
<1>29. ASSUME NEW fd \in Timers, TimerFires(fd) PROVE WaitShape'
  BY <1>29 DEF TimerFires, TypeOK, ControlConsistent, TaskShape, WaitShape
<1>30. ASSUME NEW fd \in Sockets, SocketChanges(fd) PROVE WaitShape'
  BY <1>30 DEF SocketChanges, TypeOK, ControlConsistent, TaskShape, WaitShape
<1>31. CASE UNCHANGED vars
  BY <1>31 DEF TypeOK, ControlConsistent, TaskShape, WaitShape
<1> QED BY <1>1, <1>2, <1>3, <1>4, <1>5, <1>6, <1>7, <1>8, <1>9, <1>10, <1>11,
     <1>12, <1>13, <1>14, <1>15, <1>16, <1>17, <1>18, <1>19, <1>20, <1>21,
     <1>22, <1>23, <1>24, <1>25, <1>26, <1>27, <1>28, <1>29, <1>30, <1>31 DEF
     Next, Step, BodyStep, TaskStep, MainStep, LoopStep, Terminated

(* A timer is opened on the way into a sleep and closed on the way out.    *)
LEMMA TimersStep ==
  ASSUME TypeOK, ControlConsistent, TaskShape, TimersBelongToSleepers,
     [Next]_vars
  PROVE  TimersBelongToSleepers'
<1>1. ASSUME NEW c \in Contexts, NEW f \in Functions, NEW a \in Arguments,
      Spawn(c, f, a) PROVE TimersBelongToSleepers'
  <2>1. SpawnFrame
    BY <1>1, SpawnEffect
  <2>2. CASE UNCHANGED <<taskCount, state, pc>>
    BY <2>1, <2>2, SameSleepers DEF SpawnFrame
  <2>3. ASSUME NEW n \in Ids, SpawnsAt(n) PROVE TimersBelongToSleepers'
    <3>1. \A t \in Ids : pc'[t] = "sleeping" <=> pc[t] = "sleeping"
      BY <2>3 DEF SpawnsAt, TypeOK
    <3> QED BY <2>1, <3>1, SameSleepers DEF SpawnFrame
  <2> QED BY <1>1, <2>2, <2>3, SpawnEffect
<1>2. ASSUME NEW c \in Contexts, NEW id \in Ids, AwaitCompleted(c, id) PROVE
      TimersBelongToSleepers'
  <2>1. PICK label \in {"body", "raised"} : pc' = [pc EXCEPT ![c] = label]
    BY <1>2, DeliverGoesOn DEF AwaitCompleted
  <2> QED BY <1>2, <2>1, SameSleepers DEF AwaitCompleted, CanCall, TypeOK
<1>3. ASSUME NEW c \in Contexts, AwaitRefused(c) PROVE TimersBelongToSleepers'
  BY <1>3, SameSleepers DEF AwaitRefused
<1>4. ASSUME NEW c \in Contexts, Raise(c) PROVE TimersBelongToSleepers'
  <2>1. \A u \in Ids : pc'[u] = "sleeping" <=> pc[u] = "sleeping"
    BY <1>4 DEF Raise, CanCall, Goto, TypeOK
  <2> QED BY <1>4, <2>1, SameSleepers DEF Raise
<1>5. ASSUME NEW c \in Contexts, Catch(c) PROVE TimersBelongToSleepers'
  <2>1. \A u \in Ids : pc'[u] = "sleeping" <=> pc[u] = "sleeping"
    BY <1>5 DEF Catch, Goto, TypeOK
  <2> QED BY <1>5, <2>1, SameSleepers DEF Catch
<1>6. ASSUME NEW t \in Ids, StartTask(t) PROVE TimersBelongToSleepers'
  <2>1. \A u \in Ids : pc'[u] = "sleeping" <=> pc[u] = "sleeping"
    BY <1>6 DEF StartTask, Goto, TypeOK
  <2> QED BY <1>6, <2>1, SameSleepers DEF StartTask
<1>7. ASSUME NEW t \in Ids, NEW v \in Results, TaskComplete(t, v) PROVE
      TimersBelongToSleepers'
  <2>1. \A u \in Ids : pc'[u] = "sleeping" <=> pc[u] = "sleeping"
    BY <1>7 DEF TaskComplete, Goto, TypeOK
  <2> QED BY <1>7, <2>1, SameSleepers DEF TaskComplete
<1>8. ASSUME NEW t \in Ids, TaskError(t) PROVE TimersBelongToSleepers'
  <2>1. \A u \in Ids : pc'[u] = "sleeping" <=> pc[u] = "sleeping"
    BY <1>8 DEF TaskError, Goto, TypeOK
  <2> QED BY <1>8, <2>1, SameSleepers DEF TaskError
<1>9. ASSUME NEW t \in Ids, TaskYield(t) PROVE TimersBelongToSleepers'
  <2>1. \A u \in Ids : pc'[u] = "sleeping" <=> pc[u] = "sleeping"
    BY <1>9 DEF TaskYield, CanCall, Goto, TypeOK
  <2> QED BY <1>9, <2>1, SameSleepers DEF TaskYield
<1>10. ASSUME NEW t \in Ids, ResumeYield(t) PROVE TimersBelongToSleepers'
  <2>1. \A u \in Ids : pc'[u] = "sleeping" <=> pc[u] = "sleeping"
    BY <1>10 DEF ResumeYield, Goto, TypeOK
  <2> QED BY <1>10, <2>1, SameSleepers DEF ResumeYield
<1>11. ASSUME NEW t \in Ids, NEW id \in Ids, AwaitInTask(t, id) PROVE
      TimersBelongToSleepers'
  BY <1>11, SameSleepers DEF AwaitInTask, CanCall, Goto, TypeOK
<1>12. ASSUME NEW t \in Ids, ResumeAwait(t) PROVE TimersBelongToSleepers'
  <2>1. PICK label \in {"body", "raised"} : pc' = [pc EXCEPT ![t] = label]
    BY <1>12, DeliverGoesOn DEF ResumeAwait
  <2> QED BY <1>12, <2>1, SameSleepers DEF ResumeAwait, TypeOK
<1>13. ASSUME NEW t \in Ids, NEW fd \in Sockets, AwaitSocket(t, fd) PROVE
      TimersBelongToSleepers'
  <2>1. \A u \in Ids : pc'[u] = "sleeping" <=> pc[u] = "sleeping"
    BY <1>13 DEF AwaitSocket, CanCall, Goto, TypeOK
  <2> QED BY <1>13, <2>1, SameSleepers DEF AwaitSocket
<1>14. ASSUME NEW t \in Ids, NEW fd \in Files, AwaitFile(t, fd) PROVE
      TimersBelongToSleepers'
  BY <1>14, SameSleepers DEF AwaitFile
<1>15. ASSUME NEW t \in Ids, ResumeSocket(t) PROVE TimersBelongToSleepers'
  <2>1. \A u \in Ids : pc'[u] = "sleeping" <=> pc[u] = "sleeping"
    BY <1>15 DEF ResumeSocket, Goto, TypeOK
  <2> QED BY <1>15, <2>1, SameSleepers DEF ResumeSocket
<1>16. ASSUME NEW t \in Ids, NEW fd \in Timers, Sleep(t, fd) PROVE
      TimersBelongToSleepers'
  <2>1. /\ openTimers' = openTimers \cup {fd} /\ tfd' = [tfd EXCEPT ![t] = fd]
        /\ pc' = [pc EXCEPT ![t] = "sleeping"] /\ pc[t] = "body" /\ fd \notin openTimers
    BY <1>16 DEF Sleep, CanCall, Goto
  <2>2. /\ tfd'[t] = fd /\ \A u \in Ids \ {t} : tfd'[u] = tfd[u]
        /\ \A u \in Ids : pc'[u] = "sleeping" <=> pc[u] = "sleeping" \/ u = t
    BY <2>1 DEF TypeOK
  <2>3. \A u \in Ids : pc[u] = "sleeping" => tfd[u] # fd /\ u # t
    BY <2>1 DEF TimersBelongToSleepers
  <2>4. openTimers' = {tfd'[u] : u \in {w \in Ids : pc'[w] = "sleeping"}}
    BY <2>1, <2>2, <2>3 DEF TimersBelongToSleepers
  <2> QED BY <2>2, <2>3, <2>4 DEF TimersBelongToSleepers
<1>17. ASSUME NEW t \in Ids, SleepRefused(t) PROVE TimersBelongToSleepers'
  BY <1>17, SameSleepers DEF SleepRefused
<1>18. ASSUME NEW t \in Ids, ResumeSleep(t) PROVE TimersBelongToSleepers'
  <2>1. /\ openTimers' = openTimers \ {tfd[t]} /\ tfd' = [tfd EXCEPT ![t] = NoFd]
        /\ pc' = [pc EXCEPT ![t] = "body"] /\ pc[t] = "sleeping"
    BY <1>18 DEF ResumeSleep, Goto, CloseTimer
  <2>2. /\ \A u \in Ids \ {t} : tfd'[u] = tfd[u]
        /\ \A u \in Ids : pc'[u] = "sleeping" <=> pc[u] = "sleeping" /\ u # t
    BY <2>1 DEF TypeOK
  <2>3. \A u \in Ids : pc[u] = "sleeping" /\ u # t => tfd[u] # tfd[t]
    BY <2>1 DEF TimersBelongToSleepers
  <2>4. openTimers' = {tfd'[u] : u \in {w \in Ids : pc'[w] = "sleeping"}}
    BY <2>1, <2>2, <2>3 DEF TimersBelongToSleepers
  <2> QED BY <2>2, <2>4 DEF TimersBelongToSleepers
<1>19. ASSUME NEW id \in Ids, AwaitInMain(id) PROVE TimersBelongToSleepers'
  <2>1. \A u \in Ids : pc'[u] = "sleeping" <=> pc[u] = "sleeping"
    BY <1>19 DEF AwaitInMain, CanCall, Goto, TypeOK
  <2> QED BY <1>19, <2>1, SameSleepers DEF AwaitInMain
<1>20. CASE NoEffectInMain
  BY <1>20, SameSleepers DEF NoEffectInMain
<1>21. CASE MainReturn
  <2>1. \A u \in Ids : pc'[u] = "sleeping" <=> pc[u] = "sleeping"
    BY <1>21 DEF MainReturn, Goto, TypeOK
  <2> QED BY <1>21, <2>1, SameSleepers DEF MainReturn
<1>22. CASE Abort
  <2>1. \A u \in Ids : pc'[u] = "sleeping" <=> pc[u] = "sleeping"
    BY <1>22 DEF Abort, Goto, TypeOK
  <2> QED BY <1>22, <2>1, SameSleepers DEF Abort
<1>23. CASE BeginPass
  BY <1>23, SameSleepers DEF BeginPass
<1>24. ASSUME NEW t \in Ids, RunNext(t) PROVE TimersBelongToSleepers'
  BY <1>24, SameSleepers DEF RunNext
<1>25. CASE EndPass
  BY <1>25, SameSleepers DEF EndPass
<1>26. ASSUME NEW batch \in SUBSET Fds, EpollWait(batch) PROVE
      TimersBelongToSleepers'
  BY <1>26, SameSleepers DEF EpollWait
<1>27. CASE EndAwaitInMain
  BY <1>27 DEF EndAwaitInMain, InLoop, Deliver, Goto, TypeOK,
     ControlConsistent, TaskShape, TimersBelongToSleepers
<1>28. CASE Cleanup
  <2>1. \A u \in Ids : pc'[u] = "sleeping" <=> pc[u] = "sleeping"
    BY <1>28 DEF Cleanup, InLoop, Goto, TypeOK
  <2> QED BY <1>28, <2>1, SameSleepers DEF Cleanup
<1>29. ASSUME NEW fd \in Timers, TimerFires(fd) PROVE TimersBelongToSleepers'
  BY <1>29, SameSleepers DEF TimerFires
<1>30. ASSUME NEW fd \in Sockets, SocketChanges(fd) PROVE
      TimersBelongToSleepers'
  BY <1>30, SameSleepers DEF SocketChanges
<1>31. CASE UNCHANGED vars
  BY <1>31, SameSleepers
<1> QED BY <1>1, <1>2, <1>3, <1>4, <1>5, <1>6, <1>7, <1>8, <1>9, <1>10, <1>11,
     <1>12, <1>13, <1>14, <1>15, <1>16, <1>17, <1>18, <1>19, <1>20, <1>21,
     <1>22, <1>23, <1>24, <1>25, <1>26, <1>27, <1>28, <1>29, <1>30, <1>31 DEF
     Next, Step, BodyStep, TaskStep, MainStep, LoopStep, Terminated

-----------------------------------------------------------------------------
(* The invariant, and what follows from it.                                *)

LEMMA Inductive == IInv /\ [Next]_vars => IInv'
BY TypeOKStep, ControlStep, ShapeStep, EpollStep, AwaitStep, WaitStep,
   TimersStep DEF IInv

LEMMA Initially == Init => IInv
<1> SUFFICES ASSUME Init PROVE IInv
  OBVIOUS
<1>1. TypeOK
  <2>1. (CHOOSE f \in Functions : TRUE) \in Functions
    OBVIOUS
  <2>2. function \in [Ids -> Functions]
    BY <2>1 DEF Init
  <2>3. pc \in [Contexts -> PCs]
    BY DEF Init, PCs
  <2>4. state \in [Ids -> TaskStates] /\ hasError \in [Ids -> BOOLEAN]
    BY DEF Init, TaskStates
  <2>5. /\ result \in [Ids -> Results]
        /\ received \in [Contexts -> Results \cup {NoResult, Rejected}]
        /\ argGlobal \in [Functions -> Arguments]
        /\ passed \in [Ids -> Arguments] /\ got \in [Ids -> Arguments]
    BY DEF Init
  <2>6. /\ awaitingTaskId \in [Ids -> Ids \cup {NoTask}]
        /\ waitingFd \in [Ids -> Fds \cup Files \cup {NoFd}]
        /\ tfd \in [Ids -> Timers \cup {NoFd}]
        /\ epoll \in [Fds -> Ids \cup {NoTask}]
    BY DEF Init
  <2>7. /\ taskCount \in 0 .. MaxTasks /\ nextIndex \in 0 .. MaxTasks + 1
        /\ opsLeft \in [Contexts -> Nat] /\ control \in Contexts
    BY DEF Init
  <2> QED BY <2>2, <2>3, <2>4, <2>5, <2>6, <2>7 DEF Init, TypeOK
<1>2. ControlConsistent /\ TaskShape /\ EpollPointsToWaiter
  BY DEF Init, ControlConsistent, TaskShape, EpollPointsToWaiter
<1>3. AwaitResumesSettled /\ TimersBelongToSleepers /\ WaitShape
  BY DEF Init, AwaitResumesSettled, TimersBelongToSleepers, WaitShape
<1> QED BY <1>1, <1>2, <1>3 DEF IInv

(* The conjuncts of the inductive invariant hold in every state.           *)
THEOREM Invariance == Spec => []IInv
BY Inductive, Initially, PTL DEF Spec

(* Every variable keeps its type: in particular the table never overflows  *)
(* (async-runtime.c:59) and the index of a pass stays in it.               *)
THEOREM TypeCorrect == Spec => []TypeOK
BY Invariance, PTL DEF IInv

(* The runtime's early returns on currentTask act on the caller's task.    *)
THEOREM OneRunner == Spec => []ControlConsistent
BY Invariance, PTL DEF IInv

(* An event of epoll_wait always finds the task that waits for it.         *)
THEOREM EventsFindWaiters == Spec => []EpollPointsToWaiter
BY Invariance, PTL DEF IInv

(* A resumed await finds its target completed.                             *)
THEOREM AwaitsAreSettled == Spec => []AwaitResumesSettled
BY Invariance, PTL DEF IInv

(* uraniteSleep neither leaks a timer nor closes another task's.           *)
THEOREM TimersAreOwned == Spec => []TimersBelongToSleepers
BY Invariance, PTL DEF IInv

=============================================================================
