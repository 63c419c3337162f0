------------------------ MODULE AsyncOutcomes_proofs ------------------------
(***************************************************************************)
(* Proofs about what the event loop delivers: outcomes are final, waiting  *)
(* tasks are woken, no task is abandoned, and the loop implements          *)
(* AsyncTasks. The last two need a program whose awaits form no cycle, the *)
(* second one whose tasks do not share descriptors.                        *)
(***************************************************************************)
EXTENDS AsyncRuntime_proofs

USE ConstantsAssumption
USE DEF NoTask, NoFd, NoResult, Rejected, Main, Ids, Contexts, Fds,
        vars, taskVars, loopVars, kernelVars, argVars

-----------------------------------------------------------------------------
LEMMA CompletedIsNotRunning ==
  ASSUME IInv, NEW t \in Ids, state[t] = "COMPLETED"
  PROVE  control # t
BY DEF IInv, ControlConsistent

(* A task that lets go of the thread is not completed, and it alone moves. *)
LEMMA LettingGoKeepsCompleted ==
  ASSUME IInv, NEW t \in Ids, NEW how, control = t, control' = Main,
         state' = [state EXCEPT ![t] = how], UNCHANGED <<result, hasError>>
  PROVE  CompletedStays
<1>1. \A u \in Ids : state[u] = "COMPLETED" => u # t
  BY CompletedIsNotRunning
<1>2. \A u \in Ids : u # t => state'[u] = state[u]
  BY DEF IInv, TypeOK
<1> QED BY <1>1, <1>2 DEF CompletedStays

(* What a waiting task waits for.                                          *)
LEMMA WaiterFd ==
  ASSUME IInv, NEW u \in Ids, state[u] = "IO_WAITING"
  PROVE  \/ /\ pc[u] = "waiting"
            /\ waitingFd[u] \in MayWaitFor[u] /\ waitingFd[u] \in Sockets
         \/ /\ pc[u] = "sleeping" /\ waitingFd[u] = tfd[u]
            /\ waitingFd[u] \in openTimers /\ waitingFd[u] \in Timers
BY DEF IInv, WaitShape, TimersBelongToSleepers, TypeOK

(* A completed task is not the one that runs, no event wakes it, and a     *)
(* call takes a slot no task has.                                          *)
LEMMA CompletedStep ==
  ASSUME IInv, [Next]_vars
  PROVE  CompletedStays
<1>1. ASSUME NEW c \in Contexts, NEW f \in Functions, NEW a \in Arguments,
      Spawn(c, f, a) PROVE CompletedStays
  <2>1. SpawnFrame
    BY <1>1, SpawnEffect DEF IInv
  <2>2. CASE UNCHANGED <<taskCount, state, pc>>
    BY <2>1, <2>2, CompletedIsNotRunning DEF SpawnFrame, CompletedStays
  <2>3. ASSUME NEW n \in Ids, SpawnsAt(n) PROVE CompletedStays
    <3>1. \A t \in Ids : state[t] = "COMPLETED" => state'[t] = "COMPLETED"
      BY <2>3 DEF SpawnsAt, IInv, TypeOK
    <3> QED BY <2>1, <3>1, CompletedIsNotRunning DEF SpawnFrame, CompletedStays
  <2> QED BY <1>1, <2>2, <2>3, SpawnEffect DEF IInv
<1>2. ASSUME NEW c \in Contexts, NEW id \in Ids, AwaitCompleted(c, id) PROVE
      CompletedStays
  BY <1>2 DEF AwaitCompleted, CanCall, Spend, Goto, Deliver, findTaskById,
     IInv, TypeOK, ControlConsistent, CompletedStays
<1>3. ASSUME NEW c \in Contexts, AwaitRefused(c) PROVE CompletedStays
  BY <1>3 DEF AwaitRefused, CanCall, Spend, IInv, TypeOK, ControlConsistent,
     CompletedStays
<1>4. ASSUME NEW c \in Contexts, Raise(c) PROVE CompletedStays
  BY <1>4 DEF Raise, CanCall, Spend, Goto, IInv, TypeOK, ControlConsistent,
     CompletedStays
<1>5. ASSUME NEW c \in Contexts, Catch(c) PROVE CompletedStays
  BY <1>5 DEF Catch, Goto, IInv, TypeOK, ControlConsistent, CompletedStays
<1>6. ASSUME NEW t \in Ids, StartTask(t) PROVE CompletedStays
  BY <1>6 DEF StartTask, Goto, IInv, TypeOK, ControlConsistent, CompletedStays
<1>7. ASSUME NEW t \in Ids, NEW v \in Results, TaskComplete(t, v) PROVE
      CompletedStays
  BY <1>7 DEF TaskComplete, Goto, ToScheduler, IInv, TypeOK, ControlConsistent,
     CompletedStays
<1>8. ASSUME NEW t \in Ids, TaskError(t) PROVE CompletedStays
  <2> SUFFICES ASSUME NEW u \in Ids, state[u] = "COMPLETED"
               PROVE  /\ state'[u] = "COMPLETED"
                      /\ result'[u] = result[u] /\ hasError'[u] = hasError[u]
                      /\ control' # u
    BY DEF CompletedStays
  <2>1. u # t
    BY <1>8, CompletedIsNotRunning DEF TaskError
  <2>2. hasError'[u] = hasError[u]
    BY <1>8, <2>1 DEF TaskError, IInv, TypeOK
  <2>3. state'[u] = state[u] /\ result' = result /\ control' = Main
    BY <1>8, <2>1 DEF TaskError, ToScheduler, IInv, TypeOK
  <2> QED BY <2>2, <2>3
<1>9. ASSUME NEW t \in Ids, TaskYield(t) PROVE CompletedStays
  BY <1>9, LettingGoKeepsCompleted DEF TaskYield, CanCall, ToScheduler
<1>10. ASSUME NEW t \in Ids, ResumeYield(t) PROVE CompletedStays
  BY <1>10 DEF ResumeYield, Goto, IInv, TypeOK, ControlConsistent,
     CompletedStays
<1>11. ASSUME NEW t \in Ids, NEW id \in Ids, AwaitInTask(t, id) PROVE
      CompletedStays
  BY <1>11, LettingGoKeepsCompleted DEF AwaitInTask, CanCall, ToScheduler
<1>12. ASSUME NEW t \in Ids, ResumeAwait(t) PROVE CompletedStays
  BY <1>12 DEF ResumeAwait, Goto, Deliver, IInv, TypeOK, ControlConsistent,
     CompletedStays
<1>13. ASSUME NEW t \in Ids, NEW fd \in Sockets, AwaitSocket(t, fd) PROVE
      CompletedStays
  BY <1>13, LettingGoKeepsCompleted DEF AwaitSocket, CanCall, AwaitFD, ToScheduler
<1>14. ASSUME NEW t \in Ids, NEW fd \in Files, AwaitFile(t, fd) PROVE
      CompletedStays
  BY <1>14 DEF AwaitFile, CanCall, Spend, IInv, TypeOK, ControlConsistent,
     CompletedStays
<1>15. ASSUME NEW t \in Ids, ResumeSocket(t) PROVE CompletedStays
  BY <1>15 DEF ResumeSocket, Goto, IInv, TypeOK, ControlConsistent,
     CompletedStays
<1>16. ASSUME NEW t \in Ids, NEW fd \in Timers, Sleep(t, fd) PROVE
      CompletedStays
  BY <1>16, LettingGoKeepsCompleted DEF Sleep, CanCall, AwaitFD, ToScheduler
<1>17. ASSUME NEW t \in Ids, SleepRefused(t) PROVE CompletedStays
  BY <1>17 DEF SleepRefused, CanCall, Spend, IInv, TypeOK, ControlConsistent,
     CompletedStays
<1>18. ASSUME NEW t \in Ids, ResumeSleep(t) PROVE CompletedStays
  BY <1>18 DEF ResumeSleep, Goto, CloseTimer, IInv, TypeOK, ControlConsistent,
     CompletedStays
<1>19. ASSUME NEW id \in Ids, AwaitInMain(id) PROVE CompletedStays
  BY <1>19 DEF AwaitInMain, CanCall, Spend, Goto, findTaskById, IInv, TypeOK,
     ControlConsistent, CompletedStays
<1>20. CASE NoEffectInMain
  BY <1>20 DEF NoEffectInMain, CanCall, Spend, IInv, TypeOK, ControlConsistent,
     CompletedStays
<1>21. CASE MainReturn
  BY <1>21 DEF MainReturn, Goto, IInv, TypeOK, ControlConsistent,
     CompletedStays
<1>22. CASE Abort
  BY <1>22 DEF Abort, Goto, IInv, TypeOK, ControlConsistent, CompletedStays
<1>23. CASE BeginPass
  BY <1>23 DEF BeginPass, InLoop, IInv, TypeOK, ControlConsistent,
     CompletedStays
<1>24. ASSUME NEW t \in Ids, RunNext(t) PROVE CompletedStays
  BY <1>24 DEF RunNext, InLoop, Switchable, canRunTask, AwaitedCompleted,
     findTaskById, IInv, TypeOK, ControlConsistent, CompletedStays
<1>25. CASE EndPass
  BY <1>25 DEF EndPass, InLoop, IInv, TypeOK, ControlConsistent, CompletedStays
<1>26. ASSUME NEW batch \in SUBSET Fds, EpollWait(batch) PROVE CompletedStays
  <2>1. \A fd \in batch : state[epoll[fd]] = "IO_WAITING"
    BY <1>26 DEF EpollWait, IInv, TypeOK, EpollPointsToWaiter
  <2> QED BY <1>26, <2>1 DEF EpollWait, InLoop, IInv, TypeOK, CompletedStays
<1>27. CASE EndAwaitInMain
  BY <1>27 DEF EndAwaitInMain, InLoop, Deliver, Goto, IInv, TypeOK,
     ControlConsistent, CompletedStays
<1>28. CASE Cleanup
  BY <1>28 DEF Cleanup, InLoop, Goto, IInv, TypeOK, ControlConsistent,
     CompletedStays
<1>29. ASSUME NEW fd \in Timers, TimerFires(fd) PROVE CompletedStays
  BY <1>29 DEF TimerFires, IInv, TypeOK, ControlConsistent, CompletedStays
<1>30. ASSUME NEW fd \in Sockets, SocketChanges(fd) PROVE CompletedStays
  BY <1>30 DEF SocketChanges, IInv, TypeOK, ControlConsistent, CompletedStays
<1>31. CASE UNCHANGED vars
  BY <1>31 DEF IInv, TypeOK, ControlConsistent, CompletedStays
<1> QED BY <1>1, <1>2, <1>3, <1>4, <1>5, <1>6, <1>7, <1>8, <1>9, <1>10, <1>11,
     <1>12, <1>13, <1>14, <1>15, <1>16, <1>17, <1>18, <1>19, <1>20, <1>21,
     <1>22, <1>23, <1>24, <1>25, <1>26, <1>27, <1>28, <1>29, <1>30, <1>31 DEF
     Next, Step, BodyStep, TaskStep, MainStep, LoopStep, Terminated

(* The outcome of a task never changes, and a completed task never runs    *)
(* again: an await of an old future answers what the task returned.        *)
THEOREM OutcomesAreFinal == Spec => CompletedIsFinal
BY CompletedStep, Invariance, PTL DEF Spec, CompletedIsFinal

-----------------------------------------------------------------------------
(* With descriptors of their own, no task overwrites the entry of another. *)
LEMMA WaiterStep ==
  ASSUME DisjointDescriptors, IInv, NoLostWaiter, [Next]_vars
  PROVE  NoLostWaiter'
<1>1. ASSUME NEW c \in Contexts, NEW f \in Functions, NEW a \in Arguments,
      Spawn(c, f, a) PROVE NoLostWaiter'
  <2>1. SpawnFrame
    BY <1>1, SpawnEffect DEF IInv
  <2>2. CASE UNCHANGED <<taskCount, state, pc>>
    BY <2>1, <2>2 DEF SpawnFrame, IInv, TypeOK, ControlConsistent, TaskShape,
       NoLostWaiter
  <2>3. ASSUME NEW n \in Ids, SpawnsAt(n) PROVE NoLostWaiter'
    BY <2>1, <2>3 DEF SpawnFrame, SpawnsAt, IInv, TypeOK, ControlConsistent,
       TaskShape, NoLostWaiter
  <2> QED BY <1>1, <2>2, <2>3, SpawnEffect DEF IInv
<1>2. ASSUME NEW c \in Contexts, NEW id \in Ids, AwaitCompleted(c, id) PROVE
      NoLostWaiter'
  BY <1>2 DEF AwaitCompleted, CanCall, Spend, Goto, Deliver, findTaskById,
     IInv, TypeOK, ControlConsistent, TaskShape, NoLostWaiter
<1>3. ASSUME NEW c \in Contexts, AwaitRefused(c) PROVE NoLostWaiter'
  BY <1>3 DEF AwaitRefused, CanCall, Spend, IInv, TypeOK, ControlConsistent,
     TaskShape, NoLostWaiter
<1>4. ASSUME NEW c \in Contexts, Raise(c) PROVE NoLostWaiter'
  BY <1>4 DEF Raise, CanCall, Spend, Goto, IInv, TypeOK, ControlConsistent,
     TaskShape, NoLostWaiter
<1>5. ASSUME NEW c \in Contexts, Catch(c) PROVE NoLostWaiter'
  BY <1>5 DEF Catch, Goto, IInv, TypeOK, ControlConsistent, TaskShape,
     NoLostWaiter
<1>6. ASSUME NEW t \in Ids, StartTask(t) PROVE NoLostWaiter'
  BY <1>6 DEF StartTask, Goto, IInv, TypeOK, ControlConsistent, TaskShape,
     NoLostWaiter
<1>7. ASSUME NEW t \in Ids, NEW v \in Results, TaskComplete(t, v) PROVE
      NoLostWaiter'
  BY <1>7 DEF TaskComplete, Goto, ToScheduler, IInv, TypeOK, ControlConsistent,
     TaskShape, NoLostWaiter
<1>8. ASSUME NEW t \in Ids, TaskError(t) PROVE NoLostWaiter'
  BY <1>8 DEF TaskError, Goto, ToScheduler, IInv, TypeOK, ControlConsistent,
     TaskShape, NoLostWaiter
<1>9. ASSUME NEW t \in Ids, TaskYield(t) PROVE NoLostWaiter'
  BY <1>9 DEF TaskYield, CanCall, Spend, Goto, ToScheduler, IInv, TypeOK,
     ControlConsistent, TaskShape, NoLostWaiter
<1>10. ASSUME NEW t \in Ids, ResumeYield(t) PROVE NoLostWaiter'
  BY <1>10 DEF ResumeYield, Goto, IInv, TypeOK, ControlConsistent, TaskShape,
     NoLostWaiter
<1>11. ASSUME NEW t \in Ids, NEW id \in Ids, AwaitInTask(t, id) PROVE
      NoLostWaiter'
  BY <1>11 DEF AwaitInTask, CanCall, Spend, Goto, ToScheduler, findTaskById,
     IInv, TypeOK, ControlConsistent, TaskShape, NoLostWaiter
<1>12. ASSUME NEW t \in Ids, ResumeAwait(t) PROVE NoLostWaiter'
  BY <1>12 DEF ResumeAwait, Goto, Deliver, IInv, TypeOK, ControlConsistent,
     TaskShape, NoLostWaiter
<1>13. ASSUME NEW t \in Ids, NEW fd \in Sockets, AwaitSocket(t, fd) PROVE
      NoLostWaiter'
  <2> SUFFICES ASSUME NEW u \in Ids, state'[u] = "IO_WAITING",
                      pc'[Main] # "exit"
               PROVE  waitingFd'[u] \in Fds /\ epoll'[waitingFd'[u]] = u
    BY DEF NoLostWaiter
  <2>1. CASE u = t
    BY <1>13, <2>1 DEF AwaitSocket, AwaitFD, IInv, TypeOK
  <2>2. CASE u # t
    <3>1. state[u] = "IO_WAITING" /\ waitingFd'[u] = waitingFd[u] /\ pc[Main] #
          "exit"
      BY <1>13, <2>2 DEF AwaitSocket, AwaitFD, Goto, IInv, TypeOK
    <3>2. waitingFd[u] \in Fds /\ epoll[waitingFd[u]] = u
      BY <3>1 DEF NoLostWaiter
    <3>3. waitingFd[u] # fd
      BY <1>13, <2>2, <3>1, WaiterFd DEF AwaitSocket, DisjointDescriptors
    <3> QED BY <1>13, <3>1, <3>2, <3>3 DEF AwaitSocket, AwaitFD, IInv, TypeOK
  <2> QED BY <2>1, <2>2
<1>14. ASSUME NEW t \in Ids, NEW fd \in Files, AwaitFile(t, fd) PROVE
      NoLostWaiter'
  BY <1>14 DEF AwaitFile, CanCall, Spend, IInv, TypeOK, ControlConsistent,
     TaskShape, NoLostWaiter
<1>15. ASSUME NEW t \in Ids, ResumeSocket(t) PROVE NoLostWaiter'
  BY <1>15 DEF ResumeSocket, Goto, IInv, TypeOK, ControlConsistent, TaskShape,
     NoLostWaiter
<1>16. ASSUME NEW t \in Ids, NEW fd \in Timers, Sleep(t, fd) PROVE
      NoLostWaiter'
  <2> SUFFICES ASSUME NEW u \in Ids, state'[u] = "IO_WAITING",
                      pc'[Main] # "exit"
               PROVE  waitingFd'[u] \in Fds /\ epoll'[waitingFd'[u]] = u
    BY DEF NoLostWaiter
  <2>1. CASE u = t
    BY <1>16, <2>1 DEF Sleep, AwaitFD, IInv, TypeOK
  <2>2. CASE u # t
    <3>1. state[u] = "IO_WAITING" /\ waitingFd'[u] = waitingFd[u] /\ pc[Main] #
          "exit"
      BY <1>16, <2>2 DEF Sleep, AwaitFD, Goto, IInv, TypeOK
    <3>2. waitingFd[u] \in Fds /\ epoll[waitingFd[u]] = u
      BY <3>1 DEF NoLostWaiter
    <3>3. waitingFd[u] # fd
      BY <1>16, <2>2, <3>1, WaiterFd DEF Sleep
    <3> QED BY <1>16, <3>1, <3>2, <3>3 DEF Sleep, AwaitFD, IInv, TypeOK
  <2> QED BY <2>1, <2>2
<1>17. ASSUME NEW t \in Ids, SleepRefused(t) PROVE NoLostWaiter'
  BY <1>17 DEF SleepRefused, CanCall, Spend, IInv, TypeOK, ControlConsistent,
     TaskShape, NoLostWaiter
<1>18. ASSUME NEW t \in Ids, ResumeSleep(t) PROVE NoLostWaiter'
  <2> SUFFICES ASSUME NEW u \in Ids, state'[u] = "IO_WAITING",
                      pc'[Main] # "exit"
               PROVE  waitingFd'[u] \in Fds /\ epoll'[waitingFd'[u]] = u
    BY DEF NoLostWaiter
  <2>1. state[u] = "IO_WAITING" /\ u # t /\ pc[Main] # "exit"
    BY <1>18 DEF ResumeSleep, Goto, IInv, TypeOK, ControlConsistent
  <2>2. waitingFd[u] \in Fds /\ epoll[waitingFd[u]] = u
    BY <2>1 DEF NoLostWaiter
  <2>3. waitingFd[u] # tfd[t]
    <3>1. tfd[t] \in Timers
      BY <1>18 DEF ResumeSleep, IInv, TypeOK, TimersBelongToSleepers
    <3>2. CASE pc[u] = "waiting" /\ waitingFd[u] \in Sockets
      BY <3>1, <3>2
    <3>3. CASE pc[u] = "sleeping" /\ waitingFd[u] = tfd[u]
      BY <1>18, <2>1, <3>3 DEF ResumeSleep, IInv, TimersBelongToSleepers
    <3> QED BY <2>1, <3>2, <3>3, WaiterFd
  <2> QED BY <1>18, <2>1, <2>2, <2>3 DEF ResumeSleep, IInv, TypeOK
<1>19. ASSUME NEW id \in Ids, AwaitInMain(id) PROVE NoLostWaiter'
  BY <1>19 DEF AwaitInMain, CanCall, Spend, Goto, findTaskById, IInv, TypeOK,
     ControlConsistent, TaskShape, NoLostWaiter
<1>20. CASE NoEffectInMain
  BY <1>20 DEF NoEffectInMain, CanCall, Spend, IInv, TypeOK, ControlConsistent,
     TaskShape, NoLostWaiter
<1>21. CASE MainReturn
  BY <1>21 DEF MainReturn, Goto, IInv, TypeOK, ControlConsistent, TaskShape,
     NoLostWaiter
<1>22. CASE Abort
  BY <1>22 DEF Abort, Goto, IInv, TypeOK, ControlConsistent, TaskShape,
     NoLostWaiter
<1>23. CASE BeginPass
  BY <1>23 DEF BeginPass, InLoop, IInv, TypeOK, ControlConsistent, TaskShape,
     NoLostWaiter
<1>24. ASSUME NEW t \in Ids, RunNext(t) PROVE NoLostWaiter'
  BY <1>24 DEF RunNext, InLoop, Switchable, canRunTask, AwaitedCompleted,
     findTaskById, IInv, TypeOK, ControlConsistent, TaskShape, NoLostWaiter
<1>25. CASE EndPass
  BY <1>25 DEF EndPass, InLoop, IInv, TypeOK, ControlConsistent, TaskShape,
     NoLostWaiter
<1>26. ASSUME NEW batch \in SUBSET Fds, EpollWait(batch) PROVE NoLostWaiter'
  <2> DEFINE woken == {epoll[fd] : fd \in batch}
  <2> SUFFICES ASSUME NEW u \in Ids, state'[u] = "IO_WAITING",
                      pc'[Main] # "exit"
               PROVE  waitingFd'[u] \in Fds /\ epoll'[waitingFd'[u]] = u
    BY DEF NoLostWaiter
  <2>1. u \notin woken /\ state[u] = "IO_WAITING" /\ waitingFd'[u] =
        waitingFd[u]
    BY <1>26 DEF EpollWait
  <2>2. waitingFd[u] \in Fds /\ epoll[waitingFd[u]] = u
    BY <1>26, <2>1 DEF EpollWait, NoLostWaiter
  <2>3. \A v \in woken : waitingFd[v] # waitingFd[u]
    <3> SUFFICES ASSUME NEW fd \in batch, waitingFd[epoll[fd]] = waitingFd[u]
                 PROVE  FALSE
      OBVIOUS
    <3>1. fd \in Fds /\ epoll[fd] # NoTask
      BY <1>26 DEF EpollWait
    <3>2. waitingFd[epoll[fd]] = fd
      BY <3>1 DEF IInv, EpollPointsToWaiter
    <3> QED BY <2>1, <2>2, <3>2
  <2>4. epoll'[waitingFd[u]] = epoll[waitingFd[u]]
    BY <1>26, <2>2, <2>3 DEF EpollWait, Deregistered
  <2> QED BY <2>1, <2>2, <2>4
<1>27. CASE EndAwaitInMain
  BY <1>27 DEF EndAwaitInMain, InLoop, Deliver, Goto, IInv, TypeOK,
     ControlConsistent, TaskShape, NoLostWaiter
<1>28. CASE Cleanup
  BY <1>28 DEF Cleanup, InLoop, Goto, IInv, TypeOK, ControlConsistent,
     TaskShape, NoLostWaiter
<1>29. ASSUME NEW fd \in Timers, TimerFires(fd) PROVE NoLostWaiter'
  BY <1>29 DEF TimerFires, IInv, TypeOK, ControlConsistent, TaskShape,
     NoLostWaiter
<1>30. ASSUME NEW fd \in Sockets, SocketChanges(fd) PROVE NoLostWaiter'
  BY <1>30 DEF SocketChanges, IInv, TypeOK, ControlConsistent, TaskShape,
     NoLostWaiter
<1>31. CASE UNCHANGED vars
  BY <1>31 DEF IInv, TypeOK, ControlConsistent, TaskShape, NoLostWaiter
<1> QED BY <1>1, <1>2, <1>3, <1>4, <1>5, <1>6, <1>7, <1>8, <1>9, <1>10, <1>11,
     <1>12, <1>13, <1>14, <1>15, <1>16, <1>17, <1>18, <1>19, <1>20, <1>21,
     <1>22, <1>23, <1>24, <1>25, <1>26, <1>27, <1>28, <1>29, <1>30, <1>31 DEF
     Next, Step, BodyStep, TaskStep, MainStep, LoopStep, Terminated

(* Every waiting task is the one its descriptor's event wakes.             *)
THEOREM WaitersAreWoken ==
  ASSUME DisjointDescriptors
  PROVE  Spec => []NoLostWaiter
<1>1. Init => NoLostWaiter
  BY DEF Init, NoLostWaiter
<1>2. IInv /\ NoLostWaiter /\ [Next]_vars => NoLostWaiter'
  BY WaiterStep
<1> QED BY <1>1, <1>2, Invariance, PTL DEF Spec

-----------------------------------------------------------------------------
(* An await blocks its task exactly while the task is in it; only a        *)
(* completed task has an error.                                            *)
OutcomeShape ==
  /\ \A t \in Ids : hasError[t] => state[t] = "COMPLETED"
  /\ \A t \in Ids : pc[t] = "awaiting" => awaitingTaskId[t] \in MayAwait[t]
  /\ \A t \in Ids : awaitingTaskId[t] # NoTask => pc[t] = "awaiting"

LEMMA OutcomeStep ==
  ASSUME IInv, OutcomeShape, [Next]_vars
  PROVE  OutcomeShape'
<1>1. ASSUME NEW c \in Contexts, NEW f \in Functions, NEW a \in Arguments,
      Spawn(c, f, a) PROVE OutcomeShape'
  <2>1. SpawnFrame
    BY <1>1, SpawnEffect DEF IInv
  <2>2. CASE UNCHANGED <<taskCount, state, pc>>
    BY <2>1, <2>2 DEF SpawnFrame, IInv, TypeOK, TaskShape, OutcomeShape
  <2>3. ASSUME NEW n \in Ids, SpawnsAt(n) PROVE OutcomeShape'
    BY <2>1, <2>3 DEF SpawnFrame, SpawnsAt, IInv, TypeOK, TaskShape,
       OutcomeShape
  <2> QED BY <1>1, <2>2, <2>3, SpawnEffect DEF IInv
<1>2. ASSUME NEW c \in Contexts, NEW id \in Ids, AwaitCompleted(c, id) PROVE
      OutcomeShape'
  BY <1>2 DEF AwaitCompleted, CanCall, Spend, Goto, Deliver, findTaskById,
     IInv, TypeOK, ControlConsistent, TaskShape, OutcomeShape
<1>3. ASSUME NEW c \in Contexts, AwaitRefused(c) PROVE OutcomeShape'
  BY <1>3 DEF AwaitRefused, CanCall, Spend, IInv, TypeOK, ControlConsistent,
     TaskShape, OutcomeShape
<1>4. ASSUME NEW c \in Contexts, Raise(c) PROVE OutcomeShape'
  BY <1>4 DEF Raise, CanCall, Spend, Goto, IInv, TypeOK, ControlConsistent,
     TaskShape, OutcomeShape
<1>5. ASSUME NEW c \in Contexts, Catch(c) PROVE OutcomeShape'
  BY <1>5 DEF Catch, Goto, IInv, TypeOK, ControlConsistent, TaskShape,
     OutcomeShape
<1>6. ASSUME NEW t \in Ids, StartTask(t) PROVE OutcomeShape'
  BY <1>6 DEF StartTask, Goto, IInv, TypeOK, ControlConsistent, TaskShape,
     OutcomeShape
<1>7. ASSUME NEW t \in Ids, NEW v \in Results, TaskComplete(t, v) PROVE
      OutcomeShape'
  BY <1>7 DEF TaskComplete, Goto, ToScheduler, IInv, TypeOK, ControlConsistent,
     TaskShape, OutcomeShape
<1>8. ASSUME NEW t \in Ids, TaskError(t) PROVE OutcomeShape'
  BY <1>8 DEF TaskError, Goto, ToScheduler, IInv, TypeOK, ControlConsistent,
     TaskShape, OutcomeShape
<1>9. ASSUME NEW t \in Ids, TaskYield(t) PROVE OutcomeShape'
  BY <1>9 DEF TaskYield, CanCall, Spend, Goto, ToScheduler, IInv, TypeOK,
     ControlConsistent, TaskShape, OutcomeShape
<1>10. ASSUME NEW t \in Ids, ResumeYield(t) PROVE OutcomeShape'
  BY <1>10 DEF ResumeYield, Goto, IInv, TypeOK, ControlConsistent, TaskShape,
     OutcomeShape
<1>11. ASSUME NEW t \in Ids, NEW id \in Ids, AwaitInTask(t, id) PROVE
      OutcomeShape'
  BY <1>11 DEF AwaitInTask, CanCall, Spend, Goto, ToScheduler, findTaskById,
     IInv, TypeOK, ControlConsistent, TaskShape, OutcomeShape
<1>12. ASSUME NEW t \in Ids, ResumeAwait(t) PROVE OutcomeShape'
  BY <1>12 DEF ResumeAwait, Goto, Deliver, IInv, TypeOK, ControlConsistent,
     TaskShape, OutcomeShape
<1>13. ASSUME NEW t \in Ids, NEW fd \in Sockets, AwaitSocket(t, fd) PROVE
      OutcomeShape'
  BY <1>13 DEF AwaitSocket, CanCall, Spend, Goto, AwaitFD, ToScheduler, IInv,
     TypeOK, ControlConsistent, TaskShape, OutcomeShape
<1>14. ASSUME NEW t \in Ids, NEW fd \in Files, AwaitFile(t, fd) PROVE
      OutcomeShape'
  BY <1>14 DEF AwaitFile, CanCall, Spend, IInv, TypeOK, ControlConsistent,
     TaskShape, OutcomeShape
<1>15. ASSUME NEW t \in Ids, ResumeSocket(t) PROVE OutcomeShape'
  BY <1>15 DEF ResumeSocket, Goto, IInv, TypeOK, ControlConsistent, TaskShape,
     OutcomeShape
<1>16. ASSUME NEW t \in Ids, NEW fd \in Timers, Sleep(t, fd) PROVE
      OutcomeShape'
  BY <1>16 DEF Sleep, CanCall, Spend, Goto, AwaitFD, ToScheduler, IInv, TypeOK,
     ControlConsistent, TaskShape, OutcomeShape
<1>17. ASSUME NEW t \in Ids, SleepRefused(t) PROVE OutcomeShape'
  BY <1>17 DEF SleepRefused, CanCall, Spend, IInv, TypeOK, ControlConsistent,
     TaskShape, OutcomeShape
<1>18. ASSUME NEW t \in Ids, ResumeSleep(t) PROVE OutcomeShape'
  BY <1>18 DEF ResumeSleep, Goto, CloseTimer, IInv, TypeOK, ControlConsistent,
     TaskShape, OutcomeShape
<1>19. ASSUME NEW id \in Ids, AwaitInMain(id) PROVE OutcomeShape'
  BY <1>19 DEF AwaitInMain, CanCall, Spend, Goto, findTaskById, IInv, TypeOK,
     ControlConsistent, TaskShape, OutcomeShape
<1>20. CASE NoEffectInMain
  BY <1>20 DEF NoEffectInMain, CanCall, Spend, IInv, TypeOK, ControlConsistent,
     TaskShape, OutcomeShape
<1>21. CASE MainReturn
  BY <1>21 DEF MainReturn, Goto, IInv, TypeOK, ControlConsistent, TaskShape,
     OutcomeShape
<1>22. CASE Abort
  BY <1>22 DEF Abort, Goto, IInv, TypeOK, ControlConsistent, TaskShape,
     OutcomeShape
<1>23. CASE BeginPass
  BY <1>23 DEF BeginPass, InLoop, IInv, TypeOK, ControlConsistent, TaskShape,
     OutcomeShape
<1>24. ASSUME NEW t \in Ids, RunNext(t) PROVE OutcomeShape'
  BY <1>24 DEF RunNext, InLoop, Switchable, canRunTask, AwaitedCompleted,
     findTaskById, IInv, TypeOK, ControlConsistent, TaskShape, OutcomeShape
<1>25. CASE EndPass
  BY <1>25 DEF EndPass, InLoop, IInv, TypeOK, ControlConsistent, TaskShape,
     OutcomeShape
<1>26. ASSUME NEW batch \in SUBSET Fds, EpollWait(batch) PROVE OutcomeShape'
  <2>1. \A fd \in batch : state[epoll[fd]] = "IO_WAITING"
    BY <1>26 DEF EpollWait, IInv, TypeOK, EpollPointsToWaiter
  <2>2. \A t \in Ids : state[t] = "COMPLETED" => state'[t] = "COMPLETED"
    BY <1>26, <2>1 DEF EpollWait, IInv, TypeOK
  <2> QED BY <1>26, <2>2 DEF EpollWait, OutcomeShape
<1>27. CASE EndAwaitInMain
  BY <1>27 DEF EndAwaitInMain, InLoop, Deliver, Goto, IInv, TypeOK,
     ControlConsistent, TaskShape, OutcomeShape
<1>28. CASE Cleanup
  BY <1>28 DEF Cleanup, InLoop, Goto, IInv, TypeOK, ControlConsistent,
     TaskShape, OutcomeShape
<1>29. ASSUME NEW fd \in Timers, TimerFires(fd) PROVE OutcomeShape'
  BY <1>29 DEF TimerFires, IInv, TypeOK, ControlConsistent, TaskShape,
     OutcomeShape
<1>30. ASSUME NEW fd \in Sockets, SocketChanges(fd) PROVE OutcomeShape'
  BY <1>30 DEF SocketChanges, IInv, TypeOK, ControlConsistent, TaskShape,
     OutcomeShape
<1>31. CASE UNCHANGED vars
  BY <1>31 DEF IInv, TypeOK, ControlConsistent, TaskShape, OutcomeShape
<1> QED BY <1>1, <1>2, <1>3, <1>4, <1>5, <1>6, <1>7, <1>8, <1>9, <1>10, <1>11,
     <1>12, <1>13, <1>14, <1>15, <1>16, <1>17, <1>18, <1>19, <1>20, <1>21,
     <1>22, <1>23, <1>24, <1>25, <1>26, <1>27, <1>28, <1>29, <1>30, <1>31 DEF
     Next, Step, BodyStep, TaskStep, MainStep, LoopStep, Terminated

LEMMA OutcomeInvariance == Spec => [](IInv /\ OutcomeShape)
<1>1. Init => OutcomeShape
  BY DEF Init, OutcomeShape
<1>2. IInv /\ OutcomeShape /\ [Next]_vars => OutcomeShape'
  BY OutcomeStep
<1> QED BY <1>1, <1>2, Invariance, PTL DEF Spec

(* When the loop ends every task is completed: an unfinished task that can *)
(* neither run nor wait for I/O awaits another one like it, and a set of   *)
(* such tasks would be a cycle.                                            *)
LEMMA LoopEndsSettled ==
  ASSUME AcyclicAwaits, IInv, OutcomeShape, LoopEnds
  PROVE  \A t \in 1 .. taskCount : state[t] = "COMPLETED"
<1> DEFINE T == {t \in 1 .. taskCount : state[t] # "COMPLETED"}
<1> SUFFICES ASSUME T # {} PROVE FALSE
  OBVIOUS
<1>1. T \subseteq Ids
  BY DEF IInv, TypeOK
<1>2. PICK t \in T : MayAwait[t] \cap T = {}
  BY <1>1 DEF AcyclicAwaits
<1>3. state[t] # "IO_WAITING" /\ ~canRunTask(t)
  BY DEF LoopEnds, Ready, HasIOWaiting
<1> DEFINE u == awaitingTaskId[t]
<1>4. u \in 1 .. taskCount /\ state[u] # "COMPLETED"
  BY <1>3 DEF canRunTask, AwaitedCompleted, findTaskById
<1>5. u \in MayAwait[t]
  BY <1>1, <1>4 DEF OutcomeShape
<1> QED BY <1>2, <1>4, <1>5

LEMMA AbandonStep ==
  ASSUME AcyclicAwaits, IInv, OutcomeShape, NoTaskAbandoned, [Next]_vars
  PROVE  NoTaskAbandoned'
<1>1. ASSUME NEW c \in Contexts, NEW f \in Functions, NEW a \in Arguments,
      Spawn(c, f, a) PROVE NoTaskAbandoned'
  <2>1. pc[Main] # "exit"
    BY <1>1 DEF Spawn, CanCall, IInv, TaskShape
  <2>2. pc'[Main] = pc[Main]
    <3>1. CASE UNCHANGED <<taskCount, state, pc>>
      BY <3>1
    <3>2. ASSUME NEW n \in Ids, SpawnsAt(n) PROVE pc'[Main] = pc[Main]
      BY <3>2 DEF SpawnsAt, IInv, TypeOK
    <3> QED BY <1>1, <3>1, <3>2, SpawnEffect DEF IInv
  <2> QED BY <2>1, <2>2 DEF NoTaskAbandoned
<1>2. ASSUME NEW c \in Contexts, NEW id \in Ids, AwaitCompleted(c, id) PROVE
      NoTaskAbandoned'
  BY <1>2 DEF AwaitCompleted, CanCall, Spend, Goto, Deliver, findTaskById,
     IInv, TypeOK, ControlConsistent, TaskShape, NoTaskAbandoned
<1>3. ASSUME NEW c \in Contexts, AwaitRefused(c) PROVE NoTaskAbandoned'
  BY <1>3 DEF AwaitRefused, CanCall, Spend, IInv, TypeOK, ControlConsistent,
     TaskShape, NoTaskAbandoned
<1>4. ASSUME NEW c \in Contexts, Raise(c) PROVE NoTaskAbandoned'
  BY <1>4 DEF Raise, CanCall, Spend, Goto, IInv, TypeOK, ControlConsistent,
     TaskShape, NoTaskAbandoned
<1>5. ASSUME NEW c \in Contexts, Catch(c) PROVE NoTaskAbandoned'
  BY <1>5 DEF Catch, Goto, IInv, TypeOK, ControlConsistent, TaskShape,
     NoTaskAbandoned
<1>6. ASSUME NEW t \in Ids, StartTask(t) PROVE NoTaskAbandoned'
  BY <1>6 DEF StartTask, Goto, IInv, TypeOK, ControlConsistent, TaskShape,
     NoTaskAbandoned
<1>7. ASSUME NEW t \in Ids, NEW v \in Results, TaskComplete(t, v) PROVE
      NoTaskAbandoned'
  BY <1>7 DEF TaskComplete, Goto, ToScheduler, IInv, TypeOK, ControlConsistent,
     TaskShape, NoTaskAbandoned
<1>8. ASSUME NEW t \in Ids, TaskError(t) PROVE NoTaskAbandoned'
  BY <1>8 DEF TaskError, Goto, ToScheduler, IInv, TypeOK, ControlConsistent,
     TaskShape, NoTaskAbandoned
<1>9. ASSUME NEW t \in Ids, TaskYield(t) PROVE NoTaskAbandoned'
  BY <1>9 DEF TaskYield, CanCall, Spend, Goto, ToScheduler, IInv, TypeOK,
     ControlConsistent, TaskShape, NoTaskAbandoned
<1>10. ASSUME NEW t \in Ids, ResumeYield(t) PROVE NoTaskAbandoned'
  BY <1>10 DEF ResumeYield, Goto, IInv, TypeOK, ControlConsistent, TaskShape,
     NoTaskAbandoned
<1>11. ASSUME NEW t \in Ids, NEW id \in Ids, AwaitInTask(t, id) PROVE
      NoTaskAbandoned'
  BY <1>11 DEF AwaitInTask, CanCall, Spend, Goto, ToScheduler, findTaskById,
     IInv, TypeOK, ControlConsistent, TaskShape, NoTaskAbandoned
<1>12. ASSUME NEW t \in Ids, ResumeAwait(t) PROVE NoTaskAbandoned'
  BY <1>12 DEF ResumeAwait, Goto, Deliver, IInv, TypeOK, ControlConsistent,
     TaskShape, NoTaskAbandoned
<1>13. ASSUME NEW t \in Ids, NEW fd \in Sockets, AwaitSocket(t, fd) PROVE
      NoTaskAbandoned'
  BY <1>13 DEF AwaitSocket, CanCall, Spend, Goto, AwaitFD, ToScheduler, IInv,
     TypeOK, ControlConsistent, TaskShape, NoTaskAbandoned
<1>14. ASSUME NEW t \in Ids, NEW fd \in Files, AwaitFile(t, fd) PROVE
      NoTaskAbandoned'
  BY <1>14 DEF AwaitFile, CanCall, Spend, IInv, TypeOK, ControlConsistent,
     TaskShape, NoTaskAbandoned
<1>15. ASSUME NEW t \in Ids, ResumeSocket(t) PROVE NoTaskAbandoned'
  BY <1>15 DEF ResumeSocket, Goto, IInv, TypeOK, ControlConsistent, TaskShape,
     NoTaskAbandoned
<1>16. ASSUME NEW t \in Ids, NEW fd \in Timers, Sleep(t, fd) PROVE
      NoTaskAbandoned'
  BY <1>16 DEF Sleep, CanCall, Spend, Goto, AwaitFD, ToScheduler, IInv, TypeOK,
     ControlConsistent, TaskShape, NoTaskAbandoned
<1>17. ASSUME NEW t \in Ids, SleepRefused(t) PROVE NoTaskAbandoned'
  BY <1>17 DEF SleepRefused, CanCall, Spend, IInv, TypeOK, ControlConsistent,
     TaskShape, NoTaskAbandoned
<1>18. ASSUME NEW t \in Ids, ResumeSleep(t) PROVE NoTaskAbandoned'
  BY <1>18 DEF ResumeSleep, Goto, CloseTimer, IInv, TypeOK, ControlConsistent,
     TaskShape, NoTaskAbandoned
<1>19. ASSUME NEW id \in Ids, AwaitInMain(id) PROVE NoTaskAbandoned'
  BY <1>19 DEF AwaitInMain, CanCall, Spend, Goto, findTaskById, IInv, TypeOK,
     ControlConsistent, TaskShape, NoTaskAbandoned
<1>20. CASE NoEffectInMain
  BY <1>20 DEF NoEffectInMain, CanCall, Spend, IInv, TypeOK, ControlConsistent,
     TaskShape, NoTaskAbandoned
<1>21. CASE MainReturn
  BY <1>21 DEF MainReturn, Goto, IInv, TypeOK, ControlConsistent, TaskShape,
     NoTaskAbandoned
<1>22. CASE Abort
  BY <1>22 DEF Abort, Goto, IInv, TypeOK, ControlConsistent, TaskShape,
     NoTaskAbandoned
<1>23. CASE BeginPass
  BY <1>23 DEF BeginPass, InLoop, IInv, TypeOK, ControlConsistent, TaskShape,
     NoTaskAbandoned
<1>24. ASSUME NEW t \in Ids, RunNext(t) PROVE NoTaskAbandoned'
  BY <1>24 DEF RunNext, InLoop, Switchable, canRunTask, AwaitedCompleted,
     findTaskById, IInv, TypeOK, ControlConsistent, TaskShape, NoTaskAbandoned
<1>25. CASE EndPass
  BY <1>25 DEF EndPass, InLoop, IInv, TypeOK, ControlConsistent, TaskShape,
     NoTaskAbandoned
<1>26. ASSUME NEW batch \in SUBSET Fds, EpollWait(batch) PROVE NoTaskAbandoned'
  BY <1>26 DEF EpollWait, InLoop, Deregistered, IInv, TypeOK,
     ControlConsistent, TaskShape, NoTaskAbandoned
<1>27. CASE EndAwaitInMain
  BY <1>27 DEF EndAwaitInMain, InLoop, Deliver, Goto, IInv, TypeOK,
     ControlConsistent, TaskShape, NoTaskAbandoned
<1>28. CASE Cleanup
  <2>1. \A t \in 1 .. taskCount : state[t] = "COMPLETED"
    BY <1>28, LoopEndsSettled DEF Cleanup
  <2>2. \A t \in Ids : t > taskCount => state[t] = "NONE"
    BY <1>28 DEF Cleanup, IInv, TaskShape
  <2> QED BY <1>28, <2>1, <2>2 DEF Cleanup, IInv, TypeOK, NoTaskAbandoned
<1>29. ASSUME NEW fd \in Timers, TimerFires(fd) PROVE NoTaskAbandoned'
  BY <1>29 DEF TimerFires, IInv, TypeOK, ControlConsistent, TaskShape,
     NoTaskAbandoned
<1>30. ASSUME NEW fd \in Sockets, SocketChanges(fd) PROVE NoTaskAbandoned'
  BY <1>30 DEF SocketChanges, IInv, TypeOK, ControlConsistent, TaskShape,
     NoTaskAbandoned
<1>31. CASE UNCHANGED vars
  BY <1>31 DEF IInv, TypeOK, ControlConsistent, TaskShape, NoTaskAbandoned
<1> QED BY <1>1, <1>2, <1>3, <1>4, <1>5, <1>6, <1>7, <1>8, <1>9, <1>10, <1>11,
     <1>12, <1>13, <1>14, <1>15, <1>16, <1>17, <1>18, <1>19, <1>20, <1>21,
     <1>22, <1>23, <1>24, <1>25, <1>26, <1>27, <1>28, <1>29, <1>30, <1>31 DEF
     Next, Step, BodyStep, TaskStep, MainStep, LoopStep, Terminated

(* The program exits only when all its tasks are completed.                *)
THEOREM NothingIsAbandoned ==
  ASSUME AcyclicAwaits
  PROVE  Spec => []NoTaskAbandoned
<1>1. Init => NoTaskAbandoned
  BY DEF Init, NoTaskAbandoned
<1>2. IInv /\ OutcomeShape /\ NoTaskAbandoned /\ [Next]_vars =>
      NoTaskAbandoned'
  BY AbandonStep
<1> QED BY <1>1, <1>2, OutcomeInvariance, PTL DEF Spec

-----------------------------------------------------------------------------
(* The abstract state, read off the concrete one.                          *)

LEMMA StatusIs ==
  ASSUME NEW t \in Ids
  PROVE  /\ Status(t) = "absent" <=> state[t] = "NONE"
         /\ Status(t) = "pending" <=> state[t] \notin {"NONE", "COMPLETED"}
         /\ Status(t) = "rejected" <=> state[t] = "COMPLETED" /\ hasError[t]
         /\ Status(t) = "fulfilled" <=> state[t] = "COMPLETED" /\ ~hasError[t]
         /\ Status(t) \in {"absent", "pending", "fulfilled", "rejected"}
BY DEF Status

LEMMA AwaitedIs ==
  ASSUME NEW c \in Contexts
  PROVE  /\ c = Main /\ pc[c] = "awaitLoop" => Awaited(c) = mainTarget
         /\ c # Main /\ pc[c] = "awaiting" => Awaited(c) = awaitingTaskId[c]
         /\ c = Main /\ pc[c] # "awaitLoop" => Awaited(c) = NoTask
         /\ c # Main /\ pc[c] # "awaiting" => Awaited(c) = NoTask
BY DEF Awaited

(* A task's status is that of the same state, settled or not.              *)
LEMMA SameStatus ==
  ASSUME NEW t \in Ids, hasError'[t] = hasError[t],
         state'[t] = "NONE" <=> state[t] = "NONE",
         state'[t] = "COMPLETED" <=> state[t] = "COMPLETED"
  PROVE  Status(t)' = Status(t)
BY DEF Status

LEMMA SameAwaited ==
  ASSUME NEW c \in Contexts, pc'[c] = pc[c], mainTarget' = mainTarget,
         awaitingTaskId' = awaitingTaskId
  PROVE  Awaited(c)' = Awaited(c)
BY DEF Awaited

LEMMA Stutters ==
  ASSUME \A t \in Ids : Status(t)' = Status(t),
         \A c \in Contexts : Awaited(c)' = Awaited(c),
         UNCHANGED <<result, received>>
  PROVE  [Abstract!Next]_(Abstract!vars)
BY DEF Abstract!vars

LEMMA InitialStates == Init => Abstract!Init
BY DEF Init, Abstract!Init, Status, Awaited

(* A step that settles nothing, creates no task, and neither begins nor    *)
(* ends an await.                                                          *)
LEMMA Quiet ==
  ASSUME UNCHANGED <<result, hasError, mainTarget, awaitingTaskId, received>>,
         \A t \in Ids :
           /\ state'[t] = "NONE" <=> state[t] = "NONE"
           /\ state'[t] = "COMPLETED" <=> state[t] = "COMPLETED"
           /\ pc'[t] = "awaiting" <=> pc[t] = "awaiting",
         pc'[Main] = "awaitLoop" <=> pc[Main] = "awaitLoop"
  PROVE  [Abstract!Next]_(Abstract!vars)
<1>1. \A t \in Ids : Status(t)' = Status(t)
  BY SameStatus
<1>2. \A c \in Contexts : Awaited(c)' = Awaited(c)
  BY DEF Awaited
<1> QED BY <1>1, <1>2, Stutters

(* The task that runs is pending, the one whose code goes on awaits none.  *)
LEMMA RunningIsPending ==
  ASSUME IInv, control \in Ids
  PROVE  state[control] \in {"RUNNING", "SUSPENDED"}
BY DEF IInv, ControlConsistent

LEMMA BodyAwaitsNone ==
  ASSUME NEW c \in Contexts, pc[c] = "body"
  PROVE  Awaited(c) = NoTask
BY AwaitedIs

-----------------------------------------------------------------------------
(* Each step of the loop is a step of AsyncTasks or changes nothing in it. *)

LEMMA Steps ==
  ASSUME AcyclicAwaits, IInv, OutcomeShape, [Next]_vars
  PROVE  [Abstract!Next]_(Abstract!vars)
<1>1. ASSUME NEW c \in Contexts, NEW f \in Functions, NEW a \in Arguments,
      Spawn(c, f, a) PROVE [Abstract!Next]_(Abstract!vars)
  <2>1. SpawnFrame
    BY <1>1, SpawnEffect DEF IInv
  <2>2. hasError' = hasError /\ result' = result /\ received' = received
    BY <2>1 DEF SpawnFrame
  <2>3. CASE UNCHANGED <<taskCount, state, pc>>
    BY <2>1, <2>3, Quiet DEF SpawnFrame
  <2>4. ASSUME NEW n \in Ids, SpawnsAt(n) PROVE [Abstract!Next]_(Abstract!vars)
    <3>1. Status(n) = "absent" /\ Status(n)' = "pending"
      BY <2>4 DEF SpawnsAt, IInv, TypeOK, Status
    <3>2. \A t \in Ids \ {n} : Status(t)' = Status(t)
      BY <2>2, <2>4 DEF SpawnsAt, IInv, TypeOK, Status
    <3>3. \A d \in Contexts : Awaited(d)' = Awaited(d)
      BY <2>1, <2>4 DEF SpawnFrame, SpawnsAt, IInv, TypeOK, Awaited
    <3>4. Abstract!Call(n)
      BY <2>2, <3>1, <3>2, <3>3 DEF Abstract!Call
    <3> QED BY <3>4 DEF Abstract!Next
  <2> QED BY <1>1, <2>3, <2>4, SpawnEffect DEF IInv
<1>2. ASSUME NEW c \in Contexts, NEW id \in Ids, AwaitCompleted(c, id) PROVE
      [Abstract!Next]_(Abstract!vars)
  <2>1. Awaited(c) = NoTask
    BY <1>2, BodyAwaitsNone DEF AwaitCompleted, CanCall
  <2>2. Status(id) = IF hasError[id] THEN "rejected" ELSE "fulfilled"
    BY <1>2 DEF AwaitCompleted, Status
  <2>3. received' = [received EXCEPT ![c] =
                      IF Status(id) = "rejected" THEN Rejected ELSE result[id]]
    BY <1>2, <2>2 DEF AwaitCompleted, Deliver
  <2>4. \A t \in Ids : Status(t)' = Status(t)
    BY <1>2 DEF AwaitCompleted, Status
  <2>5. \A d \in Contexts : Awaited(d)' = Awaited(d)
    <3>1. PICK label \in {"body", "raised"} : pc' = [pc EXCEPT ![c] = label]
      BY <1>2, DeliverGoesOn DEF AwaitCompleted
    <3>2. pc[c] = "body"
      BY <1>2 DEF AwaitCompleted, CanCall
    <3> QED BY <1>2, <3>1, <3>2 DEF AwaitCompleted, IInv, TypeOK, Awaited
  <2>6. Abstract!AwaitSettled(c, id)
    BY <1>2, <2>1, <2>2, <2>3, <2>4, <2>5 DEF AwaitCompleted,
       Abstract!AwaitSettled,
       Abstract!Settled, Abstract!Outcome
  <2> QED BY <2>6 DEF Abstract!Next
<1>3. ASSUME NEW c \in Contexts, AwaitRefused(c) PROVE
      [Abstract!Next]_(Abstract!vars)
  <2>1. Awaited(c) = NoTask
    BY <1>3, BodyAwaitsNone DEF AwaitRefused, CanCall
  <2>2. \A t \in Ids : Status(t) # "absent"
    <3>1. pc[Main] # "exit"
      BY <1>3 DEF AwaitRefused, CanCall, IInv, TaskShape
    <3>2. \A t \in Ids : state[t] # "NONE"
      BY <1>3, <3>1 DEF AwaitRefused, TableFull, IInv, TypeOK, TaskShape
    <3> QED BY <3>2, StatusIs
  <2>3. \A t \in Ids : Status(t)' = Status(t)
    BY <1>3 DEF AwaitRefused, Status
  <2>4. \A d \in Contexts : Awaited(d)' = Awaited(d)
    BY <1>3 DEF AwaitRefused, Awaited
  <2>5. Abstract!AwaitRefused(c)
    BY <1>3, <2>1, <2>2, <2>3, <2>4 DEF AwaitRefused, Abstract!AwaitRefused
  <2> QED BY <2>5 DEF Abstract!Next
<1>4. ASSUME NEW c \in Contexts, Raise(c) PROVE [Abstract!Next]_(Abstract!vars)
  BY <1>4, Quiet, RunningIsPending DEF Raise, CanCall, Goto, IInv, TypeOK,
     ControlConsistent
<1>5. ASSUME NEW c \in Contexts, Catch(c) PROVE [Abstract!Next]_(Abstract!vars)
  BY <1>5, Quiet, RunningIsPending DEF Catch, Goto, IInv, TypeOK,
     ControlConsistent
<1>6. ASSUME NEW t \in Ids, StartTask(t) PROVE [Abstract!Next]_(Abstract!vars)
  BY <1>6, Quiet, RunningIsPending DEF StartTask, Goto, IInv, TypeOK,
     ControlConsistent
<1>7. ASSUME NEW t \in Ids, NEW v \in Results, TaskComplete(t, v) PROVE
      [Abstract!Next]_(Abstract!vars)
  <2>1. control = t /\ state[t] \in {"RUNNING", "SUSPENDED"} /\ pc[t] #
        "awaiting"
    BY <1>7, RunningIsPending DEF TaskComplete
  <2>2. Status(t) = "pending"
    BY <2>1 DEF Status
  <2>3. Status(t)' = "fulfilled"
    <3>1. hasError[t] = FALSE /\ hasError'[t] = hasError[t]
      BY <1>7, <2>1 DEF TaskComplete, OutcomeShape, IInv, TypeOK
    <3>2. state'[t] = "COMPLETED"
      BY <1>7 DEF TaskComplete, IInv, TypeOK
    <3> QED BY <3>1, <3>2 DEF Status
  <2>4. \A u \in Ids \ {t} : Status(u)' = Status(u)
    <3> SUFFICES ASSUME NEW u \in Ids \ {t} PROVE Status(u)' = Status(u)
      OBVIOUS
    <3>1. state'[u] = state[u] /\ hasError'[u] = hasError[u]
      BY <1>7 DEF TaskComplete, IInv, TypeOK
    <3> QED BY <3>1 DEF Status
  <2>5. \A c \in Contexts : Awaited(c)' = Awaited(c)
    BY <1>7, <2>1 DEF TaskComplete, Goto, IInv, TypeOK, Awaited
  <2>6. Abstract!Fulfil(t, v)
    BY <1>7, <2>2, <2>3, <2>4, <2>5 DEF TaskComplete, Abstract!Fulfil
  <2> QED BY <2>6 DEF Abstract!Next
<1>8. ASSUME NEW t \in Ids, TaskError(t) PROVE [Abstract!Next]_(Abstract!vars)
  <2>1. control = t /\ state[t] \in {"RUNNING", "SUSPENDED"} /\ pc[t] #
        "awaiting"
    BY <1>8, RunningIsPending DEF TaskError
  <2>2. Status(t) = "pending"
    BY <2>1 DEF Status
  <2>3. Status(t)' = "rejected"
    <3>1. hasError'[t] = TRUE /\ state'[t] = "COMPLETED"
      BY <1>8 DEF TaskError, IInv, TypeOK
    <3> QED BY <3>1 DEF Status
  <2>4. \A u \in Ids \ {t} : Status(u)' = Status(u)
    <3> SUFFICES ASSUME NEW u \in Ids \ {t} PROVE Status(u)' = Status(u)
      OBVIOUS
    <3>1. state'[u] = state[u] /\ hasError'[u] = hasError[u]
      BY <1>8 DEF TaskError, IInv, TypeOK
    <3> QED BY <3>1 DEF Status
  <2>5. \A c \in Contexts : Awaited(c)' = Awaited(c)
    BY <1>8, <2>1 DEF TaskError, Goto, IInv, TypeOK, Awaited
  <2>6. Abstract!Reject(t)
    BY <1>8, <2>2, <2>3, <2>4, <2>5 DEF TaskError, Abstract!Reject
  <2> QED BY <2>6 DEF Abstract!Next
<1>9. ASSUME NEW t \in Ids, TaskYield(t) PROVE [Abstract!Next]_(Abstract!vars)
  BY <1>9, Quiet, RunningIsPending DEF TaskYield, CanCall, Goto, ToScheduler,
     IInv, TypeOK,
     ControlConsistent
<1>10. ASSUME NEW t \in Ids, ResumeYield(t) PROVE
      [Abstract!Next]_(Abstract!vars)
  BY <1>10, Quiet, RunningIsPending DEF ResumeYield, Goto, IInv, TypeOK,
     ControlConsistent
<1>11. ASSUME NEW t \in Ids, NEW id \in Ids, AwaitInTask(t, id) PROVE
      [Abstract!Next]_(Abstract!vars)
  <2>1. Awaited(t) = NoTask
    BY <1>11, BodyAwaitsNone DEF AwaitInTask, CanCall
  <2>2. Status(id) = "pending"
    <3>1. state[id] # "NONE" /\ pc[Main] # "exit"
      BY <1>11 DEF AwaitInTask, CanCall, findTaskById, IInv, TypeOK, TaskShape
    <3> QED BY <1>11, <3>1, StatusIs DEF AwaitInTask
  <2>3. \A u \in Ids : Status(u)' = Status(u)
    BY <1>11, RunningIsPending, SameStatus DEF AwaitInTask, CanCall, IInv,
       TypeOK
  <2>4. Awaited(t)' = id
    BY <1>11 DEF AwaitInTask, Goto, IInv, TypeOK, Awaited
  <2>5. \A d \in Contexts \ {t} : Awaited(d)' = Awaited(d)
    BY <1>11 DEF AwaitInTask, Goto, IInv, TypeOK, Awaited
  <2>6. Abstract!BeginAwait(t, id)
    BY <1>11, <2>1, <2>2, <2>3, <2>4, <2>5 DEF AwaitInTask, Abstract!BeginAwait
  <2> QED BY <2>6 DEF Abstract!Next
<1>12. ASSUME NEW t \in Ids, ResumeAwait(t) PROVE
      [Abstract!Next]_(Abstract!vars)
  <2> DEFINE id == awaitingTaskId[t]
  <2>1. Awaited(t) = id /\ id \in Ids
    BY <1>12, AwaitedIs DEF ResumeAwait, InLoop, IInv, TypeOK, TaskShape
  <2>2. state[id] = "COMPLETED"
    BY <1>12 DEF ResumeAwait, IInv, AwaitResumesSettled
  <2>3. Status(id) = IF hasError[id] THEN "rejected" ELSE "fulfilled"
    BY <2>2 DEF Status
  <2>4. received' = [received EXCEPT ![t] =
                      IF Status(id) = "rejected" THEN Rejected ELSE result[id]]
    BY <1>12, <2>3 DEF ResumeAwait, Deliver
  <2>5. \A u \in Ids : Status(u)' = Status(u)
    BY <1>12 DEF ResumeAwait, Status
  <2>6. PICK label \in {"body", "raised"} : pc' = [pc EXCEPT ![t] = label]
    BY <1>12, DeliverGoesOn DEF ResumeAwait
  <2>7. Awaited(t)' = NoTask
    BY <1>12, <2>6 DEF ResumeAwait, IInv, TypeOK, Awaited
  <2>8. \A d \in Contexts \ {t} : Awaited(d)' = Awaited(d)
    BY <1>12, <2>6 DEF ResumeAwait, IInv, TypeOK, Awaited
  <2>9. /\ Abstract!Settled(id)
        /\ Abstract!Outcome(id) =
             IF Status(id) = "rejected" THEN Rejected ELSE result[id]
    BY <2>1, <2>3 DEF Abstract!Settled, Abstract!Outcome
  <2>10. received' = [received EXCEPT ![t] = Abstract!Outcome(id)]
    BY <2>4, <2>9
  <2>11. [[d \in Contexts |-> Awaited(d)] EXCEPT ![t] = NoTask]
           = [d \in Contexts |-> Awaited(d)']
    BY <2>7, <2>8
  <2>12. [u \in Ids |-> Status(u)'] = [u \in Ids |-> Status(u)] /\ result' =
        result
    BY <1>12, <2>5 DEF ResumeAwait
  <2>13. [d \in Contexts |-> Awaited(d)][t] = id /\ id # NoTask
    BY <2>1
  <2> HIDE DEF id
  <2>14. Abstract!EndAwait(t)
    BY <2>9, <2>10, <2>11, <2>12, <2>13 DEF Abstract!EndAwait
  <2> QED BY <2>14 DEF Abstract!Next
<1>13. ASSUME NEW t \in Ids, NEW fd \in Sockets, AwaitSocket(t, fd) PROVE
      [Abstract!Next]_(Abstract!vars)
  BY <1>13, Quiet, RunningIsPending DEF AwaitSocket, CanCall, Goto, AwaitFD,
     ToScheduler, IInv, TypeOK,
     ControlConsistent
<1>14. ASSUME NEW t \in Ids, NEW fd \in Files, AwaitFile(t, fd) PROVE
      [Abstract!Next]_(Abstract!vars)
  BY <1>14, Quiet, RunningIsPending DEF AwaitFile, CanCall, IInv, TypeOK,
     ControlConsistent
<1>15. ASSUME NEW t \in Ids, ResumeSocket(t) PROVE
      [Abstract!Next]_(Abstract!vars)
  BY <1>15, Quiet, RunningIsPending DEF ResumeSocket, Goto, IInv, TypeOK,
     ControlConsistent
<1>16. ASSUME NEW t \in Ids, NEW fd \in Timers, Sleep(t, fd) PROVE
      [Abstract!Next]_(Abstract!vars)
  BY <1>16, Quiet, RunningIsPending DEF Sleep, CanCall, Goto, AwaitFD,
     ToScheduler, IInv, TypeOK,
     ControlConsistent
<1>17. ASSUME NEW t \in Ids, SleepRefused(t) PROVE
      [Abstract!Next]_(Abstract!vars)
  BY <1>17, Quiet, RunningIsPending DEF SleepRefused, CanCall, IInv, TypeOK,
     ControlConsistent
<1>18. ASSUME NEW t \in Ids, ResumeSleep(t) PROVE
      [Abstract!Next]_(Abstract!vars)
  BY <1>18, Quiet, RunningIsPending DEF ResumeSleep, Goto, CloseTimer, IInv,
     TypeOK,
     ControlConsistent
<1>19. ASSUME NEW id \in Ids, AwaitInMain(id) PROVE
      [Abstract!Next]_(Abstract!vars)
  <2>1. Awaited(Main) = NoTask
    BY <1>19, BodyAwaitsNone DEF AwaitInMain, CanCall
  <2>2. Status(id) = "pending"
    <3>1. state[id] # "NONE" /\ pc[Main] # "exit"
      BY <1>19 DEF AwaitInMain, CanCall, findTaskById, IInv, TypeOK, TaskShape
    <3> QED BY <1>19, <3>1, StatusIs DEF AwaitInMain
  <2>3. \A u \in Ids : Status(u)' = Status(u)
    BY <1>19 DEF AwaitInMain, Status
  <2>4. Awaited(Main)' = id
    BY <1>19 DEF AwaitInMain, Goto, IInv, TypeOK, Awaited
  <2>5. \A d \in Contexts \ {Main} : Awaited(d)' = Awaited(d)
    BY <1>19 DEF AwaitInMain, Goto, IInv, TypeOK, Awaited
  <2>6. Abstract!BeginAwait(Main, id)
    BY <1>19, <2>1, <2>2, <2>3, <2>4, <2>5 DEF AwaitInMain, Abstract!BeginAwait
  <2> QED BY <2>6 DEF Abstract!Next
<1>20. CASE NoEffectInMain
  BY <1>20, Quiet, RunningIsPending DEF NoEffectInMain, CanCall, IInv, TypeOK,
     ControlConsistent
<1>21. CASE MainReturn
  BY <1>21, Quiet, RunningIsPending DEF MainReturn, Goto, IInv, TypeOK,
     ControlConsistent
<1>22. CASE Abort
  BY <1>22, Quiet, RunningIsPending DEF Abort, Goto, IInv, TypeOK,
     ControlConsistent
<1>23. CASE BeginPass
  BY <1>23, Quiet, RunningIsPending DEF BeginPass, InLoop, IInv, TypeOK,
     ControlConsistent
<1>24. ASSUME NEW t \in Ids, RunNext(t) PROVE [Abstract!Next]_(Abstract!vars)
  BY <1>24, Quiet, RunningIsPending DEF RunNext, InLoop, Switchable,
     canRunTask, AwaitedCompleted, findTaskById, IInv, TypeOK,
     ControlConsistent
<1>25. CASE EndPass
  BY <1>25, Quiet, RunningIsPending DEF EndPass, InLoop, IInv, TypeOK,
     ControlConsistent
<1>26. ASSUME NEW batch \in SUBSET Fds, EpollWait(batch) PROVE
      [Abstract!Next]_(Abstract!vars)
  <2>1. \A fd \in batch : state[epoll[fd]] = "IO_WAITING"
    BY <1>26 DEF EpollWait, IInv, TypeOK, EpollPointsToWaiter
  <2> QED BY <1>26, <2>1, Quiet DEF EpollWait, IInv, TypeOK
<1>27. CASE EndAwaitInMain
  <2> DEFINE id == mainTarget
  <2>1. Awaited(Main) = id /\ id \in Ids
    BY <1>27, AwaitedIs DEF EndAwaitInMain, InLoop, IInv, TypeOK, TaskShape
  <2>2. state[id] = "COMPLETED"
    BY <1>27, LoopEndsSettled DEF EndAwaitInMain, IInv, TaskShape
  <2>3. Status(id) = IF hasError[id] THEN "rejected" ELSE "fulfilled"
    BY <2>2 DEF Status
  <2>4. received' = [received EXCEPT ![Main] =
                      IF Status(id) = "rejected" THEN Rejected ELSE result[id]]
    BY <1>27, <2>3 DEF EndAwaitInMain, Deliver
  <2>5. \A u \in Ids : Status(u)' = Status(u)
    BY <1>27 DEF EndAwaitInMain, Status
  <2>6. PICK label \in {"body", "raised"} : pc' = [pc EXCEPT ![Main] = label]
    BY <1>27, DeliverGoesOn DEF EndAwaitInMain
  <2>7. Awaited(Main)' = NoTask
    BY <1>27, <2>6 DEF EndAwaitInMain, IInv, TypeOK, Awaited
  <2>8. \A d \in Contexts \ {Main} : Awaited(d)' = Awaited(d)
    BY <1>27, <2>6 DEF EndAwaitInMain, IInv, TypeOK, Awaited
  <2>9. /\ Abstract!Settled(id)
        /\ Abstract!Outcome(id) =
             IF Status(id) = "rejected" THEN Rejected ELSE result[id]
    BY <2>1, <2>3 DEF Abstract!Settled, Abstract!Outcome
  <2>10. received' = [received EXCEPT ![Main] = Abstract!Outcome(id)]
    BY <2>4, <2>9
  <2>11. [[d \in Contexts |-> Awaited(d)] EXCEPT ![Main] = NoTask]
           = [d \in Contexts |-> Awaited(d)']
    BY <2>7, <2>8
  <2>12. [u \in Ids |-> Status(u)'] = [u \in Ids |-> Status(u)] /\ result' =
        result
    BY <1>27, <2>5 DEF EndAwaitInMain
  <2>13. [d \in Contexts |-> Awaited(d)][Main] = id /\ id # NoTask
    BY <2>1
  <2> HIDE DEF id
  <2>14. Abstract!EndAwait(Main)
    BY <2>9, <2>10, <2>11, <2>12, <2>13 DEF Abstract!EndAwait
  <2> QED BY <2>14 DEF Abstract!Next
<1>28. CASE Cleanup
  BY <1>28, Quiet, RunningIsPending DEF Cleanup, InLoop, Goto, IInv, TypeOK,
     ControlConsistent
<1>29. ASSUME NEW fd \in Timers, TimerFires(fd) PROVE
      [Abstract!Next]_(Abstract!vars)
  BY <1>29, Quiet, RunningIsPending DEF TimerFires, IInv, TypeOK,
     ControlConsistent
<1>30. ASSUME NEW fd \in Sockets, SocketChanges(fd) PROVE
      [Abstract!Next]_(Abstract!vars)
  BY <1>30, Quiet, RunningIsPending DEF SocketChanges, IInv, TypeOK,
     ControlConsistent
<1>31. CASE UNCHANGED vars
  BY <1>31, Quiet, RunningIsPending DEF IInv, TypeOK,
     ControlConsistent
<1> QED BY <1>1, <1>2, <1>3, <1>4, <1>5, <1>6, <1>7, <1>8, <1>9, <1>10, <1>11,
     <1>12, <1>13, <1>14, <1>15, <1>16, <1>17, <1>18, <1>19, <1>20, <1>21,
     <1>22, <1>23, <1>24, <1>25, <1>26, <1>27, <1>28, <1>29, <1>30, <1>31 DEF
     Next, Step, BodyStep, TaskStep, MainStep, LoopStep, Terminated

(* Every behaviour of the event loop is one AsyncTasks allows.             *)
THEOREM LoopImplementsTasks ==
  ASSUME AcyclicAwaits
  PROVE  Spec => ImplementsAsyncTasks
<1>1. IInv /\ OutcomeShape /\ [Next]_vars => [Abstract!Next]_(Abstract!vars)
  BY Steps
<1> QED BY <1>1, InitialStates, OutcomeInvariance, PTL
        DEF Spec, ImplementsAsyncTasks, Abstract!Spec

=============================================================================
