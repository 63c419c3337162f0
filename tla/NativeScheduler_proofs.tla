----------------------- MODULE NativeScheduler_proofs -----------------------
(***************************************************************************)
(* Proofs about the scheduler of uranite.async, for every program, every   *)
(* number of slots, tasks and descriptors, and every bound on the bodies.  *)
(***************************************************************************)
EXTENDS NativeScheduler, FiniteSetTheorems, TLAPS

Alive(t) == state[t] \notin {"NONE", "COMPLETED", "FAILED"}

(* The table: the used slots are the first ones, each holds a task of its  *)
(* own, and a task that is not finished is in one.                         *)
TableShape ==
  /\ \A s \in Slots : taskSlots[s] # NoTask <=> s < taskCount
  /\ \A r, s \in Slots : taskSlots[r] = taskSlots[s] /\ r # s => taskSlots[s] = NoTask
  /\ \A s \in Slots : taskSlots[s] < nextTaskId
  /\ \A t \in Ids : t >= nextTaskId <=> state[t] = "NONE"
  /\ \A t \in Ids : Alive(t) => Held(t)

(* Who executes. While a task does, main is in a loop, and no slot below   *)
(* the current one is runnable.                                            *)
RunnerShape ==
  /\ control # Main =>
       /\ InTask /\ taskSlots[currentTaskIdx] = control
       /\ state[control] \in {"RUNNING", "IO_WAITING"}
       /\ pc[Main] \in {"runLoop", "awaitLoop"}
       /\ \A r \in Slots : r < currentTaskIdx => ~CanRun(r)
  /\ \A t \in Ids : state[t] = "RUNNING" /\ ~Ended => t = control

(* What the place of a task in its code says of it.                        *)
CodeOf(t) ==
  /\ pc[t] \in {"none", "body", "awaiting", "sleeping", "raised", "ended"}
  /\ pc[t] = "none" <=> state[t] = "NONE"
  /\ pc[t] = "ended" <=> Finished(t)
  /\ hasError[t] <=> state[t] = "FAILED"
  /\ pc[t] = "awaiting" => target[t] \in Ids
  /\ pc[t] # "awaiting" => target[t] = NoTask
  /\ awaitingId[t] = target[t]

CodeShape ==
  /\ pc[Main] \in {"body", "raised", "awaitLoop", "runLoop", "exit", "aborted", "lost"}
  /\ pc[Main] \in {"body", "raised", "runLoop"} => target[Main] = NoTask
  /\ pc[Main] = "awaitLoop" => target[Main] \in Ids
  /\ \A t \in Ids : CodeOf(t)

(* A task that awaits is in the lowest slot that is runnable: no other runs*)
(* again, and no target ever finishes.                                     *)
AwaitsInVain(t) ==
  /\ control # t => state[t] = "SUSPENDED"
  /\ ~Finished(target[t])

LowestRunnable(s) ==
  /\ taskSlots[s] \in Ids /\ pc[taskSlots[s]] = "awaiting"
  /\ control \in {Main, taskSlots[s]}
  /\ \A r \in Slots : r < s => ~CanRun(r)

LowestAwaits ==
  /\ \A t \in Ids : pc[t] = "awaiting" => AwaitsInVain(t)
  /\ (\E t \in Ids : pc[t] = "awaiting") => \E s \in Slots : LowestRunnable(s)

(* The descriptors: whose timer is open, and who is registered.            *)
TimerShape ==
  /\ openTimers = {tfd[t] : t \in Ids} \ {NoFd}
  /\ \A t \in Ids : tfd[t] # NoFd <=> pc[t] = "sleeping"
  /\ \A t, u \in Ids : tfd[t] = tfd[u] /\ t # u => tfd[t] = NoFd

Waits(t) == t # control /\ state[t] = "IO_WAITING"

WaitShape ==
  ~Ended =>
    /\ \A fd \in epoll : \E t \in Ids : Waits(t) /\ awaitFd[t] = fd
    /\ \A t \in Ids : Waits(t) =>
         awaitFd[t] \in epoll /\ (awaitFd[t] \in Timers => tfd[t] = awaitFd[t])
    /\ \A t, u \in Ids :
         Waits(t) /\ Waits(u) /\ t # u => awaitFd[t] # awaitFd[u]

IInv ==
  /\ NativeTypeOK
  /\ TableShape
  /\ RunnerShape
  /\ CodeShape
  /\ LowestAwaits
  /\ TimerShape
  /\ WaitShape

USE NativeAssumption
USE DEF NoTask, NoSlot, NoFd, NoResult, Rejected, Main, Slots, Ids, Contexts, Fds,
        vars, tableVars, taskVars, kernelVars

-----------------------------------------------------------------------------
(* The steps, by what they do to the variables the invariant is about.     *)

(* Nothing that it mentions.                                               *)
Quiet ==
  UNCHANGED <<tableVars, currentTaskIdx, taskVars, target, epoll, openTimers, tfd,
              control, pc>>

(* The running body goes on, or raises, or handles what it raised.         *)
GoesOn(c) ==
  /\ control = c /\ pc[c] \in {"body", "raised"}
  /\ \E label \in {"body", "raised"} : pc' = [pc EXCEPT ![c] = label]
  /\ UNCHANGED <<tableVars, currentTaskIdx, taskVars, target, epoll, openTimers, tfd,
                 control>>

(* Main enters the loop, returns or is lost.                               *)
MainGoes ==
  /\ control = Main
  /\ \E label \in {"runLoop", "exit", "lost"} :
       /\ pc' = [pc EXCEPT ![Main] = label]
       /\ label = "runLoop" => pc[Main] = "body"
  /\ ~Ended
  /\ UNCHANGED <<tableVars, currentTaskIdx, taskVars, target, epoll, openTimers, tfd,
                 control>>

(* A task settles.                                                         *)
Settles(t, how) ==
  /\ control = t /\ pc[t] = "body"
  /\ Settle(t, how) /\ Woken(t)
  /\ hasError' = IF how = "FAILED" THEN [hasError EXCEPT ![t] = TRUE] ELSE hasError
  /\ Goto(t, "ended")
  /\ control' = Main
  /\ UNCHANGED <<tableVars, currentTaskIdx, awaitFd, target, epoll, openTimers, tfd>>

LEMMA StepKinds ==
  ASSUME NativeTypeOK, CodeShape, [Next]_vars
  PROVE
    \/ Quiet
    \/ \E c \in Contexts : GoesOn(c) \/ Spawn(c) \/ Abort(c)
    \/ MainGoes
    \/ \E t \in Ids :
         \/ \E how \in {"COMPLETED", "FAILED"} : Settles(t, how)
         \/ TaskYield(t)
         \/ \E id \in Ids : AwaitInTask(t, id)
         \/ AwaitAgain(t)
         \/ \E fd \in Sockets : AwaitSocket(t, fd)
         \/ \E fd \in Fds \cup Files : AwaitFdRefused(t, fd)
         \/ \E fd \in Timers : Sleep(t, fd)
         \/ EndSleep(t)
    \/ \E id \in Ids : AwaitInMain(id)
    \/ EndAwaitInMain
    \/ \E s \in Slots : RunOnce(s)
    \/ \E batch \in SUBSET Fds : PollIO(batch)
    \/ Cleanup
<1>1. ASSUME NEW c \in Contexts, BodyStep(c)
      PROVE  GoesOn(c) \/ Spawn(c) \/ Abort(c)
  <2>1. CASE SpawnRefused(c)
    BY <2>1 DEF SpawnRefused, CanCall, Goto, GoesOn
  <2>2. ASSUME NEW id \in Ids, AwaitUnknown(c, id) PROVE GoesOn(c)
    BY <2>2 DEF AwaitUnknown, CanAwait, CanCall, Goto, GoesOn
  <2>3. ASSUME NEW id \in Ids, AwaitFinished(c, id) PROVE GoesOn(c)
    BY <2>3 DEF AwaitFinished, CanAwait, CanCall, Deliver, Goto, GoesOn
  <2>4. CASE SleepRefused(c)
    BY <2>4 DEF SleepRefused, CanCall, Goto, GoesOn
  <2>5. CASE Raise(c)
    BY <2>5 DEF Raise, CanCall, Goto, GoesOn
  <2>6. CASE Catch(c)
    BY <2>6 DEF Catch, Goto, GoesOn
  <2> QED BY <1>1, <2>1, <2>2, <2>3, <2>4, <2>5, <2>6 DEF BodyStep
<1>2. ASSUME NEW t \in Ids, NEW v \in Results, TaskComplete(t, v)
      PROVE  Settles(t, "COMPLETED")
  BY <1>2 DEF TaskComplete, Settles
<1>3. ASSUME NEW t \in Ids, TaskError(t)
      PROVE  Settles(t, "FAILED")
  BY <1>3 DEF TaskError, Settles
<1>4. ASSUME MainStep
      PROVE  \/ Quiet \/ MainGoes \/ EndAwaitInMain
             \/ \E id \in Ids : AwaitInMain(id)
  <2>1. CASE NoEffectInMain
    BY <2>1 DEF NoEffectInMain, Quiet
  <2>2. CASE Derail
    BY <2>2 DEF Derail, CanCall, Goto, MainGoes, Ended
  <2>3. CASE Run
    BY <2>3 DEF Run, CanCall, Goto, MainGoes, Ended
  <2>4. CASE MainReturn
    BY <2>4 DEF MainReturn, Goto, MainGoes, Ended
  <2> QED BY <1>4, <2>1, <2>2, <2>3, <2>4 DEF MainStep
<1>5. ASSUME NEW fd, TimerFires(fd) \/ SocketChanges(fd) PROVE Quiet
  BY <1>5 DEF TimerFires, SocketChanges, Quiet
<1>6. CASE Terminated \/ UNCHANGED vars
  BY <1>6 DEF Terminated, Quiet
<1> QED BY <1>1, <1>2, <1>3, <1>4, <1>5, <1>6 DEF Next, Step, TaskStep, RoundStep

(* The first free slot is the one after the used ones.                     *)
LEMMA FreeSlotIsNext ==
  ASSUME NativeTypeOK, TableShape, ~TableFull
  PROVE  FreeSlot = taskCount /\ taskCount \in Slots
<1>1. taskCount \in Slots
  BY DEF NativeTypeOK, TableFull
<1> DEFINE First(s) == /\ s \in Slots => taskSlots[s] = NoTask
                       /\ \A r \in 0 .. s - 1 : taskSlots[r] # NoTask
<1>2. First(taskCount) /\ taskCount \in 0 .. MaxTasks
  BY <1>1 DEF TableShape
<1>3. ASSUME NEW s \in 0 .. MaxTasks, First(s) PROVE s = taskCount
  <2>1. CASE s < taskCount
    BY <1>1, <1>3, <2>1 DEF TableShape
  <2>2. CASE s > taskCount
    <3>1. taskCount \in 0 .. s - 1
      BY <1>1, <1>3, <2>2
    <3>2. taskSlots[taskCount] # NoTask
      BY <1>3, <3>1
    <3>3. ~(taskCount < taskCount)
      BY <1>1
    <3> QED BY <1>1, <3>2, <3>3 DEF TableShape
  <2> QED BY <1>1, <1>3, <2>1, <2>2
<1>4. FreeSlot = CHOOSE s \in 0 .. MaxTasks : First(s)
  BY DEF FreeSlot
<1> QED BY <1>1, <1>2, <1>3, <1>4

(* A call that is not refused makes a task that no one else is.            *)
LEMMA SpawnEffect ==
  ASSUME NativeTypeOK, TableShape, CodeShape, NEW c \in Contexts, Spawn(c)
  PROVE  /\ taskCount \in Slots /\ nextTaskId \in Ids /\ nextTaskId # control
         /\ nextTaskId # Main
         /\ state[nextTaskId] = "NONE" /\ ~Held(nextTaskId)
         /\ taskSlots[taskCount] = NoTask
         /\ taskSlots' = [taskSlots EXCEPT ![taskCount] = nextTaskId]
         /\ taskCount' = taskCount + 1
         /\ nextTaskId' = nextTaskId + 1
         /\ state' = [state EXCEPT ![nextTaskId] = "CREATED"]
         /\ pc' = [pc EXCEPT ![nextTaskId] = "body"]
<1>1. FreeSlot = taskCount /\ taskCount \in Slots
  BY FreeSlotIsNext DEF Spawn
<1>2. nextTaskId \in Ids
  BY DEF Spawn
<1>3. state[nextTaskId] = "NONE"
  BY <1>2 DEF TableShape
<1>4. nextTaskId # control
  BY <1>2, <1>3 DEF Spawn, CanCall, CodeShape, CodeOf
<1>5. ~Held(nextTaskId) /\ taskSlots[taskCount] = NoTask
  BY <1>1, <1>2 DEF TableShape, Held
<1> QED BY <1>1, <1>2, <1>3, <1>4, <1>5 DEF Spawn, Goto

(* Who is in its code is alive; so is a task that is marked as awaiting.   *)
LEMMA InCodeIsAlive ==
  ASSUME CodeShape, NEW t \in Ids,
         pc[t] \in {"body", "awaiting", "sleeping", "raised"}
  PROVE  Alive(t)
BY DEF CodeShape, CodeOf, Alive, Finished

LEMMA AwaitersAreMarked ==
  ASSUME CodeShape, NEW u \in Ids, awaitingId[u] \in Ids
  PROVE  pc[u] = "awaiting" /\ target[u] = awaitingId[u]
BY DEF CodeShape, CodeOf

(* While a task that awaits nothing runs, no other awaits anything.        *)
LEMMA NobodyAwaits ==
  ASSUME LowestAwaits, control \in Ids, pc[control] # "awaiting"
  PROVE  \A u \in Ids : pc[u] # "awaiting"
BY DEF LowestAwaits, LowestRunnable

(* So a task that settles wakes nobody.                                    *)
LEMMA SettlesAlone ==
  ASSUME NativeTypeOK, CodeShape, LowestAwaits, NEW t \in Ids, NEW how,
         Settles(t, how)
  PROVE  /\ \A u \in Ids : pc[u] # "awaiting"
         /\ state' = [state EXCEPT ![t] = how]
         /\ awaitingId' = awaitingId
<1>1. \A u \in Ids : pc[u] # "awaiting"
  BY NobodyAwaits DEF Settles
<1>2. \A u \in Ids : awaitingId[u] # t
  BY <1>1 DEF CodeShape, CodeOf
<1>3. state' = [u \in Ids |-> IF u = t THEN how ELSE state[u]]
  BY <1>2 DEF Settles, Settle
<1>4. awaitingId' = [u \in Ids |-> awaitingId[u]]
  BY <1>2 DEF Settles, Woken
<1> QED BY <1>1, <1>3, <1>4 DEF NativeTypeOK

(* The table does not mind what happens to tasks that live.                *)
LEMMA SameTable ==
  ASSUME TableShape, UNCHANGED tableVars,
         \A t \in Ids : state'[t] # state[t] => Alive(t) /\ state'[t] # "NONE"
  PROVE  TableShape'
BY DEF TableShape, Alive, Held

LEMMA OneTaskChanges ==
  ASSUME NativeTypeOK, TableShape, UNCHANGED tableVars, NEW t \in Ids, Alive(t),
         NEW new \in TaskStates \ {"NONE"}, state' = [state EXCEPT ![t] = new]
  PROVE  TableShape'
BY SameTable DEF NativeTypeOK

(* Who waits is the same, and so is what for.                              *)
LEMMA SameWaits ==
  ASSUME WaitShape, UNCHANGED <<epoll, tfd>>, Ended => Ended',
         \A u \in Ids : Waits(u)' <=> Waits(u),
         \A u \in Ids : Waits(u) => awaitFd'[u] = awaitFd[u]
  PROVE  WaitShape'
<1> SUFFICES ASSUME ~Ended' PROVE WaitShape'
  BY DEF WaitShape
<1>1. \A fd \in epoll' : \E u \in Ids : Waits(u)' /\ awaitFd'[u] = fd
  BY DEF WaitShape
<1>2. \A u \in Ids : Waits(u)' =>
        awaitFd'[u] \in epoll' /\ (awaitFd'[u] \in Timers => tfd'[u] = awaitFd'[u])
  BY DEF WaitShape
<1>3. \A t, u \in Ids :
        Waits(t)' /\ Waits(u)' /\ t # u => awaitFd'[t] # awaitFd'[u]
  BY DEF WaitShape
<1> QED BY <1>1, <1>2, <1>3 DEF WaitShape

(* While no task awaits anything, there is nothing to say about the lowest.*)
LEMMA StillNobodyAwaits ==
  ASSUME NativeTypeOK, LowestAwaits, control \in Ids, pc[control] # "awaiting",
         NEW label \in PCs \ {"awaiting"},
         UNCHANGED pc \/ pc' = [pc EXCEPT ![control] = label]
  PROVE  LowestAwaits'
<1>1. \A u \in Ids : pc[u] # "awaiting"
  BY NobodyAwaits
<1>2. \A u \in Ids : pc'[u] # "awaiting"
  BY <1>1 DEF NativeTypeOK
<1> QED BY <1>2 DEF LowestAwaits

(* Neither who sleeps nor a timer changes.                                 *)
LEMMA SameSleepers ==
  ASSUME TimerShape, UNCHANGED <<tfd, openTimers>>,
         \A u \in Ids : pc'[u] = "sleeping" <=> pc[u] = "sleeping"
  PROVE  TimerShape'
BY DEF TimerShape

-----------------------------------------------------------------------------
(* One lemma for each part of the invariant.                               *)

(* The table changes with a call and a cleanup only; no task ever goes     *)
(* back to not existing.                                                   *)
LEMMA TableStep ==
  ASSUME NativeTypeOK, TableShape, CodeShape, LowestAwaits, [Next]_vars
  PROVE  TableShape'
<1>1. CASE Quiet
  BY <1>1 DEF Quiet, TableShape, Held, Alive
<1>2. ASSUME NEW c \in Contexts, GoesOn(c)
      PROVE  TableShape'
  BY <1>2 DEF GoesOn, TableShape, Held, Alive
<1>3. ASSUME NEW c \in Contexts, Spawn(c)
      PROVE  TableShape'
  <2>1. taskCount \in Slots /\ nextTaskId \in Ids
    BY <1>3, SpawnEffect
  <2>2. /\ taskSlots \in [Slots -> Ids \cup {NoTask}]
        /\ state \in [Ids -> TaskStates]
    BY DEF NativeTypeOK
  <2>3. \A s \in Slots : taskSlots'[s] = IF s = taskCount THEN nextTaskId ELSE taskSlots[s]
    BY <1>3, <2>1, <2>2, SpawnEffect
  <2>4. /\ \A s \in Slots : taskSlots'[s] # NoTask <=> s < taskCount'
        /\ \A s \in Slots : taskSlots'[s] < nextTaskId'
    <3>1. taskCount' = taskCount + 1 /\ nextTaskId' = nextTaskId + 1
      BY <1>3, SpawnEffect
    <3>2. \A s \in Slots : taskSlots[s] \in Int /\ taskSlots[s] < nextTaskId
      BY <2>2 DEF TableShape
    <3>3. \A s \in Slots : taskSlots[s] # NoTask <=> s < taskCount
      BY DEF TableShape
    <3>4. ASSUME NEW s \in Slots
          PROVE  (taskSlots'[s] # NoTask <=> s < taskCount') /\ taskSlots'[s] < nextTaskId'
      <4>1. CASE s = taskCount
        BY <2>1, <2>3, <3>1, <4>1
      <4>2. CASE s # taskCount
        <5>1. s < taskCount' <=> s < taskCount
          BY <2>1, <3>1, <4>2
        <5>2. taskSlots'[s] = taskSlots[s]
          BY <2>3, <4>2
        <5>3. taskSlots[s] < nextTaskId'
          BY <2>1, <3>1, <3>2
        <5> QED BY <3>3, <5>1, <5>2, <5>3
      <4> QED BY <4>1, <4>2
    <3> QED BY <3>4
  <2>5. \A r, s \in Slots :
          taskSlots'[r] = taskSlots'[s] /\ r # s => taskSlots'[s] = NoTask
    BY <1>3, <2>1, <2>3, SpawnEffect DEF TableShape
  <2>6. \A t \in Ids : state'[t] = IF t = nextTaskId THEN "CREATED" ELSE state[t]
    BY <1>3, <2>1, <2>2, SpawnEffect
  <2>7. \A t \in Ids : t >= nextTaskId' <=> state'[t] = "NONE"
    BY <1>3, <2>1, <2>6, SpawnEffect DEF TableShape
  <2>8. ASSUME NEW t \in Ids, Alive(t)' PROVE Held(t)'
    <3>1. CASE t = nextTaskId
      BY <2>1, <2>3, <3>1 DEF Held
    <3>2. CASE t # nextTaskId
      <4>1. Alive(t)
        BY <2>6, <2>8, <3>2 DEF Alive
      <4>2. PICK s \in Slots : taskSlots[s] = t
        BY <4>1 DEF TableShape, Held
      <4>3. s # taskCount
        BY <1>3, <4>2, SpawnEffect
      <4> QED BY <2>3, <4>2, <4>3 DEF Held
    <3> QED BY <3>1, <3>2
  <2> QED BY <2>4, <2>5, <2>7, <2>8 DEF TableShape
<1>4. ASSUME NEW c \in Contexts, Abort(c)
      PROVE  TableShape'
  BY <1>4 DEF Abort, TableShape, Held, Alive
<1>5. CASE MainGoes
  BY <1>5 DEF MainGoes, TableShape, Held, Alive
<1>6. ASSUME NEW t \in Ids, NEW how \in {"COMPLETED", "FAILED"}, Settles(t, how)
      PROVE  TableShape'
  <2>1. Alive(t)
    BY <1>6, InCodeIsAlive DEF Settles
  <2>2. UNCHANGED tableVars /\ state' = [state EXCEPT ![t] = how]
    BY <1>6, SettlesAlone DEF Settles
  <2> QED BY <2>1, <2>2, OneTaskChanges DEF TaskStates
<1>7. ASSUME NEW t \in Ids, TaskYield(t)
      PROVE  TableShape'
  <2>1. Alive(t)
    BY <1>7, InCodeIsAlive DEF TaskYield, CanCall
  <2>2. UNCHANGED tableVars /\ state' = [state EXCEPT ![t] = "SUSPENDED"]
    BY <1>7 DEF TaskYield
  <2> QED BY <2>1, <2>2, OneTaskChanges DEF TaskStates
<1>8. ASSUME NEW t \in Ids, NEW id \in Ids, AwaitInTask(t, id)
      PROVE  TableShape'
  <2>1. Alive(t)
    BY <1>8, InCodeIsAlive DEF AwaitInTask, CanAwait, CanCall
  <2>2. UNCHANGED tableVars /\ state' = [state EXCEPT ![t] = "SUSPENDED"]
    BY <1>8 DEF AwaitInTask, SuspendFor
  <2> QED BY <2>1, <2>2, OneTaskChanges DEF TaskStates
<1>9. ASSUME NEW t \in Ids, AwaitAgain(t)
      PROVE  TableShape'
  <2>1. Alive(t)
    BY <1>9, InCodeIsAlive DEF AwaitAgain
  <2>2. /\ UNCHANGED tableVars
        /\ UNCHANGED state \/ state' = [state EXCEPT ![t] = "SUSPENDED"]
    BY <1>9 DEF AwaitAgain, SuspendFor
  <2>3. CASE UNCHANGED state
    BY <2>2, <2>3, SameTable
  <2> QED BY <2>1, <2>2, <2>3, OneTaskChanges DEF TaskStates
<1>10. ASSUME NEW t \in Ids, NEW fd \in Sockets, AwaitSocket(t, fd)
      PROVE  TableShape'
  <2>1. Alive(t)
    BY <1>10, InCodeIsAlive DEF AwaitSocket, CanCall
  <2>2. UNCHANGED tableVars /\ state' = [state EXCEPT ![t] = "IO_WAITING"]
    BY <1>10 DEF AwaitSocket, AwaitFd
  <2> QED BY <2>1, <2>2, OneTaskChanges DEF TaskStates
<1>11. ASSUME NEW t \in Ids, NEW fd \in Fds \cup Files, AwaitFdRefused(t, fd)
      PROVE  TableShape'
  <2>1. Alive(t)
    BY <1>11, InCodeIsAlive DEF AwaitFdRefused, CanCall
  <2>2. UNCHANGED tableVars /\ state' = [state EXCEPT ![t] = "IO_WAITING"]
    BY <1>11 DEF AwaitFdRefused
  <2> QED BY <2>1, <2>2, OneTaskChanges DEF TaskStates
<1>12. ASSUME NEW t \in Ids, NEW fd \in Timers, Sleep(t, fd)
      PROVE  TableShape'
  <2>1. Alive(t)
    BY <1>12, InCodeIsAlive DEF Sleep, CanCall
  <2>2. UNCHANGED tableVars /\ state' = [state EXCEPT ![t] = "IO_WAITING"]
    BY <1>12 DEF Sleep, AwaitFd
  <2> QED BY <2>1, <2>2, OneTaskChanges DEF TaskStates
<1>13. ASSUME NEW t \in Ids, EndSleep(t)
      PROVE  TableShape'
  BY <1>13 DEF EndSleep, Goto, TableShape, Held, Alive
<1>14. ASSUME NEW id \in Ids, AwaitInMain(id)
      PROVE  TableShape'
  BY <1>14 DEF AwaitInMain, TableShape, Held, Alive
<1>15. CASE EndAwaitInMain
  BY <1>15 DEF EndAwaitInMain, TableShape, Held, Alive
<1>16. ASSUME NEW s \in Slots, RunOnce(s)
      PROVE  TableShape'
  <2> DEFINE t == taskSlots[s]
  <2>1. t \in Ids /\ Alive(t)
    BY <1>16 DEF RunOnce, CanRun, NativeTypeOK, Alive
  <2>2. UNCHANGED tableVars /\ state' = [state EXCEPT ![t] = "RUNNING"]
    BY <1>16 DEF RunOnce
  <2> QED BY <2>1, <2>2, OneTaskChanges DEF TaskStates
<1>17. ASSUME NEW batch \in SUBSET Fds, PollIO(batch)
      PROVE  TableShape'
  <2>1. \A t \in Ids : state'[t] # state[t] =>
          state[t] = "IO_WAITING" /\ state'[t] = "SUSPENDED"
    BY <1>17 DEF PollIO
  <2>2. UNCHANGED tableVars
    BY <1>17 DEF PollIO
  <2> QED BY <2>1, <2>2, SameTable DEF Alive
<1>18. CASE Cleanup
  <2>1. \A t \in Ids : ~Alive(t)
    BY <1>18 DEF Cleanup, HasPending, Pending, TableShape, Held, Alive, Finished
  <2>2. /\ taskSlots' = [s \in Slots |-> NoTask] /\ taskCount' = 0
        /\ UNCHANGED <<nextTaskId, state>>
    BY <1>18 DEF Cleanup, EmptyTable
  <2>3. nextTaskId \in Nat
    BY DEF NativeTypeOK
  <2> QED BY <2>1, <2>2, <2>3 DEF TableShape, Alive, Held
<1> QED BY <1>1, <1>2, <1>3, <1>4, <1>5, <1>6, <1>7, <1>8, <1>9, <1>10, <1>11, <1>12,
   <1>13, <1>14, <1>15, <1>16, <1>17, <1>18, StepKinds

(* Who executes changes in RunOnce, and back when a task waits, awaits,    *)
(* yields or settles.                                                      *)
LEMMA RunnerStep ==
  ASSUME NativeTypeOK, TableShape, RunnerShape, CodeShape, LowestAwaits, [Next]_vars
  PROVE  RunnerShape'
<1>1. CASE Quiet
  BY <1>1 DEF Quiet, RunnerShape, CanRun, InTask, Ended
<1>2. ASSUME NEW c \in Contexts, GoesOn(c)
      PROVE  RunnerShape'
  BY <1>2 DEF GoesOn, RunnerShape, CanRun, InTask, Ended
<1>3. ASSUME NEW c \in Contexts, Spawn(c)
      PROVE  RunnerShape'
  <2>1. taskCount \in Slots /\ nextTaskId \in Ids
    BY <1>3, SpawnEffect
  <2>2. /\ UNCHANGED <<currentTaskIdx, control>> /\ pc'[Main] = pc[Main]
        /\ taskSlots \in [Slots -> Ids \cup {NoTask}] /\ state \in [Ids -> TaskStates]
    <3>1. UNCHANGED <<currentTaskIdx, control>>
      BY <1>3 DEF Spawn
    <3>2. /\ taskSlots \in [Slots -> Ids \cup {NoTask}]
          /\ state \in [Ids -> TaskStates] /\ pc \in [Contexts -> PCs]
      BY DEF NativeTypeOK
    <3>3. pc'[Main] = pc[Main]
      BY <1>3, <3>2, SpawnEffect
    <3> QED BY <3>1, <3>2, <3>3
  <2>3. \A t \in Ids : t # nextTaskId => state'[t] = state[t]
    BY <1>3, <2>1, <2>2, SpawnEffect
  <2>4. state'[nextTaskId] = "CREATED"
    BY <1>3, <2>1, <2>2, SpawnEffect
  <2>5. \A t \in Ids : state'[t] = "RUNNING" /\ ~Ended' => t = control'
    BY <2>2, <2>3, <2>4 DEF RunnerShape, Ended
  <2>6. ASSUME control # Main
        PROVE  /\ InTask' /\ taskSlots'[currentTaskIdx] = control
               /\ state'[control] \in {"RUNNING", "IO_WAITING"}
               /\ pc'[Main] \in {"runLoop", "awaitLoop"}
               /\ \A r \in Slots : r < currentTaskIdx => ~CanRun(r)'
    <3>1. control \in Ids /\ currentTaskIdx \in Slots
      BY <2>6 DEF RunnerShape, InTask, NativeTypeOK
    <3>2. currentTaskIdx < taskCount
      BY <2>6, <3>1 DEF RunnerShape, TableShape
    <3>3. \A s \in Slots : s # taskCount => taskSlots'[s] = taskSlots[s]
      BY <1>3, <2>1, <2>2, SpawnEffect
    <3>4. ASSUME NEW r \in Slots, r < currentTaskIdx PROVE ~CanRun(r)'
      <4>1. taskSlots'[r] = taskSlots[r] /\ ~CanRun(r)
        BY <2>6, <3>1, <3>2, <3>3, <3>4, <2>1 DEF RunnerShape
      <4>2. taskSlots[r] # nextTaskId
        BY <1>3, SpawnEffect DEF Held
      <4> QED BY <2>2, <2>3, <4>1, <4>2 DEF CanRun
    <3>5. state'[control] = state[control]
      BY <1>3, <2>3, <3>1, SpawnEffect
    <3>6. taskSlots'[currentTaskIdx] = taskSlots[currentTaskIdx]
      BY <2>1, <3>1, <3>2, <3>3
    <3> QED BY <2>2, <2>6, <3>4, <3>5, <3>6 DEF RunnerShape, InTask
  <2> QED BY <2>2, <2>5, <2>6 DEF RunnerShape
<1>4. ASSUME NEW c \in Contexts, Abort(c)
      PROVE  RunnerShape'
  BY <1>4 DEF Abort, Goto, RunnerShape, NativeTypeOK, Ended
<1>5. CASE MainGoes
  BY <1>5 DEF MainGoes, RunnerShape
<1>6. ASSUME NEW t \in Ids, NEW how \in {"COMPLETED", "FAILED"}, Settles(t, how)
      PROVE  RunnerShape'
  BY <1>6 DEF Settles, Settle, Woken, Goto, RunnerShape, Ended
<1>7. ASSUME NEW t \in Ids, TaskYield(t)
      PROVE  RunnerShape'
  BY <1>7 DEF TaskYield, CanCall, RunnerShape, NativeTypeOK, Ended
<1>8. ASSUME NEW t \in Ids, NEW id \in Ids, AwaitInTask(t, id)
      PROVE  RunnerShape'
  <2>1. /\ state' = [state EXCEPT ![t] = "SUSPENDED"] /\ control' = Main /\ control = t
        /\ pc' = [pc EXCEPT ![t] = "awaiting"]
    BY <1>8 DEF AwaitInTask, CanAwait, CanCall, Goto, SuspendFor
  <2>2. /\ state'[t] = "SUSPENDED" /\ \A u \in Ids \ {t} : state'[u] = state[u]
        /\ pc'[Main] = pc[Main]
    BY <2>1 DEF NativeTypeOK
  <2> QED BY <2>1, <2>2 DEF RunnerShape, Ended
<1>9. ASSUME NEW t \in Ids, AwaitAgain(t)
      PROVE  RunnerShape'
  <2>1. /\ control = t /\ pc[t] = "awaiting" /\ UNCHANGED <<taskSlots, currentTaskIdx>>
    BY <1>9 DEF AwaitAgain
  <2>2. pc'[Main] = pc[Main]
    BY <1>9 DEF AwaitAgain, Deliver, Goto, NativeTypeOK
  <2>3. \/ UNCHANGED <<state, control>>
        \/ state' = [state EXCEPT ![t] = "SUSPENDED"] /\ control' = Main
    BY <1>9 DEF AwaitAgain, SuspendFor
  <2>4. CASE UNCHANGED <<state, control>>
    BY <2>1, <2>2, <2>4 DEF RunnerShape, Ended, CanRun, InTask
  <2>5. CASE state' = [state EXCEPT ![t] = "SUSPENDED"] /\ control' = Main
    <3>1. state'[t] = "SUSPENDED" /\ \A u \in Ids \ {t} : state'[u] = state[u]
      BY <2>5 DEF NativeTypeOK
    <3> QED BY <2>1, <2>2, <2>5, <3>1 DEF RunnerShape, Ended
  <2> QED BY <2>3, <2>4, <2>5
<1>10. ASSUME NEW t \in Ids, NEW fd \in Sockets, AwaitSocket(t, fd)
      PROVE  RunnerShape'
  BY <1>10 DEF AwaitSocket, CanCall, AwaitFd, RunnerShape, NativeTypeOK, Ended
<1>11. ASSUME NEW t \in Ids, NEW fd \in Fds \cup Files, AwaitFdRefused(t, fd)
      PROVE  RunnerShape'
  BY <1>11 DEF AwaitFdRefused, CanCall, Goto, RunnerShape, CanRun, InTask, Ended
<1>12. ASSUME NEW t \in Ids, NEW fd \in Timers, Sleep(t, fd)
      PROVE  RunnerShape'
  BY <1>12 DEF Sleep, CanCall, Goto, AwaitFd, RunnerShape, NativeTypeOK, Ended
<1>13. ASSUME NEW t \in Ids, EndSleep(t)
      PROVE  RunnerShape'
  BY <1>13 DEF EndSleep, Goto, RunnerShape, CanRun, InTask, Ended
<1>14. ASSUME NEW id \in Ids, AwaitInMain(id)
      PROVE  RunnerShape'
  BY <1>14 DEF AwaitInMain, CanAwait, CanCall, RunnerShape, Ended
<1>15. CASE EndAwaitInMain
  BY <1>15 DEF EndAwaitInMain, RunnerShape, Ended
<1>16. ASSUME NEW s \in Slots, RunOnce(s)
      PROVE  RunnerShape'
  BY <1>16 DEF RunOnce, InRound, RunnerShape, NativeTypeOK, CanRun, InTask, Ended
<1>17. ASSUME NEW batch \in SUBSET Fds, PollIO(batch)
      PROVE  RunnerShape'
  BY <1>17 DEF PollIO, InRound, RunnerShape, Ended
<1>18. CASE Cleanup
  BY <1>18 DEF Cleanup, RunnerShape, Ended
<1> QED BY <1>1, <1>2, <1>3, <1>4, <1>5, <1>6, <1>7, <1>8, <1>9, <1>10, <1>11, <1>12,
   <1>13, <1>14, <1>15, <1>16, <1>17, <1>18, StepKinds

(* The place of a context in its code changes with its task.               *)
LEMMA CodeStep ==
  ASSUME NativeTypeOK, TableShape, RunnerShape, CodeShape, LowestAwaits, [Next]_vars
  PROVE  CodeShape'
<1>1. CASE Quiet
  BY <1>1 DEF Quiet, CodeShape, CodeOf, Finished
<1>2. ASSUME NEW c \in Contexts, GoesOn(c)
      PROVE  CodeShape'
  BY <1>2 DEF GoesOn, CodeShape, CodeOf, Finished
<1>3. ASSUME NEW c \in Contexts, Spawn(c)
      PROVE  CodeShape'
  <2>1. UNCHANGED <<target, awaitingId, hasError>>
    BY <1>3 DEF Spawn
  <2>2. /\ nextTaskId \in Ids /\ state \in [Ids -> TaskStates]
        /\ pc \in [Contexts -> PCs] /\ nextTaskId # Main
    <3>1. nextTaskId \in Ids /\ nextTaskId # Main
      BY <1>3, SpawnEffect
    <3> QED BY <3>1 DEF NativeTypeOK
  <2>3. pc' = [pc EXCEPT ![nextTaskId] = "body"]
    BY <1>3, SpawnEffect
  <2>4. ASSUME NEW t \in Ids PROVE CodeOf(t)'
    <3>1. CASE t = nextTaskId
      <4>1. state[t] = "NONE" /\ state'[t] = "CREATED"
        BY <1>3, <2>2, <3>1, SpawnEffect
      <4>2. pc'[t] = "body"
        BY <2>2, <2>3, <3>1
      <4> QED BY <2>1, <4>1, <4>2 DEF CodeShape, CodeOf, Finished
    <3>2. CASE t # nextTaskId
      <4>1. state'[t] = state[t] /\ pc'[t] = pc[t]
        BY <1>3, <2>2, <2>3, <3>2, SpawnEffect
      <4> QED BY <2>1, <4>1 DEF CodeShape, CodeOf, Finished
    <3> QED BY <3>1, <3>2
  <2>5. pc'[Main] = pc[Main]
    BY <2>2, <2>3
  <2> QED BY <2>1, <2>4, <2>5 DEF CodeShape
<1>4. ASSUME NEW c \in Contexts, Abort(c)
      PROVE  CodeShape'
  BY <1>4 DEF Abort, Goto, CodeShape, CodeOf, Finished
<1>5. CASE MainGoes
  BY <1>5 DEF MainGoes, CodeShape, CodeOf, Finished
<1>6. ASSUME NEW t \in Ids, NEW how \in {"COMPLETED", "FAILED"}, Settles(t, how)
      PROVE  CodeShape'
  <2>1. /\ state \in [Ids -> TaskStates] /\ pc \in [Contexts -> PCs]
        /\ hasError \in [Ids -> BOOLEAN]
    BY DEF NativeTypeOK
  <2>2. /\ state' = [state EXCEPT ![t] = how] /\ pc' = [pc EXCEPT ![t] = "ended"]
        /\ UNCHANGED <<target, awaitingId>> /\ pc[t] = "body"
        /\ hasError' = IF how = "FAILED" THEN [hasError EXCEPT ![t] = TRUE] ELSE hasError
    BY <1>6, SettlesAlone DEF Settles, Goto
  <2>3. CodeOf(t)'
    <3>1. ~hasError[t] /\ target[t] = NoTask /\ awaitingId[t] = NoTask
      BY <2>2 DEF CodeShape, CodeOf, Finished
    <3>2. state'[t] = how /\ pc'[t] = "ended" /\ (hasError'[t] <=> how = "FAILED")
      BY <2>1, <2>2, <3>1
    <3> QED BY <1>6, <2>2, <3>1, <3>2 DEF CodeOf, Finished
  <2>4. ASSUME NEW u \in Ids, u # t PROVE CodeOf(u)'
    <3>1. state'[u] = state[u] /\ pc'[u] = pc[u] /\ hasError'[u] = hasError[u]
      BY <2>1, <2>2, <2>4
    <3> QED BY <2>2, <3>1 DEF CodeShape, CodeOf, Finished
  <2>5. pc'[Main] = pc[Main]
    BY <2>1, <2>2
  <2> QED BY <2>2, <2>3, <2>4, <2>5 DEF CodeShape
<1>7. ASSUME NEW t \in Ids, TaskYield(t)
      PROVE  CodeShape'
  BY <1>7 DEF TaskYield, CanCall, CodeShape, CodeOf, Finished
<1>8. ASSUME NEW t \in Ids, NEW id \in Ids, AwaitInTask(t, id)
      PROVE  CodeShape'
  <2>1. /\ state' = [state EXCEPT ![t] = "SUSPENDED"] /\ pc' = [pc EXCEPT ![t] = "awaiting"]
        /\ target' = [target EXCEPT ![t] = id] /\ awaitingId' = [awaitingId EXCEPT ![t] = id]
        /\ hasError' = hasError /\ pc[t] = "body"
    BY <1>8 DEF AwaitInTask, CanAwait, CanCall, Goto, SuspendFor
  <2>2. /\ state'[t] = "SUSPENDED" /\ pc'[t] = "awaiting" /\ target'[t] = id
        /\ awaitingId'[t] = id
        /\ \A u \in Contexts \ {t} : pc'[u] = pc[u] /\ target'[u] = target[u]
        /\ \A u \in Ids \ {t} : state'[u] = state[u] /\ awaitingId'[u] = awaitingId[u]
    BY <2>1 DEF NativeTypeOK, Contexts
  <2>3. CodeOf(t)'
    <3>1. ~hasError[t]
      BY <2>1 DEF CodeShape, CodeOf, Finished
    <3> QED BY <1>8, <2>1, <2>2, <3>1 DEF CodeOf, Finished
  <2>4. ASSUME NEW u \in Ids, u # t PROVE CodeOf(u)'
    BY <2>1, <2>2, <2>4 DEF CodeShape, CodeOf, Finished, Contexts
  <2>5. pc'[Main] = pc[Main] /\ target'[Main] = target[Main]
    BY <2>2 DEF Contexts, Ids, Main
  <2> QED BY <2>3, <2>4, <2>5 DEF CodeShape
<1>9. ASSUME NEW t \in Ids, AwaitAgain(t)
      PROVE  CodeShape'
  <2>1. ~Finished(target[t]) /\ target[t] \in Ids
    BY <1>9 DEF AwaitAgain, LowestAwaits, AwaitsInVain, CodeShape, CodeOf
  <2>2. /\ state' = [state EXCEPT ![t] = "SUSPENDED"]
        /\ awaitingId' = [awaitingId EXCEPT ![t] = target[t]]
        /\ UNCHANGED <<target, pc, hasError>> /\ pc[t] = "awaiting"
    BY <1>9, <2>1 DEF AwaitAgain, SuspendFor
  <2>3. ASSUME NEW u \in Ids PROVE CodeOf(u)'
    BY <2>1, <2>2 DEF CodeShape, CodeOf, Finished
  <2> QED BY <2>2, <2>3 DEF CodeShape
<1>10. ASSUME NEW t \in Ids, NEW fd \in Sockets, AwaitSocket(t, fd)
      PROVE  CodeShape'
  BY <1>10 DEF AwaitSocket, CanCall, AwaitFd, CodeShape, CodeOf, Finished
<1>11. ASSUME NEW t \in Ids, NEW fd \in Fds \cup Files, AwaitFdRefused(t, fd)
      PROVE  CodeShape'
  <2>1. /\ state' = [state EXCEPT ![t] = "IO_WAITING"] /\ pc' = [pc EXCEPT ![t] = "raised"]
        /\ pc[t] = "body" /\ UNCHANGED <<hasError, awaitingId, target>>
    BY <1>11 DEF AwaitFdRefused, CanCall, Goto
  <2>2. /\ state'[t] = "IO_WAITING" /\ pc'[t] = "raised"
        /\ \A u \in Contexts \ {t} : pc'[u] = pc[u]
        /\ \A u \in Ids \ {t} : state'[u] = state[u]
    BY <2>1 DEF NativeTypeOK
  <2>3. CodeOf(t)'
    BY <2>1, <2>2 DEF CodeShape, CodeOf, Finished
  <2>4. ASSUME NEW u \in Ids, u # t PROVE CodeOf(u)'
    BY <2>1, <2>2, <2>4 DEF CodeShape, CodeOf, Finished
  <2> QED BY <2>1, <2>2, <2>3, <2>4 DEF CodeShape
<1>12. ASSUME NEW t \in Ids, NEW fd \in Timers, Sleep(t, fd)
      PROVE  CodeShape'
  BY <1>12 DEF Sleep, CanCall, Goto, AwaitFd, CodeShape, CodeOf, Finished
<1>13. ASSUME NEW t \in Ids, EndSleep(t)
      PROVE  CodeShape'
  BY <1>13 DEF EndSleep, Goto, CodeShape, CodeOf, Finished
<1>14. ASSUME NEW id \in Ids, AwaitInMain(id)
      PROVE  CodeShape'
  <2>1. /\ target' = [target EXCEPT ![Main] = id] /\ pc' = [pc EXCEPT ![Main] = "awaitLoop"]
        /\ UNCHANGED <<state, hasError, awaitingId>>
    BY <1>14 DEF AwaitInMain, Goto
  <2>2. /\ target'[Main] = id /\ pc'[Main] = "awaitLoop"
        /\ \A u \in Ids : pc'[u] = pc[u] /\ target'[u] = target[u]
    BY <2>1 DEF NativeTypeOK
  <2>3. ASSUME NEW u \in Ids PROVE CodeOf(u)'
    BY <2>1, <2>2 DEF CodeShape, CodeOf, Finished
  <2> QED BY <2>2, <2>3 DEF CodeShape
<1>15. CASE EndAwaitInMain
  BY <1>15 DEF EndAwaitInMain, Deliver, Goto, CodeShape, CodeOf, NativeTypeOK, Finished
<1>16. ASSUME NEW s \in Slots, RunOnce(s)
      PROVE  CodeShape'
  <2>1. /\ taskSlots[s] \in Ids
        /\ state[taskSlots[s]] \notin {"NONE", "COMPLETED", "FAILED"}
    BY <1>16 DEF RunOnce, CanRun, NativeTypeOK
  <2>2. /\ state' = [state EXCEPT ![taskSlots[s]] = "RUNNING"]
        /\ UNCHANGED <<target, pc, hasError, awaitingId>>
    BY <1>16 DEF RunOnce
  <2>3. ASSUME NEW u \in Ids PROVE CodeOf(u)'
    BY <2>1, <2>2 DEF CodeShape, CodeOf, Finished
  <2> QED BY <2>2, <2>3 DEF CodeShape
<1>17. ASSUME NEW batch \in SUBSET Fds, PollIO(batch)
      PROVE  CodeShape'
  BY <1>17 DEF PollIO, CodeShape, CodeOf, Finished
<1>18. CASE Cleanup
  BY <1>18 DEF Cleanup, Goto, CodeShape, CodeOf, Finished
<1> QED BY <1>1, <1>2, <1>3, <1>4, <1>5, <1>6, <1>7, <1>8, <1>9, <1>10, <1>11, <1>12,
   <1>13, <1>14, <1>15, <1>16, <1>17, <1>18, StepKinds

(* A task begins to await in the lowest runnable slot, which stays the     *)
(* lowest: nothing else runs again, so nothing else settles.               *)
LEMMA LowestStep ==
  ASSUME NativeTypeOK, TableShape, RunnerShape, CodeShape, LowestAwaits, [Next]_vars
  PROVE  LowestAwaits'
<1>1. CASE Quiet
  BY <1>1 DEF Quiet, LowestAwaits, LowestRunnable, AwaitsInVain, CanRun, Finished
<1>2. ASSUME NEW c \in Contexts, GoesOn(c)
      PROVE  LowestAwaits'
  <2>1. CASE c \in Ids
    <3>1. control = c /\ pc[c] # "awaiting"
      BY <1>2 DEF GoesOn
    <3>2. PICK label \in {"body", "raised"} : pc' = [pc EXCEPT ![c] = label]
      BY <1>2 DEF GoesOn
    <3> QED BY <2>1, <3>1, <3>2, StillNobodyAwaits DEF PCs
  <2>2. CASE c = Main
    <3>1. \A u \in Ids : pc'[u] = pc[u]
      BY <1>2, <2>2 DEF GoesOn
    <3>2. UNCHANGED <<taskSlots, control, state, target>>
      BY <1>2 DEF GoesOn
    <3> QED BY <3>1, <3>2
            DEF LowestAwaits, LowestRunnable, AwaitsInVain, CanRun, Finished
  <2> QED BY <2>1, <2>2
<1>3. ASSUME NEW c \in Contexts, Spawn(c)
      PROVE  LowestAwaits'
  <2>1. taskCount \in Slots /\ nextTaskId \in Ids
    BY <1>3, SpawnEffect
  <2>2. /\ UNCHANGED <<target, control>> /\ pc \in [Contexts -> PCs]
        /\ taskSlots \in [Slots -> Ids \cup {NoTask}] /\ state \in [Ids -> TaskStates]
    BY <1>3 DEF Spawn, NativeTypeOK
  <2>3. \A t \in Ids : t # nextTaskId => state'[t] = state[t] /\ pc'[t] = pc[t]
    BY <1>3, <2>1, <2>2, SpawnEffect
  <2>4. state'[nextTaskId] = "CREATED" /\ pc'[nextTaskId] = "body"
    BY <1>3, <2>1, <2>2, SpawnEffect
  <2>5. ASSUME NEW t \in Ids, pc'[t] = "awaiting" PROVE AwaitsInVain(t)'
    <3>1. t # nextTaskId /\ pc[t] = "awaiting" /\ target[t] \in Ids
      BY <2>3, <2>4, <2>5 DEF CodeShape, CodeOf
    <3>2. AwaitsInVain(t)
      BY <3>1 DEF LowestAwaits
    <3>3. ~Finished(target[t])'
      BY <2>2, <2>3, <2>4, <3>1, <3>2 DEF AwaitsInVain, Finished
    <3> QED BY <2>2, <2>3, <3>1, <3>2, <3>3 DEF AwaitsInVain
  <2>6. ASSUME NEW t \in Ids, pc'[t] = "awaiting"
        PROVE  \E s \in Slots : LowestRunnable(s)'
    <3>1. PICK s \in Slots : LowestRunnable(s)
      BY <2>3, <2>4, <2>6 DEF LowestAwaits
    <3>2. \A r \in Slots : r # taskCount => taskSlots'[r] = taskSlots[r]
      BY <1>3, <2>1, <2>2, SpawnEffect
    <3>3. \A r \in Slots : taskSlots[r] # nextTaskId
      BY <1>3, SpawnEffect DEF Held
    <3>4. s < taskCount
      BY <3>1 DEF LowestRunnable, TableShape
    <3>5. ASSUME NEW r \in Slots, r < s PROVE ~CanRun(r)'
      <4>1. taskSlots'[r] = taskSlots[r] /\ ~CanRun(r)
        BY <2>1, <3>1, <3>2, <3>4, <3>5 DEF LowestRunnable
      <4> QED BY <2>2, <2>3, <3>3, <4>1 DEF CanRun
    <3>6. taskSlots'[s] = taskSlots[s]
      BY <2>1, <3>2, <3>4
    <3> QED BY <2>2, <2>3, <3>1, <3>3, <3>5, <3>6 DEF LowestRunnable
  <2> QED BY <2>5, <2>6 DEF LowestAwaits
<1>4. ASSUME NEW c \in Contexts, Abort(c)
      PROVE  LowestAwaits'
  BY <1>4 DEF Abort, Goto, LowestAwaits, LowestRunnable, AwaitsInVain, CanRun, Finished
<1>5. CASE MainGoes
  BY <1>5 DEF MainGoes, LowestAwaits, LowestRunnable, AwaitsInVain, CanRun, Finished
<1>6. ASSUME NEW t \in Ids, NEW how \in {"COMPLETED", "FAILED"}, Settles(t, how)
      PROVE  LowestAwaits'
  <2>1. control = t /\ pc[t] = "body"
    BY <1>6 DEF Settles
  <2>2. UNCHANGED pc \/ pc' = [pc EXCEPT ![t] = "ended"]
    BY <1>6 DEF Settles, Goto
  <2> QED BY <2>1, <2>2, StillNobodyAwaits DEF PCs
<1>7. ASSUME NEW t \in Ids, TaskYield(t)
      PROVE  LowestAwaits'
  <2>1. control = t /\ pc[t] = "body"
    BY <1>7 DEF TaskYield, CanCall
  <2>2. UNCHANGED pc \/ pc' = [pc EXCEPT ![t] = "body"]
    BY <1>7 DEF TaskYield
  <2> QED BY <2>1, <2>2, StillNobodyAwaits DEF PCs
<1>8. ASSUME NEW t \in Ids, NEW id \in Ids, AwaitInTask(t, id)
      PROVE  LowestAwaits'
  <2>1. \A u \in Ids : pc[u] # "awaiting"
    BY <1>8, NobodyAwaits DEF AwaitInTask, CanAwait, CanCall
  <2>2. /\ pc' = [pc EXCEPT ![t] = "awaiting"] /\ target' = [target EXCEPT ![t] = id]
        /\ state' = [state EXCEPT ![t] = "SUSPENDED"] /\ control' = Main
        /\ UNCHANGED <<taskSlots, currentTaskIdx>> /\ control = t /\ ~Finished(id)
    BY <1>8 DEF AwaitInTask, CanAwait, CanCall, Goto, SuspendFor
  <2>3. \A u \in Ids : pc'[u] = "awaiting" => u = t
    BY <2>1, <2>2 DEF NativeTypeOK
  <2>4. AwaitsInVain(t)'
    BY <2>2 DEF AwaitsInVain, Finished, NativeTypeOK
  <2>5. currentTaskIdx \in Slots /\ taskSlots[currentTaskIdx] = t
    BY <2>2 DEF RunnerShape, InTask, NativeTypeOK
  <2>6. ASSUME NEW r \in Slots, r < currentTaskIdx PROVE ~CanRun(r)'
    <3>1. ~CanRun(r) /\ taskSlots[r] # t
      BY <2>2, <2>5, <2>6 DEF RunnerShape, TableShape
    <3> QED BY <2>2, <3>1 DEF CanRun, NativeTypeOK
  <2>7. LowestRunnable(currentTaskIdx)'
    <3>1. pc'[t] = "awaiting"
      BY <2>2 DEF NativeTypeOK
    <3> QED BY <2>2, <2>5, <2>6, <3>1 DEF LowestRunnable
  <2>8. ASSUME NEW u \in Ids, pc'[u] = "awaiting" PROVE AwaitsInVain(u)'
    BY <2>3, <2>4, <2>8 DEF AwaitsInVain
  <2>9. \E s \in Slots : LowestRunnable(s)'
    BY <2>2, <2>5, <2>7
  <2> QED BY <2>8, <2>9 DEF LowestAwaits
<1>9. ASSUME NEW t \in Ids, AwaitAgain(t)
      PROVE  LowestAwaits'
  <2>1. ~Finished(target[t]) /\ target[t] \in Ids
    BY <1>9 DEF AwaitAgain, LowestAwaits, AwaitsInVain, CodeShape, CodeOf
  <2>2. /\ state' = [state EXCEPT ![t] = "SUSPENDED"] /\ control' = Main
        /\ UNCHANGED <<target, pc, taskSlots, currentTaskIdx>>
        /\ control = t /\ pc[t] = "awaiting"
    BY <1>9, <2>1 DEF AwaitAgain, SuspendFor
  <2>3. ASSUME NEW u \in Ids, pc[u] = "awaiting" PROVE AwaitsInVain(u)'
    BY <2>2, <2>3 DEF LowestAwaits, AwaitsInVain, Finished, NativeTypeOK
  <2>4. PICK s \in Slots : LowestRunnable(s)
    BY <2>2 DEF LowestAwaits
  <2>5. taskSlots[s] = t
    BY <2>2, <2>4 DEF LowestRunnable
  <2>6. ASSUME NEW r \in Slots, r < s PROVE ~CanRun(r)'
    <3>1. ~CanRun(r)
      BY <2>4, <2>6 DEF LowestRunnable
    <3>2. taskSlots[r] # t
      <4>1. r # s /\ t # NoTask
        BY <2>6
      <4>2. \A q \in Slots : taskSlots[q] = taskSlots[s] /\ q # s => taskSlots[s] = NoTask
        BY DEF TableShape
      <4> QED BY <2>5, <4>1, <4>2
    <3> QED BY <2>2, <3>1, <3>2 DEF CanRun, NativeTypeOK
  <2>7. LowestRunnable(s)'
    BY <2>2, <2>4, <2>5, <2>6 DEF LowestRunnable
  <2> QED BY <2>2, <2>3, <2>7 DEF LowestAwaits
<1>10. ASSUME NEW t \in Ids, NEW fd \in Sockets, AwaitSocket(t, fd)
      PROVE  LowestAwaits'
  <2>1. control = t /\ pc[t] = "body"
    BY <1>10 DEF AwaitSocket, CanCall
  <2>2. UNCHANGED pc \/ pc' = [pc EXCEPT ![t] = "body"]
    BY <1>10 DEF AwaitSocket
  <2> QED BY <2>1, <2>2, StillNobodyAwaits DEF PCs
<1>11. ASSUME NEW t \in Ids, NEW fd \in Fds \cup Files, AwaitFdRefused(t, fd)
      PROVE  LowestAwaits'
  <2>1. control = t /\ pc[t] = "body"
    BY <1>11 DEF AwaitFdRefused, CanCall
  <2>2. UNCHANGED pc \/ pc' = [pc EXCEPT ![t] = "raised"]
    BY <1>11 DEF AwaitFdRefused, Goto
  <2> QED BY <2>1, <2>2, StillNobodyAwaits DEF PCs
<1>12. ASSUME NEW t \in Ids, NEW fd \in Timers, Sleep(t, fd)
      PROVE  LowestAwaits'
  <2>1. control = t /\ pc[t] = "body"
    BY <1>12 DEF Sleep, CanCall
  <2>2. UNCHANGED pc \/ pc' = [pc EXCEPT ![t] = "sleeping"]
    BY <1>12 DEF Sleep, Goto
  <2> QED BY <2>1, <2>2, StillNobodyAwaits DEF PCs
<1>13. ASSUME NEW t \in Ids, EndSleep(t)
      PROVE  LowestAwaits'
  <2>1. control = t /\ pc[t] = "sleeping"
    BY <1>13 DEF EndSleep
  <2>2. UNCHANGED pc \/ pc' = [pc EXCEPT ![t] = "body"]
    BY <1>13 DEF EndSleep, Goto
  <2> QED BY <2>1, <2>2, StillNobodyAwaits DEF PCs
<1>14. ASSUME NEW id \in Ids, AwaitInMain(id)
      PROVE  LowestAwaits'
  BY <1>14 DEF AwaitInMain, CanAwait, CanCall, Goto, LowestAwaits, LowestRunnable,
     AwaitsInVain, CodeShape, CodeOf, NativeTypeOK, CanRun, Finished
<1>15. CASE EndAwaitInMain
  BY <1>15 DEF EndAwaitInMain, Deliver, Goto, LowestAwaits, LowestRunnable,
     AwaitsInVain, CodeShape, CodeOf, NativeTypeOK, CanRun, Finished
<1>16. ASSUME NEW s \in Slots, RunOnce(s)
      PROVE  LowestAwaits'
  <2>1. /\ state' = [state EXCEPT ![taskSlots[s]] = "RUNNING"]
        /\ control' = taskSlots[s] /\ control = Main
        /\ UNCHANGED <<target, pc, taskSlots>> /\ taskSlots[s] \in Ids
        /\ CanRun(s) /\ \A r \in Slots : r < s => ~CanRun(r)
    BY <1>16 DEF RunOnce, InRound, CanRun, NativeTypeOK
  <2>2. ASSUME NEW u \in Ids, pc[u] = "awaiting" PROVE AwaitsInVain(u)'
    <3>1. AwaitsInVain(u) /\ target[u] \in Ids
      BY <2>2 DEF LowestAwaits, CodeShape, CodeOf
    <3> QED BY <2>1, <3>1 DEF AwaitsInVain, Finished, NativeTypeOK
  <2>3. ASSUME NEW u \in Ids, pc[u] = "awaiting"
        PROVE  LowestRunnable(s)'
    <3>1. PICK w \in Slots : LowestRunnable(w)
      BY <2>3 DEF LowestAwaits
    <3>2. CanRun(w)
      <4>1. /\ taskSlots[w] \in Ids /\ pc[taskSlots[w]] = "awaiting"
            /\ control # taskSlots[w]
        BY <2>1, <3>1 DEF LowestRunnable
      <4>2. state[taskSlots[w]] = "SUSPENDED"
        BY <4>1 DEF LowestAwaits, AwaitsInVain
      <4> QED BY <4>1, <4>2 DEF CanRun
    <3>3. w = s
      BY <2>1, <3>1, <3>2 DEF LowestRunnable
    <3>4. ASSUME NEW r \in Slots, r < s PROVE ~CanRun(r)'
      <4>1. ~CanRun(r) /\ taskSlots[r] # taskSlots[s]
        BY <2>1, <3>4 DEF TableShape
      <4> QED BY <2>1, <4>1 DEF CanRun, NativeTypeOK
    <3> QED BY <2>1, <3>1, <3>3, <3>4 DEF LowestRunnable
  <2> QED BY <2>1, <2>2, <2>3 DEF LowestAwaits
<1>17. ASSUME NEW batch \in SUBSET Fds, PollIO(batch)
      PROVE  LowestAwaits'
  <2>1. /\ control = Main /\ UNCHANGED pc
        /\ \A s \in Slots : ~CanRun(s)
    BY <1>17 DEF PollIO, InRound
  <2>2. ASSUME NEW u \in Ids, pc[u] = "awaiting" PROVE FALSE
    <3>1. PICK w \in Slots : LowestRunnable(w)
      BY <2>2 DEF LowestAwaits
    <3>2. /\ taskSlots[w] \in Ids /\ pc[taskSlots[w]] = "awaiting"
          /\ control # taskSlots[w]
      BY <2>1, <3>1 DEF LowestRunnable
    <3>3. state[taskSlots[w]] = "SUSPENDED"
      BY <3>2 DEF LowestAwaits, AwaitsInVain
    <3> QED BY <2>1, <3>2, <3>3 DEF CanRun
  <2> QED BY <2>1, <2>2 DEF LowestAwaits
<1>18. CASE Cleanup
  <2>1. /\ ~HasPending /\ pc' = [pc EXCEPT ![Main] = "body"]
    BY <1>18 DEF Cleanup, Goto
  <2>2. ASSUME NEW u \in Ids PROVE pc[u] # "awaiting"
    <3>1. Alive(u) => Held(u)
      BY DEF TableShape
    <3>2. ~Alive(u)
      BY <2>1, <3>1 DEF HasPending, Pending, Held, Alive, Finished
    <3> QED BY <3>2, InCodeIsAlive
  <2>3. \A u \in Ids : pc'[u] # "awaiting"
    BY <2>1, <2>2 DEF NativeTypeOK
  <2> QED BY <2>3 DEF LowestAwaits
<1> QED BY <1>1, <1>2, <1>3, <1>4, <1>5, <1>6, <1>7, <1>8, <1>9, <1>10, <1>11, <1>12,
   <1>13, <1>14, <1>15, <1>16, <1>17, <1>18, StepKinds

(* A timer is opened and closed by the sleep that owns it.                 *)
LEMMA TimerStep ==
  ASSUME NativeTypeOK, TableShape, RunnerShape, CodeShape, TimerShape, [Next]_vars
  PROVE  TimerShape'
<1>1. CASE Quiet
  <2>1. \A u \in Ids : pc'[u] = "sleeping" <=> pc[u] = "sleeping"
    BY <1>1 DEF Quiet
  <2>2. UNCHANGED <<tfd, openTimers>>
    BY <1>1 DEF Quiet
  <2> QED BY <2>1, <2>2, SameSleepers
<1>2. ASSUME NEW c \in Contexts, GoesOn(c)
      PROVE  TimerShape'
  <2>1. \A u \in Ids : pc'[u] = "sleeping" <=> pc[u] = "sleeping"
    BY <1>2 DEF GoesOn, NativeTypeOK
  <2>2. UNCHANGED <<tfd, openTimers>>
    BY <1>2 DEF GoesOn
  <2> QED BY <2>1, <2>2, SameSleepers
<1>3. ASSUME NEW c \in Contexts, Spawn(c)
      PROVE  TimerShape'
  <2>1. UNCHANGED <<tfd, openTimers>>
    BY <1>3 DEF Spawn
  <2>2. pc[nextTaskId] = "none" /\ pc' = [pc EXCEPT ![nextTaskId] = "body"]
    BY <1>3, SpawnEffect DEF CodeShape, CodeOf
  <2>3. \A u \in Ids : pc'[u] = "sleeping" <=> pc[u] = "sleeping"
    <3>1. \A u \in Ids : pc'[u] = IF u = nextTaskId THEN "body" ELSE pc[u]
      BY <2>2 DEF NativeTypeOK
    <3> QED BY <2>2, <3>1
  <2> QED BY <2>1, <2>3, SameSleepers
<1>4. ASSUME NEW c \in Contexts, Abort(c)
      PROVE  TimerShape'
  <2>1. \A u \in Ids : pc'[u] = "sleeping" <=> pc[u] = "sleeping"
    BY <1>4 DEF Abort, Goto, NativeTypeOK
  <2>2. UNCHANGED <<tfd, openTimers>>
    BY <1>4 DEF Abort
  <2> QED BY <2>1, <2>2, SameSleepers
<1>5. CASE MainGoes
  <2>1. \A u \in Ids : pc'[u] = "sleeping" <=> pc[u] = "sleeping"
    BY <1>5 DEF MainGoes, NativeTypeOK
  <2>2. UNCHANGED <<tfd, openTimers>>
    BY <1>5 DEF MainGoes
  <2> QED BY <2>1, <2>2, SameSleepers
<1>6. ASSUME NEW t \in Ids, NEW how \in {"COMPLETED", "FAILED"}, Settles(t, how)
      PROVE  TimerShape'
  <2>1. \A u \in Ids : pc'[u] = "sleeping" <=> pc[u] = "sleeping"
    BY <1>6 DEF Settles, Goto
  <2>2. UNCHANGED <<tfd, openTimers>>
    BY <1>6 DEF Settles
  <2> QED BY <2>1, <2>2, SameSleepers
<1>7. ASSUME NEW t \in Ids, TaskYield(t)
      PROVE  TimerShape'
  <2>1. \A u \in Ids : pc'[u] = "sleeping" <=> pc[u] = "sleeping"
    BY <1>7 DEF TaskYield
  <2>2. UNCHANGED <<tfd, openTimers>>
    BY <1>7 DEF TaskYield
  <2> QED BY <2>1, <2>2, SameSleepers
<1>8. ASSUME NEW t \in Ids, NEW id \in Ids, AwaitInTask(t, id)
      PROVE  TimerShape'
  <2>1. \A u \in Ids : pc'[u] = "sleeping" <=> pc[u] = "sleeping"
    BY <1>8 DEF AwaitInTask, CanAwait, CanCall, Goto
  <2>2. UNCHANGED <<tfd, openTimers>>
    BY <1>8 DEF AwaitInTask
  <2> QED BY <2>1, <2>2, SameSleepers
<1>9. ASSUME NEW t \in Ids, AwaitAgain(t)
      PROVE  TimerShape'
  <2>1. UNCHANGED <<tfd, openTimers>> /\ pc[t] = "awaiting"
    BY <1>9 DEF AwaitAgain
  <2>2. \/ UNCHANGED pc
        \/ \E label \in {"body", "raised"} : pc' = [pc EXCEPT ![t] = label]
    BY <1>9 DEF AwaitAgain, Goto, Deliver
  <2>3. \A u \in Ids : pc'[u] = "sleeping" <=> pc[u] = "sleeping"
    BY <2>1, <2>2 DEF NativeTypeOK
  <2> QED BY <2>1, <2>3, SameSleepers
<1>10. ASSUME NEW t \in Ids, NEW fd \in Sockets, AwaitSocket(t, fd)
      PROVE  TimerShape'
  <2>1. \A u \in Ids : pc'[u] = "sleeping" <=> pc[u] = "sleeping"
    BY <1>10 DEF AwaitSocket, AwaitFd
  <2>2. UNCHANGED <<tfd, openTimers>>
    BY <1>10 DEF AwaitSocket
  <2> QED BY <2>1, <2>2, SameSleepers
<1>11. ASSUME NEW t \in Ids, NEW fd \in Fds \cup Files, AwaitFdRefused(t, fd)
      PROVE  TimerShape'
  <2>1. \A u \in Ids : pc'[u] = "sleeping" <=> pc[u] = "sleeping"
    BY <1>11 DEF AwaitFdRefused, CanCall, Goto, NativeTypeOK
  <2>2. UNCHANGED <<tfd, openTimers>>
    BY <1>11 DEF AwaitFdRefused
  <2> QED BY <2>1, <2>2, SameSleepers
<1>12. ASSUME NEW t \in Ids, NEW fd \in Timers, Sleep(t, fd)
      PROVE  TimerShape'
  <2>1. /\ openTimers' = openTimers \cup {fd} /\ tfd' = [tfd EXCEPT ![t] = fd]
        /\ pc' = [pc EXCEPT ![t] = "sleeping"]
        /\ pc[t] = "body" /\ fd \in Timers /\ fd \notin openTimers
    BY <1>12 DEF Sleep, CanCall, Goto
  <2>2. /\ tfd'[t] = fd /\ \A u \in Ids \ {t} : tfd'[u] = tfd[u]
        /\ \A u \in Ids : pc'[u] = "sleeping" <=> pc[u] = "sleeping" \/ u = t
    BY <2>1 DEF NativeTypeOK, Contexts
  <2>3. tfd[t] = NoFd /\ fd # NoFd
    BY <2>1, NativeAssumption DEF TimerShape, NoFd
  <2> HIDE DEF NativeTypeOK
  <2>4. openTimers' = {tfd'[u] : u \in Ids} \ {NoFd}
    BY <2>1, <2>2, <2>3 DEF TimerShape
  <2>5. \A u \in Ids : tfd'[u] # NoFd <=> pc'[u] = "sleeping"
    BY <2>2, <2>3 DEF TimerShape
  <2>6. \A u \in Ids : tfd[u] # fd
    BY <2>1, <2>3 DEF TimerShape
  <2>7. \A u, w \in Ids : tfd'[u] = tfd'[w] /\ u # w => tfd'[u] = NoFd
    BY <2>2, <2>6 DEF TimerShape
  <2> QED BY <2>4, <2>5, <2>7 DEF TimerShape
<1>13. ASSUME NEW t \in Ids, EndSleep(t)
      PROVE  TimerShape'
  <2>1. /\ openTimers' = openTimers \ {tfd[t]} /\ tfd' = [tfd EXCEPT ![t] = NoFd]
        /\ pc' = [pc EXCEPT ![t] = "body"] /\ pc[t] = "sleeping"
    BY <1>13 DEF EndSleep, Goto
  <2>2. /\ tfd'[t] = NoFd /\ \A u \in Ids \ {t} : tfd'[u] = tfd[u]
        /\ \A u \in Ids : pc'[u] = "sleeping" <=> pc[u] = "sleeping" /\ u # t
    BY <2>1 DEF NativeTypeOK, Contexts
  <2>3. tfd[t] # NoFd /\ \A u \in Ids \ {t} : tfd[u] # tfd[t]
    BY <2>1 DEF TimerShape
  <2>4. openTimers' = {tfd'[u] : u \in Ids} \ {NoFd}
    BY <2>1, <2>2, <2>3 DEF TimerShape
  <2>5. \A u \in Ids : tfd'[u] # NoFd <=> pc'[u] = "sleeping"
    BY <2>2 DEF TimerShape
  <2>6. \A u, w \in Ids : tfd'[u] = tfd'[w] /\ u # w => tfd'[u] = NoFd
    BY <2>2 DEF TimerShape
  <2> QED BY <2>4, <2>5, <2>6 DEF TimerShape
<1>14. ASSUME NEW id \in Ids, AwaitInMain(id)
      PROVE  TimerShape'
  <2>1. \A u \in Ids : pc'[u] = "sleeping" <=> pc[u] = "sleeping"
    BY <1>14 DEF AwaitInMain, CanAwait, CanCall, Goto, NativeTypeOK
  <2>2. UNCHANGED <<tfd, openTimers>>
    BY <1>14 DEF AwaitInMain
  <2> QED BY <2>1, <2>2, SameSleepers
<1>15. CASE EndAwaitInMain
  <2>1. \A u \in Ids : pc'[u] = "sleeping" <=> pc[u] = "sleeping"
    BY <1>15 DEF EndAwaitInMain, Deliver, Goto, NativeTypeOK
  <2>2. UNCHANGED <<tfd, openTimers>>
    BY <1>15 DEF EndAwaitInMain
  <2> QED BY <2>1, <2>2, SameSleepers
<1>16. ASSUME NEW s \in Slots, RunOnce(s)
      PROVE  TimerShape'
  <2>1. \A u \in Ids : pc'[u] = "sleeping" <=> pc[u] = "sleeping"
    BY <1>16 DEF RunOnce
  <2>2. UNCHANGED <<tfd, openTimers>>
    BY <1>16 DEF RunOnce
  <2> QED BY <2>1, <2>2, SameSleepers
<1>17. ASSUME NEW batch \in SUBSET Fds, PollIO(batch)
      PROVE  TimerShape'
  <2>1. \A u \in Ids : pc'[u] = "sleeping" <=> pc[u] = "sleeping"
    BY <1>17 DEF PollIO
  <2>2. UNCHANGED <<tfd, openTimers>>
    BY <1>17 DEF PollIO
  <2> QED BY <2>1, <2>2, SameSleepers
<1>18. CASE Cleanup
  <2>1. \A u \in Ids : pc'[u] = "sleeping" <=> pc[u] = "sleeping"
    BY <1>18 DEF Cleanup, Goto, NativeTypeOK
  <2>2. UNCHANGED <<tfd, openTimers>>
    BY <1>18 DEF Cleanup
  <2> QED BY <2>1, <2>2, SameSleepers
<1> QED BY <1>1, <1>2, <1>3, <1>4, <1>5, <1>6, <1>7, <1>8, <1>9, <1>10, <1>11, <1>12,
   <1>13, <1>14, <1>15, <1>16, <1>17, <1>18, StepKinds

(* A running task that registers a new descriptor joins those that wait.   *)
LEMMA JoinsTheWaiting ==
  ASSUME NativeTypeOK, RunnerShape, WaitShape, NEW t \in Ids, control = t,
         NEW fd \in Fds, fd \notin epoll, AwaitFd(t, fd), pc'[Main] = pc[Main],
         \A u \in Ids \ {t} : tfd'[u] = tfd[u], fd \in Timers => tfd'[t] = fd
  PROVE  WaitShape'
<1>1. ~Ended
  BY DEF RunnerShape, Ended
<1>2. /\ state' = [state EXCEPT ![t] = "IO_WAITING"]
      /\ awaitFd' = [awaitFd EXCEPT ![t] = fd]
      /\ epoll' = epoll \cup {fd} /\ control' = Main
  BY DEF AwaitFd
<1>3. \A u \in Ids : Waits(u)' <=> Waits(u) \/ u = t
  BY <1>2 DEF Waits, NativeTypeOK
<1>4. ~Waits(t) /\ awaitFd'[t] = fd /\ \A u \in Ids \ {t} : awaitFd'[u] = awaitFd[u]
  BY <1>2 DEF Waits, NativeTypeOK
<1>5. fd \in epoll' /\ \A u \in Ids : Waits(u) => awaitFd[u] \in epoll /\ awaitFd[u] # fd
  BY <1>1, <1>2 DEF WaitShape
<1>6. \A e \in epoll' : \E u \in Ids : Waits(u)' /\ awaitFd'[u] = e
  <2>1. ASSUME NEW e \in epoll PROVE \E u \in Ids : Waits(u)' /\ awaitFd'[u] = e
    <3>1. PICK u \in Ids : Waits(u) /\ awaitFd[u] = e
      BY <1>1, <2>1 DEF WaitShape
    <3> QED BY <1>3, <1>4, <3>1
  <2> QED BY <1>2, <1>3, <1>4, <2>1
<1>7. \A u \in Ids : Waits(u)' =>
        awaitFd'[u] \in epoll' /\ (awaitFd'[u] \in Timers => tfd'[u] = awaitFd'[u])
  <2>1. ASSUME NEW u \in Ids, Waits(u)
        PROVE  awaitFd[u] \in epoll /\ (awaitFd[u] \in Timers => tfd[u] = awaitFd[u])
    BY <1>1, <2>1 DEF WaitShape
  <2>2. awaitFd'[t] \in epoll' /\ (awaitFd'[t] \in Timers => tfd'[t] = awaitFd'[t])
    BY <1>4, <1>5
  <2>3. ASSUME NEW u \in Ids, Waits(u)
        PROVE  awaitFd'[u] \in epoll' /\ (awaitFd'[u] \in Timers => tfd'[u] = awaitFd'[u])
    <3>1. u # t
      BY <1>4, <2>3
    <3> QED BY <1>2, <1>4, <2>1, <2>3, <3>1
  <2> QED BY <1>3, <2>2, <2>3
<1>8. \A u, w \in Ids :
        Waits(u)' /\ Waits(w)' /\ u # w => awaitFd'[u] # awaitFd'[w]
  <2>1. \A u, w \in Ids : Waits(u) /\ Waits(w) /\ u # w => awaitFd[u] # awaitFd[w]
    BY <1>1 DEF WaitShape
  <2> QED BY <1>3, <1>4, <1>5, <2>1
<1> QED BY <1>6, <1>7, <1>8 DEF WaitShape

(* A descriptor is registered and removed with the wait of one task.       *)
LEMMA WaitStep ==
  ASSUME NativeTypeOK, TableShape, RunnerShape, CodeShape, LowestAwaits, TimerShape,
     WaitShape, [Next]_vars
  PROVE  WaitShape'
<1>1. CASE Quiet
  BY <1>1 DEF Quiet, WaitShape, Waits, Ended
<1>2. ASSUME NEW c \in Contexts, GoesOn(c)
      PROVE  WaitShape'
  BY <1>2 DEF GoesOn, WaitShape, Waits, Ended
<1>3. ASSUME NEW c \in Contexts, Spawn(c)
      PROVE  WaitShape'
  <2>1. UNCHANGED <<control, awaitFd, epoll, tfd>> /\ nextTaskId \in Ids
    BY <1>3, SpawnEffect DEF Spawn
  <2>2. \A u \in Ids : Waits(u)' <=> Waits(u)
    BY <1>3, <2>1, SpawnEffect DEF Waits, NativeTypeOK
  <2>3. Ended => Ended'
    BY <1>3, <2>1, SpawnEffect DEF Ended, NativeTypeOK
  <2> QED BY <2>1, <2>2, <2>3, SameWaits
<1>4. ASSUME NEW c \in Contexts, Abort(c)
      PROVE  WaitShape'
  BY <1>4 DEF Abort, Goto, WaitShape, NativeTypeOK, Ended
<1>5. CASE MainGoes
  BY <1>5 DEF MainGoes, WaitShape, Waits
<1>6. ASSUME NEW t \in Ids, NEW how \in {"COMPLETED", "FAILED"}, Settles(t, how)
      PROVE  WaitShape'
  <2>1. /\ state' = [state EXCEPT ![t] = how] /\ control' = Main /\ control = t
        /\ UNCHANGED <<awaitFd, epoll, tfd>> /\ pc' = [pc EXCEPT ![t] = "ended"]
    BY <1>6, SettlesAlone DEF Settles, Goto
  <2>2. \A u \in Ids : Waits(u)' <=> Waits(u)
    BY <1>6, <2>1 DEF Waits, NativeTypeOK
  <2>3. Ended => Ended'
    BY <2>1 DEF Ended
  <2> QED BY <2>1, <2>2, <2>3, SameWaits
<1>7. ASSUME NEW t \in Ids, TaskYield(t)
      PROVE  WaitShape'
  <2>1. /\ state' = [state EXCEPT ![t] = "SUSPENDED"] /\ control' = Main /\ control = t
        /\ UNCHANGED <<awaitFd, epoll, tfd>>
    BY <1>7 DEF TaskYield, CanCall
  <2>2. \A u \in Ids : Waits(u)' <=> Waits(u)
    BY <2>1 DEF Waits, NativeTypeOK
  <2>3. Ended => Ended'
    BY <1>7 DEF TaskYield, Ended
  <2> QED BY <2>1, <2>2, <2>3, SameWaits
<1>8. ASSUME NEW t \in Ids, NEW id \in Ids, AwaitInTask(t, id)
      PROVE  WaitShape'
  <2>1. /\ state' = [state EXCEPT ![t] = "SUSPENDED"] /\ control' = Main /\ control = t
        /\ UNCHANGED <<awaitFd, epoll, tfd>>
    BY <1>8 DEF AwaitInTask, CanAwait, CanCall, SuspendFor
  <2>2. \A u \in Ids : Waits(u)' <=> Waits(u)
    BY <2>1 DEF Waits, NativeTypeOK
  <2>3. Ended => Ended'
    BY <1>8 DEF AwaitInTask, Goto, Ended
  <2> QED BY <2>1, <2>2, <2>3, SameWaits
<1>9. ASSUME NEW t \in Ids, AwaitAgain(t)
      PROVE  WaitShape'
  <2>1. ~Finished(target[t])
    BY <1>9 DEF AwaitAgain, LowestAwaits, AwaitsInVain
  <2>2. /\ state' = [state EXCEPT ![t] = "SUSPENDED"] /\ control' = Main /\ control = t
        /\ UNCHANGED <<awaitFd, epoll, tfd, pc>>
    BY <1>9, <2>1 DEF AwaitAgain, SuspendFor
  <2>3. \A u \in Ids : Waits(u)' <=> Waits(u)
    BY <2>2 DEF Waits, NativeTypeOK
  <2> QED BY <2>2, <2>3 DEF WaitShape, Ended
<1>10. ASSUME NEW t \in Ids, NEW fd \in Sockets, AwaitSocket(t, fd)
      PROVE  WaitShape'
  <2>1. fd \notin epoll /\ fd \notin Timers
    BY <1>10 DEF AwaitSocket
  <2>2. control = t /\ AwaitFd(t, fd) /\ UNCHANGED <<pc, tfd>>
    BY <1>10 DEF AwaitSocket, CanCall
  <2> QED BY <2>1, <2>2, JoinsTheWaiting
<1>11. ASSUME NEW t \in Ids, NEW fd \in Fds \cup Files, AwaitFdRefused(t, fd)
      PROVE  WaitShape'
  <2>1. /\ UNCHANGED <<control, epoll, tfd>> /\ control = t
        /\ \A u \in Ids : u # t => state'[u] = state[u] /\ awaitFd'[u] = awaitFd[u]
    BY <1>11 DEF AwaitFdRefused, CanCall
  <2>2. \A u \in Ids :
          (Waits(u)' <=> Waits(u)) /\ (Waits(u) => awaitFd'[u] = awaitFd[u])
    BY <2>1 DEF Waits
  <2>3. Ended => Ended'
    <3>1. \E l \in PCs : pc' = [pc EXCEPT ![t] = l]
      BY <1>11 DEF AwaitFdRefused, Goto, PCs
    <3> QED BY <3>1 DEF Ended, NativeTypeOK
  <2> QED BY <2>1, <2>2, <2>3, SameWaits
<1>12. ASSUME NEW t \in Ids, NEW fd \in Timers, Sleep(t, fd)
      PROVE  WaitShape'
  <2>1. ~Ended
    BY <1>12 DEF Sleep, CanCall, RunnerShape, Ended
  <2>2. fd \notin epoll
    <3>1. \A u \in Ids : tfd[u] # fd
      BY <1>12 DEF Sleep, TimerShape
    <3> QED BY <2>1, <3>1 DEF WaitShape
  <2>3. pc'[Main] = pc[Main] /\ tfd' = [tfd EXCEPT ![t] = fd]
    BY <1>12 DEF Sleep, Goto
  <2>4. control = t /\ AwaitFd(t, fd)
    BY <1>12 DEF Sleep, CanCall
  <2>5. tfd'[t] = fd /\ \A u \in Ids \ {t} : tfd'[u] = tfd[u]
    BY <2>3 DEF NativeTypeOK
  <2> QED BY <2>2, <2>3, <2>4, <2>5, JoinsTheWaiting
<1>13. ASSUME NEW t \in Ids, EndSleep(t)
      PROVE  WaitShape'
  <2>1. /\ control = t /\ pc[t] = "sleeping" /\ UNCHANGED <<control, state, awaitFd>>
        /\ epoll' = epoll \ {tfd[t]} /\ tfd' = [tfd EXCEPT ![t] = NoFd]
        /\ pc'[Main] = pc[Main]
    BY <1>13 DEF EndSleep, Goto
  <2>2. ~Ended /\ tfd[t] \in Timers
    BY <2>1 DEF RunnerShape, Ended, TimerShape, NativeTypeOK
  <2>3. \A u \in Ids : Waits(u) => awaitFd[u] # tfd[t]
    BY <2>1, <2>2 DEF WaitShape, Waits, TimerShape
  <2>4. \A u \in Ids : u # t => tfd'[u] = tfd[u]
    BY <2>1 DEF NativeTypeOK
  <2>5. \A u \in Ids : (Waits(u)' <=> Waits(u)) /\ ~Waits(t)
    BY <2>1 DEF Waits
  <2> QED BY <2>1, <2>2, <2>3, <2>4, <2>5 DEF WaitShape
<1>14. ASSUME NEW id \in Ids, AwaitInMain(id)
      PROVE  WaitShape'
  BY <1>14 DEF AwaitInMain, CanAwait, CanCall, WaitShape, Waits, Ended
<1>15. CASE EndAwaitInMain
  BY <1>15 DEF EndAwaitInMain, WaitShape, Waits, Ended
<1>16. ASSUME NEW s \in Slots, RunOnce(s)
      PROVE  WaitShape'
  <2>1. /\ state' = [state EXCEPT ![taskSlots[s]] = "RUNNING"] /\ CanRun(s)
        /\ control' = taskSlots[s] /\ control = Main /\ taskSlots[s] \in Ids
        /\ UNCHANGED <<awaitFd, epoll, tfd, pc>>
    BY <1>16 DEF RunOnce, InRound, CanRun, NativeTypeOK
  <2>2. \A u \in Ids : Waits(u)' <=> Waits(u)
    BY <2>1 DEF Waits, CanRun
  <2> QED BY <2>1, <2>2 DEF WaitShape, Ended
<1>17. ASSUME NEW batch \in SUBSET Fds, PollIO(batch)
      PROVE  WaitShape'
  <2> DEFINE woken ==
        {t \in Ids : Held(t) /\ state[t] = "IO_WAITING" /\ awaitFd[t] \in batch}
  <2>1. /\ control = Main /\ UNCHANGED <<control, tfd, pc>> /\ ~Ended
        /\ state' = [t \in Ids |-> IF t \in woken THEN "SUSPENDED" ELSE state[t]]
        /\ awaitFd' = [t \in Ids |-> IF t \in woken THEN NoFd ELSE awaitFd[t]]
        /\ epoll' = epoll \ {awaitFd[t] : t \in woken}
    BY <1>17 DEF PollIO, InRound, Deregistered, Ended
  <2>2. \A t \in Ids : Waits(t)' <=> Waits(t) /\ t \notin woken
    BY <2>1 DEF Waits
  <2>3. \A t \in Ids : t \notin woken => awaitFd'[t] = awaitFd[t]
    BY <2>1
  <2>4. \A t \in woken : Waits(t)
    BY <2>1 DEF Waits
  <2> HIDE DEF woken
  <2>5. \A fd \in epoll' : \E t \in Ids : Waits(t)' /\ awaitFd'[t] = fd
    BY <2>1, <2>2, <2>3 DEF WaitShape
  <2>6. \A t \in Ids : Waits(t)' => awaitFd'[t] \in epoll'
    <3>1. ASSUME NEW t \in Ids, Waits(t)' PROVE awaitFd'[t] \in epoll'
      <4>1. Waits(t) /\ t \notin woken /\ awaitFd'[t] = awaitFd[t]
        BY <2>2, <2>3, <3>1
      <4>2. awaitFd[t] \in epoll /\ \A u \in woken : awaitFd[u] # awaitFd[t]
        BY <2>1, <2>4, <4>1 DEF WaitShape, woken
      <4> QED BY <2>1, <4>1, <4>2
    <3> QED BY <3>1
  <2> QED BY <2>1, <2>2, <2>3, <2>5, <2>6 DEF WaitShape
<1>18. CASE Cleanup
  BY <1>18 DEF Cleanup, WaitShape, Waits, Ended
<1> QED BY <1>1, <1>2, <1>3, <1>4, <1>5, <1>6, <1>7, <1>8, <1>9, <1>10, <1>11, <1>12,
   <1>13, <1>14, <1>15, <1>16, <1>17, <1>18, StepKinds

(* A call leaves the budget of every body a natural number.                *)
LEMMA SpendType ==
  ASSUME NativeTypeOK, NEW c \in Contexts, NEW op, CanCall(c, op), Spend(c)
  PROVE  opsLeft' \in [Contexts -> Nat]
<1>1. opsLeft \in [Contexts -> Nat] /\ opsLeft[c] > 0
  BY DEF NativeTypeOK, CanCall
<1>2. opsLeft[c] - 1 \in Nat
  BY <1>1
<1>3. opsLeft' = [opsLeft EXCEPT ![c] = opsLeft[c] - 1]
  BY DEF Spend
<1> HIDE DEF Contexts
<1> QED BY <1>1, <1>2, <1>3

(* What every await delivers has a type.                                   *)
LEMMA DeliverType ==
  ASSUME NativeTypeOK, NEW c \in Contexts, NEW t \in Ids, Deliver(c, t)
  PROVE  /\ received' \in [Contexts -> Results \cup {NoResult, Rejected}]
         /\ pc' \in [Contexts -> PCs]
BY DEF NativeTypeOK, Deliver, Goto, PCs

(* The table has room where a call puts its task; an await names a task.   *)
LEMMA TypeStep ==
  ASSUME NativeTypeOK, TableShape, CodeShape, [Next]_vars
  PROVE  NativeTypeOK'
<1>1. ASSUME NEW c \in Contexts, Spawn(c)
      PROVE  NativeTypeOK'
  <2>1. opsLeft' \in [Contexts -> Nat]
    BY <1>1, SpendType DEF Spawn
  <2>2. /\ taskSlots' \in [Slots -> Ids \cup {NoTask}]
        /\ taskCount' \in 0 .. MaxTasks /\ nextTaskId' \in 1 .. MaxIds + 1
    <3>1. taskCount \in Slots /\ nextTaskId \in Ids
      BY <1>1, SpawnEffect
    <3>2. taskCount' = taskCount + 1 /\ nextTaskId' = nextTaskId + 1
      BY <1>1, SpawnEffect
    <3>3. taskSlots' = [taskSlots EXCEPT ![taskCount] = nextTaskId]
      BY <1>1, SpawnEffect
    <3>4. taskSlots' \in [Slots -> Ids \cup {NoTask}]
      BY <3>1, <3>3 DEF NativeTypeOK
    <3> QED BY <3>1, <3>2, <3>4
  <2>3. state' \in [Ids -> TaskStates] /\ pc' \in [Contexts -> PCs]
    BY <1>1, SpawnEffect DEF NativeTypeOK, TaskStates, PCs
  <2> QED BY <1>1, <2>1, <2>2, <2>3 DEF Spawn, NativeTypeOK
<1>2. ASSUME NEW c \in Contexts, SpawnRefused(c)
      PROVE  NativeTypeOK'
  <2>1. opsLeft' \in [Contexts -> Nat]
    BY <1>2, SpendType DEF SpawnRefused
  <2> QED BY <1>2, <2>1 DEF SpawnRefused, Goto, NativeTypeOK, PCs, TaskStates
<1>3. ASSUME NEW c \in Contexts, NEW id \in Ids, AwaitUnknown(c, id)
      PROVE  NativeTypeOK'
  <2>1. opsLeft' \in [Contexts -> Nat]
    BY <1>3, SpendType DEF AwaitUnknown, CanAwait
  <2> QED BY <1>3, <2>1 DEF AwaitUnknown, CanAwait, Goto, NativeTypeOK, PCs, TaskStates
<1>4. ASSUME NEW c \in Contexts, NEW id \in Ids, AwaitFinished(c, id)
      PROVE  NativeTypeOK'
  <2>1. opsLeft' \in [Contexts -> Nat]
    BY <1>4, SpendType DEF AwaitFinished, CanAwait
  <2>2. Deliver(c, id)
    BY <1>4 DEF AwaitFinished
  <2> QED BY <1>4, <2>1, <2>2, DeliverType DEF AwaitFinished, NativeTypeOK
<1>5. ASSUME NEW c \in Contexts, SleepRefused(c)
      PROVE  NativeTypeOK'
  <2>1. opsLeft' \in [Contexts -> Nat]
    BY <1>5, SpendType DEF SleepRefused
  <2> QED BY <1>5, <2>1 DEF SleepRefused, Goto, NativeTypeOK, PCs, TaskStates
<1>6. ASSUME NEW c \in Contexts, Raise(c)
      PROVE  NativeTypeOK'
  <2>1. opsLeft' \in [Contexts -> Nat]
    BY <1>6, SpendType DEF Raise
  <2> QED BY <1>6, <2>1 DEF Raise, Goto, NativeTypeOK, PCs, TaskStates
<1>7. ASSUME NEW c \in Contexts, Catch(c)
      PROVE  NativeTypeOK'
  BY <1>7 DEF Catch, Goto, NativeTypeOK, PCs, TaskStates
<1>8. ASSUME NEW c \in Contexts, Abort(c)
      PROVE  NativeTypeOK'
  BY <1>8 DEF Abort, Goto, NativeTypeOK, PCs, TaskStates
<1>9. ASSUME NEW t \in Ids, NEW v \in Results, TaskComplete(t, v)
      PROVE  NativeTypeOK'
  BY <1>9 DEF TaskComplete, Goto, Settle, Woken, NativeTypeOK, PCs, TaskStates
<1>10. ASSUME NEW t \in Ids, TaskError(t)
      PROVE  NativeTypeOK'
  BY <1>10 DEF TaskError, Goto, Settle, Woken, NativeTypeOK, PCs, TaskStates
<1>11. ASSUME NEW t \in Ids, TaskYield(t)
      PROVE  NativeTypeOK'
  <2>1. opsLeft' \in [Contexts -> Nat]
    BY <1>11, SpendType DEF TaskYield
  <2> QED BY <1>11, <2>1 DEF TaskYield, NativeTypeOK, PCs, TaskStates
<1>12. ASSUME NEW t \in Ids, NEW id \in Ids, AwaitInTask(t, id)
      PROVE  NativeTypeOK'
  <2>1. opsLeft' \in [Contexts -> Nat]
    BY <1>12, SpendType DEF AwaitInTask, CanAwait
  <2> QED BY <1>12, <2>1 DEF AwaitInTask, CanAwait, Goto, SuspendFor, NativeTypeOK, PCs,
     TaskStates
<1>13. ASSUME NEW t \in Ids, AwaitAgain(t)
      PROVE  NativeTypeOK'
  <2>1. target[t] \in Ids
    BY <1>13 DEF AwaitAgain, CodeShape, CodeOf
  <2>2. CASE Finished(target[t])
    <3>1. Deliver(t, target[t]) /\ target' = [target EXCEPT ![t] = NoTask]
      BY <1>13, <2>2 DEF AwaitAgain
    <3>2. UNCHANGED <<tableVars, currentTaskIdx, taskVars, kernelVars, control, opsLeft>>
      BY <1>13, <2>2 DEF AwaitAgain
    <3> QED BY <2>1, <3>1, <3>2, DeliverType DEF NativeTypeOK
  <2>3. CASE ~Finished(target[t])
    <3>1. /\ state' = [state EXCEPT ![t] = "SUSPENDED"] /\ control' = Main
          /\ awaitingId' = [awaitingId EXCEPT ![t] = target[t]]
      BY <1>13, <2>3 DEF AwaitAgain, SuspendFor
    <3>2. UNCHANGED <<tableVars, currentTaskIdx, result, hasError, awaitFd, target, kernelVars,
                      pc, received, opsLeft>>
      BY <1>13, <2>3 DEF AwaitAgain
    <3>3. state' \in [Ids -> TaskStates] /\ awaitingId' \in [Ids -> Ids \cup {NoTask}]
      BY <2>1, <3>1 DEF NativeTypeOK, TaskStates
    <3> QED BY <3>1, <3>2, <3>3 DEF NativeTypeOK
  <2> QED BY <2>2, <2>3
<1>14. ASSUME NEW t \in Ids, NEW fd \in Sockets, AwaitSocket(t, fd)
      PROVE  NativeTypeOK'
  <2>1. opsLeft' \in [Contexts -> Nat]
    BY <1>14, SpendType DEF AwaitSocket
  <2> QED BY <1>14, <2>1 DEF AwaitSocket, AwaitFd, NativeTypeOK, PCs, TaskStates
<1>15. ASSUME NEW t \in Ids, NEW fd \in Fds \cup Files, AwaitFdRefused(t, fd)
      PROVE  NativeTypeOK'
  <2>1. opsLeft' \in [Contexts -> Nat]
    BY <1>15, SpendType DEF AwaitFdRefused
  <2> QED BY <1>15, <2>1 DEF AwaitFdRefused, Goto, NativeTypeOK, PCs, TaskStates
<1>16. ASSUME NEW t \in Ids, NEW fd \in Timers, Sleep(t, fd)
      PROVE  NativeTypeOK'
  <2>1. opsLeft' \in [Contexts -> Nat]
    BY <1>16, SpendType DEF Sleep
  <2> QED BY <1>16, <2>1 DEF Sleep, AwaitFd, Goto, NativeTypeOK, PCs, TaskStates
<1>17. ASSUME NEW t \in Ids, EndSleep(t)
      PROVE  NativeTypeOK'
  BY <1>17 DEF EndSleep, Goto, NativeTypeOK, PCs, TaskStates
<1>18. CASE NoEffectInMain
  <2>1. opsLeft' \in [Contexts -> Nat]
    BY <1>18, SpendType DEF NoEffectInMain
  <2> QED BY <1>18, <2>1 DEF NoEffectInMain, NativeTypeOK, PCs, TaskStates
<1>19. ASSUME NEW id \in Ids, AwaitInMain(id)
      PROVE  NativeTypeOK'
  <2>1. opsLeft' \in [Contexts -> Nat]
    BY <1>19, SpendType DEF AwaitInMain, CanAwait
  <2> QED BY <1>19, <2>1 DEF AwaitInMain, CanAwait, Goto, NativeTypeOK, PCs, TaskStates
<1>20. CASE EndAwaitInMain
  <2>1. target[Main] \in Ids /\ Deliver(Main, target[Main])
    BY <1>20 DEF EndAwaitInMain, CodeShape
  <2> QED BY <1>20, <2>1, DeliverType DEF EndAwaitInMain, NativeTypeOK
<1>21. CASE Derail
  <2>1. UNCHANGED <<tableVars, currentTaskIdx, taskVars, target, kernelVars, control,
                    received, opsLeft>>
    BY <1>21 DEF Derail
  <2>2. pc' = [pc EXCEPT ![Main] = "lost"]
    BY <1>21 DEF Derail, Goto
  <2> QED BY <2>1, <2>2 DEF NativeTypeOK, PCs
<1>22. CASE Run
  <2>1. opsLeft' \in [Contexts -> Nat]
    BY <1>22, SpendType DEF Run
  <2> QED BY <1>22, <2>1 DEF Run, Goto, NativeTypeOK, PCs, TaskStates
<1>23. CASE MainReturn
  BY <1>23 DEF MainReturn, Goto, NativeTypeOK, PCs
<1>24. ASSUME NEW s \in Slots, RunOnce(s)
      PROVE  NativeTypeOK'
  BY <1>24 DEF RunOnce, InRound, CanRun, NativeTypeOK, PCs, TaskStates
<1>25. ASSUME NEW batch \in SUBSET Fds, PollIO(batch)
      PROVE  NativeTypeOK'
  BY <1>25 DEF PollIO, Deregistered, NativeTypeOK, PCs, TaskStates
<1>26. CASE Cleanup
  <2>1. /\ taskSlots' \in [Slots -> Ids \cup {NoTask}]
        /\ taskCount' \in 0 .. MaxTasks
    BY <1>26 DEF Cleanup, EmptyTable
  <2>2. pc' \in [Contexts -> PCs]
    BY <1>26 DEF Cleanup, Goto, NativeTypeOK, PCs
  <2> QED BY <1>26, <2>1, <2>2 DEF Cleanup, NativeTypeOK
<1>27. ASSUME NEW fd \in Timers, TimerFires(fd)
      PROVE  NativeTypeOK'
  BY <1>27 DEF TimerFires, NativeTypeOK, TaskStates
<1>28. ASSUME NEW fd \in Sockets, SocketChanges(fd)
      PROVE  NativeTypeOK'
  BY <1>28 DEF SocketChanges, NativeTypeOK, PCs
<1>29. CASE Terminated \/ UNCHANGED vars
  BY <1>29 DEF Terminated, NativeTypeOK, PCs, TaskStates
<1> QED BY <1>1, <1>2, <1>3, <1>4, <1>5, <1>6, <1>7, <1>8, <1>9, <1>10, <1>11, <1>12,
   <1>13, <1>14, <1>15, <1>16, <1>17, <1>18, <1>19, <1>20, <1>21, <1>22, <1>23, <1>24,
   <1>25, <1>26, <1>27, <1>28, <1>29
  DEF Next, Step, BodyStep, TaskStep, MainStep, RoundStep

-----------------------------------------------------------------------------
LEMMA InitInv == Init => IInv
<1> SUFFICES ASSUME Init PROVE IInv
  OBVIOUS
<1>1. NativeTypeOK
  BY DEF Init, NativeTypeOK, TaskStates, PCs
<1>2. /\ \A t \in Ids : state[t] = "NONE" /\ pc[t] = "none" /\ ~hasError[t]
      /\ \A t \in Ids : target[t] = NoTask /\ awaitingId[t] = NoTask /\ tfd[t] = NoFd
      /\ \A s \in Slots : taskSlots[s] = NoTask
      /\ taskCount = 0 /\ nextTaskId = 1 /\ control = Main /\ pc[Main] = "body"
      /\ target[Main] = NoTask /\ epoll = {} /\ openTimers = {}
  BY DEF Init
<1>3. TableShape
  BY <1>2 DEF TableShape, Alive
<1>4. RunnerShape /\ LowestAwaits
  BY <1>2 DEF RunnerShape, LowestAwaits
<1>5. CodeShape
  BY <1>2 DEF CodeShape, CodeOf, Finished
<1>6. TimerShape /\ WaitShape
  BY <1>2 DEF TimerShape, WaitShape, Waits
<1> QED BY <1>1, <1>3, <1>4, <1>5, <1>6 DEF IInv

LEMMA InvStep == IInv /\ [Next]_vars => IInv'
BY TypeStep, TableStep, RunnerStep, CodeStep, LowestStep, TimerStep, WaitStep DEF IInv

(* The inductive invariant of the scheduler (scheduler.urn:89-543): it     *)
(* holds in every reachable state, for every program.                      *)
THEOREM NativeInvariant == Spec => []IInv
BY InitInv, InvStep, PTL DEF Spec

(* Every variable keeps its type; the counters of scheduler.urn:89-187     *)
(* never exceed what the table holds.                                      *)
THEOREM NativeTypeCorrect == Spec => []NativeTypeOK
<1>1. IInv => NativeTypeOK
  BY DEF IInv
<1> QED BY NativeInvariant, <1>1, PTL

(* The current slot is that of the task that executes, and taskCount says  *)
(* how many slots are used (scheduler.urn:148-187, 435-461).               *)
THEOREM CurrentSlotIsRunner == Spec => []RunnerIsCurrent
<1>1. IInv => RunnerIsCurrent
  <2> SUFFICES ASSUME IInv PROVE RunnerIsCurrent
    OBVIOUS
  <2> USE DEF IInv
  <2>1. {s \in Slots : taskSlots[s] # NoTask} = 0 .. taskCount - 1
    <3>1. taskCount \in 0 .. MaxTasks
      BY DEF NativeTypeOK
    <3>2. ASSUME NEW s \in Slots
          PROVE  taskSlots[s] # NoTask <=> s \in 0 .. taskCount - 1
      BY <3>1 DEF TableShape
    <3>3. 0 .. taskCount - 1 \subseteq Slots
      BY <3>1
    <3> QED BY <3>2, <3>3
  <2>2. taskCount = Cardinality(0 .. taskCount - 1)
    BY FS_Interval DEF NativeTypeOK
  <2> QED BY <2>1, <2>2 DEF RunnerIsCurrent, RunnerShape, TableShape, Alive
<1> QED BY NativeInvariant, <1>1, PTL

(* Who waits is registered for what it waits for, and the target of a task *)
(* that awaits never finishes (scheduler.urn:215-328, 463-498).            *)
THEOREM WaitersKnown == Spec => []WaitersAreKnown
<1>1. IInv => WaitersAreKnown
  <2> SUFFICES ASSUME IInv PROVE WaitersAreKnown
    OBVIOUS
  <2>1. ~Ended => \A fd \in Fds : fd \in epoll <=>
          \E t \in Ids \ {control} : state[t] = "IO_WAITING" /\ awaitFd[t] = fd
    BY DEF IInv, WaitShape, Waits
  <2>2. ~Ended => \A t, u \in Ids \ {control} :
          state[t] = "IO_WAITING" /\ state[u] = "IO_WAITING" /\ t # u
            => awaitFd[t] # awaitFd[u]
    BY DEF IInv, WaitShape, Waits
  <2>3. openTimers = {tfd[t] : t \in Ids} \ {NoFd}
    BY DEF IInv, TimerShape
  <2>4. ASSUME NEW t \in Ids
        PROVE  /\ pc[t] = "awaiting" =>
                    (control # t => state[t] = "SUSPENDED") /\ ~Finished(target[t])
               /\ awaitingId[t] = IF pc[t] = "awaiting" THEN target[t] ELSE NoTask
    BY DEF IInv, LowestAwaits, AwaitsInVain, CodeShape, CodeOf
  <2> QED BY <2>1, <2>2, <2>3, <2>4 DEF WaitersAreKnown
<1> QED BY NativeInvariant, <1>1, PTL

-----------------------------------------------------------------------------
(* The scheduler implements AsyncTasks: each step is one of its steps, or  *)
(* changes nothing in it.                                                  *)

LEMMA StatusIs ==
  ASSUME NEW t \in Ids
  PROVE  /\ Status(t) = "absent" <=> state[t] = "NONE"
         /\ Status(t) = "fulfilled" <=> state[t] = "COMPLETED"
         /\ Status(t) = "rejected" <=> state[t] = "FAILED"
         /\ Status(t) = "pending" <=> Alive(t)
BY DEF Status, Alive

LEMMA Stutters ==
  ASSUME UNCHANGED <<result, received, target>>,
         \A t \in Ids : state'[t] # state[t] => Alive(t) /\ Alive(t)'
  PROVE  [Abstract!Next]_(Abstract!vars)
<1>1. \A t \in Ids : Status(t)' = Status(t)
  BY DEF Status, Alive
<1> QED BY <1>1 DEF Abstract!vars

LEMMA OneTaskGoesOn ==
  ASSUME NativeTypeOK, UNCHANGED <<result, received, target>>,
         NEW t \in Ids, Alive(t),
         NEW new \in {"RUNNING", "SUSPENDED", "IO_WAITING"},
         state' = [state EXCEPT ![t] = new]
  PROVE  [Abstract!Next]_(Abstract!vars)
BY Stutters DEF NativeTypeOK, Alive

(* The status function after the state of one task has changed.            *)
LEMMA StatusAfter ==
  ASSUME NativeTypeOK, NEW t \in Ids, NEW new \in TaskStates,
         state' = [state EXCEPT ![t] = new]
  PROVE  [u \in Ids |-> Status(u)'] = [[u \in Ids |-> Status(u)] EXCEPT ![t] = Status(t)']
<1>1. \A u \in Ids : u # t => Status(u)' = Status(u)
  BY DEF Status
<1> QED BY <1>1

LEMMA DeliversOutcome ==
  ASSUME CodeShape, NEW c \in Contexts, NEW t \in Ids, Finished(t), Deliver(c, t)
  PROVE  /\ Abstract!Settled(t)
         /\ received' = [received EXCEPT ![c] = Abstract!Outcome(t)]
<1>1. hasError[t] <=> state[t] = "FAILED"
  BY DEF CodeShape, CodeOf
<1>2. Abstract!Settled(t)
  BY StatusIs DEF Abstract!Settled, Finished
<1>3. Abstract!Outcome(t) = IF hasError[t] THEN Rejected ELSE result[t]
  BY <1>1, StatusIs DEF Abstract!Outcome
<1> QED BY <1>2, <1>3 DEF Deliver

LEMMA InBodyAwaitsNone ==
  ASSUME CodeShape, NEW c \in Contexts, pc[c] = "body"
  PROVE  target[c] = NoTask
BY DEF CodeShape, CodeOf

LEMMA Steps ==
  ASSUME IInv, [Next]_vars
  PROVE  [Abstract!Next]_(Abstract!vars)
<1> USE DEF IInv
<1>1. ASSUME UNCHANGED <<state, result, received, target>>
      PROVE  [Abstract!Next]_(Abstract!vars)
  BY <1>1, Stutters
<1>2. ASSUME NEW c \in Contexts, Spawn(c)
      PROVE  [Abstract!Next]_(Abstract!vars)
  <2>1. PICK t \in Ids :
          state[t] = "NONE" /\ state' = [state EXCEPT ![t] = "CREATED"]
    BY <1>2, SpawnEffect
  <2>2. state'[t] = "CREATED"
    BY <2>1 DEF NativeTypeOK
  <2>3. Status(t) = "absent" /\ Status(t)' = "pending"
    BY <2>1, <2>2 DEF Status
  <2>4. UNCHANGED <<result, target, received>>
    BY <1>2 DEF Spawn
  <2>5. [u \in Ids |-> Status(u)'] = [[u \in Ids |-> Status(u)] EXCEPT ![t] = "pending"]
    BY <2>1, <2>3, StatusAfter DEF TaskStates
  <2>6. Abstract!Call(t)
    BY <2>1, <2>3, <2>4, <2>5 DEF Abstract!Call
  <2> QED BY <2>1, <2>6 DEF Abstract!Next
<1>3. ASSUME NEW c \in Contexts, NEW id \in Ids, AwaitFinished(c, id)
      PROVE  [Abstract!Next]_(Abstract!vars)
  <2>1. target[c] = NoTask
    BY <1>3, InBodyAwaitsNone DEF AwaitFinished, CanAwait, CanCall
  <2>2. /\ Abstract!Settled(id)
        /\ received' = [received EXCEPT ![c] = Abstract!Outcome(id)]
    BY <1>3, DeliversOutcome DEF AwaitFinished
  <2>3. UNCHANGED <<result, target>> /\ \A u \in Ids : Status(u)' = Status(u)
    BY <1>3 DEF AwaitFinished, Status
  <2>4. Abstract!AwaitSettled(c, id)
    BY <2>1, <2>2, <2>3 DEF Abstract!AwaitSettled
  <2> QED BY <2>4 DEF Abstract!Next
<1>4. ASSUME NEW t \in Ids, NEW v \in Results, TaskComplete(t, v)
      PROVE  [Abstract!Next]_(Abstract!vars)
  <2>1. Settles(t, "COMPLETED")
    BY <1>4 DEF TaskComplete, Settles
  <2>2. Alive(t) /\ state' = [state EXCEPT ![t] = "COMPLETED"]
    BY <2>1, SettlesAlone, InCodeIsAlive DEF Settles
  <2>3. state'[t] = "COMPLETED"
    BY <2>2 DEF NativeTypeOK
  <2>4. Status(t) = "pending" /\ Status(t)' = "fulfilled"
    BY <2>2, <2>3 DEF Status, Alive
  <2>5. result' = [result EXCEPT ![t] = v] /\ UNCHANGED <<target, received>>
    BY <1>4 DEF TaskComplete
  <2>6. [u \in Ids |-> Status(u)'] = [[u \in Ids |-> Status(u)] EXCEPT ![t] = "fulfilled"]
    BY <2>2, <2>4, StatusAfter DEF TaskStates
  <2>7. Abstract!Fulfil(t, v)
    BY <2>4, <2>5, <2>6 DEF Abstract!Fulfil
  <2> QED BY <2>7 DEF Abstract!Next
<1>5. ASSUME NEW t \in Ids, TaskError(t)
      PROVE  [Abstract!Next]_(Abstract!vars)
  <2>1. Settles(t, "FAILED")
    BY <1>5 DEF TaskError, Settles
  <2>2. Alive(t) /\ state' = [state EXCEPT ![t] = "FAILED"]
    BY <2>1, SettlesAlone, InCodeIsAlive DEF Settles
  <2>3. state'[t] = "FAILED"
    BY <2>2 DEF NativeTypeOK
  <2>4. Status(t) = "pending" /\ Status(t)' = "rejected"
    BY <2>2, <2>3 DEF Status, Alive
  <2>5. UNCHANGED <<result, target, received>>
    BY <1>5 DEF TaskError
  <2>6. [u \in Ids |-> Status(u)'] = [[u \in Ids |-> Status(u)] EXCEPT ![t] = "rejected"]
    BY <2>2, <2>4, StatusAfter DEF TaskStates
  <2>7. Abstract!Reject(t)
    BY <2>4, <2>5, <2>6 DEF Abstract!Reject
  <2> QED BY <2>7 DEF Abstract!Next
<1>6. ASSUME NEW t \in Ids, TaskYield(t)
      PROVE  [Abstract!Next]_(Abstract!vars)
  BY <1>6, InCodeIsAlive, OneTaskGoesOn DEF TaskYield, CanCall
<1>7. ASSUME NEW t \in Ids, NEW id \in Ids, AwaitInTask(t, id)
      PROVE  [Abstract!Next]_(Abstract!vars)
  <2>1. /\ pc[t] = "body" /\ Held(id) /\ ~Finished(id)
        /\ state' = [state EXCEPT ![t] = "SUSPENDED"]
        /\ target' = [target EXCEPT ![t] = id] /\ UNCHANGED <<result, received>>
    BY <1>7 DEF AwaitInTask, CanAwait, CanCall, SuspendFor
  <2>2. target[t] = NoTask /\ Alive(t)
    BY <2>1, InBodyAwaitsNone, InCodeIsAlive
  <2>3. Status(id) = "pending"
    <3>1. id < nextTaskId
      BY <1>7 DEF AwaitInTask, CanAwait
    <3> QED BY <2>1, <3>1 DEF TableShape, Status, Finished, NativeTypeOK
  <2>4. \A u \in Ids : Status(u)' = Status(u)
    BY <2>1, <2>2 DEF Status, Alive
  <2>5. Abstract!BeginAwait(t, id)
    BY <2>1, <2>2, <2>3, <2>4 DEF Abstract!BeginAwait
  <2> QED BY <2>5 DEF Abstract!Next
<1>8. ASSUME NEW id \in Ids, AwaitInMain(id)
      PROVE  [Abstract!Next]_(Abstract!vars)
  <2>1. /\ pc[Main] = "body" /\ ~Finished(id) /\ id < nextTaskId
        /\ target' = [target EXCEPT ![Main] = id] /\ UNCHANGED <<state, result, received>>
    BY <1>8 DEF AwaitInMain, CanAwait, CanCall
  <2>2. target[Main] = NoTask
    BY <2>1, InBodyAwaitsNone
  <2>3. Status(id) = "pending"
    BY <2>1 DEF TableShape, Status, Finished, NativeTypeOK
  <2>4. \A u \in Ids : Status(u)' = Status(u)
    BY <2>1 DEF Status
  <2>5. Abstract!BeginAwait(Main, id)
    BY <2>1, <2>2, <2>3, <2>4 DEF Abstract!BeginAwait
  <2> QED BY <2>5 DEF Abstract!Next
<1>9. ASSUME NEW t \in Ids, AwaitAgain(t)
      PROVE  [Abstract!Next]_(Abstract!vars)
  <2>1. pc[t] = "awaiting" /\ ~Finished(target[t])
    BY <1>9 DEF AwaitAgain, LowestAwaits, AwaitsInVain
  <2>2. Alive(t)
    BY <2>1, InCodeIsAlive
  <2>3. /\ UNCHANGED <<result, received, target>>
        /\ state' = [state EXCEPT ![t] = "SUSPENDED"]
    BY <1>9, <2>1 DEF AwaitAgain, SuspendFor
  <2> QED BY <2>2, <2>3, OneTaskGoesOn
<1>10. ASSUME NEW t \in Ids, NEW fd \in Sockets, AwaitSocket(t, fd)
      PROVE  [Abstract!Next]_(Abstract!vars)
  BY <1>10, InCodeIsAlive, OneTaskGoesOn DEF AwaitSocket, CanCall, AwaitFd
<1>11. ASSUME NEW t \in Ids, NEW fd \in Fds \cup Files, AwaitFdRefused(t, fd)
      PROVE  [Abstract!Next]_(Abstract!vars)
  BY <1>11, InCodeIsAlive, OneTaskGoesOn DEF AwaitFdRefused, CanCall
<1>12. ASSUME NEW t \in Ids, NEW fd \in Timers, Sleep(t, fd)
      PROVE  [Abstract!Next]_(Abstract!vars)
  BY <1>12, InCodeIsAlive, OneTaskGoesOn DEF Sleep, CanCall, AwaitFd
<1>13. CASE EndAwaitInMain
  <2> DEFINE id == target[Main]
  <2>1. id \in Ids /\ Finished(id) /\ Deliver(Main, id)
    BY <1>13 DEF EndAwaitInMain, CodeShape
  <2>2. /\ target' = [target EXCEPT ![Main] = NoTask]
        /\ UNCHANGED result /\ \A u \in Ids : Status(u)' = Status(u)
    BY <1>13 DEF EndAwaitInMain, Status
  <2>3. id # NoTask /\ Main \in Contexts
    BY <2>1
  <2>4. /\ Abstract!Settled(id)
        /\ received' = [received EXCEPT ![Main] = Abstract!Outcome(id)]
    BY <2>1, <2>3, DeliversOutcome
  <2>5. Abstract!EndAwait(Main)
    BY <2>2, <2>3, <2>4 DEF Abstract!EndAwait
  <2> QED BY <2>3, <2>5 DEF Abstract!Next
<1>14. ASSUME NEW s \in Slots, RunOnce(s)
      PROVE  [Abstract!Next]_(Abstract!vars)
  <2>1. taskSlots[s] \in Ids /\ Alive(taskSlots[s])
    BY <1>14 DEF RunOnce, CanRun, NativeTypeOK, Alive
  <2>2. /\ UNCHANGED <<result, received, target>>
        /\ state' = [state EXCEPT ![taskSlots[s]] = "RUNNING"]
    BY <1>14 DEF RunOnce
  <2> QED BY <2>1, <2>2, OneTaskGoesOn
<1>15. ASSUME NEW batch \in SUBSET Fds, PollIO(batch)
      PROVE  [Abstract!Next]_(Abstract!vars)
  <2>1. \A t \in Ids : state'[t] # state[t] =>
          state[t] = "IO_WAITING" /\ state'[t] = "SUSPENDED"
    BY <1>15 DEF PollIO
  <2>2. UNCHANGED <<result, received, target>>
    BY <1>15 DEF PollIO
  <2> QED BY <2>1, <2>2, Stutters DEF Alive
<1>16. ASSUME NEW c \in Contexts,
              \/ SpawnRefused(c) \/ SleepRefused(c) \/ Raise(c) \/ Catch(c) \/ Abort(c)
              \/ \E id \in Ids : AwaitUnknown(c, id)
       PROVE  UNCHANGED <<state, result, received, target>>
  BY <1>16 DEF SpawnRefused, SleepRefused, Raise, Catch, Abort, AwaitUnknown
<1>17. ASSUME NEW t \in Ids, EndSleep(t)
       PROVE  UNCHANGED <<state, result, received, target>>
  BY <1>17 DEF EndSleep
<1>18. ASSUME NoEffectInMain \/ Derail \/ Run \/ MainReturn \/ Cleanup
       PROVE  UNCHANGED <<state, result, received, target>>
  BY <1>18 DEF NoEffectInMain, Derail, Run, MainReturn, Cleanup
<1>19. ASSUME \/ \E fd \in Timers : TimerFires(fd)
              \/ \E fd \in Sockets : SocketChanges(fd)
              \/ Terminated \/ UNCHANGED vars
       PROVE  UNCHANGED <<state, result, received, target>>
  BY <1>19 DEF TimerFires, SocketChanges, Terminated
<1> QED BY <1>1, <1>2, <1>3, <1>4, <1>5, <1>6, <1>7, <1>8, <1>9, <1>10, <1>11,
          <1>12, <1>13, <1>14, <1>15, <1>16, <1>17, <1>18, <1>19
        DEF Next, Step, BodyStep, TaskStep, MainStep, RoundStep

LEMMA InitialStates == Init => Abstract!Init
BY DEF Init, Abstract!Init, Status

(* Every behaviour of this scheduler is one AsyncTasks allows, whatever    *)
(* the program awaits: a task settles once, and what an await delivers is  *)
(* the outcome of its target (scheduler.urn:215-261, 331-409).             *)
THEOREM SchedulerImplementsTasks == Spec => FollowsAsyncTasks
<1>1. IInv /\ [Next]_vars => [Abstract!Next]_(Abstract!vars)
  BY Steps
<1> QED BY <1>1, InitialStates, NativeInvariant, PTL
        DEF Spec, FollowsAsyncTasks, Abstract!Spec

=============================================================================
