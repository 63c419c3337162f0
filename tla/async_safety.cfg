SPECIFICATION Spec
CONSTANTS
  MaxTasks = 3
  MaxEvents = 1
  MaxOps <- SafetyMaxOps
  Functions = {f}
  Arguments = {0}
  Results = {0, 1}
  Timers = {10}
  Sockets = {20, 21}
  Files = {30}
  Ops <- SafetyOps
  MayAwait <- SafetyAwaits
  MayWaitFor <- OwnDescriptors
  Forever = {}
INVARIANTS
  TypeOK
  ControlConsistent
  EpollPointsToWaiter
  NoLostWaiter
  AwaitResumesSettled
  NoTaskAbandoned
  TimersBelongToSleepers
PROPERTIES
  CompletedIsFinal
  ImplementsAsyncTasks
