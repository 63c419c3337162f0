SPECIFICATION FairSpec
CONSTANTS
  MaxTasks = 3
  MaxEvents = 1
  MaxOps <- DaemonMaxOps
  Functions = {f}
  Arguments = {0}
  Results = {0}
  Timers = {}
  Sockets = {}
  Files = {}
  Ops <- DaemonOps
  MayAwait <- DaemonAwaits
  MayWaitFor <- NoDescriptors
  Forever = {1}
PROPERTIES
  ReadyTasksRun
