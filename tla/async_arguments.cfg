SPECIFICATION Spec
CONSTANTS
  MaxTasks = 2
  MaxEvents = 1
  MaxOps <- CallsMaxOps
  Functions = {f}
  Arguments = {0, 1}
  Results = {0}
  Timers = {}
  Sockets = {}
  Files = {}
  Ops <- CallsOps
  MayAwait <- NoAwaits
  MayWaitFor <- NoDescriptors
  Forever = {}
INVARIANTS
  ArgumentsArePassed
