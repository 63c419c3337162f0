SPECIFICATION FairSpec
CONSTANTS
  MaxTasks = 2
  MaxEvents = 1
  MaxIds = 3
  MaxOps <- SmallMaxOps
  Results = {0, 1}
  Timers = {10}
  Sockets = {20}
  Files = {30}
  Ops <- SmallOps
  MayAwait <- SmallAwaits
  MayWaitFor <- SmallDescriptors
INVARIANTS
  NativeTypeOK
  RunnerIsCurrent
  
PROPERTIES
  FollowsAsyncTasks
  
