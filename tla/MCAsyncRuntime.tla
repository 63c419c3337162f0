--------------------------- MODULE MCAsyncRuntime ---------------------------
(***************************************************************************)
(* Small programs for AsyncRuntime: for each configuration, the calls the  *)
(* bodies may make, how many, and on which tasks and descriptors.          *)
(***************************************************************************)
EXTENDS AsyncRuntime

(* In every configuration the tasks await one another without a cycle.     *)
ASSUME NoCycle == AcyclicAwaits

(* async_safety: 2 may await 1 and 3, and 1 may await 3, so that a target  *)
(* lies before its awaiter in the pass, and after it. Every task has       *)
(* descriptors of its own; a fourth call finds the table full.             *)
SafetyOps ==
  [c \in Contexts |->
     CASE c = Main -> {"spawn", "await", "yield", "raise"}
       [] c = 1 -> {"spawn", "await", "sleep", "awaitFD"}
       [] c = 2 -> {"await", "sleep", "yield", "raise"}
       [] OTHER -> {"sleep", "awaitFD"}]
SafetyMaxOps == [c \in Contexts |-> IF c = Main THEN 3 ELSE 2]
SafetyAwaits ==
  [c \in Contexts |-> CASE c = Main -> {NoTask, 1, 2}
                        [] c = 1 -> {3}
                        [] c = 2 -> {NoTask, 1, 3}
                        [] OTHER -> {}]
OwnDescriptors ==
  [t \in Ids |-> CASE t = 1 -> {20} [] t = 3 -> {21, 30} [] OTHER -> {}]

(* async_live and async_daemon: timers only, which always fire.            *)
LiveOps ==
  [c \in Contexts |->
     CASE c = Main -> {"spawn", "await"}
       [] c = 1 -> {"spawn", "await", "sleep"}
       [] c = 2 -> {"await", "sleep", "yield"}
       [] OTHER -> {"sleep", "raise"}]
LiveMaxOps == [c \in Contexts |-> IF c = Main THEN 3 ELSE 2]
LiveAwaits ==
  [c \in Contexts |-> CASE c = Main -> {1, 2}
                        [] c = 1 -> {3}
                        [] c = 2 -> {1}
                        [] OTHER -> {}]
NoDescriptors == [t \in Ids |-> {}]

(* async_daemon: task 1 yields for ever.                                    *)
DaemonOps ==
  [c \in Contexts |->
     CASE c = Main -> {"spawn", "await"}
       [] c = 1 -> {"yield"}
       [] OTHER -> {"await", "yield", "spawn"}]
DaemonMaxOps == [c \in Contexts |-> IF c = Main THEN 4 ELSE 2]
DaemonAwaits ==
  [c \in Contexts |-> CASE c = Main -> {2, 3} [] c = 2 -> {3} [] OTHER -> {}]

NoAwaits == [c \in Contexts |-> {}]

(* async_arguments: main calls one function with one argument, then with   *)
(* another.                                                                *)
CallsOps == [c \in Contexts |-> IF c = Main THEN {"spawn"} ELSE {}]
CallsMaxOps == [c \in Contexts |-> IF c = Main THEN 2 ELSE 0]

=============================================================================
