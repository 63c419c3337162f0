------------------------- MODULE MCNativeScheduler --------------------------
(***************************************************************************)
(* Small programs for NativeScheduler: the calls each body may make, how   *)
(* many, and on which tasks and descriptors.                               *)
(***************************************************************************)
EXTENDS NativeScheduler

(* Two slots and three tasks: the third is refused, or spawned after a run *)
(* has emptied the table. 1 and 2 may await each other, so that the target *)
(* sits in the slot below and in the slot above, and neither ends.         *)
SmallOps ==
  [c \in Contexts |->
     CASE c = Main -> {"spawn", "await", "yield", "sleep", "awaitFD", "run", "raise"}
       [] c = 1 -> {"spawn", "await", "sleep", "awaitFD"}
       [] c = 2 -> {"await", "yield", "sleep", "awaitFD", "raise"}
       [] OTHER -> {"await", "sleep", "awaitFD"}]
SmallMaxOps == [c \in Contexts |-> IF c = Main THEN 5 ELSE 2]
SmallAwaits ==
  [c \in Contexts |-> CASE c = Main -> {1, 2}
                        [] c = 1 -> {2, 3}
                        [] c = 2 -> {1}
                        [] OTHER -> {1}]
SmallDescriptors ==
  [t \in Ids |-> CASE t = 1 -> {20} [] t = 2 -> {20, 30} [] OTHER -> {20}]

=============================================================================
