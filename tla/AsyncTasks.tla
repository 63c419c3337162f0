----------------------------- MODULE AsyncTasks -----------------------------
(***************************************************************************)
(* What an async runtime promises, whatever scheduler implements it: a     *)
(* call of an async function makes a task, a task settles at most once,    *)
(* and an await delivers the settled outcome of the task it names and      *)
(* nothing else. AsyncRuntime (the C event loop) is shown to implement     *)
(* this specification.                                                     *)
(***************************************************************************)
EXTENDS Integers

CONSTANTS
  Ids,        (* the task identifiers                                      *)
  Contexts,   (* who can await: every task, and the program's main         *)
  Results,    (* the values a task can return                              *)
  NoTask,     (* the identifier of no task: a refused call                 *)
  NoResult,   (* nothing has been delivered yet                            *)
  Rejected    (* the awaited task ended with an exception                  *)

VARIABLES
  status,     (* [Ids -> "absent" | "pending" | "fulfilled" | "rejected"]  *)
  value,      (* [Ids -> Results]: what a fulfilled task returned          *)
  waits,      (* [Contexts -> Ids or NoTask]: the task a context awaits    *)
  delivered   (* [Contexts -> outcome]: what the last await delivered      *)

vars == <<status, value, waits, delivered>>

Settled(t) == status[t] \in {"fulfilled", "rejected"}

Outcome(t) == IF status[t] = "rejected" THEN Rejected ELSE value[t]

Init ==
  /\ status = [t \in Ids |-> "absent"]
  /\ value = [t \in Ids |-> 0]
  /\ waits = [c \in Contexts |-> NoTask]
  /\ delivered = [c \in Contexts |-> NoResult]

Call(t) ==
  /\ status[t] = "absent"
  /\ status' = [status EXCEPT ![t] = "pending"]
  /\ UNCHANGED <<value, waits, delivered>>

Fulfil(t, v) ==
  /\ status[t] = "pending"
  /\ status' = [status EXCEPT ![t] = "fulfilled"]
  /\ value' = [value EXCEPT ![t] = v]
  /\ UNCHANGED <<waits, delivered>>

Reject(t) ==
  /\ status[t] = "pending"
  /\ status' = [status EXCEPT ![t] = "rejected"]
  /\ UNCHANGED <<value, waits, delivered>>

(* An await of a settled task answers at once; of a pending one, later.    *)
AwaitSettled(c, t) ==
  /\ waits[c] = NoTask /\ Settled(t)
  /\ delivered' = [delivered EXCEPT ![c] = Outcome(t)]
  /\ UNCHANGED <<status, value, waits>>

BeginAwait(c, t) ==
  /\ waits[c] = NoTask /\ status[t] = "pending"
  /\ waits' = [waits EXCEPT ![c] = t]
  /\ UNCHANGED <<status, value, delivered>>

EndAwait(c) ==
  /\ waits[c] # NoTask /\ Settled(waits[c])
  /\ delivered' = [delivered EXCEPT ![c] = Outcome(waits[c])]
  /\ waits' = [waits EXCEPT ![c] = NoTask]
  /\ UNCHANGED <<status, value>>

(* A call is refused only when every identifier is in use; the await of a  *)
(* refused call answers 0, without an exception.                           *)
AwaitRefused(c) ==
  /\ waits[c] = NoTask
  /\ \A t \in Ids : status[t] # "absent"
  /\ delivered' = [delivered EXCEPT ![c] = 0]
  /\ UNCHANGED <<status, value, waits>>

Next ==
  \/ \E t \in Ids : Call(t) \/ Reject(t) \/ \E v \in Results : Fulfil(t, v)
  \/ \E c \in Contexts :
       \/ \E t \in Ids : AwaitSettled(c, t) \/ BeginAwait(c, t)
       \/ EndAwait(c)
       \/ AwaitRefused(c)

Spec == Init /\ [][Next]_vars

=============================================================================
